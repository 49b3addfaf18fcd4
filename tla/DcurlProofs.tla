----------------------------- MODULE DcurlProofs -----------------------------
(* Theorems about Dcurl, for any number of threads, places and calls. *)
EXTENDS Dcurl, TLAPS, FiniteSetTheorems, WellFoundedInduction

-----------------------------------------------------------------------------
(* Type correctness.                                                         *)

\* The list built by dcurl_init is a list of implementations, each of the pool
\* and registered.
LEMMA RegisteredLists ==
    ASSUME NEW R \in SUBSET Impls
    PROVE  /\ RegisteredLocal(R) \in Seq(Impls)
           /\ RegisteredRemote(R) \in Seq(Impls)
           /\ \A n \in 1 .. Len(RegisteredLocal(R)) :
                 RegisteredLocal(R)[n] \in R /\ PoolOf(RegisteredLocal(R)[n]) = "local"
           /\ \A n \in 1 .. Len(RegisteredRemote(R)) :
                 RegisteredRemote(R)[n] \in R /\ PoolOf(RegisteredRemote(R)[n]) = "remote"
<1> DEFINE OK(l, p) == /\ l \in Seq(Impls)
                       /\ \A n \in 1 .. Len(l) : l[n] \in R /\ PoolOf(l[n]) = p
<1>1. ASSUME NEW l, NEW p, NEW i \in Impls, OK(l, p), PoolOf(i) = p
      PROVE  OK(ListAdd(R, i, l), p)
  <2>1. CASE i \notin R
    BY <1>1, <2>1 DEF ListAdd
  <2>2. CASE i \in R
    <3>1. ListAdd(R, i, l) = <<i>> \o l
      BY <2>2 DEF ListAdd
    <3>2. <<i>> \o l \in Seq(Impls)
      BY <1>1
    <3>3. ASSUME NEW n \in 1 .. Len(<<i>> \o l)
          PROVE  (<<i>> \o l)[n] \in R /\ PoolOf((<<i>> \o l)[n]) = p
      <4>1. CASE n = 1
        BY <4>1, <1>1, <2>2
      <4>2. CASE n > 1
        <5>1. (<<i>> \o l)[n] = l[n - 1] /\ n - 1 \in 1 .. Len(l)
          BY <4>2, <1>1
        <5> QED BY <5>1, <1>1
      <4> QED BY <4>1, <4>2
    <3> QED BY <3>1, <3>2, <3>3
  <2> QED BY <2>1, <2>2
<1>2. \A p : OK(<< >>, p)
  OBVIOUS
<1>3. /\ "fpga" \in Impls /\ PoolOf("fpga") = "local"
      /\ "gpu" \in Impls /\ PoolOf("gpu") = "local"
      /\ "cpu" \in Impls /\ PoolOf("cpu") = "local"
      /\ "remote" \in Impls /\ PoolOf("remote") = "remote"
  BY DEF Impls, PoolOf
<1> HIDE DEF OK
<1>4. OK(ListAdd(R, "cpu", << >>), "local")
  BY <1>1, <1>2, <1>3
<1>5. OK(ListAdd(R, "gpu", ListAdd(R, "cpu", << >>)), "local")
  BY <1>1, <1>3, <1>4
<1>6. OK(RegisteredLocal(R), "local")
  BY <1>1, <1>3, <1>5 DEF RegisteredLocal
<1>7. OK(RegisteredRemote(R), "remote")
  BY <1>1, <1>2, <1>3 DEF RegisteredRemote
<1> QED BY <1>6, <1>7 DEF OK


\* The least element that PickSlot chooses exists.
LEMMA LeastNatural ==
    ASSUME NEW S \in SUBSET Nat, S # {}
    PROVE  \E x \in S : \A y \in S : x <= y
<1> DEFINE T == {0 .. x : x \in S}
<1>1. T # {} /\ T \subseteq FiniteSubsetsOf(Nat)
  <2>1. ASSUME NEW x \in S PROVE 0 .. x \in FiniteSubsetsOf(Nat)
    <3>1. IsFiniteSet(0 .. x)
      BY FS_Interval
    <3> QED BY <3>1 DEF FiniteSubsetsOf
  <2> QED BY <2>1
<1>2. \E m \in T : \A n \in T : <<n, m>> \notin StrictSubsetOrdering(Nat)
  <2> HIDE DEF T
  <2> QED BY <1>1, WFMin, FS_StrictSubsetOrderingWellFounded
<1>3. PICK x \in S : \A n \in T : <<n, 0 .. x>> \notin StrictSubsetOrdering(Nat)
  BY <1>2
<1>4. ASSUME NEW y \in S PROVE x <= y
  <2>1. SUFFICES ASSUME y < x PROVE FALSE
    OBVIOUS
  <2>2. 0 .. y \subseteq 0 .. x /\ 0 .. y # 0 .. x
    <3>1. x \in 0 .. x /\ x \notin 0 .. y
      BY <2>1
    <3> QED BY <3>1, <2>1
  <2>3. 0 .. y \in SUBSET Nat /\ 0 .. x \in SUBSET Nat
    OBVIOUS
  <2> QED BY <1>3, <2>2, <2>3 DEF StrictSubsetOrdering
<1> QED BY <1>4

\* What the loop of get_pow_context returns.
LEMMA PickSlotResult ==
    ASSUME TypeOK, NEW i \in Impls
    PROVE  /\ PickSlot(i) \in Slots \cup {NoSlot}
           /\ i = "fpga" => PickSlot(i) = 0
           /\ i # "fpga" /\ FreeSlots(i) # {} => PickSlot(i) \in FreeSlots(i)
           /\ i # "fpga" /\ FreeSlots(i) = {} => PickSlot(i) = NoSlot
<1>1. FreeSlots(i) \subseteq Slots
  BY DEF FreeSlots, TypeOK
<1>2. Slots \subseteq Nat /\ 0 \in Slots
  BY BoundAssumption DEF Slots
<1>3. CASE i = "fpga"
  BY <1>2, <1>3 DEF PickSlot
<1>4. CASE i # "fpga" /\ FreeSlots(i) = {}
  BY <1>4 DEF PickSlot
<1>5. CASE i # "fpga" /\ FreeSlots(i) # {}
  <2>1. \E s \in FreeSlots(i) : \A r \in FreeSlots(i) : s <= r
    BY <1>1, <1>2, <1>5, LeastNatural
  <2>2. PickSlot(i) = CHOOSE s \in FreeSlots(i) : \A r \in FreeSlots(i) : s <= r
    BY <1>5 DEF PickSlot
  <2>3. PickSlot(i) \in FreeSlots(i)
    BY <2>1, <2>2
  <2> QED BY <1>1, <1>5, <2>3
<1> QED BY <1>3, <1>4, <1>5

-----------------------------------------------------------------------------
(* Counting. *)

\* The sets of threads that are counted are finite.
LEMMA HoldersFinite ==
    ASSUME NEW i
    PROVE  /\ IsFiniteSet(Holders(i))
           /\ IsFiniteSet(Holders(i)')
           /\ IsFiniteSet(Owners(i))
<1>1. Holders(i) \subseteq Threads /\ Owners(i) \subseteq Threads /\ Holders(i)' \subseteq Threads
  BY DEF Holders, Owners
<1> QED BY <1>1, ThreadAssumption, FS_Subset

\* A thread between enter and exit is counted in num_working_thread.
LEMMA HolderCounted ==
    ASSUME TypeOK, CountersExact, NEW t \in Threads, pc[t] \in Holding
    PROVE  num_working[impl[t]] >= 1 /\ num_max[impl[t]] >= 1
<1>1. impl[t] \in Impls /\ t \in Holders(impl[t])
  BY DEF TypeOK, Holders
<1>2. Cardinality(Holders(impl[t])) # 0
  BY <1>1, HoldersFinite, FS_EmptySet
<1>3. Cardinality(Holders(impl[t])) = num_working[impl[t]]
  BY <1>1 DEF CountersExact
<1>4. num_working[impl[t]] \in Nat /\ num_max[impl[t]] \in Nat
  BY <1>1, BoundAssumption DEF TypeOK
<1>5. num_working[impl[t]] <= num_max[impl[t]]
  BY <1>1 DEF CountersExact
<1> QED BY <1>2, <1>3, <1>4, <1>5

\* Where only one place exists there is only one holder.
LEMMA SingleHolder ==
    ASSUME TypeOK, CountersExact, NEW i \in Impls, num_max[i] <= 1,
           NEW t \in Holders(i), NEW u \in Holders(i)
    PROVE  t = u
<1>1. Cardinality(Holders(i)) <= 1 /\ Cardinality(Holders(i)) \in Nat
  BY HoldersFinite, FS_CardinalityType, BoundAssumption DEF CountersExact, TypeOK
<1>2. Cardinality(Holders(i)) = 1
  BY <1>1, HoldersFinite, FS_EmptySet
<1>3. PICK x : Holders(i) = {x}
  BY <1>2, HoldersFinite, FS_Singleton
<1> QED BY <1>3

\* "It should not happen": a thread that was counted but has no slot yet finds
\* one. If all slots were owned there would be num_max owners besides it.
LEMMA SlotLeft ==
    ASSUME TypeOK, CountersExact, BitmapExact, NEW t \in Threads, pc[t] = "get",
           impl[t] # "fpga"
    PROVE  FreeSlots(impl[t]) # {}
<1> DEFINE i == impl[t]
           m == num_max[i]
<1>0. i \in Impls /\ m \in Nat /\ num_working[i] \in Nat
  BY BoundAssumption DEF TypeOK
<1> SUFFICES ASSUME FreeSlots(i) = {} PROVE FALSE
  OBVIOUS
<1>1. \A s \in 0 .. m - 1 : \E u \in Owners(i) : slot[u] = s
  <2> TAKE s \in 0 .. m - 1
  <2>1. s \notin bitmap[i]
    BY <1>0 DEF FreeSlots
  <2>2. i \in Impls \ {"fpga"}
    BY <1>0
  <2> QED BY <2>1, <2>2 DEF BitmapExact
<1> DEFINE Busy == {u \in Owners(i) : slot[u] \in 0 .. m - 1}
           f == [u \in Busy |-> slot[u]]
<1>2. IsFiniteSet(Busy) /\ Cardinality(Busy) <= Cardinality(Owners(i))
  <2>1. Busy \subseteq Owners(i)
    OBVIOUS
  <2> HIDE DEF Busy
  <2> QED BY <2>1, HoldersFinite, FS_Subset
<1>3. f \in Surjection(Busy, 0 .. m - 1)
  <2>1. f \in [Busy -> 0 .. m - 1]
    OBVIOUS
  <2>2. \A s \in 0 .. m - 1 : \E u \in Busy : f[u] = s
    BY <1>1
  <2> QED BY <2>1, <2>2 DEF Surjection
<1>4. Cardinality(0 .. m - 1) <= Cardinality(Busy)
  <2> HIDE DEF Busy, f
  <2> QED BY <1>2, <1>3, FS_Surjection
<1>5. Cardinality(0 .. m - 1) = m
  BY <1>0, FS_Interval
<1>6. t \notin Owners(i) /\ Owners(i) \cup {t} \subseteq Holders(i)
  BY DEF Owners, Holders, Owning, Holding
<1>7. Cardinality(Owners(i) \cup {t}) = Cardinality(Owners(i)) + 1
  BY <1>6, HoldersFinite, FS_AddElement
<1>8. Cardinality(Owners(i) \cup {t}) <= Cardinality(Holders(i))
  BY <1>6, HoldersFinite, FS_Subset
<1>9. Cardinality(Holders(i)) <= m
  BY <1>0 DEF CountersExact
<1>10. Cardinality(Owners(i)) \in Nat /\ Cardinality(Holders(i)) \in Nat
       /\ Cardinality(Busy) \in Nat
  <2> HIDE DEF Busy
  <2> QED BY <1>2, HoldersFinite, FS_CardinalityType
<1> HIDE DEF Busy, m, i
<1> QED BY <1>0, <1>2, <1>4, <1>5, <1>7, <1>8, <1>9, <1>10

-----------------------------------------------------------------------------
(* Type correctness and the slot invariant, which need each other.           *)

\* The slot an owner works in is one of the program's slots.
LEMMA OwnerSlot ==
    ASSUME TypeOK, SlotAlwaysFound, NEW t \in Threads, pc[t] \in Owning
    PROVE  slot[t] \in Slots /\ impl[t] \in Impls
<1>1. impl[t] \in Impls /\ num_max[impl[t]] \in 0 .. IntBits
  BY DEF TypeOK
<1> QED BY <1>1, BoundAssumption DEF SlotAlwaysFound, Slots

\* A step of dcurl_entry keeps the types; num_working_thread stays natural because
\* whoever decrements it is counted in it.
LEMMA TypeStep ==
    ASSUME TypeOK, SlotInv, NEW t \in Threads, Step(t)
    PROVE  TypeOK'
<1> USE DEF TypeOK, lifecycle, contexts, frame, scan, InService
<1>0. Jobs \subseteq Values /\ None \in Values /\ Stale \in Values
  BY DEF Values
<1>a. pc[t] \in Owning => slot[t] \in Slots /\ impl[t] \in Impls
  BY OwnerSlot DEF SlotInv
<1>1. CASE SkipFull(t)
  BY <1>1 DEF SkipFull
<1>2. CASE Enter(t)
  <2>1. Entry(t) \in Impls
    BY <1>2 DEF Enter, Scanning, Entry
  <2> QED BY <1>2, <2>1 DEF Enter, Entered
<1>3. CASE SemWait(t)
  BY <1>3 DEF SemWait
<1>4. CASE GetContext(t)
  <2>1. impl[t] \in Impls /\ PickSlot(impl[t]) \in Slots \cup {NoSlot}
    BY PickSlotResult
  <2> QED BY <1>4, <2>1 DEF GetContext, SlotTaken
<1>5. CASE FillContext(t)
  <2>1. Job(t) \in Values
    <3>1. calls[t] \in 0 .. MaxCalls
      OBVIOUS
    <3> QED BY <3>1, <1>0 DEF Job, Jobs
  <2> QED BY <1>5, <1>a, <2>1 DEF FillContext, Copied, Owning
<1>6. CASE PowSucceeds(t)
  <2>1. PICK v \in Replies(impl[t], slot[t]) :
          output' = [output EXCEPT ![impl[t]][slot[t]] = v]
    BY <1>6 DEF PowSucceeds
  <2>2. v \in Values
    BY <1>6, <1>0, <1>a, <2>1 DEF PowSucceeds, Replies, Owning
  <2> QED BY <1>6, <1>a, <2>1, <2>2 DEF PowSucceeds, Owning
<1>7. CASE PowFails(t)
  BY <1>7, <1>a DEF PowFails, AfterFailure, Owning
<1>8. CASE GetResult(t)
  <2>1. output[impl[t]][slot[t]] \in Values
    BY <1>8, <1>a DEF GetResult, Owning
  <2> QED BY <1>8, <1>0, <2>1 DEF GetResult
<1>9. CASE FreeContext(t)
  BY <1>9, <1>a DEF FreeContext, SlotFreed, Owning
<1>10. CASE ExitImpl(t)
  <2>1. num_working[impl[t]] >= 1
    BY <1>10, HolderCounted DEF ExitImpl, Holding, SlotInv
  <2> QED BY <1>10, <2>1 DEF ExitImpl, Left
<1>11. CASE PostNotify(t)
  <2>1. "cpu" \in Impls /\ "local" \in Pools
    BY DEF Impls, Pools
  <2>2. pool' \in [Threads -> Pools] /\ pc' \in [Threads -> InService \cup {"idle", "scan"}]
    <3>1. pool' = [pool EXCEPT ![t] = "local"] \/ pool' = pool
      BY <1>11 DEF PostNotify, RetryPool
    <3>2. pc' = [pc EXCEPT ![t] = "scan"] \/ pc' = [pc EXCEPT ![t] = "idle"]
      BY <1>11 DEF PostNotify
    <3>3. pool' \in [Threads -> Pools]
      <4>1. pool \in [Threads -> Pools]
        OBVIOUS
      <4> QED BY <2>1, <3>1, <4>1
    <3>4. pc' \in [Threads -> InService \cup {"idle", "scan"}]
      BY <3>2
    <3> QED BY <3>3, <3>4
  <2>3. at' \in [Threads -> Nat \ {0}]
    <3>1. at' = [at EXCEPT ![t] = 1]
      BY <1>11 DEF PostNotify
    <3>2. 1 \in Nat \ {0} /\ at \in [Threads -> Nat \ {0}]
      OBVIOUS
    <3> QED BY <3>1, <3>2
  <2>6. impl' \in [Threads -> Impls]
    BY <1>11, <2>1 DEF PostNotify
  <2>4. slot' \in [Threads -> Slots \cup {NoSlot}]
    BY <1>11 DEF PostNotify
  <2>5. sem' \in [Pools -> Nat] /\ fallback' \in [Threads -> BOOLEAN]
    BY <1>11 DEF PostNotify, Posted
  <2> QED BY <1>11, <2>2, <2>3, <2>4, <2>5, <2>6 DEF PostNotify
<1> QED BY <1>1, <1>2, <1>3, <1>4, <1>5, <1>6, <1>7, <1>8, <1>9, <1>10, <1>11 DEF Step

\* enter adds the thread to the holders and counts it, exit undoes both, and no
\* other step touches either.
LEMMA CounterStep ==
    ASSUME TypeOK, SlotInv, NEW t \in Threads, Step(t)
    PROVE  CountersExact'
<1> USE DEF lifecycle, contexts, frame, scan
<1>0. CountersExact /\ num_max \in [Impls -> Nat] /\ num_working \in [Impls -> Nat]
  BY BoundAssumption DEF SlotInv, TypeOK
<1>1. CASE Enter(t)
  <2>1. PICK e \in Impls : e = Entry(t)
    BY <1>1 DEF Enter, Scanning, Entry, TypeOK
  <2>2. num_working' = [num_working EXCEPT ![e] = @ + 1] /\ num_max' = num_max
    BY <1>1, <2>1 DEF Enter, Entered
  <2>3. num_working[e] < num_max[e]
    BY <1>1, <2>1 DEF Enter, HasRoom
  <2>4. /\ t \notin Holders(e)
        /\ Holders(e)' = Holders(e) \cup {t}
        /\ \A i \in Impls \ {e} : Holders(i)' = Holders(i)
    BY <1>1, <2>1 DEF Enter, Scanning, Holders, Holding, TypeOK
  <2>5. Cardinality(Holders(e)') = Cardinality(Holders(e)) + 1
    BY <2>4, HoldersFinite, FS_AddElement
  <2> QED BY <1>0, <2>1, <2>2, <2>3, <2>4, <2>5 DEF CountersExact
<1>2. CASE ExitImpl(t)
  <2>1. PICK e \in Impls : e = impl[t]
    BY DEF TypeOK
  <2>2. num_working' = [num_working EXCEPT ![e] = @ - 1] /\ num_max' = num_max
    BY <1>2, <2>1 DEF ExitImpl, Left
  <2>3. /\ t \in Holders(e)
        /\ Holders(e)' = Holders(e) \ {t}
        /\ \A i \in Impls \ {e} : Holders(i)' = Holders(i)
    BY <1>2, <2>1 DEF ExitImpl, Holders, Holding, TypeOK
  <2>4. Cardinality(Holders(e)') = Cardinality(Holders(e)) - 1
    BY <2>3, HoldersFinite, FS_RemoveElement
  <2>5. ASSUME NEW i \in Impls
        PROVE  num_working'[i] = Cardinality(Holders(i)') /\ num_working'[i] <= num_max'[i]
    <3>1. num_working[i] = Cardinality(Holders(i)) /\ num_working[i] <= num_max[i]
      BY <1>0 DEF CountersExact
    <3>2. CASE i = e
      BY <1>0, <2>2, <2>4, <3>1, <3>2
    <3>3. CASE i # e
      BY <1>0, <2>2, <2>3, <3>1, <3>3
    <3> QED BY <3>2, <3>3
  <2> QED BY <2>5 DEF CountersExact
<1>3. ASSUME \A i \in Impls : Holders(i)' = Holders(i),
             num_working' = num_working, num_max' = num_max
      PROVE  CountersExact'
  BY <1>0, <1>3 DEF CountersExact
<1>4. CASE SkipFull(t) \/ SemWait(t)
  <2>1. num_working' = num_working /\ num_max' = num_max /\ pc' = pc /\ impl' = impl
    BY <1>4 DEF SkipFull, SemWait
  <2> QED BY <1>3, <2>1 DEF Holders
<1>5. CASE GetContext(t) \/ FillContext(t) \/ PowSucceeds(t) \/ PowFails(t)
           \/ GetResult(t) \/ FreeContext(t)
  <2>1. num_working' = num_working /\ num_max' = num_max /\ impl' = impl
    BY <1>5 DEF GetContext, FillContext, PowSucceeds, PowFails, GetResult, FreeContext
  <2>2. /\ pc[t] \in Holding /\ pc'[t] \in Holding
        /\ \A u \in Threads \ {t} : pc'[u] = pc[u]
    BY <1>5 DEF GetContext, FillContext, PowSucceeds, PowFails, AfterFailure, GetResult,
                FreeContext, Holding, TypeOK
  <2> QED BY <1>3, <2>1, <2>2 DEF Holders
<1>6. CASE PostNotify(t)
  <2>1. num_working' = num_working /\ num_max' = num_max
    BY <1>6 DEF PostNotify
  <2>2. /\ pc[t] \notin Holding /\ pc'[t] \notin Holding
        /\ \A u \in Threads \ {t} : pc'[u] = pc[u] /\ impl'[u] = impl[u]
    BY <1>6 DEF PostNotify, Holding, TypeOK
  <2> QED BY <1>3, <2>1, <2>2 DEF Holders
<1> QED BY <1>1, <1>2, <1>4, <1>5, <1>6 DEF Step

\* Steps other than get_pow_context and free_pow_context leave the slots, their
\* owners and the bitmaps as they are.
LEMMA OwnersUnchanged ==
    ASSUME TypeOK, NEW t \in Threads, Step(t), ~GetContext(t), ~FreeContext(t)
    PROVE  /\ \A u \in Threads : pc'[u] \in Owning <=> pc[u] \in Owning
           /\ \A u \in Threads : pc[u] \in Owning => impl'[u] = impl[u] /\ slot'[u] = slot[u]
           /\ bitmap' = bitmap /\ num_max' = num_max
<1> USE DEF lifecycle, contexts, frame, scan, TypeOK, Owning
<1>1. CASE SkipFull(t)
  BY <1>1 DEF SkipFull
<1>2. CASE Enter(t)
  BY <1>2 DEF Enter, Scanning
<1>3. CASE SemWait(t)
  BY <1>3 DEF SemWait
<1>4. CASE FillContext(t)
  BY <1>4 DEF FillContext
<1>5. CASE PowSucceeds(t)
  BY <1>5 DEF PowSucceeds
<1>6. CASE PowFails(t)
  BY <1>6 DEF PowFails, AfterFailure
<1>7. CASE GetResult(t)
  BY <1>7 DEF GetResult
<1>8. CASE ExitImpl(t)
  BY <1>8 DEF ExitImpl
<1>9. CASE PostNotify(t)
  BY <1>9 DEF PostNotify
<1> QED BY <1>1, <1>2, <1>3, <1>4, <1>5, <1>6, <1>7, <1>8, <1>9 DEF Step

\* Claiming a slot: it was free, so no other owner has it.
LEMMA ClaimStep ==
    ASSUME TypeOK, SlotInv, NEW t \in Threads, GetContext(t)
    PROVE  (BitmapExact /\ SlotAlwaysFound /\ ContextExclusive)'
<1> DEFINE i == impl[t]
           s == PickSlot(i)
<1>1. /\ i \in Impls
      /\ impl' = impl /\ num_max' = num_max
      /\ slot' = [slot EXCEPT ![t] = s]
      /\ bitmap' = [bitmap EXCEPT ![i] = @ \ {s}]
      /\ pc[t] = "get" /\ pc' = [pc EXCEPT ![t] = "fill"]
  BY DEF GetContext, SlotTaken, lifecycle, TypeOK
<1>2. num_max[i] \in Nat /\ num_max[i] >= 1
  <2>1. num_max[i] \in Nat
    BY <1>1, BoundAssumption DEF TypeOK
  <2> QED BY <1>1, <2>1, HolderCounted DEF SlotInv, Holding
<1>3. s \in 0 .. num_max[i] - 1 /\ (i # "fpga" => s \in bitmap[i])
  <2>1. CASE i = "fpga"
    BY <1>1, <1>2, <2>1, PickSlotResult
  <2>2. CASE i # "fpga"
    <3>1. FreeSlots(i) # {}
      BY <1>1, <2>2, SlotLeft DEF SlotInv
    <3>2. s \in FreeSlots(i)
      BY <1>1, <2>2, <3>1, PickSlotResult
    <3>3. s \in Nat
      BY <3>2, <1>1, BoundAssumption DEF FreeSlots, TypeOK, Slots
    <3> QED BY <3>2, <3>3, <1>2 DEF FreeSlots
  <2> QED BY <2>1, <2>2
<1>4. \A u \in Threads \ {t} : (pc'[u] = pc[u]) /\ (slot'[u] = slot[u])
  BY <1>1 DEF TypeOK
<1>5. pc'[t] = "fill" /\ slot'[t] = s
  BY <1>1 DEF TypeOK
<1>6. \A u \in Threads \ {t} : pc[u] \in Owning /\ impl[u] = i => slot[u] # s
  <2> SUFFICES ASSUME NEW u \in Threads \ {t}, pc[u] \in Owning, impl[u] = i
               PROVE  slot[u] # s
    OBVIOUS
  <2>1. CASE i = "fpga"
    <3>1. t \in Holders(i) /\ u \in Holders(i)
      BY <1>1 DEF Holders, Holding, Owning
    <3>2. num_max[i] <= 1
      BY <2>1 DEF SlotInv, BitmapExact
    <3> QED BY <1>1, <3>1, <3>2, SingleHolder DEF SlotInv
  <2>2. CASE i # "fpga"
    BY <1>1, <1>3, <2>2 DEF SlotInv, BitmapExact, Owners
  <2> QED BY <2>1, <2>2
<1> HIDE DEF s, i
<1>7. SlotAlwaysFound'
  BY <1>1, <1>3, <1>4, <1>5 DEF SlotInv, SlotAlwaysFound, i
<1>8. ContextExclusive'
  BY <1>1, <1>4, <1>5, <1>6 DEF SlotInv, ContextExclusive, i
<1>9. BitmapExact'
  <2>1. ASSUME NEW j \in Impls \ {"fpga"}, NEW u \in Owners(j)'
        PROVE  slot'[u] \notin bitmap'[j]
    <3>1. CASE u = t
      BY <1>1, <1>5, <2>1, <3>1 DEF Owners, i, TypeOK
    <3>2. CASE u # t
      <4>1. u \in Owners(j) /\ slot'[u] = slot[u]
        BY <1>1, <1>4, <2>1, <3>2 DEF Owners
      <4>2. slot[u] \notin bitmap[j]
        BY <4>1, <2>1 DEF SlotInv, BitmapExact
      <4>3. bitmap'[j] \subseteq bitmap[j]
        BY <1>1, <2>1 DEF TypeOK
      <4> QED BY <4>1, <4>2, <4>3
    <3> QED BY <3>1, <3>2
  <2>2. ASSUME NEW j \in Impls \ {"fpga"}, NEW r \in 0 .. num_max'[j] - 1
        PROVE  r \in bitmap'[j] \/ \E u \in Owners(j)' : slot'[u] = r
    <3>1. r \in bitmap[j] \/ \E u \in Owners(j) : slot[u] = r
      BY <1>1, <2>2 DEF SlotInv, BitmapExact
    <3>2. CASE \E u \in Owners(j) : slot[u] = r
      <4>1. PICK u \in Owners(j) : slot[u] = r
        BY <3>2
      <4>2. u # t /\ u \in Threads
        BY <1>1, <4>1 DEF Owners, Owning
      <4>3. u \in Owners(j)' /\ slot'[u] = r
        BY <1>1, <1>4, <4>1, <4>2 DEF Owners
      <4> QED BY <4>3
    <3>3. CASE r \in bitmap[j] /\ (j # i \/ r # s)
      BY <1>1, <2>2, <3>3 DEF TypeOK
    <3>4. CASE j = i /\ r = s
      <4>1. t \in Owners(j)'
        BY <1>1, <1>5, <3>4 DEF Owners, Owning, i
      <4> QED BY <4>1, <1>5, <3>4
    <3> QED BY <3>1, <3>2, <3>3, <3>4
  <2>3. num_max'["fpga"] <= 1
    BY <1>1 DEF SlotInv, BitmapExact
  <2> QED BY <2>1, <2>2, <2>3 DEF BitmapExact
<1> QED BY <1>7, <1>8, <1>9

\* Freeing a slot: its owner leaves, and the slot is marked free.
LEMMA ReleaseStep ==
    ASSUME TypeOK, SlotInv, NEW t \in Threads, FreeContext(t)
    PROVE  (BitmapExact /\ SlotAlwaysFound /\ ContextExclusive)'
<1>1. PICK i \in Impls : i = impl[t]
  BY DEF TypeOK
<1>2. PICK s \in Slots : s = slot[t]
  BY OwnerSlot DEF FreeContext, Owning, SlotInv
<1>3. /\ impl' = impl /\ num_max' = num_max /\ slot' = slot
      /\ bitmap' = IF i = "fpga" THEN bitmap
                   ELSE [bitmap EXCEPT ![i] = @ \cup {s}]
      /\ pc[t] = "free" /\ pc'[t] = "exit"
      /\ \A u \in Threads \ {t} : pc'[u] = pc[u]
  BY <1>1, <1>2 DEF FreeContext, SlotFreed, lifecycle, frame, TypeOK
<1>4. \A u \in Threads : pc'[u] \in Owning <=> u # t /\ pc[u] \in Owning
  BY <1>3 DEF Owning
<1>5. SlotAlwaysFound'
  BY <1>3, <1>4 DEF SlotInv, SlotAlwaysFound
<1>6. ContextExclusive'
  BY <1>3, <1>4 DEF SlotInv, ContextExclusive
<1>7. BitmapExact'
  <2>1. ASSUME NEW j \in Impls \ {"fpga"}, NEW u \in Owners(j)'
        PROVE  slot'[u] \notin bitmap'[j]
    <3>1. u # t /\ u \in Owners(j) /\ slot'[u] = slot[u]
      BY <1>3, <1>4, <2>1 DEF Owners
    <3>2. slot[u] \notin bitmap[j]
      BY <2>1, <3>1 DEF SlotInv, BitmapExact
    <3>3. CASE j # i
      BY <1>3, <2>1, <3>1, <3>2, <3>3 DEF TypeOK
    <3>4. CASE j = i
      <4>1. slot[u] # s
        BY <1>1, <1>2, <1>3, <3>1, <3>4 DEF SlotInv, ContextExclusive, Owners, Owning
      <4> QED BY <1>3, <2>1, <3>1, <3>2, <3>4, <4>1 DEF TypeOK
    <3> QED BY <3>3, <3>4
  <2>2. ASSUME NEW j \in Impls \ {"fpga"}, NEW r \in 0 .. num_max'[j] - 1
        PROVE  r \in bitmap'[j] \/ \E u \in Owners(j)' : slot'[u] = r
    <3>1. r \in bitmap[j] \/ \E u \in Owners(j) : slot[u] = r
      BY <1>3, <2>2 DEF SlotInv, BitmapExact
    <3>2. CASE r \in bitmap[j]
      BY <1>3, <2>2, <3>2 DEF TypeOK
    <3>3. CASE \E u \in Owners(j) \ {t} : slot[u] = r
      <4>1. PICK u \in Owners(j) \ {t} : slot[u] = r
        BY <3>3
      <4>2. u \in Owners(j)' /\ slot'[u] = r
        BY <1>3, <1>4, <4>1 DEF Owners
      <4> QED BY <4>2
    <3>4. CASE t \in Owners(j) /\ slot[t] = r
      <4>1. j = i /\ r = s
        BY <1>1, <1>2, <3>4 DEF Owners
      <4> QED BY <1>3, <2>2, <4>1 DEF TypeOK
    <3> QED BY <3>1, <3>2, <3>3, <3>4
  <2>3. num_max'["fpga"] <= 1
    BY <1>3 DEF SlotInv, BitmapExact
  <2> QED BY <2>1, <2>2, <2>3 DEF BitmapExact
<1> QED BY <1>5, <1>6, <1>7

\* The lists do not change during a call, and a thread is in service in the pool
\* whose list it scanned.
LEMMA ListsStep ==
    ASSUME TypeOK, ListsExact, NEW t \in Threads, Step(t)
    PROVE  ListsExact'
<1> USE DEF lifecycle, frame, scan, TypeOK, InService
<1>0. list' = list /\ runtime_caps' = runtime_caps
  BY DEF Step, SkipFull, Enter, SemWait, GetContext, FillContext, PowSucceeds, PowFails,
         GetResult, FreeContext, ExitImpl, PostNotify
<1>1. ASSUME NEW u \in Threads, pc'[u] \in InService
      PROVE  PoolOf(impl'[u]) = pool'[u]
  <2>1. CASE Enter(t)
    <3>1. Entry(t) \in Impls /\ PoolOf(Entry(t)) = pool[t]
      BY <2>1 DEF Enter, Scanning, Entry, ListsExact
    <3> QED BY <1>1, <2>1, <3>1 DEF Enter, ListsExact
  <2>2. CASE SkipFull(t) \/ SemWait(t)
    BY <1>1, <2>2 DEF SkipFull, SemWait, ListsExact
  <2>3. CASE GetContext(t) \/ FillContext(t) \/ PowSucceeds(t) \/ PowFails(t)
    BY <1>1, <2>3 DEF GetContext, FillContext, PowSucceeds, PowFails, ListsExact
  <2>4. CASE GetResult(t) \/ FreeContext(t) \/ ExitImpl(t)
    BY <1>1, <2>4 DEF GetResult, FreeContext, ExitImpl, ListsExact
  <2>5. CASE PostNotify(t)
    <3>1. u # t
      BY <1>1, <2>5 DEF PostNotify
    <3> QED BY <1>1, <2>5, <3>1 DEF PostNotify, ListsExact
  <2> QED BY <2>1, <2>2, <2>3, <2>4, <2>5 DEF Step
<1> QED BY <1>0, <1>1 DEF ListsExact

\* Every step of dcurl_entry preserves the slot invariant.
LEMMA SlotStep ==
    ASSUME TypeOK, SlotInv, NEW t \in Threads, Step(t)
    PROVE  SlotInv'
<1>1. CountersExact' /\ ListsExact'
  BY CounterStep, ListsStep DEF SlotInv
<1>2. CASE GetContext(t)
  BY <1>1, <1>2, ClaimStep DEF SlotInv
<1>3. CASE FreeContext(t)
  BY <1>1, <1>3, ReleaseStep DEF SlotInv
<1>4. CASE ~GetContext(t) /\ ~FreeContext(t)
  <2>1. /\ \A u \in Threads : pc'[u] \in Owning <=> pc[u] \in Owning
        /\ \A u \in Threads : pc[u] \in Owning => impl'[u] = impl[u] /\ slot'[u] = slot[u]
        /\ bitmap' = bitmap /\ num_max' = num_max
    BY <1>4, OwnersUnchanged
  <2>2. \A i : Owners(i)' = Owners(i)
    BY <2>1 DEF Owners
  <2>3. SlotAlwaysFound' /\ ContextExclusive'
    BY <2>1 DEF SlotInv, SlotAlwaysFound, ContextExclusive
  <2>4. BitmapExact'
    <3>1. \A i, u : u \in Owners(i) => slot'[u] = slot[u]
      BY <2>1 DEF Owners
    <3> QED BY <2>1, <2>2, <3>1 DEF SlotInv, BitmapExact
  <2> QED BY <1>1, <2>3, <2>4 DEF SlotInv
<1> QED BY <1>2, <1>3, <1>4

-----------------------------------------------------------------------------
(* The initial state, the start of a call, dcurl_init and dcurl_destroy.     *)

\* Nobody holds a place initially, and no slot exists.
LEMMA SlotInit == Init => TypeOK /\ SlotInv
<1> SUFFICES ASSUME Init PROVE TypeOK /\ SlotInv
  OBVIOUS
<1>1. TypeOK
  <2>1. "cpu" \in Impls /\ "local" \in Pools /\ 0 \in 0 .. IntBits /\ 0 \in 0 .. MaxCalls
    BY BoundAssumption DEF Impls, Pools
  <2>2. None \in Values
    BY DEF Values
  <2>3. << >> \in Seq(Impls) /\ 1 \in Nat \ {0}
    OBVIOUS
  <2>4. /\ is_initialized \in BOOLEAN /\ runtime_caps \in SUBSET Impls
        /\ list \in [Pools -> Seq(Impls)] /\ num_max \in [Impls -> 0 .. IntBits]
        /\ num_working \in [Impls -> Nat] /\ bitmap \in [Impls -> SUBSET Slots]
    BY <2>1, <2>3 DEF Init
  <2>5. /\ input \in [Impls -> [Slots -> Values]] /\ output \in [Impls -> [Slots -> Values]]
        /\ late \in SUBSET Slots /\ sem \in [Pools -> Nat]
    BY <2>2 DEF Init
  <2>6. /\ pc \in [Threads -> InService \cup {"idle", "scan"}]
        /\ pool \in [Threads -> Pools] /\ at \in [Threads -> Nat \ {0}]
        /\ impl \in [Threads -> Impls] /\ slot \in [Threads -> Slots \cup {NoSlot}]
    BY <2>1, <2>3 DEF Init
  <2>7. /\ fallback \in [Threads -> BOOLEAN] /\ answer \in [Threads -> Values]
        /\ calls \in [Threads -> 0 .. MaxCalls]
    BY <2>1, <2>2 DEF Init
  <2> QED BY <2>4, <2>5, <2>6, <2>7 DEF TypeOK
<1>2. \A i : Holders(i) = {} /\ Owners(i) = {}
  BY DEF Init, Holders, Owners, Holding, Owning
<1>3. CountersExact
  <2> SUFFICES ASSUME NEW i \in Impls
               PROVE  num_working[i] = Cardinality(Holders(i)) /\ num_working[i] <= num_max[i]
    BY DEF CountersExact
  <2>1. num_working[i] = 0 /\ num_max[i] = 0
    BY DEF Init
  <2>2. Cardinality(Holders(i)) = 0
    BY <1>2, FS_EmptySet
  <2> QED BY <2>1, <2>2
<1>4. BitmapExact
  BY <1>2 DEF Init, BitmapExact, Impls
<1>5. ListsExact
  BY DEF Init, ListsExact, InService
<1>6. SlotAlwaysFound /\ ContextExclusive
  BY DEF Init, SlotAlwaysFound, ContextExclusive, Owning
<1> QED BY <1>1, <1>3, <1>4, <1>5, <1>6 DEF SlotInv

\* Nobody holds or owns anything while no call is in progress.
LEMMA QuiescentEmpty ==
    ASSUME Quiescent, pc' = pc
    PROVE  \A i : /\ Holders(i) = {} /\ Owners(i) = {}
                  /\ Holders(i)' = {} /\ Owners(i)' = {}
BY DEF Quiescent, Idle, Holders, Owners, Holding, Owning

\* A call that starts, or is refused, holds nothing yet.
LEMMA StartStep ==
    ASSUME TypeOK, SlotInv, NEW t \in Threads, Call(t) \/ CallRefused(t)
    PROVE  TypeOK' /\ SlotInv'
<1> USE DEF lifecycle, contexts, scan, StartCall, Idle
<1>1. calls' = [calls EXCEPT ![t] = @ + 1] /\ answer' = [answer EXCEPT ![t] = None]
      /\ calls[t] < MaxCalls
  BY DEF Call, CallRefused
<1>2. calls' \in [Threads -> 0 .. MaxCalls] /\ answer' \in [Threads -> Values]
  BY <1>1, BoundAssumption DEF TypeOK, Values
<1>3. /\ UNCHANGED <<is_initialized, runtime_caps, list, num_max, num_working>>
      /\ UNCHANGED <<bitmap, input, output, late, sem, impl, slot, fallback>>
  BY DEF Call, CallRefused
<1>4. /\ pool' \in [Threads -> Pools]
      /\ at' \in [Threads -> Nat \ {0}]
      /\ pc' \in [Threads -> InService \cup {"idle", "scan"}]
      /\ \A u \in Threads : pc'[u] # pc[u] => pc[u] = "idle" /\ pc'[u] = "scan"
      /\ \A u \in Threads : pool'[u] # pool[u] => pc'[u] = "scan"
  <2>1. CASE CallRefused(t)
    BY <2>1 DEF CallRefused, TypeOK
  <2>2. CASE Call(t)
    <3>1. FirstPool \in Pools
      BY DEF FirstPool, Pools
    <3>2. 1 \in Nat \ {0}
      OBVIOUS
    <3> QED BY <2>2, <3>1, <3>2 DEF Call, TypeOK
  <2> QED BY <2>1, <2>2
<1>5. TypeOK'
  BY <1>2, <1>3, <1>4 DEF TypeOK
<1>6. \A u \in Threads : /\ pc'[u] \in Holding <=> pc[u] \in Holding
                         /\ pc'[u] \in Owning <=> pc[u] \in Owning
                         /\ pc'[u] \in InService => pc[u] \in InService /\ pool'[u] = pool[u]
  BY <1>4 DEF Holding, Owning, InService, TypeOK
<1>7. \A i : Holders(i)' = Holders(i) /\ Owners(i)' = Owners(i)
  BY <1>3, <1>6 DEF Holders, Owners
<1>8. CountersExact' /\ BitmapExact'
  BY <1>3, <1>7 DEF SlotInv, CountersExact, BitmapExact
<1>9. ListsExact'
  BY <1>3, <1>6 DEF SlotInv, ListsExact
<1>10. SlotAlwaysFound' /\ ContextExclusive'
  BY <1>3, <1>6 DEF SlotInv, SlotAlwaysFound, ContextExclusive
<1> QED BY <1>5, <1>8, <1>9, <1>10 DEF SlotInv

\* dcurl_destroy empties the lists.
LEMMA DestroyStep ==
    ASSUME TypeOK, SlotInv, DcurlDestroy
    PROVE  TypeOK' /\ SlotInv'
<1> USE DEF DcurlDestroy, contexts, scan, frame
<1>1. TypeOK'
  <2>1. << >> \in Seq(Impls)
    OBVIOUS
  <2> QED BY <2>1 DEF TypeOK
<1>2. \A i : Holders(i)' = Holders(i) /\ Owners(i)' = Owners(i)
  BY DEF Holders, Owners
<1>3. CountersExact' /\ BitmapExact'
  BY <1>2 DEF SlotInv, CountersExact, BitmapExact
<1>4. ListsExact'
  BY DEF SlotInv, ListsExact
<1>5. SlotAlwaysFound' /\ ContextExclusive'
  BY DEF SlotInv, SlotAlwaysFound, ContextExclusive
<1> QED BY <1>1, <1>3, <1>4, <1>5 DEF SlotInv

\* dcurl_init: every slot of a registered implementation is marked free, the
\* bits left over from an earlier use included.
LEMMA InitStep ==
    ASSUME TypeOK, SlotInv, DcurlInit
    PROVE  TypeOK' /\ SlotInv'
<1>1. PICK R \in SUBSET Build, cap \in [Impls -> 0 .. IntBits] :
        /\ \A i \in Impls : IF i \in R THEN cap[i] \in Capacity[i] ELSE cap[i] = 0
        /\ runtime_caps' = R
        /\ list' = [p \in Pools |-> IF p = "local" THEN RegisteredLocal(R)
                                                   ELSE RegisteredRemote(R)]
        /\ num_max' = cap
        /\ bitmap' = [i \in Impls |-> IF i \in R THEN InitBitmap(i, cap[i])
                                                 ELSE bitmap[i]]
        /\ is_initialized' = (R # {})
  BY DEF DcurlInit
<1>2. /\ input' = [i \in Impls |-> [s \in Slots |-> None]]
      /\ output' = [i \in Impls |-> [s \in Slots |-> None]]
      /\ late' = {}
      /\ sem' = [p \in Pools |-> 0]
      /\ UNCHANGED <<num_working, pc, pool, at, impl, slot, fallback, answer, calls>>
      /\ Quiescent
  BY DEF DcurlInit, scan, frame
<1>3. R \in SUBSET Impls
  BY <1>1, BuildAssumption
<1>4. \A i \in Impls : InitBitmap(i, cap[i]) \subseteq Slots
  BY DEF InitBitmap, TypeOK
<1>5. TypeOK'
  <2>1. list' \in [Pools -> Seq(Impls)]
    BY <1>1, <1>3, RegisteredLists
  <2>2. bitmap' \in [Impls -> SUBSET Slots]
    BY <1>1, <1>4 DEF TypeOK
  <2>3. is_initialized' \in BOOLEAN /\ runtime_caps' \in SUBSET Impls
        /\ num_max' \in [Impls -> 0 .. IntBits]
    BY <1>1, <1>3
  <2>4. None \in Values
    BY DEF Values
  <2> QED BY <1>2, <2>1, <2>2, <2>3, <2>4 DEF TypeOK
<1>6. \A i : /\ Holders(i) = {} /\ Owners(i) = {}
             /\ Holders(i)' = {} /\ Owners(i)' = {}
  BY <1>2, QuiescentEmpty
<1>7. CountersExact'
  <2>1. \A i \in Impls : num_working[i] = 0
    BY <1>6, FS_EmptySet DEF SlotInv, CountersExact
  <2> SUFFICES ASSUME NEW i \in Impls
               PROVE  /\ num_working'[i] = Cardinality(Holders(i)')
                      /\ num_working'[i] <= num_max'[i]
    BY DEF CountersExact
  <2>2. num_working'[i] = 0 /\ num_max'[i] \in Nat
    BY <1>1, <1>2, <2>1, BoundAssumption
  <2>3. Cardinality(Holders(i)') = 0
    BY <1>6, FS_EmptySet
  <2> QED BY <2>2, <2>3
<1>8. BitmapExact'
  <2>1. num_max'["fpga"] <= 1
    BY <1>1, CapacityAssumption DEF Impls
  <2>2. ASSUME NEW i \in Impls \ {"fpga"}, NEW s \in 0 .. num_max'[i] - 1
        PROVE  s \in bitmap'[i]
    <3>1. i \in R /\ s < cap[i] /\ s \in Slots
      BY <1>1, <2>2, BoundAssumption DEF Slots
    <3>2. s \in InitBitmap(i, cap[i])
      BY <2>2, <3>1 DEF InitBitmap
    <3> QED BY <1>1, <3>1, <3>2
  <2> QED BY <1>6, <2>1, <2>2 DEF BitmapExact
<1>9. ListsExact'
  <2>1. \A p \in Pools : \A n \in 1 .. Len(list'[p]) :
          list'[p][n] \in runtime_caps' /\ PoolOf(list'[p][n]) = p
    <3>1. list'["local"] = RegisteredLocal(R) /\ list'["remote"] = RegisteredRemote(R)
      BY <1>1 DEF Pools
    <3> QED BY <1>1, <1>3, <3>1, RegisteredLists DEF Pools
  <2>2. \A t \in Threads : pc'[t] \notin InService
    BY <1>2 DEF Quiescent, Idle, InService
  <2> QED BY <2>1, <2>2 DEF ListsExact
<1>10. SlotAlwaysFound' /\ ContextExclusive'
  BY <1>2 DEF Quiescent, Idle, SlotAlwaysFound, ContextExclusive, Owning
<1> QED BY <1>5, <1>7, <1>8, <1>9, <1>10 DEF SlotInv

\* Every step, also of dcurl_init and dcurl_destroy, keeps the slot accounting.
LEMMA SlotNext == TypeOK /\ SlotInv /\ [Next]_vars => TypeOK' /\ SlotInv'
<1> SUFFICES ASSUME TypeOK, SlotInv, [Next]_vars PROVE TypeOK' /\ SlotInv'
  OBVIOUS
<1>1. CASE DcurlInit
  BY <1>1, InitStep
<1>2. CASE DcurlDestroy
  BY <1>2, DestroyStep
<1>3. ASSUME NEW t \in Threads, Call(t) \/ CallRefused(t) PROVE TypeOK' /\ SlotInv'
  BY <1>3, StartStep
<1>4. ASSUME NEW t \in Threads, Step(t) PROVE TypeOK' /\ SlotInv'
  BY <1>4, TypeStep, SlotStep
<1>5. CASE UNCHANGED vars
  <2> USE <1>5 DEF vars, lifecycle, contexts, scan, frame
  <2>1. TypeOK'
    BY DEF TypeOK
  <2>2. \A i : Holders(i)' = Holders(i) /\ Owners(i)' = Owners(i)
    BY DEF Holders, Owners
  <2>3. CountersExact' /\ BitmapExact'
    BY <2>2 DEF SlotInv, CountersExact, BitmapExact
  <2>4. ListsExact' /\ SlotAlwaysFound' /\ ContextExclusive'
    BY DEF SlotInv, ListsExact, SlotAlwaysFound, ContextExclusive
  <2> QED BY <2>1, <2>3, <2>4 DEF SlotInv
<1> QED BY <1>1, <1>2, <1>3, <1>4, <1>5 DEF Next

\* The variables of dcurl keep their types, for any number of threads, places
\* and calls: no counter goes below zero, no slot index leaves the array.
THEOREM TypeCorrect == Spec => []TypeOK
<1>1. Init => TypeOK /\ SlotInv
  BY SlotInit
<1>2. TypeOK /\ SlotInv /\ [Next]_vars => TypeOK' /\ SlotInv'
  BY SlotNext
<1> QED BY <1>1, <1>2, PTL DEF Spec

\* The accounting of places and slots is exact in every reachable state.
THEOREM SlotInvariant == Spec => []SlotInv
<1>1. Init => TypeOK /\ SlotInv
  BY SlotInit
<1>2. TypeOK /\ SlotInv /\ [Next]_vars => TypeOK' /\ SlotInv'
  BY SlotNext
<1> QED BY <1>1, <1>2, PTL DEF Spec

\* get_pow_context never returns NULL: "It should not happen" does not happen
\* (pow_c.c:427, remote_interface.c:213).
THEOREM SlotFound == Spec => []SlotAlwaysFound
<1>1. SlotInv => SlotAlwaysFound
  BY DEF SlotInv
<1> QED BY <1>1, SlotInvariant, PTL

\* No two calls ever work in the same context of an implementation.
THEOREM Exclusion == Spec => []ContextExclusive
<1>1. SlotInv => ContextExclusive
  BY DEF SlotInv
<1> QED BY <1>1, SlotInvariant, PTL

-----------------------------------------------------------------------------
(* The answer a caller gets.                                                 *)

\* A step of t leaves the frames of the other threads alone.
LEMMA OthersKept ==
    ASSUME TypeOK, NEW t \in Threads, Step(t), NEW u \in Threads, u # t
    PROVE  /\ pc'[u] = pc[u] /\ pool'[u] = pool[u] /\ impl'[u] = impl[u] /\ at'[u] = at[u]
           /\ slot'[u] = slot[u] /\ fallback'[u] = fallback[u] /\ answer'[u] = answer[u]
<1> USE DEF TypeOK, frame, scan
<1>1. CASE SkipFull(t) \/ Enter(t) \/ SemWait(t)
  BY <1>1 DEF SkipFull, Enter, SemWait
<1>2. CASE GetContext(t) \/ FillContext(t)
  BY <1>2 DEF GetContext, FillContext
<1>3. CASE PowSucceeds(t) \/ PowFails(t) \/ GetResult(t)
  BY <1>3 DEF PowSucceeds, PowFails, GetResult
<1>4. CASE FreeContext(t) \/ ExitImpl(t)
  BY <1>4 DEF FreeContext, ExitImpl
<1>5. CASE PostNotify(t)
  BY <1>5 DEF PostNotify
<1> QED BY <1>1, <1>2, <1>3, <1>4, <1>5 DEF Step

\* A step of t leaves the contexts of the other owners alone, since they are
\* other contexts.
LEMMA OtherContextsKept ==
    ASSUME TypeOK, SlotInv, NEW t \in Threads, Step(t), NEW u \in Threads, u # t,
           pc[u] \in Owning
    PROVE  /\ input'[impl[u]][slot[u]] = input[impl[u]][slot[u]]
           /\ output'[impl[u]][slot[u]] = output[impl[u]][slot[u]]
<1>1. slot[u] \in Slots /\ impl[u] \in Impls
  BY OwnerSlot DEF SlotInv
<1>2. pc[t] \in Owning /\ impl[t] = impl[u] => slot[t] # slot[u]
  BY DEF SlotInv, ContextExclusive
<1>3. pc[t] \in Owning => slot[t] \in Slots /\ impl[t] \in Impls
  BY OwnerSlot DEF SlotInv
<1>4. CASE FillContext(t)
  <2>1. pc[t] \in Owning /\ output' = output
        /\ input' = [input EXCEPT ![impl[t]][slot[t]] = Job(t)]
    BY <1>4 DEF FillContext, Copied, Owning
  <2> QED BY <1>1, <1>2, <1>3, <2>1 DEF TypeOK
<1>5. CASE PowSucceeds(t)
  <2>1. /\ pc[t] \in Owning /\ input' = input
        /\ \E v : output' = [output EXCEPT ![impl[t]][slot[t]] = v]
    BY <1>5 DEF PowSucceeds, Owning
  <2> QED BY <1>1, <1>2, <1>3, <2>1 DEF TypeOK
<1>6. CASE ~FillContext(t) /\ ~PowSucceeds(t)
  BY <1>6 DEF Step, SkipFull, Enter, SemWait, GetContext, PowFails, GetResult, FreeContext,
              ExitImpl, PostNotify, contexts
<1> QED BY <1>4, <1>5, <1>6

\* A step of a call keeps the call's number and may add to the late replies.
LEMMA CallKept ==
    ASSUME NEW t \in Threads, Step(t)
    PROVE  calls' = calls /\ late \subseteq late'
BY DEF Step, SkipFull, Enter, SemWait, GetContext, FillContext, PowSucceeds, PowFails,
       GetResult, FreeContext, ExitImpl, PostNotify, contexts

AnswerInv == DataInv /\ ResultIsOwn

\* What AnswerInv says of one thread.
DataOf(t) ==
    /\ pc[t] = "pow" => input[impl[t]][slot[t]] = Job(t)
    /\ pc[t] = "result" => OwnAnswer(t, output[impl[t]][slot[t]])
    /\ pc[t] \in {"scan", "get", "fill", "pow", "result"} => answer[t] = None
    /\ fallback[t] => answer[t] = None /\ pc[t] \in {"free", "exit", "post"}

ResultOf(t) ==
    \/ answer[t] \in {None, Job(t)}
    \/ /\ answer[t] = Stale
       /\ pool[t] = "remote"
       /\ Idle(t) \/ late # {}

\* The invariant about the data, thread by thread.
LEMMA AnswerInvOf == AnswerInv <=> \A t \in Threads : DataOf(t) /\ ResultOf(t)
BY DEF AnswerInv, DataInv, ResultIsOwn, DataOf, ResultOf

\* The step's own thread: the job travels from the caller through the context
\* to the answer.
LEMMA OwnAnswerStep ==
    ASSUME TypeOK, SlotInv, NEW t \in Threads, DataOf(t), ResultOf(t), Step(t)
    PROVE  DataOf(t)' /\ ResultOf(t)'
<1> USE DEF TypeOK, frame, scan, Idle
<1>0. Job(t)' = Job(t) /\ late \subseteq late'
  BY CallKept DEF Job
<1>a. pc[t] \in Owning => slot[t] \in Slots /\ impl[t] \in Impls
  BY OwnerSlot DEF SlotInv
<1>1. CASE SkipFull(t) \/ Enter(t) \/ SemWait(t)
  BY <1>0, <1>1 DEF SkipFull, Enter, SemWait, Scanning, DataOf, ResultOf
<1>2. CASE GetContext(t)
  BY <1>0, <1>2 DEF GetContext, DataOf, ResultOf
<1>3. CASE FillContext(t)
  <2>1. input'[impl[t]][slot[t]] = Job(t) /\ pc'[t] = "pow" /\ impl' = impl /\ slot' = slot
    BY <1>3, <1>a DEF FillContext, Copied, Owning
  <2>2. answer' = answer /\ fallback' = fallback /\ pool' = pool /\ late' = late /\ pc[t] = "fill"
    BY <1>3 DEF FillContext
  <2> QED BY <1>0, <2>1, <2>2 DEF DataOf, ResultOf
<1>4. CASE PowSucceeds(t)
  <2>1. PICK v \in Replies(impl[t], slot[t]) :
          output' = [output EXCEPT ![impl[t]][slot[t]] = v]
    BY <1>4 DEF PowSucceeds
  <2>2. output'[impl[t]][slot[t]] = v
    BY <1>4, <1>a, <2>1 DEF PowSucceeds, Owning
  <2>3. /\ pc[t] = "pow" /\ pc'[t] = "result" /\ impl' = impl /\ slot' = slot /\ pool' = pool
        /\ answer' = answer /\ fallback' = fallback /\ late' = late
    BY <1>4 DEF PowSucceeds
  <2>4. PoolOf(impl[t]) = pool[t]
    BY <2>3 DEF SlotInv, ListsExact, InService
  <2>5. OwnAnswer(t, v)
    BY <2>3, <2>4 DEF DataOf, Replies, PoolOf, OwnAnswer
  <2> QED BY <1>0, <2>2, <2>3, <2>5 DEF DataOf, ResultOf, OwnAnswer
<1>5. CASE PowFails(t)
  BY <1>0, <1>5 DEF PowFails, AfterFailure, DataOf, ResultOf
<1>6. CASE GetResult(t)
  <2>1. answer'[t] \in {output[impl[t]][slot[t]], None}
    BY <1>6 DEF GetResult
  <2>2. /\ pc[t] = "result" /\ pc'[t] = "free" /\ pool' = pool
        /\ fallback' = fallback /\ late' = late
    BY <1>6 DEF GetResult, contexts
  <2> QED BY <1>0, <2>1, <2>2 DEF DataOf, ResultOf, OwnAnswer
<1>7. CASE FreeContext(t) \/ ExitImpl(t)
  BY <1>0, <1>7 DEF FreeContext, ExitImpl, contexts, DataOf, ResultOf
<1>8. CASE PostNotify(t)
  <2>1. answer' = answer /\ late' = late /\ pc[t] = "post" /\ fallback'[t] = FALSE
    BY <1>8 DEF PostNotify, contexts
  <2>2. CASE fallback[t]
    BY <1>0, <1>8, <2>1, <2>2 DEF PostNotify, RetryPool, DataOf, ResultOf
  <2>3. CASE ~fallback[t]
    BY <1>0, <1>8, <2>1, <2>3 DEF PostNotify, DataOf, ResultOf
  <2> QED BY <2>2, <2>3
<1> QED BY <1>1, <1>2, <1>3, <1>4, <1>5, <1>6, <1>7, <1>8 DEF Step

\* A step of one thread keeps the data of all: the others' contexts are their own.
LEMMA AnswerStep ==
    ASSUME TypeOK, SlotInv, AnswerInv, NEW t \in Threads, Step(t)
    PROVE  AnswerInv'
<1>1. \A u \in Threads : DataOf(u) /\ ResultOf(u)
  BY AnswerInvOf
<1>2. ASSUME NEW u \in Threads, u # t PROVE DataOf(u)' /\ ResultOf(u)'
  <2>1. /\ pc'[u] = pc[u] /\ pool'[u] = pool[u] /\ impl'[u] = impl[u]
        /\ slot'[u] = slot[u] /\ fallback'[u] = fallback[u] /\ answer'[u] = answer[u]
    BY <1>2, OthersKept
  <2>2. Job(u)' = Job(u) /\ late \subseteq late'
    BY CallKept DEF Job
  <2>3. pc[u] \in Owning => /\ input'[impl[u]][slot[u]] = input[impl[u]][slot[u]]
                            /\ output'[impl[u]][slot[u]] = output[impl[u]][slot[u]]
    BY <1>2, OtherContextsKept
  <2>4. DataOf(u) /\ ResultOf(u)
    BY <1>1, <1>2
  <2> QED BY <2>1, <2>2, <2>3, <2>4 DEF DataOf, ResultOf, OwnAnswer, Idle, Owning
<1>3. DataOf(t)' /\ ResultOf(t)'
  BY <1>1, OwnAnswerStep
<1>4. \A u \in Threads : DataOf(u)' /\ ResultOf(u)'
  BY <1>2, <1>3
<1> QED BY <1>4 DEF AnswerInv, DataInv, ResultIsOwn, DataOf, ResultOf

\* Every step keeps the data invariant.
LEMMA AnswerNext == TypeOK /\ SlotInv /\ AnswerInv /\ [Next]_vars => AnswerInv'
<1> SUFFICES ASSUME TypeOK, SlotInv, AnswerInv, [Next]_vars PROVE AnswerInv'
  OBVIOUS
<1> USE DEF AnswerInv, DataInv, ResultIsOwn
<1>1. CASE DcurlInit
  BY <1>1 DEF DcurlInit, scan, frame, Quiescent, Idle, Job, TypeOK
<1>2. CASE DcurlDestroy
  BY <1>2 DEF DcurlDestroy, contexts, scan, frame, Quiescent, Idle, Job, OwnAnswer
<1>3. ASSUME NEW t \in Threads, Call(t) \/ CallRefused(t) PROVE AnswerInv'
  <2>1. /\ \A u \in Threads \ {t} : /\ pc'[u] = pc[u] /\ pool'[u] = pool[u]
                                   /\ calls'[u] = calls[u] /\ answer'[u] = answer[u]
        /\ UNCHANGED <<input, output, late, impl, slot, fallback>>
        /\ answer'[t] = None /\ pc'[t] \in {"idle", "scan"} /\ pc[t] = "idle"
    BY <1>3 DEF Call, CallRefused, StartCall, contexts, scan, Idle, TypeOK
  <2>2. \A u \in Threads \ {t} : Job(u)' = Job(u)
    BY <2>1 DEF Job
  <2> QED BY <2>1, <2>2 DEF OwnAnswer, Idle
<1>4. ASSUME NEW t \in Threads, Step(t) PROVE AnswerInv'
  BY <1>4, AnswerStep
<1>5. CASE UNCHANGED vars
  BY <1>5 DEF vars, lifecycle, contexts, scan, frame, Idle, Job, OwnAnswer
<1> QED BY <1>1, <1>2, <1>3, <1>4, <1>5 DEF Next

\* dcurl_entry returns the PoW of the caller's own transaction or NULL; only a
\* remote call can return the late reply to an earlier request.
THEOREM OwnResult == Spec => []ResultIsOwn
<1>1. Init => AnswerInv
  BY DEF Init, AnswerInv, DataInv, ResultIsOwn
<1>2. TypeOK /\ SlotInv /\ AnswerInv /\ [Next]_vars => AnswerInv'
  BY AnswerNext
<1>3. AnswerInv => ResultIsOwn
  BY DEF AnswerInv
<1> QED BY <1>1, <1>2, <1>3, TypeCorrect, SlotInvariant, PTL DEF Spec

\* Every call gives back its place and its slot: dcurl_destroy and dcurl_init
\* find the counters at zero and the bitmaps full.
THEOREM Clean == Spec => []QuiescentIsClean
<1>1. TypeOK /\ SlotInv => QuiescentIsClean
  <2> SUFFICES ASSUME TypeOK, SlotInv, Quiescent, NEW i \in Impls
               PROVE  /\ num_working[i] = 0
                      /\ i \in runtime_caps /\ i # "fpga" =>
                            0 .. num_max[i] - 1 \subseteq bitmap[i]
    BY DEF QuiescentIsClean
  <2>1. Holders(i) = {} /\ Owners(i) = {}
    BY DEF Quiescent, Idle, Holders, Owners, Holding, Owning
  <2>2. num_working[i] = 0
    BY <2>1, FS_EmptySet DEF SlotInv, CountersExact
  <2>3. i # "fpga" => \A s \in 0 .. num_max[i] - 1 : s \in bitmap[i]
    BY <2>1 DEF SlotInv, BitmapExact
  <2> QED BY <2>2, <2>3
<1> QED BY <1>1, TypeCorrect, SlotInvariant, PTL

-----------------------------------------------------------------------------
(* No lost wake-up.                                                          *)

\* A token, a call in service or a fresh scan: what a sleeper of p can count on.
Awake(u, p) ==
    /\ pool[u] = p
    /\ \/ pc[u] \in InService
       \/ pc[u] = "scan" /\ ~Exhausted(u, p)

Hope(p) == sem[p] > 0 \/ \E u \in Threads : Awake(u, p)

\* The invariant about wake-ups, pool by pool.
LEMMA WakeupInvOf ==
    WakeupInv <=> \A p \in Pools : (\E t \in Threads : Exhausted(t, p)) => Hope(p)
BY DEF WakeupInv, Hope, Awake

\* A usable entry is full only while calls are in service in it.
LEMMA FullMeansInService ==
    ASSUME TypeOK, SlotInv, NEW i \in Impls, num_max[i] > 0, ~HasRoom(i)
    PROVE  \E u \in Threads : pc[u] \in InService /\ pool[u] = PoolOf(i)
<1>1. num_working[i] \in Nat /\ num_max[i] \in Nat /\ num_working[i] >= num_max[i]
  BY BoundAssumption DEF TypeOK, HasRoom
<1>2. Cardinality(Holders(i)) # 0
  BY <1>1 DEF SlotInv, CountersExact
<1>3. Holders(i) # {}
  BY <1>2, FS_EmptySet
<1>4. PICK u \in Threads : pc[u] \in Holding /\ impl[u] = i
  BY <1>3 DEF Holders
<1> QED BY <1>4 DEF SlotInv, ListsExact, Holding, InService

\* Frames of other threads, and hence what they are to a pool, are kept.
LEMMA AwakeKept ==
    ASSUME TypeOK, NEW t \in Threads, Step(t), NEW u \in Threads, u # t, NEW p \in Pools
    PROVE  /\ Awake(u, p)' <=> Awake(u, p)
           /\ Exhausted(u, p)' <=> Exhausted(u, p)
<1>1. pc'[u] = pc[u] /\ pool'[u] = pool[u] /\ at'[u] = at[u]
  BY OthersKept
<1>2. list' = list /\ num_max' = num_max
  BY DEF Step, SkipFull, Enter, SemWait, GetContext, FillContext, PowSucceeds, PowFails,
         GetResult, FreeContext, ExitImpl, PostNotify, lifecycle
<1>3. Exhausted(u, p)' <=> Exhausted(u, p)
  BY <1>1, <1>2 DEF Exhausted
<1> QED BY <1>1, <1>3 DEF Awake

\* A step of one thread leaves a token, a call in service or an open scan behind
\* for every scan that has passed a usable entry.
LEMMA WakeupStep ==
    ASSUME TypeOK, SlotInv, WakeupInv, NEW t \in Threads, Step(t)
    PROVE  WakeupInv'
<1> USE DEF lifecycle, frame, scan
<1> SUFFICES ASSUME NEW p \in Pools, NEW v \in Threads, Exhausted(v, p)'
             PROVE  Hope(p)'
  BY DEF WakeupInv, Hope, Awake
<1>0. pool[t] \in Pools /\ at[t] \in Nat /\ at[t] >= 1
  BY DEF TypeOK
<1>a. (\E w \in Threads : Exhausted(w, p)) => Hope(p)
  BY WakeupInvOf
\* Other threads' hope survives whatever t does, unless t takes the token.
<1>b. ASSUME NEW u \in Threads, u # t, Awake(u, p) PROVE Hope(p)'
  BY <1>b, AwakeKept DEF Hope
<1>1. CASE SkipFull(t)
  <2>1. /\ pc[t] = "scan" /\ pc' = pc /\ pool' = pool /\ sem' = sem
        /\ at' = [at EXCEPT ![t] = @ + 1] /\ list' = list /\ num_max' = num_max
        /\ at[t] \in 1 .. Len(list[pool[t]]) /\ ~HasRoom(list[pool[t]][at[t]])
    BY <1>0, <1>1 DEF SkipFull, Scanning, Entry, TypeOK
  <2>2. CASE p # pool[t]
    <3>1. v # t /\ ~Awake(t, p)
      BY <2>1, <2>2 DEF Exhausted, Awake
    <3>2. Exhausted(v, p)
      BY <3>1, AwakeKept
    <3> QED BY <1>a, <1>b, <2>1, <3>1, <3>2 DEF Hope
  <2>3. CASE p = pool[t]
    <3> DEFINE i == list[p][at[t]]
    <3>1. i \in Impls /\ PoolOf(i) = p
      BY <2>1, <2>3 DEF TypeOK, SlotInv, ListsExact
    <3>2. CASE num_max[i] > 0
      <4>1. PICK u \in Threads : pc[u] \in InService /\ pool[u] = p
        BY <2>1, <2>3, <3>1, <3>2, FullMeansInService
      <4>2. u # t
        BY <2>1, <4>1 DEF InService
      <4> QED BY <1>b, <4>1, <4>2 DEF Awake
    <3>3. CASE ~(num_max[i] > 0)
      <4>1. Exhausted(t, p)' <=> Exhausted(t, p)
        <5>1. at'[t] = at[t] + 1
          BY <2>1 DEF TypeOK
        <5>2. \A n \in 1 .. Len(list[p]) :
                n < at[t] + 1 /\ num_max[list[p][n]] > 0 => n < at[t]
          BY <1>0, <2>1, <2>3, <3>3
        <5> QED BY <1>0, <2>1, <2>3, <5>1, <5>2 DEF Exhausted
      <4>2. Awake(t, p)' <=> Awake(t, p)
        BY <2>1, <4>1 DEF Awake
      <4>3. Exhausted(v, p)
        BY <4>1, AwakeKept
      <4> QED BY <1>a, <1>b, <2>1, <4>2, <4>3 DEF Hope
    <3> QED BY <3>2, <3>3
  <2> QED BY <2>2, <2>3
<1>2. CASE Enter(t)
  <2>1. /\ pc[t] = "scan" /\ pc'[t] = "get" /\ pool' = pool /\ sem' = sem
    BY <1>2 DEF Enter, Scanning, TypeOK
  <2>2. v # t
    BY <2>1 DEF Exhausted
  <2>3. Exhausted(v, p)
    BY <2>2, AwakeKept
  <2>4. CASE Awake(t, p)
    BY <2>1, <2>4 DEF Awake, Hope, InService
  <2> QED BY <1>a, <1>b, <2>1, <2>3, <2>4 DEF Hope
<1>3. CASE SemWait(t)
  <2>1. /\ pc[t] = "scan" /\ pc' = pc /\ pool' = pool /\ list' = list /\ at'[t] = 1
        /\ sem' = [sem EXCEPT ![pool[t]] = @ - 1]
    BY <1>3 DEF SemWait, TypeOK
  <2>2. \A q : ~Exhausted(t, q)'
    BY <2>1 DEF Exhausted
  <2>3. CASE p = pool[t]
    BY <2>1, <2>2, <2>3 DEF Awake, Hope
  <2>4. CASE p # pool[t]
    <3>1. v # t
      BY <2>2
    <3>2. Exhausted(v, p)
      BY <3>1, AwakeKept
    <3>3. ~Awake(t, p)
      BY <2>4 DEF Awake
    <3>4. sem'[p] = sem[p]
      <4>1. DOMAIN sem = Pools
        BY DEF TypeOK
      <4> QED BY <2>1, <2>4, <4>1
    <3> QED BY <1>a, <1>b, <3>2, <3>3, <3>4 DEF Hope
  <2> QED BY <2>3, <2>4
<1>4. CASE GetContext(t) \/ FillContext(t) \/ PowSucceeds(t) \/ PowFails(t)
           \/ GetResult(t) \/ FreeContext(t) \/ ExitImpl(t)
  <2>1. pc[t] \in InService /\ pc'[t] \in InService
    BY <1>4 DEF GetContext, FillContext, PowSucceeds, PowFails, AfterFailure, GetResult,
                FreeContext, ExitImpl, InService, TypeOK
  <2>2. pool' = pool /\ sem' = sem
    BY <1>4 DEF GetContext, FillContext, PowSucceeds, PowFails, GetResult, FreeContext, ExitImpl
  <2>3. v # t
    BY <2>1 DEF Exhausted, InService
  <2>4. Exhausted(v, p)
    BY <2>3, AwakeKept
  <2>5. Awake(t, p) => Awake(t, p)'
    BY <2>1, <2>2 DEF Awake, InService, Exhausted
  <2> QED BY <1>a, <1>b, <2>2, <2>4, <2>5 DEF Hope
<1>5. CASE PostNotify(t)
  <2>1. /\ pc[t] = "post" /\ at'[t] = 1 /\ list' = list
        /\ sem' = [sem EXCEPT ![pool[t]] = @ + 1]
    BY <1>5 DEF PostNotify, Posted, TypeOK
  <2>2. \A q : ~Exhausted(t, q)'
    BY <2>1 DEF Exhausted
  <2>3. CASE p = pool[t]
    BY <2>1, <2>3 DEF Hope, TypeOK
  <2>4. CASE p # pool[t]
    <3>1. v # t
      BY <2>2
    <3>2. Exhausted(v, p)
      BY <3>1, AwakeKept
    <3>3. ~Awake(t, p)
      BY <2>4 DEF Awake
    <3>4. sem'[p] = sem[p]
      <4>1. DOMAIN sem = Pools
        BY DEF TypeOK
      <4> QED BY <2>1, <2>4, <4>1
    <3> QED BY <1>a, <1>b, <3>2, <3>3, <3>4 DEF Hope
  <2> QED BY <2>3, <2>4
<1> QED BY <1>1, <1>2, <1>3, <1>4, <1>5 DEF Step

\* Every step keeps the invariant about wake-ups.
LEMMA WakeupNext == TypeOK /\ SlotInv /\ WakeupInv /\ [Next]_vars => WakeupInv'
<1> SUFFICES ASSUME TypeOK, SlotInv, WakeupInv, [Next]_vars PROVE WakeupInv'
  OBVIOUS
<1>1. CASE DcurlInit \/ DcurlDestroy
  <2>1. \A t \in Threads : pc'[t] = "idle"
    BY <1>1 DEF DcurlInit, DcurlDestroy, Quiescent, Idle
  <2> QED BY <2>1 DEF WakeupInv, Exhausted
<1>2. ASSUME NEW t \in Threads, Call(t) \/ CallRefused(t) PROVE WakeupInv'
  <2>1. /\ pc[t] = "idle" /\ (pc'[t] = "scan" => at'[t] = 1) /\ pc'[t] \in {"idle", "scan"}
        /\ UNCHANGED <<list, num_max, sem>>
        /\ \A u \in Threads \ {t} : pc'[u] = pc[u] /\ pool'[u] = pool[u] /\ at'[u] = at[u]
    BY <1>2 DEF Call, CallRefused, StartCall, Idle, lifecycle, scan, TypeOK
  <2>2. \A p : ~Exhausted(t, p)'
    BY <2>1 DEF Exhausted
  <2>3. ASSUME NEW p \in Pools, NEW v \in Threads, Exhausted(v, p)' PROVE Hope(p)'
    <3>1. v # t
      BY <2>2, <2>3
    <3>2. \A u \in Threads \ {t} : Exhausted(u, p)' <=> Exhausted(u, p)
      BY <2>1 DEF Exhausted
    <3>3. \A u \in Threads \ {t} : Awake(u, p)' <=> Awake(u, p)
      BY <2>1, <3>2 DEF Awake
    <3>4. Hope(p)
      BY <2>3, <3>1, <3>2, WakeupInvOf
    <3>5. ~Awake(t, p)
      BY <2>1 DEF Awake, InService
    <3> QED BY <2>1, <3>3, <3>4, <3>5 DEF Hope
  <2> QED BY <2>3 DEF WakeupInv, Hope, Awake
<1>3. ASSUME NEW t \in Threads, Step(t) PROVE WakeupInv'
  BY <1>3, WakeupStep
<1>4. CASE UNCHANGED vars
  BY <1>4 DEF vars, lifecycle, scan, WakeupInv, Exhausted
<1> QED BY <1>1, <1>2, <1>3, <1>4 DEF Next

\* No wake-up is lost on notify and notify_remote: a call that sleeps although
\* its pool has usable hardware is never the last one awake in that pool.
THEOREM NoWakeupLost == Spec => []NoLostWakeup
<1>1. Init => WakeupInv
  BY DEF Init, WakeupInv, Exhausted
<1>2. TypeOK /\ SlotInv /\ WakeupInv /\ [Next]_vars => WakeupInv'
  BY WakeupNext
<1>3. TypeOK /\ WakeupInv => NoLostWakeup
  <2> SUFFICES ASSUME TypeOK, WakeupInv, NEW p \in Pools, NEW t \in Threads,
                      Asleep(t, p), Usable(p)
               PROVE  \E u \in Threads : /\ pool[u] = p
                                         /\ pc[u] \in InService \cup {"scan"}
                                         /\ ~Asleep(u, p)
    BY DEF NoLostWakeup
  <2>1. ASSUME NEW u \in Threads, Asleep(u, p) PROVE Exhausted(u, p)
    <3>1. PICK n \in 1 .. Len(list[p]) : num_max[list[p][n]] > 0
      BY DEF Usable
    <3>2. n < at[u]
      BY <2>1, <3>1 DEF Asleep, TypeOK
    <3> QED BY <2>1, <3>1, <3>2 DEF Asleep, Exhausted
  <2>2. Hope(p)
    BY <2>1, WakeupInvOf
  <2>3. ~(sem[p] > 0)
    BY DEF Asleep
  <2>4. PICK u \in Threads : Awake(u, p)
    BY <2>2, <2>3 DEF Hope
  <2>5. ~Asleep(u, p)
    BY <2>1, <2>4 DEF Awake, Asleep, InService
  <2> QED BY <2>4, <2>5 DEF Awake
<1> QED BY <1>1, <1>2, <1>3, TypeCorrect, SlotInvariant, PTL DEF Spec


-----------------------------------------------------------------------------
(* Dcurl implements PowService. *)

\* A call in service is in an implementation that was initialised and has room; only
\* the remote pool has a fallback.
ServiceInv ==
    \A t \in Threads :
        /\ pc[t] \in InService => impl[t] \in runtime_caps /\ num_max[impl[t]] > 0
        /\ fallback[t] => pool[t] = "remote"

LEMMA ServiceStep ==
    ASSUME TypeOK, SlotInv, AnswerInv, ServiceInv, [Next]_vars
    PROVE  ServiceInv'
<1> USE DEF ServiceInv
<1>1. CASE DcurlInit
  BY <1>1 DEF DcurlInit, Quiescent, Idle, InService, scan, frame
<1>2. CASE DcurlDestroy
  BY <1>2 DEF DcurlDestroy, Quiescent, Idle, InService, scan, frame
<1>3. ASSUME NEW t \in Threads, Call(t) \/ CallRefused(t) PROVE ServiceInv'
  <2>1. ~fallback[t]
    BY <1>3 DEF AnswerInv, DataInv, Call, CallRefused, StartCall, Idle
  <2> QED
    BY <1>3, <2>1 DEF Call, CallRefused, lifecycle, scan, InService, TypeOK
<1>4. ASSUME NEW t \in Threads, Step(t) PROVE ServiceInv'
  <2>1. UNCHANGED lifecycle
    BY <1>4 DEF Step, SkipFull, Enter, SemWait, GetContext, FillContext, PowSucceeds,
                PowFails, GetResult, FreeContext, ExitImpl, PostNotify
  <2>2. ASSUME NEW u \in Threads, u # t
        PROVE  /\ pc'[u] = pc[u] /\ impl'[u] = impl[u]
               /\ pool'[u] = pool[u] /\ fallback'[u] = fallback[u]
    BY <1>4, <2>2, OthersKept
  <2>3. CASE Enter(t)
    <3>1. Entry(t) \in runtime_caps
      BY <2>3 DEF Enter, Scanning, Entry, SlotInv, ListsExact, TypeOK
    <3>2. num_max[Entry(t)] > 0
      <4>1. Entry(t) \in Impls
        BY <3>1 DEF TypeOK
      <4> QED
        BY <2>3, <4>1 DEF Enter, HasRoom, TypeOK
    <3>3. impl'[t] = Entry(t) /\ fallback' = fallback /\ pool' = pool
      BY <2>3 DEF Enter, scan, TypeOK
    <3> QED
      BY <2>1, <2>2, <3>1, <3>2, <3>3 DEF lifecycle
  <2>4. CASE ~Enter(t)
    <3>1. /\ pc'[t] \in InService => pc[t] \in InService /\ impl'[t] = impl[t]
          /\ fallback'[t] => pool'[t] = "remote"
      BY <1>4, <2>4 DEF Step, SkipFull, SemWait, GetContext, FillContext, PowSucceeds,
                        PowFails, AfterFailure, GetResult, FreeContext, ExitImpl,
                        PostNotify, scan, frame, InService, TypeOK
    <3> QED
      BY <2>1, <2>2, <3>1 DEF lifecycle
  <2> QED
    BY <2>3, <2>4
<1>5. CASE UNCHANGED vars
  BY <1>5 DEF vars, lifecycle, scan, frame
<1> QED
  BY <1>1, <1>2, <1>3, <1>4, <1>5 DEF Next

\* The state of PowService.
APlaces == [p \in Pools |-> Places(p)]
AState == [t \in Threads |-> StateOf(t)]
APlace == [t \in Threads |-> PlaceOf(t)]
ARetried == [t \in Threads |-> RetriedOf(t)]
AAnswer == [t \in Threads |-> AnswerOf(t)]

\* The places depend on what dcurl_init found only.
LEMMA PlacesKept ==
    ASSUME UNCHANGED lifecycle
    PROVE  /\ APlaces' = APlaces
           /\ is_initialized' = is_initialized
           /\ FirstPool' = FirstPool
BY DEF lifecycle, APlaces, Places, FirstPool

\* A step of a call changes what PowService sees of its own thread only.
LEMMA OneMoves ==
    ASSUME TypeOK, NEW t \in Threads, Step(t)
    PROVE  /\ AState' = [AState EXCEPT ![t] = StateOf(t)']
           /\ APlace' = [APlace EXCEPT ![t] = PlaceOf(t)']
           /\ ARetried' = [ARetried EXCEPT ![t] = RetriedOf(t)']
           /\ AAnswer' = [AAnswer EXCEPT ![t] = AnswerOf(t)']
           /\ UNCHANGED <<is_initialized, APlaces, FirstPool, calls>>
<1>1. UNCHANGED lifecycle
  BY DEF Step, SkipFull, Enter, SemWait, GetContext, FillContext, PowSucceeds,
         PowFails, GetResult, FreeContext, ExitImpl, PostNotify
<1>2. UNCHANGED <<is_initialized, APlaces, FirstPool, calls>>
  BY <1>1, PlacesKept, CallKept
<1>3. ASSUME NEW u \in Threads, u # t
      PROVE  /\ StateOf(u)' = StateOf(u) /\ PlaceOf(u)' = PlaceOf(u)
             /\ RetriedOf(u)' = RetriedOf(u) /\ AnswerOf(u)' = AnswerOf(u)
  <2>1. /\ pc'[u] = pc[u] /\ pool'[u] = pool[u] /\ impl'[u] = impl[u]
        /\ slot'[u] = slot[u] /\ answer'[u] = answer[u]
    BY <1>3, OthersKept
  <2> QED
    BY <1>2, <2>1 DEF StateOf, PlaceOf, RetriedOf, AnswerOf, Idle
<1> QED
  BY <1>2, <1>3 DEF AState, APlace, ARetried, AAnswer

\* A call in service is in a pool that its kind of place names.
LEMMA TierOf ==
    ASSUME TypeOK, SlotInv, ServiceInv, NEW t \in Threads, pc[t] \in InService
    PROVE  Service!Tier(t) = pool[t]
<1>1. impl[t] \in runtime_caps /\ num_max[impl[t]] > 0 /\ PoolOf(impl[t]) = pool[t]
  BY DEF ServiceInv, SlotInv, ListsExact
<1>2. ~Idle(t)
  BY DEF InService, Idle
<1>3. impl[t] \in Impls /\ num_max[impl[t]] \in 0 .. IntBits
  BY DEF TypeOK
<1>4. CASE pool[t] = "remote"
  <2>1. impl[t] = "remote"
    BY <1>1, <1>4 DEF PoolOf
  <2>2. FirstPool = "remote" /\ ~RetriedOf(t)
    BY <1>1, <1>4, <2>1 DEF FirstPool, RetriedOf
  <2>3. <<"remote", 0>> \in Places("remote")
    BY <1>1, <1>3, <2>1, BoundAssumption DEF Places, PoolOf, Slots
  <2> QED
    BY <1>4, <2>2, <2>3 DEF Service!Tier, Pools
<1>5. CASE pool[t] = "local"
  <2>1. CASE FirstPool = "remote"
    BY <1>2, <1>5, <2>1 DEF Service!Tier, RetriedOf
  <2>2. CASE FirstPool = "local"
    <3>1. Places("remote") = {}
      BY <2>2 DEF FirstPool, Places, PoolOf
    <3> QED
      BY <1>5, <3>1 DEF Service!Tier, Pools
  <2> QED
    BY <2>1, <2>2 DEF FirstPool
<1> QED
  BY <1>4, <1>5 DEF TypeOK, Pools

\* The steps that callers see, one by one.
LEMMA AdmitStep ==
    ASSUME TypeOK, SlotInv, ServiceInv, SlotInv', NEW t \in Threads, GetContext(t)
    PROVE  Service!Admit(t)
<1>1. Step(t)
  BY DEF Step
<1>2. /\ pc[t] = "get" /\ pc'[t] = "fill" /\ UNCHANGED <<impl, pool, answer>>
      /\ num_max' = num_max /\ runtime_caps' = runtime_caps
  BY DEF GetContext, TypeOK, lifecycle, scan
<1>3. StateOf(t) = "waiting" /\ StateOf(t)' = "serving"
  BY <1>2 DEF StateOf, Idle, Owning
<1>4. PlaceOf(t)' = <<impl[t], slot'[t]>>
  BY <1>2 DEF PlaceOf, Owning
<1>5. RetriedOf(t)' = RetriedOf(t) /\ AnswerOf(t)' = AnswerOf(t)
  BY <1>1, <1>2, OneMoves DEF RetriedOf, AnswerOf, Idle
<1>6. <<impl[t], slot'[t]>> \in Places(pool[t])
  <2>1. slot'[t] \in 0 .. num_max[impl[t]] - 1
    BY <1>2 DEF SlotInv, SlotAlwaysFound, Owning
  <2>2. impl[t] \in runtime_caps /\ PoolOf(impl[t]) = pool[t] /\ impl[t] \in Impls
    BY <1>2 DEF ServiceInv, SlotInv, ListsExact, InService, TypeOK
  <2>3. slot'[t] \in Slots /\ slot'[t] < num_max[impl[t]]
    BY <2>1, <2>2, BoundAssumption DEF TypeOK, Slots
  <2> QED
    BY <2>2, <2>3 DEF Places
<1>7. <<impl[t], slot'[t]>> \notin Service!Taken
  <2> SUFFICES ASSUME NEW u \in Threads, StateOf(u) = "serving",
                      PlaceOf(u) = <<impl[t], slot'[t]>>
               PROVE  FALSE
    BY DEF Service!Taken
  <2>1. pc[u] \in Owning
    BY DEF StateOf
  <2>2. u # t
    BY <1>2, <2>1 DEF Owning
  <2>3. pc'[u] = pc[u] /\ impl'[u] = impl[u] /\ slot'[u] = slot[u]
    BY <1>1, <2>2, OthersKept
  <2>4. impl[u] = impl[t] /\ slot[u] = slot'[t]
    BY <2>1 DEF PlaceOf
  <2> QED
    BY <1>2, <2>1, <2>2, <2>3, <2>4 DEF SlotInv, ContextExclusive, Owning
<1>8. Service!Tier(t) = pool[t]
  BY <1>2, TierOf DEF InService
<1>9. pool[t] \in Pools
  BY DEF TypeOK
<1> QED
  BY <1>1, <1>3, <1>4, <1>5, <1>6, <1>7, <1>8, <1>9, OneMoves
     DEF Service!Admit, AState, APlace, ARetried, AAnswer, APlaces

LEMMA FreedStep ==
    ASSUME TypeOK, NEW t \in Threads, FreeContext(t)
    PROVE  Service!Release(t)
<1>1. Step(t)
  BY DEF Step
<1>2. pc[t] = "free" /\ pc'[t] = "exit" /\ UNCHANGED <<pool, answer>>
  BY DEF FreeContext, TypeOK, scan, frame
<1>3. /\ StateOf(t) = "serving" /\ StateOf(t)' = "leaving" /\ PlaceOf(t)' = None
  BY <1>2 DEF StateOf, PlaceOf, Idle, Owning
<1>4. RetriedOf(t)' = RetriedOf(t) /\ AnswerOf(t)' = AnswerOf(t)
  BY <1>1, <1>2, OneMoves DEF RetriedOf, AnswerOf, Idle
<1> QED
  BY <1>1, <1>3, <1>4, OneMoves
     DEF Service!Release, AState, APlace, ARetried, AAnswer, APlaces

LEMMA LeaveStep ==
    ASSUME TypeOK, SlotInv, ServiceInv, AnswerInv, NEW t \in Threads, PostNotify(t)
    PROVE  Service!Retry(t) \/ Service!Return(t)
<1>1. Step(t)
  BY DEF Step
<1>2. pc[t] = "post" /\ answer' = answer
  BY DEF PostNotify
<1>3. StateOf(t) = "leaving" /\ PlaceOf(t) = None /\ Service!Tier(t) = pool[t]
  BY <1>2, TierOf DEF StateOf, PlaceOf, Idle, Owning, InService
<1>4. CASE fallback[t]
  <2>1. pc'[t] = "scan" /\ pool'[t] = "local"
    BY <1>4 DEF PostNotify, RetryPool, TypeOK
  <2>2. pool[t] = "remote"
    BY <1>4 DEF ServiceInv
  <2>3. FirstPool = "remote" /\ FirstPool' = FirstPool
    <3>1. "remote" \in runtime_caps
      BY <1>2, <2>2 DEF ServiceInv, SlotInv, ListsExact, InService, PoolOf
    <3> QED
      BY <1>1, <3>1, OneMoves DEF FirstPool
  <2>4. /\ StateOf(t)' = "waiting" /\ RetriedOf(t)'
        /\ PlaceOf(t)' = PlaceOf(t) /\ AnswerOf(t)' = AnswerOf(t)
    BY <1>2, <2>1, <2>3 DEF StateOf, RetriedOf, PlaceOf, AnswerOf, Idle, Owning
  <2>5. Service!Retry(t)
    BY <1>1, <1>3, <2>2, <2>4, OneMoves
       DEF Service!Retry, AState, APlace, ARetried, AAnswer, APlaces
  <2> QED
    BY <2>5
<1>5. CASE ~fallback[t]
  <2>1. pc'[t] = "idle" /\ pool' = pool
    BY <1>5 DEF PostNotify, TypeOK
  <2>2. /\ StateOf(t)' = "out" /\ RetriedOf(t)' = FALSE /\ PlaceOf(t)' = PlaceOf(t)
        /\ AnswerOf(t)' = answer[t]
    BY <1>2, <2>1 DEF StateOf, RetriedOf, PlaceOf, AnswerOf, Idle, Owning
  <2>3. answer[t] \in Service!Answers(t)
    <3>1. ResultOf(t) /\ ~Idle(t)
      BY <1>2, AnswerInvOf DEF Idle
    <3> QED
      BY <1>3, <3>1 DEF ResultOf, Service!Answers, Service!Job, Job
  <2>4. Service!Return(t)
    BY <1>1, <1>3, <2>2, <2>3, OneMoves
       DEF Service!Return, AState, APlace, ARetried, AAnswer, APlaces
  <2> QED
    BY <2>4
<1> QED
  BY <1>4, <1>5

\* The other steps of a call are not seen.
LEMMA HiddenStep ==
    ASSUME TypeOK, NEW t \in Threads, Step(t),
           ~GetContext(t), ~FreeContext(t), ~PostNotify(t)
    PROVE  UNCHANGED Service!vars
<1>1. /\ pool'[t] = pool[t] /\ ~Idle(t) /\ ~Idle(t)'
      /\ pc[t] \in Owning <=> pc'[t] \in Owning
      /\ pc[t] \in {"scan", "get"} <=> pc'[t] \in {"scan", "get"}
      /\ pc[t] \in Owning => UNCHANGED <<impl, slot>>
  BY DEF Step, SkipFull, Enter, SemWait, Scanning, FillContext, PowSucceeds, PowFails,
         AfterFailure, GetResult, ExitImpl, scan, frame, Idle, Owning, TypeOK
<1>2. /\ StateOf(t)' = StateOf(t) /\ PlaceOf(t)' = PlaceOf(t)
      /\ AnswerOf(t)' = AnswerOf(t) /\ RetriedOf(t)' = RetriedOf(t)
  BY <1>1, OneMoves DEF StateOf, PlaceOf, AnswerOf, RetriedOf
<1>3. /\ AState' = AState /\ APlace' = APlace
      /\ ARetried' = ARetried /\ AAnswer' = AAnswer
  BY <1>2, OneMoves DEF AState, APlace, ARetried, AAnswer
<1> QED
  BY <1>3, OneMoves DEF Service!vars, AState, APlace, ARetried, AAnswer, APlaces

\* A call that starts, or is refused.
LEMMA AskStep ==
    ASSUME TypeOK, NEW t \in Threads, Call(t) \/ CallRefused(t)
    PROVE  Service!Ask(t)
<1>1. /\ Idle(t) /\ calls[t] < MaxCalls
      /\ calls' = [calls EXCEPT ![t] = @ + 1]
      /\ answer' = [answer EXCEPT ![t] = None]
      /\ UNCHANGED lifecycle
  BY DEF Call, CallRefused, StartCall
<1>2. UNCHANGED <<is_initialized, APlaces, FirstPool>>
  BY <1>1, PlacesKept
<1>3. ASSUME NEW u \in Threads, u # t
      PROVE  /\ StateOf(u)' = StateOf(u) /\ PlaceOf(u)' = PlaceOf(u)
             /\ RetriedOf(u)' = RetriedOf(u) /\ AnswerOf(u)' = AnswerOf(u)
  <2>1. /\ pc'[u] = pc[u] /\ pool'[u] = pool[u] /\ impl'[u] = impl[u]
        /\ slot'[u] = slot[u] /\ answer'[u] = answer[u]
    BY <1>1, <1>3 DEF Call, CallRefused, scan, TypeOK
  <2> QED
    BY <1>2, <2>1 DEF StateOf, PlaceOf, RetriedOf, AnswerOf, Idle
<1>4. StateOf(t) = "out" /\ PlaceOf(t) = None /\ RetriedOf(t) = FALSE
  BY <1>1 DEF StateOf, PlaceOf, RetriedOf, Idle, Owning
<1>5. /\ StateOf(t)' = IF is_initialized THEN "waiting" ELSE "out"
      /\ PlaceOf(t)' = None /\ RetriedOf(t)' = FALSE /\ AnswerOf(t)' = None
  <2>1. CASE Call(t)
    <3>1. is_initialized /\ pc'[t] = "scan" /\ pool'[t] = FirstPool /\ answer'[t] = None
      BY <1>1, <2>1 DEF Call, TypeOK
    <3> QED
      BY <1>2, <3>1 DEF StateOf, PlaceOf, RetriedOf, AnswerOf, Idle, Owning
  <2>2. CASE CallRefused(t)
    <3>1. ~is_initialized /\ pc'[t] = "idle" /\ answer'[t] = None
      BY <1>1, <2>2 DEF CallRefused, Idle, TypeOK
    <3> QED
      BY <3>1 DEF StateOf, PlaceOf, RetriedOf, AnswerOf, Idle, Owning
  <2> QED
    BY <2>1, <2>2
<1>6. /\ AState' = [AState EXCEPT ![t] = IF is_initialized THEN "waiting" ELSE "out"]
      /\ APlace' = APlace /\ ARetried' = ARetried
      /\ AAnswer' = [AAnswer EXCEPT ![t] = None]
  BY <1>3, <1>4, <1>5 DEF AState, APlace, ARetried, AAnswer
<1> QED
  BY <1>1, <1>2, <1>4, <1>6 DEF Service!Ask, AState, APlace, ARetried, AAnswer, APlaces

\* While no call is in progress PowService sees the answers only.
LEMMA AtRest ==
    ASSUME Quiescent, Quiescent', UNCHANGED answer
    PROVE  /\ Service!AllOut
           /\ AState' = AState /\ APlace' = APlace
           /\ ARetried' = ARetried /\ AAnswer' = AAnswer
BY DEF Quiescent, Idle, Service!AllOut, AState, APlace, ARetried, AAnswer, StateOf,
       PlaceOf, RetriedOf, AnswerOf, Owning

LEMMA StartOrStop ==
    ASSUME DcurlInit \/ DcurlDestroy
    PROVE  Service!Start \/ Service!Stop
<1>1. Quiescent /\ Quiescent' /\ UNCHANGED <<answer, calls>>
  BY DEF DcurlInit, DcurlDestroy, Quiescent, Idle, frame
<1>2. CASE DcurlInit
  <2>1. APlaces = Service!NoPlaces
    BY <1>2 DEF DcurlInit, APlaces, Places, Service!NoPlaces, Pools
  <2>2. is_initialized' \in BOOLEAN
    BY <1>2 DEF DcurlInit
  <2>3. APlaces'["local"] \cap APlaces'["remote"] = {}
    BY DEF APlaces, Places, Pools
  <2>4. APlaces' # Service!NoPlaces => is_initialized'
    <3>1. is_initialized' = (runtime_caps' # {})
      BY <1>2 DEF DcurlInit
    <3>2. runtime_caps' = {} => \A p \in Pools : Places(p)' = {}
      BY DEF Places
    <3>3. runtime_caps' = {} => APlaces' = Service!NoPlaces
      BY <3>2 DEF APlaces, Service!NoPlaces, Pools
    <3> QED
      BY <3>1, <3>3
  <2> QED
    BY <1>1, <2>1, <2>2, <2>3, <2>4, AtRest
       DEF Service!Start, AState, APlace, ARetried, AAnswer, APlaces
<1>3. CASE DcurlDestroy
  <2>1. APlaces' = Service!NoPlaces /\ is_initialized' = is_initialized
    BY <1>3 DEF DcurlDestroy, APlaces, Places, Service!NoPlaces, Pools
  <2> QED
    BY <1>1, <2>1, AtRest DEF Service!Stop, AState, APlace, ARetried, AAnswer, APlaces
<1> QED
  BY <1>2, <1>3

LEMMA Unseen ==
    ASSUME UNCHANGED vars
    PROVE  UNCHANGED Service!vars
BY DEF vars, lifecycle, scan, frame, Service!vars, Places, StateOf, PlaceOf, RetriedOf,
       AnswerOf, Idle, FirstPool

\* ServiceSpec: the lists, locks, bitmaps and semaphores of dcurl.c and implcontext.c
\* give the callers the exclusive places, the order of the pools, the one retry and
\* the answers of PowService, for any threads, builds and capacities.
THEOREM ServiceRefined == Spec => ServiceSpec
<1>1. Init => AnswerInv /\ ServiceInv
  BY DEF Init, AnswerInv, DataInv, ResultIsOwn, ServiceInv, InService
<1>2. TypeOK /\ SlotInv /\ AnswerInv /\ [Next]_vars => AnswerInv'
  BY AnswerNext
<1>3. TypeOK /\ SlotInv /\ AnswerInv /\ ServiceInv /\ [Next]_vars => ServiceInv'
  BY ServiceStep
<1>4. Init => Service!Init
  BY DEF Init, Service!Init, Service!NoPlaces, Places, Pools, StateOf, PlaceOf,
         RetriedOf, AnswerOf, Idle, Owning
<1>5. ASSUME TypeOK, SlotInv, SlotInv', AnswerInv, ServiceInv, [Next]_vars
      PROVE  [Service!Next]_(Service!vars)
  <2>1. ASSUME NEW t \in Threads, Step(t)
        PROVE  \/ Service!Admit(t) \/ Service!Release(t) \/ Service!Retry(t)
               \/ Service!Return(t) \/ UNCHANGED Service!vars
    BY <1>5, <2>1, AdmitStep, FreedStep, LeaveStep, HiddenStep
  <2> QED
    BY <1>5, <2>1, StartOrStop, AskStep, Unseen DEF Next, Service!Next
<1> QED
  BY <1>1, <1>2, <1>3, <1>4, <1>5, TypeCorrect, SlotInvariant, PTL
     DEF Spec, ServiceSpec, Service!Spec

=============================================================================
