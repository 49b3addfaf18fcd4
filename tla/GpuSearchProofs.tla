--------------------------- MODULE GpuSearchProofs ---------------------------
(***************************************************************************)
(* Proofs about GpuSearch, for any number of groups, items, lanes, rounds  *)
(* and calls.                                                              *)
(***************************************************************************)
EXTENDS GpuSearch, TLAPS

\* What is stored in found is a char.
LEMMA CharType ==
    ASSUME NEW x \in Int
    PROVE  Char(x) \in -CharMax - 1 .. CharMax
<1>1. CharMax \in Nat
  BY GpuAssumption
<1>2. (x + CharMax + 1) % (2 * CharMax + 2) \in 0 .. 2 * CharMax + 1
  BY <1>1
<1> QED
  BY <1>1, <1>2 DEF Char

\* On a device with few groups found names the group that set it.
LEMMA CharOfFew ==
    ASSUME FewGroups, NEW g \in Groups
    PROVE  FoundBy(g) = g + 1
<1>1. CharMax \in Nat /\ g + 1 \in 1 .. CharMax
  BY GpuAssumption DEF FewGroups, Groups
<1>2. g + 1 + CharMax + 1 \in 0 .. 2 * CharMax + 1
  BY <1>1
<1>3. (g + 1 + CharMax + 1) % (2 * CharMax + 2) = g + 1 + CharMax + 1
  BY <1>1, <1>2
<1> QED
  BY <1>1, <1>3 DEF FoundBy, Char

\* Group 0, which the host writes, exists on every device.
LEMMA GroupZero == 0 \in Groups /\ Groups \subseteq Int /\ Leader \in Items
BY GpuAssumption DEF Groups, Items, Leader

\* The trits read off several lanes are trits.
LEMMA CombinedType ==
    ASSUME NEW lanes
    PROVE  Combined(lanes) \in [Offsets -> {-1, 0, 1}]
BY DEF Combined

\* A state that is incremented keeps its call and stays a state.
LEMMA IncrementedType ==
    ASSUME TypeOK, NEW g \in Groups
    PROVE  Incremented(g) \in Mids /\ Incremented(g).call = mid[g].call
<1>1. mid[g] \in Mids /\ MaxIter \in Nat
  BY GpuAssumption DEF TypeOK
<1> QED
  BY <1>1 DEF Mids, Incremented

-----------------------------------------------------------------------------
(* Type correctness. *)

\* Every step of the host keeps the types.
LEMMA HostType == TypeOK /\ Host => TypeOK'
<1> SUFFICES ASSUME TypeOK, Host
             PROVE  TypeOK'
  OBVIOUS
<1> USE GpuAssumption
<1>1. CASE PowBegin
  <2>1. call + 1 \in 0 .. MaxCalls
    BY <1>1 DEF PowBegin, TypeOK
  <2>2. [call |-> call + 1, k |-> 0, valid |-> TRUE] \in Mids
    BY <2>1 DEF Mids
  <2>3. mid' \in [Groups -> Mids]
    BY <1>1, <2>2 DEF PowBegin, TypeOK
  <2> QED
    BY <1>1, <2>1, <2>3 DEF PowBegin, TypeOK
<1>2. CASE PowFails
  BY <1>2 DEF PowFails, TypeOK, groupVars
<1>3. CASE LaunchInit
  BY <1>3 DEF LaunchInit, TypeOK
<1>4. CASE LaunchSearch
  BY <1>4 DEF LaunchSearch, TypeOK
<1>5. CASE Finalize
  <2>1. trit_hash' \in Nonces \cup {None}
    <3>1. CASE FinalGroup \in Groups /\ nonce_probe[FinalGroup] # None
      <4>1. mid[FinalGroup] \in Mids /\ nonce_probe[FinalGroup] \in Probes
        BY <3>1 DEF TypeOK
      <4>2. trit_hash' = [mid |-> mid[FinalGroup],
                          trits |-> Combined(nonce_probe[FinalGroup].lanes),
                          probe |-> nonce_probe[FinalGroup]]
        BY <1>5, <3>1 DEF Finalize
      <4> QED
        BY <4>1, <4>2, CombinedType DEF Nonces
    <3>2. CASE ~(FinalGroup \in Groups /\ nonce_probe[FinalGroup] # None)
      <4>1. trit_hash' = trit_hash
        BY <1>5, <3>2 DEF Finalize
      <4> QED
        BY <4>1 DEF TypeOK
    <3> QED
      BY <3>1, <3>2
  <2>2. /\ host' = "final"
        /\ UNCHANGED <<call, endless, output, res, groupVars, found>>
    BY <1>5 DEF Finalize
  <2> QED
    BY <2>1, <2>2 DEF TypeOK, groupVars
<1>6. CASE ReadResult
  BY <1>6 DEF ReadResult, TypeOK, groupVars
<1> QED
  BY <1>1, <1>2, <1>3, <1>4, <1>5, <1>6 DEF Host

\* Every step of a kernel keeps the types.
LEMMA GroupType ==
    ASSUME TypeOK, NEW g \in Groups, Group(g)
    PROVE  TypeOK'
<1> USE GpuAssumption
<1>1. CASE InitGroup(g)
  <2>1. mid' \in [Groups -> Mids]
    <3>1. CASE g = 0
      BY <1>1, <3>1 DEF InitGroup, TypeOK
    <3>2. CASE g # 0
      <4>1. PICK torn \in BOOLEAN :
                mid' = [mid EXCEPT ![g] = [mid[0] EXCEPT !.valid = ~torn]]
        BY <1>1, <3>2 DEF InitGroup
      <4>2. mid[0] \in Mids
        BY GroupZero DEF TypeOK
      <4>3. [mid[0] EXCEPT !.valid = ~torn] \in Mids
        BY <4>2 DEF Mids
      <4> QED
        BY <4>1, <4>3 DEF TypeOK
    <3> QED
      BY <3>1, <3>2
  <2>2. found' \in -CharMax - 1 .. CharMax
    <3>1. found' = 0 \/ found' = found
      BY <1>1 DEF InitGroup, FoundReset
    <3>2. 0 \in -CharMax - 1 .. CharMax
      OBVIOUS
    <3> QED
      BY <3>1, <3>2 DEF TypeOK
  <2>3. phase' \in [Groups -> {"off", "init", "hash", "look"}]
    BY <1>1 DEF InitGroup, TypeOK
  <2>4. UNCHANGED <<hostVars, round, left, looked, nonce_probe>>
    BY <1>1 DEF InitGroup
  <2> QED
    BY <2>1, <2>2, <2>3, <2>4 DEF TypeOK, hostVars
<1>2. CASE Miss(g)
  <2>1. mid' \in [Groups -> Mids]
    BY <1>2, IncrementedType DEF Miss, TypeOK
  <2>2. nonce_probe' \in [Groups -> Probes \cup {None}]
    BY <1>2 DEF Miss, TypeOK
  <2>3. phase' \in [Groups -> {"off", "init", "hash", "look"}]
    BY <1>2 DEF Miss, NextRound, TypeOK
  <2>4. UNCHANGED <<hostVars, round, left, looked, found>>
    BY <1>2 DEF Miss
  <2> QED
    BY <2>1, <2>2, <2>3, <2>4 DEF TypeOK, hostVars
<1>3. CASE Hit(g)
  <2>1. mid' \in [Groups -> Mids]
    BY <1>3, IncrementedType DEF Hit, TypeOK
  <2>2. nonce_probe' \in [Groups -> Probes \cup {None}]
    <3>1. PICK lanes \in SUBSET Lanes :
              nonce_probe' = [nonce_probe EXCEPT ![g] =
                  [mid |-> Incremented(g), lanes |-> lanes, whole |-> left[g] = {}]]
      BY <1>3 DEF Hit
    <3>2. [mid |-> Incremented(g), lanes |-> lanes, whole |-> left[g] = {}] \in Probes
      BY IncrementedType DEF Probes
    <3> QED
      BY <3>1, <3>2 DEF TypeOK
  <2>3. phase' \in [Groups -> {"off", "init", "hash", "look"}]
    BY <1>3 DEF Hit, NextRound, TypeOK
  <2>4. found' \in -CharMax - 1 .. CharMax
    BY <1>3, CharType, GroupZero DEF Hit, FoundBy
  <2>5. UNCHANGED <<hostVars, round, left, looked>>
    BY <1>3 DEF Hit
  <2> QED
    BY <2>1, <2>2, <2>3, <2>4, <2>5 DEF TypeOK, hostVars
<1>4. CASE NoLeader(g)
  BY <1>4 DEF NoLeader, NextRound, TypeOK, hostVars
<1>5. ASSUME NEW i \in Items, Look(g, i)
      PROVE  TypeOK'
  <2>1. /\ left' \in [Groups -> SUBSET Items]
        /\ looked' \in [Groups -> SUBSET Items]
        /\ \A h \in Groups : left'[h] \cap looked'[h] = {}
    BY <1>5 DEF Look, TypeOK
  <2>2. UNCHANGED <<hostVars, phase, round, mid, nonce_probe, found>>
    BY <1>5 DEF Look
  <2> QED
    BY <2>1, <2>2 DEF TypeOK, hostVars
<1>6. CASE EndRound(g)
  <2>1. round' \in [Groups -> 0 .. LoopCount - 1]
    <3>1. (round[g] + 1) % LoopCount \in 0 .. LoopCount - 1
      BY DEF TypeOK
    <3> QED
      BY <1>6, <3>1 DEF EndRound, Rounds, TypeOK
  <2>2. /\ looked' \in [Groups -> SUBSET Items]
        /\ \A h \in Groups : left[h] \cap looked'[h] = {}
    BY <1>6 DEF EndRound, TypeOK
  <2>3. phase' \in [Groups -> {"off", "init", "hash", "look"}]
    BY <1>6 DEF EndRound, TypeOK
  <2>4. UNCHANGED <<hostVars, left, mid, nonce_probe, found>>
    BY <1>6 DEF EndRound
  <2> QED
    BY <2>1, <2>2, <2>3, <2>4 DEF TypeOK, hostVars
<1> QED
  BY <1>1, <1>2, <1>3, <1>4, <1>5, <1>6 DEF Group

\* The types are those declared, whatever the size of the device, with found
\* within a char also where group numbers are not.
THEOREM TypeCorrect == Spec => []TypeOK
<1>1. Init => TypeOK
  <2> SUFFICES ASSUME Init
               PROVE  TypeOK
    OBVIOUS
  <2>1. [call |-> 0, k |-> 0, valid |-> FALSE] \in Mids
    BY GpuAssumption DEF Mids
  <2>2. 0 \in -CharMax - 1 .. CharMax /\ 0 \in 0 .. LoopCount - 1 /\ 0 \in 0 .. MaxCalls
    BY GpuAssumption
  <2> QED
    BY <2>1, <2>2 DEF Init, TypeOK
<1>2. TypeOK /\ UNCHANGED vars => TypeOK'
  BY DEF TypeOK, vars, hostVars, groupVars
<1>3. TypeOK /\ [Next]_vars => TypeOK'
  BY <1>2, HostType, GroupType DEF Next
<1> QED
  BY <1>1, <1>3, PTL DEF Spec

-----------------------------------------------------------------------------
(* Kernels and host take turns. *)

\* One step of a group leaves the other groups alone.
LEMMA OthersUnchanged ==
    ASSUME TypeOK, NEW g \in Groups, Group(g), NEW h \in Groups, h # g
    PROVE  /\ phase'[h] = phase[h] /\ left'[h] = left[h] /\ looked'[h] = looked[h]
           /\ mid'[h] = mid[h] /\ nonce_probe'[h] = nonce_probe[h]
<1>1. CASE InitGroup(g)
  BY <1>1 DEF InitGroup, TypeOK
<1>2. CASE Miss(g)
  BY <1>2 DEF Miss, NextRound, TypeOK
<1>3. CASE Hit(g)
  BY <1>3 DEF Hit, NextRound, TypeOK
<1>4. CASE NoLeader(g)
  BY <1>4 DEF NoLeader, NextRound, TypeOK
<1>5. ASSUME NEW i \in Items, Look(g, i)
      PROVE  /\ phase'[h] = phase[h] /\ left'[h] = left[h] /\ looked'[h] = looked[h]
             /\ mid'[h] = mid[h] /\ nonce_probe'[h] = nonce_probe[h]
  BY <1>5 DEF Look, TypeOK
<1>6. CASE EndRound(g)
  BY <1>6 DEF EndRound, TypeOK
<1> QED
  BY <1>1, <1>2, <1>3, <1>4, <1>5, <1>6 DEF Group

\* A kernel step leaves the host alone.
LEMMA HostUnchanged ==
    ASSUME NEW g \in Groups, Group(g)
    PROVE  UNCHANGED hostVars
BY DEF Group, InitGroup, Miss, Hit, NoLeader, Look, EndRound

\* A group is in the phases of the kernel that the host launched.
LEMMA KernelStep == TypeOK /\ KernelInv /\ [Next]_vars => KernelInv'
<1> SUFFICES ASSUME TypeOK, KernelInv, [Next]_vars
             PROVE  KernelInv'
  OBVIOUS
<1> USE DEF KernelInv
<1>1. CASE PowBegin
  BY <1>1 DEF PowBegin
<1>2. CASE PowFails
  BY <1>2 DEF PowFails, KernelDone, groupVars
<1>3. CASE LaunchInit
  BY <1>3 DEF LaunchInit
<1>4. CASE LaunchSearch
  BY <1>4 DEF LaunchSearch
<1>5. CASE Finalize
  BY <1>5 DEF Finalize, KernelDone, groupVars
<1>6. CASE ReadResult
  BY <1>6 DEF ReadResult, groupVars
<1>7. ASSUME NEW g \in Groups, Group(g)
      PROVE  KernelInv'
  <2>1. /\ phase'[g] # "init"
        /\ phase'[g] \in {"hash", "look"} => phase[g] \in {"hash", "look"}
        /\ phase'[g] = "hash" => looked'[g] = {}
    <3>1. CASE InitGroup(g)
      BY <3>1 DEF InitGroup, TypeOK
    <3>2. CASE Miss(g) \/ Hit(g) \/ NoLeader(g)
      BY <3>2 DEF Miss, Hit, NoLeader, NextRound, TypeOK
    <3>3. CASE \E i \in Items : Look(g, i)
      BY <3>3 DEF Look, TypeOK
    <3>4. CASE EndRound(g)
      BY <3>4 DEF EndRound, TypeOK
    <3> QED
      BY <1>7, <3>1, <3>2, <3>3, <3>4 DEF Group
  <2>2. host' = host
    BY <1>7, HostUnchanged DEF hostVars
  <2> QED
    BY <1>7, <2>1, <2>2, OthersUnchanged
<1>8. CASE UNCHANGED vars
  BY <1>8 DEF vars, hostVars, groupVars
<1> QED
  BY <1>1, <1>2, <1>3, <1>4, <1>5, <1>6, <1>7, <1>8 DEF Next, Host

-----------------------------------------------------------------------------
(* What the groups search. *)

\* Every start state is made for the current call before search begins.
LEMMA StateStep == TypeOK /\ KernelInv /\ StateInv /\ [Next]_vars => StateInv'
<1> SUFFICES ASSUME TypeOK, KernelInv, StateInv, [Next]_vars
             PROVE  StateInv'
  OBVIOUS
<1> USE DEF StateInv
<1>1. CASE PowBegin
  BY <1>1, GroupZero DEF PowBegin, TypeOK
<1>2. CASE PowFails
  BY <1>2 DEF PowFails
<1>3. CASE LaunchInit
  BY <1>3 DEF LaunchInit
<1>4. CASE LaunchSearch
  BY <1>4 DEF LaunchSearch, KernelDone
<1>5. CASE Finalize
  BY <1>5 DEF Finalize, groupVars
<1>6. CASE ReadResult
  BY <1>6 DEF ReadResult
<1>7. ASSUME NEW g \in Groups, Group(g)
      PROVE  StateInv'
  <2>1. host' = host /\ call' = call
    BY <1>7, HostUnchanged DEF hostVars
  <2>2. host # "idle"
    BY <1>7 DEF KernelInv, Group, InitGroup, Miss, Hit, NoLeader, Look, EndRound
  <2>3. mid'[g].call = call
    <3>1. CASE InitGroup(g)
      <4>1. CASE g = 0
        BY <2>2, <3>1, <4>1 DEF InitGroup
      <4>2. CASE g # 0
        <5>1. PICK torn \in BOOLEAN :
                  mid' = [mid EXCEPT ![g] = [mid[0] EXCEPT !.valid = ~torn]]
          BY <3>1, <4>2 DEF InitGroup
        <5>2. mid'[g].call = mid[0].call
          BY <5>1, GroupZero DEF TypeOK, Mids
        <5> QED
          BY <2>2, <5>2
      <4> QED
        BY <4>1, <4>2
    <3>2. CASE ~InitGroup(g)
      <4>1. host = "search" /\ phase[g] # "init"
        BY <1>7, <3>2 DEF KernelInv, Group, Miss, Hit, NoLeader, Look, EndRound
      <4>2. mid'[g] = mid[g] \/ mid'[g] = Incremented(g)
        BY <1>7, <3>2 DEF TypeOK, Group, Miss, Hit, NoLeader, Look, EndRound
      <4> QED
        BY <4>1, <4>2, IncrementedType
    <3> QED
      BY <3>1, <3>2
  <2>4. \A h \in Groups : h # g => mid'[h] = mid[h] /\ phase'[h] = phase[h]
    BY <1>7, OthersUnchanged
  <2> QED
    BY <2>1, <2>2, <2>3, <2>4, GroupZero
<1>8. CASE UNCHANGED vars
  BY <1>8 DEF vars, hostVars, groupVars
<1> QED
  BY <1>1, <1>2, <1>3, <1>4, <1>5, <1>6, <1>7, <1>8 DEF Next, Host

-----------------------------------------------------------------------------
(* Who won. *)

\* found goes on naming a group with a hit whose leader does not go on. This is
\* where a group number that does not fit a char would break the search.
LEMMA FoundStep ==
    ASSUME FewGroups, TypeOK, KernelInv, FoundInv, [Next]_vars
    PROVE  FoundInv'
<1> USE DEF FoundInv
<1>1. CASE PowBegin
  BY <1>1 DEF PowBegin
<1>2. CASE PowFails
  BY <1>2 DEF PowFails
<1>3. CASE LaunchInit
  BY <1>3, GroupZero DEF LaunchInit
<1>4. CASE LaunchSearch
  <2>1. found = 0
    BY <1>4, GroupZero DEF LaunchSearch, NotFound, KernelDone
  <2> QED
    BY <1>4, <2>1 DEF LaunchSearch
<1>5. CASE Finalize
  BY <1>5 DEF Finalize, groupVars, HasHit
<1>6. CASE ReadResult
  BY <1>6 DEF ReadResult
<1>7. ASSUME NEW g \in Groups, Group(g)
      PROVE  FoundInv'
  <2>1. host' = host
    BY <1>7, HostUnchanged DEF hostVars
  <2>2. \A h \in Groups : h # g /\ HasHit(h) => HasHit(h)'
    BY <1>7, OthersUnchanged DEF HasHit
  <2>3. CASE InitGroup(g)
    <3>1. host = "init"
      BY <2>3 DEF InitGroup, KernelInv
    <3>2. CASE g = 0
      BY <2>1, <2>3, <3>1, <3>2 DEF InitGroup, FoundReset
    <3>3. CASE g # 0
      <4>1. found' = found /\ phase'[0] = phase[0]
        BY <1>7, <2>3, <3>3, GroupZero, OthersUnchanged DEF InitGroup
      <4> QED
        BY <2>1, <3>1, <4>1
    <3> QED
      BY <3>2, <3>3
  <2>4. CASE Hit(g)
    <3>1. found' = g + 1 /\ host = "search"
      BY <2>4, CharOfFew DEF Hit, KernelInv
    <3>2. HasHit(g)'
      <4>1. PICK lanes \in SUBSET Lanes :
                nonce_probe' = [nonce_probe EXCEPT ![g] =
                    [mid |-> Incremented(g), lanes |-> lanes, whole |-> left[g] = {}]]
        BY <2>4 DEF Hit
      <4>2. nonce_probe'[g] # None /\ nonce_probe'[g].mid = Incremented(g)
        <5>1. [mid |-> Incremented(g), lanes |-> lanes, whole |-> left[g] = {}] \in Probes
          BY IncrementedType DEF Probes
        <5> QED
          BY <4>1, <5>1, NoneAssumption DEF TypeOK
      <4>3. mid'[g] = Incremented(g) /\ phase'[g] = "look" /\ looked'[g] = {}
        BY <2>4 DEF Hit, NextRound, KernelInv, TypeOK
      <4> QED
        BY <4>2, <4>3 DEF HasHit
    <3>3. found' - 1 = g
      BY <3>1, GroupZero
    <3> QED
      BY <2>1, <3>1, <3>2, <3>3
  <2>5. CASE ~InitGroup(g) /\ ~Hit(g)
    <3>1. host = "search" /\ found' = found
      BY <1>7, <2>5 DEF KernelInv, Group, Miss, NoLeader, Look, EndRound
    <3>2. ASSUME found # 0, found - 1 = g
          PROVE  HasHit(g)'
      <4>1. HasHit(g)
        BY <3>1, <3>2
      <4>2. CASE Miss(g)
        BY <4>1, <4>2 DEF Miss, HasHit
      <4>3. CASE NoLeader(g)
        BY <4>1, <4>3 DEF NoLeader, NextRound, HasHit, KernelInv, TypeOK
      <4>4. ASSUME NEW i \in Items, Look(g, i)
            PROVE  HasHit(g)'
        <5>1. UNCHANGED <<phase, mid, nonce_probe, looked>> /\ phase[g] = "look"
          BY <3>2, <4>4 DEF Look, Leaves
        <5> QED
          BY <4>1, <5>1 DEF HasHit
      <4>5. CASE EndRound(g)
        <5>1. Leader \in left[g] /\ left' = left /\ UNCHANGED <<mid, nonce_probe>>
          BY <4>1, <4>5, GroupZero DEF EndRound, HasHit
        <5>2. phase'[g] # "look"
          BY <4>5 DEF EndRound, TypeOK
        <5> QED
          BY <4>1, <5>1, <5>2 DEF HasHit
      <4> QED
        BY <1>7, <2>5, <4>2, <4>3, <4>4, <4>5 DEF Group
    <3> QED
      BY <2>1, <2>2, <3>1, <3>2
  <2> QED
    BY <2>3, <2>4, <2>5
<1>8. CASE UNCHANGED vars
  BY <1>8 DEF vars, hostVars, groupVars, HasHit
<1> QED
  BY <1>1, <1>2, <1>3, <1>4, <1>5, <1>6, <1>7, <1>8 DEF Next, Host

\* finalize takes the state of a hit of this call, and that is what is returned.
LEMMA FinalStep ==
    ASSUME TypeOK, KernelInv, StateInv, FoundInv, FinalInv, ResultWasTested, [Next]_vars
    PROVE  FinalInv' /\ ResultWasTested'
<1> USE DEF FinalInv, ResultWasTested
<1>1. CASE PowBegin
  BY <1>1 DEF PowBegin
<1>2. CASE PowFails
  BY <1>2 DEF PowFails
<1>3. CASE LaunchInit
  BY <1>3 DEF LaunchInit
<1>4. CASE LaunchSearch
  BY <1>4 DEF LaunchSearch
<1>5. CASE Finalize
  <2>1. FinalGroup \in Groups /\ HasHit(FinalGroup)
    BY <1>5 DEF Finalize, NotFound, FoundInv, FinalGroup
  <2>2. found > 0 /\ phase[FinalGroup] # "init"
    BY <1>5, <2>1, GpuAssumption DEF Finalize, KernelDone, Groups, FinalGroup, TypeOK
  <2>3. trit_hash' = [mid |-> mid[FinalGroup],
                      trits |-> Combined(nonce_probe[FinalGroup].lanes),
                      probe |-> nonce_probe[FinalGroup]]
    BY <1>5, <2>1 DEF Finalize, HasHit
  <2>4. mid[FinalGroup] \in Mids /\ nonce_probe[FinalGroup] \in Probes
    BY <2>1 DEF TypeOK, HasHit
  <2>5. trit_hash' \in Nonces
    BY <2>3, <2>4, CombinedType DEF Nonces
  <2>6. /\ trit_hash' # None
        /\ trit_hash'.mid = mid[FinalGroup]
        /\ trit_hash'.probe = nonce_probe[FinalGroup]
    BY <2>3, <2>5, NoneAssumption
  <2>7. mid[FinalGroup].call = call
    BY <1>5, <2>1, <2>2 DEF Finalize, StateInv
  <2>8. host' = "final" /\ UNCHANGED <<call, found>>
    BY <1>5 DEF Finalize
  <2> QED
    BY <2>1, <2>2, <2>6, <2>7, <2>8 DEF HasHit
<1>6. CASE ReadResult
  BY <1>6 DEF ReadResult
<1>7. ASSUME NEW g \in Groups, Group(g)
      PROVE  FinalInv' /\ ResultWasTested'
  <2>1. UNCHANGED hostVars
    BY <1>7, HostUnchanged
  <2>2. host # "final"
    BY <1>7 DEF KernelInv, Group, InitGroup, Miss, Hit, NoLeader, Look, EndRound
  <2> QED
    BY <2>1, <2>2 DEF hostVars
<1>8. CASE UNCHANGED vars
  BY <1>8 DEF vars, hostVars
<1> QED
  BY <1>1, <1>2, <1>3, <1>4, <1>5, <1>6, <1>7, <1>8 DEF Next, Host

\* On a device with at most 127 groups, whatever the interleaving of their items, a
\* call that succeeds returns the state of a hit that this call tested.
THEOREM TestedResult == FewGroups => (Spec => []ResultWasTested)
<1> SUFFICES ASSUME FewGroups
             PROVE  Spec => []ResultWasTested
  OBVIOUS
<1>1. Init => GpuInv
  BY DEF Init, GpuInv, KernelInv, StateInv, FoundInv, FinalInv, ResultWasTested
<1>2. TypeOK /\ GpuInv /\ [Next]_vars => GpuInv'
  BY KernelStep, StateStep, FoundStep, FinalStep DEF GpuInv
<1>3. GpuInv => ResultWasTested
  BY DEF GpuInv
<1> QED
  BY <1>1, <1>2, <1>3, TypeCorrect, PTL DEF Spec
=============================================================================
