------------------------------ MODULE GpuSearch ------------------------------
(***************************************************************************)
(* The nonce search of one GPU: the host code of pwork (src/src/pow_cl.c)  *)
(* and the three kernels init, search and finalize (src/src/pow_kernel.cl).*)
(*                                                                         *)
(* The device runs a kernel in work groups. Every group has a start state  *)
(* (mid) of its own, made by init from the one the host wrote for group 0. *)
(* In search the first item of a group increments mid, all its items hash  *)
(* 64 nonces (lanes) at once, and the first item records those that have   *)
(* the weight (nonce_probe) and the number of its group (found, a char).   *)
(* Each item then reads found, which all groups share, and leaves the      *)
(* kernel if it is set. The host launches search again until found is set, *)
(* and finalize writes the nonce of the group that found names.            *)
(***************************************************************************)
EXTENDS Integers

CONSTANTS
    NumGroups,     \* num_groups: the compute units of the device
    GroupSize,     \* local_work_size: items of a group
    Lanes,         \* the lanes: per lane its trits, a function on Offsets
    Offsets,       \* the trits in which the lanes differ
    CharMax,       \* the largest value of a char (127)
    LoopCount,     \* LOOP_COUNT: rounds of one search kernel (32)
    MaxIter,       \* bound: the increments of a mid that are counted
    MaxCalls,      \* bound: calls of pwork
    None

Groups == 0 .. NumGroups - 1
Items == 0 .. GroupSize - 1
Leader == 0

ASSUME GpuAssumption ==
    /\ NumGroups \in Nat \ {0} /\ GroupSize \in Nat \ {0}
    /\ CharMax \in Nat /\ LoopCount \in Nat \ {0}
    /\ MaxIter \in Nat /\ MaxCalls \in Nat
    /\ Lanes # {} /\ Lanes \subseteq [Offsets -> {-1, 0, 1}]

\* A start state: the call it was made for, how often search incremented it and
\* whether its bits encode trits. A hit: the state that was hashed, the lanes
\* that had the weight, and whether every item of the group did its share.
Mids == [call : 0 .. MaxCalls, k : 0 .. MaxIter, valid : BOOLEAN]
Probes == [mid : Mids, lanes : SUBSET Lanes, whole : BOOLEAN]
Nonces == [mid : Mids, trits : [Offsets -> {-1, 0, 1}], probe : Probes]

ASSUME NoneAssumption == None \notin Nonces \cup Probes

VARIABLES
    host,        \* pwork: "idle", "written", or the kernel that was launched
    call,        \* the number of the current call
    endless,     \* the loop count the device reads is too large to be reached
    phase,       \* per group: "off", "init", "hash" or "look"
    round,       \* per group: the loop counter of search
    left,        \* per group: the items that have left search
    looked,      \* per group: the items that read found and stay
    mid,         \* per group: mid_low and mid_high
    nonce_probe, \* per group: nonce_probe, None if zero
    found,       \* the char that all groups share
    trit_hash,   \* the device's result buffer
    output,      \* what the last call wrote, None for uninitialised memory
    res          \* what the last call returned

hostVars == <<host, call, endless, trit_hash, output, res>>
groupVars == <<phase, round, left, looked, mid, nonce_probe>>
vars == <<hostVars, groupVars, found>>

\* Conversion to char.
Char(x) == ((x + CharMax + 1) % (2 * CharMax + 2)) - CharMax - 1

Init ==
    /\ host = "idle"
    /\ call = 0
    /\ endless = FALSE
    /\ phase = [g \in Groups |-> "off"]
    /\ round = [g \in Groups |-> 0]
    /\ left = [g \in Groups |-> {}]
    /\ looked = [g \in Groups |-> {}]
    /\ mid = [g \in Groups |-> [call |-> 0, k |-> 0, valid |-> FALSE]]
    /\ nonce_probe = [g \in Groups |-> None]
    /\ found = 0
    /\ trit_hash = None
    /\ output = None
    /\ res = FALSE

KernelDone == \A g \in Groups : phase[g] = "off"

-----------------------------------------------------------------------------
(* The host. *)

\* init_state and write_cl_buffer. Of the 8 bytes written for the loop count 4
\* belong to the int and 4 to whatever lies next to it.
PowBegin ==
    /\ host = "idle"
    /\ call < MaxCalls
    /\ host' = "written"
    /\ call' = call + 1
    /\ endless' \in BOOLEAN
    /\ mid' = [mid EXCEPT ![0] = [call |-> call + 1, k |-> 0, valid |-> TRUE]]
    /\ UNCHANGED <<phase, round, left, looked, nonce_probe, found,
                   trit_hash, output, res>>

\* A conversion, a launch, a read or an allocation fails.
PowFails ==
    /\ host # "idle"
    /\ KernelDone
    /\ host' = "idle"
    /\ res' = FALSE
    /\ UNCHANGED <<call, endless, trit_hash, output, groupVars, found>>

LaunchInit ==
    /\ host = "written"
    /\ host' = "init"
    /\ phase' = [g \in Groups |-> "init"]
    /\ UNCHANGED <<call, endless, trit_hash, output, res, round, left, looked,
                   mid, nonce_probe, found>>

\* while (found == 0), where found is 0 before the first launch.
NotOne == found # 1 \* mutant
NotFound == found = 0

LaunchSearch ==
    /\ host = "init" \/ (host = "search" /\ NotFound)
    /\ KernelDone
    /\ host' = "search"
    /\ phase' = [g \in Groups |-> "hash"]
    /\ round' = [g \in Groups |-> 0]
    /\ left' = [g \in Groups |-> {}]
    /\ looked' = [g \in Groups |-> {}]
    /\ UNCHANGED <<call, endless, trit_hash, output, res, mid, nonce_probe, found>>

\* The trits that finalize reads off all the lanes of a probe at once.
Combined(lanes) ==
    [j \in Offsets |->
        IF \A l \in lanes : l[j] = 1 THEN 1
        ELSE IF \A l \in lanes : l[j] = -1 THEN -1 ELSE 0]

\* The finalize kernel: the group that found names writes its nonce, if any does.
FoundAsIndex == found \* mutant
FinalGroup == found - 1

Finalize ==
    /\ host = "search"
    /\ ~NotFound
    /\ KernelDone
    /\ host' = "final"
    /\ trit_hash' =
          IF FinalGroup \in Groups /\ nonce_probe[FinalGroup] # None
            THEN [mid |-> mid[FinalGroup],
                  trits |-> Combined(nonce_probe[FinalGroup].lanes),
                  probe |-> nonce_probe[FinalGroup]]
            ELSE trit_hash
    /\ UNCHANGED <<call, endless, output, res, groupVars, found>>

\* The host reads the result only if found is positive, into fresh memory.
ReadResult ==
    /\ host = "final"
    /\ host' = "idle"
    /\ res' = TRUE
    /\ output' = IF found > 0 THEN trit_hash ELSE None
    /\ UNCHANGED <<call, endless, trit_hash, groupVars, found>>

-----------------------------------------------------------------------------
(* The kernels, one group or item at a time. *)

\* Group 0 resets found. The items of another group copy the state of group 0
\* while its leader, with no barrier between, increments the copy: the two halves
\* of a trit may end up as a pair that encodes none.
FoundKept == found \* mutant
FoundReset == 0

InitGroup(g) ==
    /\ phase[g] = "init"
    /\ phase' = [phase EXCEPT ![g] = "off"]
    /\ IF g = 0
         THEN found' = FoundReset /\ UNCHANGED mid
         ELSE /\ \E torn \in IF GroupSize > 1 THEN BOOLEAN ELSE {FALSE} :
                    mid' = [mid EXCEPT ![g] = [mid[0] EXCEPT !.valid = ~torn]]
              /\ UNCHANGED found
    /\ UNCHANGED <<hostVars, round, left, looked, nonce_probe>>

\* The body of search's loop up to its last barrier. Without the leader nothing
\* is incremented or checked; without others the hash misses their share.
Incremented(g) ==
    [mid[g] EXCEPT !.k = IF @ < MaxIter THEN @ + 1 ELSE @]

NextRound(g) == phase' = [phase EXCEPT ![g] = "look"]

Miss(g) ==
    /\ phase[g] = "hash"
    /\ Leader \notin left[g]
    /\ mid' = [mid EXCEPT ![g] = Incremented(g)]
    /\ nonce_probe' = [nonce_probe EXCEPT ![g] = None]
    /\ NextRound(g)
    /\ UNCHANGED <<hostVars, round, left, looked, found>>

FoundBy(g) == Char(g + 1)

Hit(g) ==
    /\ phase[g] = "hash"
    /\ Leader \notin left[g]
    /\ mid' = [mid EXCEPT ![g] = Incremented(g)]
    /\ \E lanes \in SUBSET Lanes \ {{}} :
          nonce_probe' = [nonce_probe EXCEPT ![g] =
              [mid |-> Incremented(g), lanes |-> lanes, whole |-> left[g] = {}]]
    /\ found' = FoundBy(g)
    /\ NextRound(g)
    /\ UNCHANGED <<hostVars, round, left, looked>>

NoLeader(g) ==
    /\ phase[g] = "hash"
    /\ Leader \in left[g]
    /\ NextRound(g)
    /\ UNCHANGED <<hostVars, round, left, looked, mid, nonce_probe, found>>

\* if (*found != 0) break: each item reads found at a time of its own.
Leaves == found # 0

Look(g, i) ==
    /\ phase[g] = "look"
    /\ i \notin left[g] \cup looked[g]
    /\ IF Leaves
         THEN left' = [left EXCEPT ![g] = @ \cup {i}] /\ UNCHANGED looked
         ELSE looked' = [looked EXCEPT ![g] = @ \cup {i}] /\ UNCHANGED left
    /\ UNCHANGED <<hostVars, phase, round, mid, nonce_probe, found>>

\* The group's next round, or the end of its kernel.
RoundsInclusive == LoopCount + 1 \* mutant
Rounds == LoopCount

EndRound(g) ==
    /\ phase[g] = "look"
    /\ left[g] \cup looked[g] = Items
    /\ looked' = [looked EXCEPT ![g] = {}]
    /\ round' = [round EXCEPT ![g] = (@ + 1) % Rounds]
    /\ phase' = [phase EXCEPT ![g] =
          IF left[g] = Items \/ (round'[g] = 0 /\ ~endless) THEN "off" ELSE "hash"]
    /\ UNCHANGED <<hostVars, left, mid, nonce_probe, found>>

-----------------------------------------------------------------------------
Host == PowBegin \/ PowFails \/ LaunchInit \/ LaunchSearch \/ Finalize \/ ReadResult

Group(g) ==
    \/ InitGroup(g) \/ Miss(g) \/ Hit(g) \/ NoLeader(g)
    \/ \E i \in Items : Look(g, i)
    \/ EndRound(g)

Next == Host \/ \E g \in Groups : Group(g)

Spec == Init /\ [][Next]_vars

\* The host thread is scheduled and the device runs every group of a kernel.
FairSpec ==
    /\ Spec
    /\ WF_vars(LaunchInit \/ LaunchSearch \/ Finalize \/ ReadResult)
    /\ \A g \in Groups : WF_vars(Group(g))

-----------------------------------------------------------------------------
(* Properties. *)

TypeOK ==
    /\ host \in {"idle", "written", "init", "search", "final"}
    /\ call \in 0 .. MaxCalls
    /\ endless \in BOOLEAN
    /\ phase \in [Groups -> {"off", "init", "hash", "look"}]
    /\ round \in [Groups -> 0 .. LoopCount - 1]
    /\ left \in [Groups -> SUBSET Items]
    /\ looked \in [Groups -> SUBSET Items]
    /\ \A g \in Groups : left[g] \cap looked[g] = {}
    /\ mid \in [Groups -> Mids]
    /\ nonce_probe \in [Groups -> Probes \cup {None}]
    /\ found \in -CharMax - 1 .. CharMax
    /\ trit_hash \in Nonces \cup {None}
    /\ output \in Nonces \cup {None}
    /\ res \in BOOLEAN

\* A call that succeeds returns the state for which a group's check of this very
\* call reported a hit: not one that was incremented after it, nor one of a group
\* that found nothing, nor the buffer of an earlier call, although groups overwrite
\* each other's found and go on while it is set.
ResultWasTested ==
    host = "idle" /\ res =>
        /\ output # None
        /\ output.mid.call = call
        /\ output.mid = output.probe.mid

\* tests/test-pow.c:173 "Validation": the hash of every result has the weight. It
\* does if the state encodes trits, all of it was hashed, and the trits returned
\* are those of one lane of the hit.
ResultHasWeight ==
    host = "idle" /\ res =>
        /\ ResultWasTested
        /\ output.mid.valid /\ output.probe.whole
        /\ output.trits \in output.probe.lanes

\* Once a group has a hit no search is launched again and the call ends, whether
\* or not each of the other groups' items sees found in the same round.
HitEndsCall ==
    (\E g \in Groups : nonce_probe[g] # None /\ phase[g] = "look") ~> host = "idle"

-----------------------------------------------------------------------------
(* The inductive invariant behind ResultWasTested. *)

\* The numbers of all the groups fit a char: devices of up to 127 compute units.
FewGroups == NumGroups <= CharMax

\* Kernels run one after the other, and none while the host does not wait for it.
KernelInv ==
    \A g \in Groups :
        /\ phase[g] = "init" => host = "init"
        /\ phase[g] \in {"hash", "look"} => host = "search"
        /\ phase[g] = "hash" => looked[g] = {}

\* The states that are searched are made from the one the host wrote.
StateInv ==
    /\ host # "idle" => mid[0].call = call
    /\ host \in {"init", "search", "final"} =>
          \A g \in Groups : phase[g] # "init" => mid[g].call = call

\* The group that found names has a hit, and its leader does not go on: it reads
\* found after the hit and leaves.
HasHit(g) ==
    /\ nonce_probe[g] # None
    /\ nonce_probe[g].mid = mid[g]
    /\ phase[g] = "hash" => Leader \in left[g]
    /\ phase[g] = "look" => Leader \notin looked[g]

FoundInv ==
    /\ host = "init" /\ phase[0] # "init" => found = 0
    /\ host \in {"search", "final"} /\ found # 0 =>
          found - 1 \in Groups /\ HasHit(found - 1)

\* What finalize wrote is what the call returns.
FinalInv ==
    host = "final" =>
        /\ found > 0
        /\ trit_hash # None
        /\ trit_hash.mid.call = call
        /\ trit_hash.mid = trit_hash.probe.mid

GpuInv == KernelInv /\ StateInv /\ FoundInv /\ FinalInv /\ ResultWasTested
=============================================================================
