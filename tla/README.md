# A TLA+ model of dcurl

dcurl does the proof of work (PoW) of IOTA transactions: given the trytes of a
transaction and a minimum weight magnitude it searches a nonce for which the
transaction's Curl hash ends in enough zero trits. `dcurl_entry` may be called by
any number of threads; the library finds them a free implementation (CPU, GPU,
FPGA, or a remote worker behind a RabbitMQ broker), lets it search, and returns a
copy of the result. This directory models that machinery in TLA+, checks it with
TLC on small instances and proves its main properties with TLAPS for every value
of the constants.

## 1. The system

| Component | State | Operations | Interacts through |
|---|---|---|---|
| dcurl core (`dcurl.c`) | `is_initialized`, `runtime_caps`, `impl_list`, `remote_impl_list`, the semaphores `notify`, `notify_remote` | `dcurl_init`, `dcurl_destroy`, `dcurl_entry` | callers' threads; the function pointers of the implementation contexts |
| implementation contexts (`implcontext.c`) | `num_max_thread`, `num_working_thread`, `bitmap` under a mutex per implementation | `register_impl_context`, `enter_`/`exit_impl_context`, `get_`/`free_pow_context`, `do_the_pow`, `get_pow_result` | shared by all callers |
| remote interface (`remote_interface.c`) | `slots[]`, one AMQP connection and one context per slot | the same operations; `remote_do_pow` | the broker, through `remote_common.c` |
| broker operations (`remote_common.c`) | the connection; private queues and their consumers | declare, publish, consume, acknowledge, wait for a response with timeouts | RabbitMQ (external) |
| remote worker (`remote_worker.c`) | the request at hand | consume, `dcurl_entry`, acknowledge, publish | the broker; its own dcurl |
| CPU search (`pow_c.c`, `pow_sse.c`, `pow_avx.c`) | per context: `stop_pow` under a rwlock, `pitem[]`, `nonce_array[]`, work requests | `pow_c` and its variants, `work_cb` on libtuv's thread pool | the threads of one call share `stop_pow` |
| GPU search (`pow_cl.c`, `clcontext.c`, `pow_kernel.cl`) | device buffers, the flag `found` | init, search and finalize kernels | work groups share `found` |
| FPGA (`pow_fpga.c`) | one static context, its files and mapping, the device's buffers and registers | acquire, a dialogue with the device per PoW, release | `num_max_thread = 1` is its only guard |
| trinary, Curl (`trinary.c`, `curl.c`) | none | conversions, `absorb`, `squeeze`, `transform` | pure |
| list (`list.h`) | the pointers of `impl_list` and of the static nodes of the implementations | `list_add`, `list_del`, `list_for_each` | written by init and destroy, followed by every call, without a lock |
| bindings (`compat_ccurl.c`, `jni/`, `cgo/`) | `is_initialized` and `mtx` of ccurl, `DcurlEntryMutex` of the Go package | init, entry, destroy | dcurl core, from several threads |

What is hard here:

- *Two critical sections.* `enter_impl_context` counts a caller in, and
  `get_pow_context` gives it a slot, under the same mutex but at different times;
  leaving does it in the other order. A slot must be there for whoever was counted
  in. The FPGA has no bitmap and relies on the count alone.
- *Waiting.* A caller that finds every implementation full waits on a semaphore,
  without a lock between the scan and the wait. Every call that leaves posts.
- *Fallback.* A failed remote PoW gives back its place, posts, and goes to the
  local pool.
- *The remote call.* Requests are redelivered when a worker or the broker dies,
  replies come late or not at all, and nothing in a reply names its request. Only the
  waits for a reply have a limit: two operations before them wait for the broker's answer
  as long as it takes.
- *The parallel search.* Several threads may find a nonce; the others must stop;
  the state they share is reused by the next call. Who won is read off the sign of
  a counter.
- *The search on the GPU.* Work groups overwrite each other's `found`, and the items
  of one group read it at different times. One batch tests 64 nonces at once, several
  of which may have the weight.
- *The bit-sliced hash.* Up to 256 nonces are hashed at once with expressions that are
  right only while every lane holds a trit; what tells the nonces of the lanes and
  threads apart is a code and a counter in fixed trits.
- *Lives.* `dcurl_init`, calls and `dcurl_destroy` follow each other, several times, on
  nodes and counters that nobody resets. An implementation may fail at any step of its
  initialisation. First calls of `ccurl_pow` overlap; the Go package destroys in a
  signal handler.
- *Boundaries.* No GPU device; calls after `dcurl_destroy`; counters that overflow.

The complete list of hazards, each at its line and with the properties that
guard against it, is `hazards` in `PROJECT.json`.

What makes each component correct: the pool never gives a context to two calls,
never loses a place and never forgets a sleeper, and a caller gets the PoW of its
own transaction; the remote channel ends every request, unless the broker falls silent
where the code waits without a limit, loses and duplicates none that was not acknowledged, and confuses replies no further than its abstraction
says; the search returns a nonce found by this very call, unless all its threads came
to the end of their counters, with nothing of the call still running; and as long as init, calls and destroy take turns the lists stay whole,
nothing is leaked or freed twice, and a failed call leaves nothing to the next one.

## 2. The modules

| Module | Models | Notes |
|---|---|---|
| `PowService` | what dcurl promises its callers: places that serve one call each | abstract specification |
| `Dcurl` | `dcurl.c`, `implcontext.c`, the slot functions of all implementations | implements `PowService` (`ServiceSpec`) |
| `RemoteChannel` | what `dcurl_entry` assumes of a remote slot | abstract specification |
| `RemoteRpc` | `remote_do_pow`, `remote_common.c`, the broker, `remote_worker.c` | implements `RemoteChannel` (`ChannelSpec`) |
| `PowSearch` | one CPU context: `pow_c`, `work_cb`, the search loop | for the three instruction sets |
| `Trinary`, `CurlHash` | the conversions of `trinary.c` and `trinary_sse42.h`, in both directions and both ways; the sponge of `curl.c` | operators |
| `Curl` | what the transforms of a search promise: a Curl of its own per lane | abstract specification |
| `BitCurl` | one call of a CPU context with its data: `tx_to_cstate`, `pwork`, the loop on words of lanes, `nonce_to_result` | implements `Curl` (`CurlSpec`) |
| `GpuSearch` | `pwork` and the kernels of `pow_kernel.cl` | one device |
| `ListHead` | `list_add`, `list_del` and what a list is, on pointers | operators |
| `PowFpga` | `pow_fpga.c`: acquiring and releasing the device, a PoW as a dialogue with it | extended by `Library` |
| `Library` | `dcurl_init` and `dcurl_destroy` step by step, called through the bindings beside the calls | EXTENDS `PowFpga`, `ListHead` |
| `MCDcurl`, `MCRemoteRpc`, `MCPowSearch`, `MCBitCurl`, `MCGpuSearch`, `MCLibrary` | the instances TLC checks | |
| `DcurlProofs`, `RemoteRpcProofs`, `PowSearchProofs`, `CurlHashProofs`, `BitCurlProofs`, `GpuSearchProofs`, `DataProofs`, `LibraryProofs` | theorems and proofs | |

`Dcurl` and `Library` look at `dcurl.c` from two sides. `Dcurl` has the accounting of
places and slots, the two pools and the fallback, with `dcurl_init` and `dcurl_destroy`
as single steps between calls; `Library` has the steps of those two, the pointers and
resources they work on, and what keeps them apart from calls, with one place per
implementation.

The families compose by abstraction. `Dcurl` treats `do_the_pow` as one
step with the outcomes the others establish: a local search leaves the PoW of
the context's input or fails (`PowSearch`: `ResultIsFresh`; `GpuSearch`:
`ResultWasTested`), a remote one may also take an earlier request's reply once a request was lost on the connection. The
latter is exactly `RemoteChannel`: its `lost` requests are the `late` slots of
`Dcurl`, a reply taken from them is `Stale`, and `Reset` is the reconnection made
by `dcurl_destroy` and `dcurl_init`.

### Dcurl

Each thread executes `dcurl_entry` in steps, `pc` naming the next one. A step ends
where another thread can see a difference: one critical section, one semaphore
operation, or one unlocked access to a shared context.

| Action | Code |
|---|---|
| `DcurlInit`, `DcurlDestroy` | `dcurl_init`, `dcurl_destroy`, while no call is in progress |
| `CallRefused`, `Call` | `if (!is_initialized) return NULL`, `goto remote_pow` or the local list |
| `SkipFull`, `Enter` | one round of `list_for_each`: `enter_impl_context` false or true |
| `SemWait` | `uv_sem_wait` after the scan, then the scan again |
| `GetContext`, `FillContext` | the locked slot search, then the unlocked `memcpy` of the input |
| `PowSucceeds`, `PowFails` | `do_the_pow` |
| `GetResult` | `get_pow_result`, which may run out of memory |
| `FreeContext`, `ExitImpl`, `PostNotify` | `free_pow_context`, `exit_impl_context`, `uv_sem_post` and the return or `goto local_pow` |

`bitmap` is the set of the bits set; for the remote interface it stands for the
slots *not* in use, so that the two representations share their actions. The
bitmap is not cleared by `dcurl_destroy`, and `InitBitmap` shifts ones into what
is left of it, as the code does. `num_max_thread` is chosen at each `DcurlInit`
from `Capacity`, since it depends on the machine (0 for a GPU build without a
device). A transaction is a pair of thread and call number.

### RemoteRpc

A slot runs `remote_do_pow`:

| Action | Code |
|---|---|
| `DeclareCallbackQueue`, `Subscribe` | `amqp_queue_declare`, `amqp_basic_consume`: each waits for the broker's answer, without a limit |
| `PublishRequest` | `amqp_basic_publish`, which waits for nothing and is lost on a silent connection |
| `SkipFrames` | frames that are no delivery, each waited for another 10 s |
| `WaitResponse` | the first delivery, with its header and body frames |
| `GiveUp`, `GiveUpReading` | an operation fails, or the 10 s of a frame are over: before the delivery, or after it and before its last frame |

A connection may fall silent (`FallSilent`): it stays open, but nothing passes any more,
as when the broker's host or the network fails. dcurl opens its connections with heartbeat
0, so nobody notices. `Answers` guards the operations that wait for the broker, and
`GiveUp` has no step for them on a silent connection: the slot hangs there (`Hangs`), unless
the broker restarts and resets the connection. A timeout after the delivery frame leaves
header and body on the connection (`partial`), which the next wait skips.

A worker runs its loop
(`ConsumeMessage`, `DoPow`, `AcknowledgeBroker`, `PublishResult`, or `StopWorker`
at any of them). The silence of a worker's connection is not told apart from its stop. The
broker is modelled from how it is used: a durable
`incoming_queue`, pushed to consumers with acknowledgement and taken back from
connections that end; private queues that live as long as the connection, with a
TTL; a restart that keeps the durable queue only. Publishing is not confirmed, and the model
takes for granted that a request published on a connection which is not silent arrives. A message is identified by its
request. `lost`, `published`, `acked` and `replies` are history variables: no
action's guard reads them.

Time is abstracted: a timeout or a TTL may strike whenever it runs. Queues are
sets, since several workers, redelivery and several private queues per connection
leave the code no order to rely on.

### PowSearch

The caller queues a work item per thread (`PowBegin`, `QueueWork`) and collects
when all have ended (`Collect`); an item alternates between the locked test of
`stop_pow` (`TestStop`) and the unlocked search of a batch (`Miss`, `Hit`), and
`WorkDone` is the locked end of `work_cb`. The condition that `TestStop` stands for has a
second part, `incr`: an item whose counter is at the end leaves the loop as a stopped one
does. How many steps that takes depends on the nonce in the input, from none on, so it
may happen at each test; the history variable `exhausted` remembers whom it happened to.
If all items leave like that, `completed_index` stays -1 and `Collect` takes what lies
before `nonce_array`. Items that were queued may start before
the last one is. The batch (64, 128, 256) and the range of the loop's return type
are constants, and the result is reduced to that range (`Wrapped`) as the build
does. The hash function is abstracted: a batch hits or misses nondeterministically.
Buffers, items and flags keep what the previous call left in them.

### BitCurl

The same threads once more, for one call and with the data: `PowSearch` says who won
and when the call ends, `BitCurl` what a batch is.

| Action | Code |
|---|---|
| `Start`, `Shift` | `pwork`: `para`, the lane codes, one pass of `incr_n` |
| `NextBatch` | the loop condition of `loop_cpu` (`incr`, `stop_pow`) and the copy of the words |
| `Round`, `LastRound` | `transform_64`: one of the 80 rounds with its swap, and the short last one |
| `Miss`, `Hit` | `check` and `seri` |
| `WorkDone` | the locked end of `work_cb` |
| `Finish` | the rest of `pow_c` |

A trit is two bits, and a word holds one trit of many nonces; a word is the set of
lanes whose bit is set, so that `&`, `|`, `^` and `~` are operations on sets. The
constants give the geometry of the build: `Width` bits times `Elements` (64 x 1, 2, 4),
`CodeLen` trits of lane code (4, 5, 6), and where `incr_n` starts: at the trit 4 of the
nonce in all builds, which is behind the code in `pow_c` and inside it in `pow_sse` and
`pow_avx` (`OuterStart` less than `CodeLen`). `indices` is the
table of `constants.c` as a formula. The transaction is trytes, the hash a real Curl
with fewer trits and rounds; the number of rounds stays odd, on which the two buffers
depend. `UnseenSet` gives the builds: in the one for AVX without AVX2 a word is four
doubles, and a comparison with zero does not see the sign bit of an element
(`SignLanes`); `Init` chooses the build. A tryte is its position in `tryte_alphabet`; whole
blocks of `Block` trytes are converted as SSE4.2 does, the rest as the portable code. Without a winner `pow_c` reads
`nonce_array[-1]`: the output is then `Undefined`.

### GpuSearch

| Action | Code |
|---|---|
| `PowBegin`, `LaunchInit`, `LaunchSearch`, `ReadResult`, `PowFails` | the host: `pwork` and its early returns; a kernel is launched when the one before has ended |
| `InitGroup` | kernel `init`, one group at a time |
| `Miss`, `Hit` | kernel `search`, one round of a group up to its last barrier: `increment`, `copy_mid_to_state`, `transform`, `check` |
| `NoLeader` | the same round if the first item of the group has left |
| `Look` | one item reads `found` and leaves or stays |
| `EndRound` | the loop condition of `search` |
| `Finalize` | kernel `finalize` |

Between two barriers the items of a group touch only what belongs to their group, so
a round is one step; `found` is the exception, and reading it is a step per item. An
item that leaves while others of its group go on makes the barriers of the next round
undefined in OpenCL; the model follows the devices on which an item that has ended is
no longer waited for, and the hash then lacks its share (`whole`). In `init` nothing
orders the copies of the items and the increment of the first one: the state may end
up with pairs of bits that are no trit (`valid`). The library embeds the kernel as
`pearl.cl.h`, whose text differs from `pow_kernel.cl` in the expression of
`transform` only, which is abstracted here.

### Library and PowFpga

| Action | Code |
|---|---|
| `BeginInit`, `Register`, `FpgaAttempted`, `InitReturns` | `dcurl_init`: each `register_impl_context`, then `uv_sem_init` and `is_initialized = ret` |
| `Initialize`, `Acquire`, `CannotAcquire` (`RegisterFpga`) | `pow_fpga_context_initialize`: one resource after the other, and its `fail_...` labels |
| `BeginDestroy`, `DestroyNode`, `Unlink`, `DestroyReturns` | `dcurl_destroy`: `destroy_impl_context` and `list_del` per node, and the step of `list_for_each` |
| `CallEntry`, `CallLocked`, `SyncLock` | `exlibSearch`, `DcurlProofOfWork`; `ccurl_pow`, `SyncDcurlProofOfWork` |
| `CcurlInit`, `CcurlInitialized`, `CcurlSkip` | `ccurl_pow` up to its `dcurl_entry`, with `mtx` |
| `EntryRefused`, `EntryScan`, `Enter`, `ScanNext`, `Wake` | `dcurl_entry` up to a place: the flag, the list, the semaphore |
| `Pow` | a PoW on another implementation than the FPGA |
| `TakeFpga`, `PowOnFpga`, `FpgaServed` | a PoW on the FPGA: `WriteInput`, `WriteMwm`, `ReadStatus`, `ReadNonce`, `WriteOutput` or `PowFails` |
| `DeviceDone` | the device has a nonce (external) |
| `Exit`, `Post`, `Return` | `exit_impl_context`, `uv_sem_post`, the way back through the binding |
| `InitBesideSleeper`, `DestroyTwice`, `UseAfterDestroy`, `ReadNull` | behaviour that is undefined or ends the process |

`mem` is the memory of the list: the pointers of the head and of the static nodes, which
keep what the last life left in them. Init and destroy may begin at any time; if they
begin beside a call, or init twice without a destroy, `misused` is set, what is in
progress runs on and nothing new begins. The undefined steps set `broken` and end the
behaviour. A driver's read of the control file waits for the device (`DeviceIdle`), but
may fail; the device then works on, and its nonce meets the next call.

Nothing under `src/` documents the FPGA. That a write to its control file starts a PoW, that
a read waits for it, and what the output file then holds is taken from the way `pow_fpga`
uses them. Two things `pow_fpga` cannot tell are constants: `ControlRestarts`, whether a
control write replaces a PoW that is still running, and `WholeTransfers`, whether a read or
write that does not fail is complete, since the code compares with a negative number only.
A short transfer is represented by one of no bytes, which leaves what was there before.

`list_del` poisons the pointers of the node where `list.h` is compiled with
`LIST_POISONING`. No makefile of the repository defines it, and with it `dcurl_destroy`
follows a poisoned pointer in its first turn; `Library` assumes that it is off
(`BuildAssumption`).

## 3. What is checked

Every property of a passing run has a mutant in `PROJECT.json`: a plausible bug in
the code under which TLC reports that property violated. The mutated forms are
kept beside the definitions they replace, marked `mutant`; nothing else uses them.

| Run | Instance | Shows |
|---|---|---|
| `local_pool` | CPU with 1 or 2 slots and FPGA, 4 threads, 1 call each | `TypeOK`; whoever was counted in finds a slot (`SlotAlwaysFound`); no two calls in one context (`ContextExclusive`); all is given back (`QuiescentIsClean`); nobody sleeps beside a pool that could serve it with all others asleep or gone (`NoLostWakeup`) |
| `remote_pool` | remote interface and a GPU that may be missing, 2 threads, 2 calls each, re-initialisations | answers are the caller's own (`ResultIsOwn`), places and wake-ups survive failures and the fallback, `Dcurl` implements `PowService` (`ServiceSpec`), every call returns if a local implementation is usable and remote attempts end (`EveryCallReturns`) |
| `remote_calls` | 1 slot, 3 requests, 2 workers, crashes, restarts, silence, timeouts between frames | at most one reply per request (`OneReplyPerRequest`); until acknowledged a request is in one place exactly (`RequestConserved`); `RemoteRpc` implements `RemoteChannel` (`ChannelSpec`); each request ends, or hangs in an operation without a limit on a connection that fell silent (`RequestEnds`) |
| `late_reply` | 1 slot, 1 worker | violation: the reply to an earlier request is taken for this one's |
| `acked_request` | 1 slot, 1 worker | violation: a request is acknowledged and never answered |
| `search_64bit` | up to 3 items, 2 calls, 2 counted iterations | the nonce is one of this call unless all its items gave up (`ResultIsFresh`), winners have a nonce (`WinnerGotResult`), nothing runs on (`NothingRunsAfterReturn`), a found nonce ends the call (`FoundEndsCall`) |
| `search_int` | the same with a narrow return type | violation: a stopped item counts as a winner |
| `bit_words` | words of 2 elements of 2 lanes, `incr_n` inside the code as in `pow_sse` and `pow_avx`, of integers or of doubles, 2 threads, 18 transactions of 10 trytes, hashes of 5 trytes, 5 rounds, weights 1, 2, 4 | `TypeOK`; `BitCurl` implements `Curl` (`CurlSpec`); a hit is not passed over, but for those a double hides (`NoHitMissed`); the counter leaves nothing out and a thread gives up at the last trit only (`CounterAdvances`); no thread tries a nonce in two lanes, although `incr_n` changes their codes (`LanesDiffer`); the result hashes to the weight by the other conversion too (`ResultHasWeight`) |
| `bit_overlap` | words of 4 elements of 2 lanes, 2 threads, `incr_n` inside the code | violation: lanes of two threads try the same nonces (`DifferentNonces`) |
| `gpu_groups` | 2 groups of 2 items, 2 rounds per launch, 2 calls | the result is the state that a check of this call accepted (`ResultWasTested`), a hit ends the call (`HitEndsCall`) |
| `gpu_lanes` | 1 group of 1 item, 3 lanes that differ in one trit | violation: with two lanes hit at once the nonce is that of neither |
| `library` | a CPU and an FPGA that may fail at any step, 2 callers and the thread that initialises and destroys, 1 call each, 2 lives, behind the C functions, ccurl or Go | `TypeOK`; used in turns nothing freed is touched and the process survives (`SafeUnlessMisused`); between init and destroy the list holds what was registered (`RegistryExact`); the FPGA's resources are held once or not at all (`NothingLeaked`); one first call of ccurl initialises, and no other overtakes it (`CompatInitOnce`); a call never returns the nonce of another (`NonceIsOwn`); calls return (`CallsReturn`) |

### Where code and documentation part

1. A remote call takes any delivery for its reply (`remote_common.c:211`). After one
   lost reply *every* later request of the slot may get another one's reply until
   the connection is reopened; two requests show the first mix-up, the third shows
   that it goes on, and `RemoteChannel` states exactly that.
2. A worker acknowledges before it answers (`remote_worker.c:90`), against the
   comment on `acknowledge_broker`.
3. `loop_256` of `pow_avx` counts in `int`, so that after 2^23 iterations of one thread
   the sign of the result no longer tells who won (`pow_avx.c:185`).
4. `incr_n_256` and `incr_n_128` start inside the lane code, which has six trits in `pow_avx`
   and five in `pow_sse`, not four (`pow_avx.c:146`, `pow_sse.c:170`): with the constants of
   `pow_avx.h` 243 of 256 lanes of threads 0 and 1 search the same nonces, with those of
   `pow_sse.h` 47 of 128 lanes of threads 2 and 3, against `README.md:116`. The result stays
   valid. The run `bit_overlap` shows it on the first two threads of four elements. Within
   one thread the lanes stay apart (`LanesDiffer`).
5. `finalize` reads the nonce off all the lanes that hit, not off one
   (`pow_kernel.cl:303`). `ResultHasWeight`, the property of that run, also depends on
   the two races described above (`whole`, `valid`); and `ResultWasTested` on group
   numbers that fit a `char`, which devices with 128 compute units or more exceed
   (hypothesis `FewGroups`).

6. A hit of lane 63 of an element alone is lost in the build for AVX without AVX2: the
   element is then -0.0, equal to zero (`pow_avx.c:314`). The comment at `pow_avx.c:323` is
   right for the scan that follows, not for the test before. The search goes on and
   finds another nonce; `NoHitMissed` claims the other lanes.

Observed while modelling, without a run:

- `dcurl_init` reports success for a GPU build without a device (`pow_cl.c:267`): the
  implementation is registered with no place, and every call sleeps forever, the fallback of
  a failed remote call too (`dcurl.c:189`). The pool without places is in the instance of
  `remote_pool`, where `EveryCallReturns` excepts it.
- `docs/remote-interface.md:92` says of a broker that is closed after the initialization:
  "dcurl would wait 10 seconds for the responding. If nothing returns, dcurl would use local
  hardwares to do the PoW." That is so of the frames of the reply only.
  `amqp_queue_declare` and `amqp_basic_consume` (`remote_common.c:134`, `184`) have no
  limit, and heartbeats are off (`remote_common.c:84`): on a connection that falls silent
  without being closed the call hangs, with its slot. `RequestEnds` excepts exactly this
  (`Hangs`), and breaks without the exception.
- `incr` gives up at the last trit (`pow_c.c:64`), at once if the counter trits of the
  nonce in the input are all 1. If every thread does, `completed_index` stays -1 and
  `pow_c` takes `nonce_array[-1]` for the nonce and returns true (`pow_c.c:315`).
  `ResultIsFresh` and `ResultHasWeight` except exactly this.
- `dcurl_destroy` does not reset `is_initialized` (`dcurl.c:148`), nor
  `ccurl_pow_finalize` the flag of ccurl: a call after them is in the models, takes
  nothing from the others, and waits on an empty list.
- `dcurl_destroy` uses `list_del` inside `list_for_each` (`dcurl.c:145`), which `list.h`
  excludes (lines 134 and 389). It works as long as `list_del` does not poison the node;
  `SafeUnlessMisused` breaks when it does something else to it.
- The signal handler of the Go package destroys beside calls (`pow.go:45`). In `Library`
  this is a misuse after which nothing is claimed.
- `exlibSearch` and `DcurlEntry` (`pow.go:88`) use a NULL result unseen: with these
  bindings a failed call ends the process (`ReadNull`). `pow.go` never frees its C string.
- `remote_init` leaves connections open when a later one fails
  (`remote_interface.c:174`), `pow_cl_context_destroy` does not release the OpenCL
  objects (`pow_cl.c:292`). Neither is modelled.

### Bounds

- Threads. Two callers compete for one place; three are the first to show a wake-up
  consumed by one sleeper while another stays; the fourth lets both slots of a
  CPU and the FPGA be taken with a sleeper left. Threads are symmetric; symmetry
  is used in `local_pool` only, which has no liveness property.
- `MaxCalls`. One call per thread exercises every path; the second lets a late
  reply, a semaphore token or a stale slot meet a later call.
- `IntBits` is the width of `int bitmap`, 32 in the build. Slots beyond those
  in use play no role, so 1 or 3 suffice; the shift of `InitBitmap` drops what
  leaves the width.
- `MaxRequests = 3`: see divergence 1 above.
- `MaxIter` is the highest value of the loop counter that is told apart: beyond it
  the counter stays, which leaves all behaviours with that count possible.
  `RetMax = 16` holds all results of 2 iterations of 2 nonces, `RetMax = 4` does
  not: the same shape as 2^63 and 2^31.
- `BitCurl`: five rounds of a state of 45 trits mix all of it and swap the buffers four
  times; four lanes differ in their code only, as all lanes do, and lie in two elements, of
  which the second is not looked at by `carry[0]`; two threads race for `stop_pow`. As in
  `pow_sse` and `pow_avx` `incr_n` starts at a trit of the code, the last one; that of
  `pow_c`, behind the code, is the simpler case. The two trits of code have
  nine values, for four lanes in `bit_words` and eight in `bit_overlap`, where the first
  element, whose carry `incr_n` looks at, has the highest codes. The counter has three trits: among
  the transactions are some whose counter starts near its end, so that it carries and is
  exhausted, for one thread or for both. Two blocks are absorbed, and `Block = 2` leaves
  trytes to both ways of conversion, in the transaction and in the nonce. Hits that only
  lanes of sign bits have do occur.
- `Library`: two lives let the second meet the nodes, the flags and the FPGA of the first;
  two callers show overlapping first calls, a full list, and a call that inherits the
  device of one that failed; with two implementations the list has a first and a last
  node, and a registration may fail before or after another one. `MaxCalls = 1` per
  caller. After a misuse nothing new begins, which bounds the states; no property speaks
  of what follows. The binding `jni` is in the specification but not in the run: it is
  `direct` with the NULL results of `go`.
- GPU: two groups race on `found`, two items of a group part at a barrier; a second
  call meets what the first left on the device. `CharMax` stands for 127. The state
  of a group is told apart for `MaxIter = 2` increments, the same way as in `PowSearch`.
  In `gpu_groups` one lane suffices, as no property it checks depends on the trits.

Deadlock checking is off where the bounded number of calls lets the system stop
(`Dcurl`, `PowSearch`, `BitCurl`, `GpuSearch`, `Library`); in `RemoteRpc` the environment can always act, and it is on.

### Fairness

`Dcurl`: weak fairness of each thread inside `dcurl_entry`, but for a remote `do_the_pow`
(`RemotePow`): that may hang (`RemoteRpc`: `Hangs`), so that remote attempts end is a
hypothesis of `EveryCallReturns` (`RemoteEnds`) and not an assumption on the schedule. The
operating system schedules threads; `uv_sem_wait` returns once the semaphore stays positive;
a local `do_the_pow` returns. With
unboundedly many calls of others a caller could lose every race for a free place:
the code guarantees no more, and the bound on calls is what excludes it here.
Starting calls, `dcurl_init` and `dcurl_destroy` are not fair.

`RemoteRpc`: weak fairness of the slots' threads only. A wait for a frame ends after 10 s,
whatever the workers and the broker do; an operation that waits for the broker's answer ends
if the broker answers, the connection breaks or it is reset, and on a silent connection it
has no step at all. Neither the broker nor the workers are fair, and silence may last
forever; a call that hangs keeps its slot.

`PowSearch`: weak fairness of the caller and of each item. This includes that an
item gets the write lock at last, although others take the read lock again and
again, a property of the platform's rwlock. `PowBegin` is not fair.
`FoundEndsCall` starts from a found nonce: that one is found at all is a matter of
probability and not claimed.

`GpuSearch`: weak fairness of the host's thread and of each group of a running
kernel, as a device runs all groups of a kernel to their end.

`Library`: weak fairness of each actor's steps inside init, destroy and a call, and of the
device. That somebody initialises or destroys is not fair, and `CallsReturn` claims
nothing of a call that a destroy has left on an empty list.

## 4. What is proved

`DcurlProofs`, for any finite set of threads, any build, any capacities:

- `TypeCorrect`: `TypeOK`.
- `SlotInvariant`: the inductive invariant `SlotInv`. The counter of an
  implementation equals the number of calls between enter and exit and never exceeds
  `num_max_thread` (`CountersExact`); each slot below `num_max_thread` is marked free
  or owned by a call, never both (`BitmapExact`); the lists hold registered
  implementations of their pool (`ListsExact`). `SlotAlwaysFound` is not inductive
  alone: that a slot is free follows by counting, since the owners are fewer than
  the holders and the holders at most as many as the slots.
- `SlotFound`, `Exclusion`: `SlotAlwaysFound`, `ContextExclusive`. For the FPGA,
  exclusion follows from the counter alone.
- `OwnResult`: `ResultIsOwn`, from `DataInv`, which follows the transaction from the
  context's input to its output and into the answer, and from exclusion.
- `Clean`: `QuiescentIsClean`, from the counters and the bitmaps.
- `NoWakeupLost`: `NoLostWakeup`, from `WakeupInv`: if some scan has passed a usable
  entry, then the semaphore has a token, or a call is in service and will post, or
  some scan has not yet reached a usable entry.

- `ServiceRefined`: `Dcurl` implements `PowService`. With `ServiceInv` (a call in service
  is in an initialised implementation that has room) the kind of place a call waits for
  is the pool it scans (`TierOf`); `GetContext` is the admission, exclusive by
  `ContextExclusive`, `FreeContext` the release, `PostNotify` the retry or the return, and
  all else stutters.

`RemoteRpcProofs`, for any slots, any workers and any number of requests:

- `TypeCorrect`, and `Invariant`: the inductive invariant `RpcInv`. A worker holds what
  the broker pushed it on a live connection only (`ConnInv`), and of that has read the
  request it works on (`WorkInv`); a request is published once (`FreshInv`) and then in one
  place until it is acknowledged (`PlaceInv`); only the worker that acknowledged it, still
  connected, answers it (`AnswerInv`); a reply on its way belongs to the request in
  progress or to a lost one (`PendInv`).
- `Conserved`, `OneReply`: `RequestConserved` and `OneReplyPerRequest`.
- `ChannelRefined`: `RemoteRpc` implements `RemoteChannel`: what a slot reads is among the
  replies the abstract channel allows, by `PendInv`.

`PowSearchProofs`, for any number of items, calls and iterations:

- `TypeCorrect`; `NothingRuns`: `NothingRunsAfterReturn`.
- `FreshResult`, `WinnerHasNonce`: `ResultIsFresh` and `WinnerGotResult`, under the
  hypothesis `WideReturn` that the counts of all iterations fit the return type,
  which is the hypothesis `pow_avx` does not meet. The argument (`SearchInv`): an
  item that did not win saw `stop_pow` or the end of its counter; only a winner of this call
  sets `stop_pow`; so when all have ended either all of them have given up by themselves or
  one has won, `completed_index` is not -1, and its buffer holds a nonce of this call.

`DataProofs`: lemmas about numbers, recursive functions and lists that the other proofs
share. A non-empty set of numbers has a least element (`Least`); what holds of 0 and
passes from n to n + 1 holds (`Induction`, stated of a set instead of a predicate); a
recursive function over 0 .. N exists and is unique (`RecursionExists`,
`RecursionUnique`); division is what it should be (`Division`, `DivisionUnique`).
`list_add` prepends a node that is not in the list, `list_del` of the first node leaves
the rest and, unless it poisons them, the removed node's own pointers (`AddPrepends`,
`DelFirst`).

`CurlHashProofs`, for arrays of any length and blocks of any size:

- `TritsAgree`, `TrytesAgree`: the builds with and without SSE4.2 convert alike, in both
  directions: sets and ranges of characters give the trits of the table, and sums of
  signed bytes the trytes of the portable code.
- `RoundTrip`, `TritsRoundTrip`: trytes to trits and back is the identity, and trits to
  trytes and back too.
- `AbsorbLast`: to absorb an array is to absorb all blocks but the last and then the last
  one in the place of the first trits of the state, which is what `tx_to_cstate` prepares
  and the search completes.

`BitCurlProofs`, for any number of threads, any width of words, any lengths, any odd
number of rounds, words of integers or of doubles:

- `TypeCorrect`.
- `BitsInOrder`: the invariant `BitInv`. `CurlSpec` is not inductive alone: the
  expressions of a round are wrong for a lane with both bits clear, so `MidInv` and
  `BufferInv` say that `para`, the lane codes, `incr` and each round keep every lane a
  trit, and that the buffer which is read is the lower one before even rounds.
- `CurlRefined`: `BitCurl` implements `Curl`. A batch that is copied is a `Load`; a
  round maps to a round in all lanes (`RoundLane`, from the nine entries of the truth
  table in `SubstituteBits`); the last one is a `Digest` whose trits are in the upper
  buffer, since the number of rounds before it is even; all else stutters.
- `LanesAreHashed`: the same composed over a whole batch. Before round r the lane holds
  the r-fold transform of what was loaded (`HashInv`), so `check` looks at the hash of the
  lane's own nonce. The next two rest on it.
- `NothingMissed`: `NoHitMissed`. A batch is abandoned only if no lane has the weight, but
  for the lanes that a comparison of doubles does not see (`unseen`).
- `SearchInvariant`, `ResultIsProof`: `ResultHasWeight`. Outside the nonce every lane holds
  the state that `tx_to_cstate` made, and its trits are those of the buffer that `seri`
  reads (`FixedInv`); a nonce in `nonce_array` was found by a check (`NonceInv`). The hash
  that validates the result starts from the trytes of the transaction, by the other
  conversion: it agrees by `AbsorbLast`, `TritsRoundTrip` and `TritsAgree`.
- `CounterExact`: `CounterAdvances`. `incr` looks at the carry of one lane only, which is
  right since behind the lane code all lanes of a thread are equal (`EvenInv`).
- `LanesStayApart`: `LanesDiffer`, under `CodeFits` only: the code has a value for each lane.
  Wherever `incr_n` starts, it adds the same to a trit of the code in all lanes, so that codes
  which differ go on differing in the same trit (`LanesInv`).
- `NoncesDiffer`: `DifferentNonces`, under two hypotheses on the geometry: `CodeFits`, and
  `OuterApart`: the trits of `incr_n` lie behind the code and count all threads. Codes stay
  what they were (`CodeInv`), and the number in the outer trits is that of the transaction
  plus the passes of `incr_n` (`ShiftInv`). `pow_c` meets both; `pow_sse` and `pow_avx` do not
  meet `OuterApart`, which is divergence 4.

`GpuSearchProofs`, for any number of groups, items, lanes, rounds and calls:

- `TypeCorrect`.
- `TestedResult`: `ResultWasTested` under `FewGroups`. The invariant (`GpuInv`): the
  kernels take turns with the host; every start state is made for this call before
  search begins; and `found`, once set, names a group with a hit whose leader has
  left or is about to (`HasHit`), so that its state is not incremented again.

`LibraryProofs`, for any number of callers, implementations, calls and lives:

- `TypeCorrect`. An iterator points to the head or to a node that was once added, and
  whoever works in an implementation holds its place.
- `SafeLives`: `SafeUnlessMisused`. Unless misused, init and destroy have the library to
  themselves (`TurnInv`); the list then holds what is alive (`ListInv`), except for the node
  that destroy is about to unlink, from which it gets on since `list_del` leaves its
  pointers; and a call's iterator is in the list (`AtInv`).
- `Registry`: `RegistryExact`. The list's order is a function of what is alive (`ListOf`:
  `Order` backwards, without the others), so nothing need be said of how it came about. An
  implementation that registers comes after all registered ones in `Order`, so
  `list_add` gives the list of the larger set (`ListGrows`); destroy takes the first
  (`ListShrinks`). What is alive makes the flag true, or `dcurl_init` is still on its way
  with `ret` true (`FlagInv`).
- `CompatOnce`: `CompatInitOnce`, from the mutex and the flag of ccurl.
- `OwnNonce`: `NonceIsOwn`. The steps of the dialogue come in order for the one call that
  holds the FPGA's place (`StepInv`, `ServiceInv`), and the data in the device's buffers is
  that of the stage (`DataInv`), under the hypotheses `ControlRestarts` and `WholeTransfers`
  on the device: a call that finds the device at work for a failed one makes it start anew.
- `NoLeak`: `NothingLeaked`, from which resources are held at each step (`HeldInv`).

The proofs of `Library` first say which action may change which variable, then treat, for
each part of the invariant, the actions that can disturb it.

The assumptions are the named `ASSUME`s on the constants; TLC evaluates them in the
runs. Those of `BitCurl` hold of the build: a transaction is a whole number of blocks of
the hash (8019 = 33 * 243), lane code and outer trits lie inside the nonce. What some build
or device does not meet is a hypothesis of the theorem instead: `WideReturn`, `CodeFits`,
`OuterApart`, `FewGroups`, `ControlRestarts` with `WholeTransfers`. That the build does
not define `LIST_POISONING` is an assumption of `Library`.

The inductive invariants were checked with TLC on the instances of the runs before they
were proved. They are not in the cfgs: a violation of one would show as an obligation
that fails.

The provers cannot instantiate the library's induction theorems, which take a predicate
as a parameter. Where a proof needs induction over data (rounds, blocks, positions of a
counter, the order of registration) it is stated of a set of numbers, by `Least` or
`Induction`, and the recursive functions of the models are unfolded one step at a time.

Every safety invariant and every action property of the passing runs is a theorem.
Only model-checked: liveness, which is out of the prover's reach (`EveryCallReturns`,
`RequestEnds`, `FoundEndsCall`, `HitEndsCall`, `CallsReturn`), and the violations,
whose counterexamples are TLC's.

## 5. What is not modelled

- The hash in `GpuSearch` and `PowSearch`: a batch hits or misses. The choice of OpenCL
  platforms and the sizes of the buffers (`clcontext.c`).
- The validation of trits and trytes: the inputs are arrays of trytes, as every caller in
  the repository passes them. Failed allocations inside a search, `compare_trinary_object`.
- The point inside a transfer to or from the FPGA at which a short one ends; builds with
  `LIST_POISONING` beyond `list_del` itself.
- The silence of a remote worker's connection as something else than its stop, and the
  loss of an unconfirmed publication on a connection that is not silent.
- Failed allocations of the other implementations in `dcurl_init`; in `Library` an
  implementation registers or does not.
- What a process does after init, destroy and calls have overlapped (`misused`).
- The conversion of Java and Go arrays, the registers for the time and the count of the
  FPGA and with them `pow_info`, logging, processor detection, build and tests. The macros
  of `list.h` that dcurl does not use.

## 6. Plan

1. `Dcurl` with `PowService`, `RemoteRpc` with `RemoteChannel`, `PowSearch`, and the
   proofs above, the two refinements included. Done.
2. `GpuSearch` and its proof. Done.
3. `Trinary`, `CurlHash`, `Curl`, `BitCurl`, the builds with doubles, and the proofs that the
   transform implements Curl, that the conversions agree, that the result has the weight
   and that the lanes' nonces differ. Done.
4. `ListHead`, `PowFpga`, `Library` and their proofs, `RegistryExact` included. Done.
5. Left: a call of `BitCurl` that refuses an invalid transaction, and the checks of blocks and of
   single characters side by side; for `Library` an invariant that a sleeper has a waker, as
   `WakeupInv` of `Dcurl`; for `GpuSearch` that the nonce has the weight if one lane hits.
