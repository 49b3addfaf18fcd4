------------------------------ MODULE PowFpga ------------------------------
(***************************************************************************)
(* The FPGA back end (src/src/pow_fpga.c): the acquisition of its device   *)
(* files and its register map, in stages that are unwound when one fails,  *)
(* and a proof of work as a dialogue with the device, any step of which    *)
(* may fail and leave the device as it is for the next call.               *)
(*                                                                         *)
(* The driver and the device are external, and nothing in the repository   *)
(* documents them. From the way pow_fpga uses them: a write to the control *)
(* file starts a proof of work on the transaction written before; a read   *)
(* of the control file waits for its end; the output file then holds the   *)
(* nonce. What pow_fpga cannot tell is left to two constants: what becomes *)
(* of a proof of work that is still running, and whether a transfer may    *)
(* end short of its length, which is not looked at (lines 75 to 97).       *)
(***************************************************************************)
EXTENDS Integers, Sequences

CONSTANTS
    Actors,     \* the threads that call the back end
    None,       \* no value: an empty buffer, an idle device, NULL
    ControlRestarts,  \* a control write replaces the proof of work that runs
    WholeTransfers    \* a read or a write that does not fail is complete

ASSUME DeviceAssumption ==
    ControlRestarts \in BOOLEAN /\ WholeTransfers \in BOOLEAN

VARIABLES
    step,       \* per actor: its step in a function of pow_fpga.c
    stage,      \* per actor: the next resource context_initialize acquires
    held,       \* how often the process holds each resource
    input,      \* input_trytes and mwm of the context: a job
    output,     \* output_trytes of the context
    fpga_out_nonce_trit,  \* per actor
    idata,      \* device: the transaction in the input buffer
    running,    \* device: the job the proof of work runs on
    odata       \* device: the job the nonce in the output buffer is for

context == <<input, output, fpga_out_nonce_trit>>
device == <<idata, running, odata>>
fpgaVars == <<step, stage, held, context, device>>

\* In the order of pow_fpga_context_initialize: the context, the four files and
\* the map of the registers.
Resources == <<"ctx", "ctrl_fd", "in_fd", "out_fd", "dev_mem_fd", "fpga_regs_map">>
ResourceSet == {Resources[k] : k \in DOMAIN Resources}

\* The nonce computed for job n, put behind the transaction of job i.
Output(i, n) == [transaction |-> i, nonce |-> n]
OwnOutput(job) == Output(job, job)

FpgaInit ==
    /\ step = [a \in Actors |-> "idle"]
    /\ stage = [a \in Actors |-> 1]
    /\ held = [x \in ResourceSet |-> 0]
    /\ input = None
    /\ output = None
    /\ fpga_out_nonce_trit = [a \in Actors |-> None]
    /\ idata = None
    /\ running = None
    /\ odata = None

Goto(a, from, to) == step[a] = from /\ step' = [step EXCEPT ![a] = to]

-----------------------------------------------------------------------------
(* pow_fpga_context_initialize and pow_fpga_context_destroy. *)

Initialize(a) ==
    /\ Goto(a, "idle", "acquire")
    /\ UNCHANGED <<stage, held, context, device>>

Acquire(a) ==
    /\ step[a] = "acquire"
    /\ held' = [held EXCEPT ![Resources[stage[a]]] = @ + 1]
    /\ IF stage[a] < Len(Resources)
         THEN stage' = [stage EXCEPT ![a] = @ + 1] /\ UNCHANGED step
         ELSE stage' = [stage EXCEPT ![a] = 1] /\ step' = [step EXCEPT ![a] = "succeeded"]
    /\ UNCHANGED <<context, device>>

\* The labels fail_to_mmap, fail_to_open_mem, ..., one falling through to the
\* next: all that was acquired before stage k.
FirstKept(k) == {Resources[j] : j \in 2 .. k - 1} \* mutant
Unwound(k) == {Resources[j] : j \in 1 .. k - 1}

CannotAcquire(a) ==
    /\ Goto(a, "acquire", "failed")
    /\ held' = [x \in ResourceSet |->
                   IF x \in Unwound(stage[a]) THEN held[x] - 1 ELSE held[x]]
    /\ stage' = [stage EXCEPT ![a] = 1]
    /\ UNCHANGED <<context, device>>

\* A failing munmap is only reported.
Released == [x \in ResourceSet |-> held[x] - 1]

-----------------------------------------------------------------------------
(* pow_fpga_get_pow_context and pow_fpga. *)

GetPowContext(a, job) ==
    /\ Goto(a, "idle", "write_input")
    /\ input' = job
    /\ UNCHANGED <<stage, held, output, fpga_out_nonce_trit, device>>

\* What a transfer of value to a place that holds old leaves there; a short one
\* stands for no byte transferred.
Transferred(value, old) == IF WholeTransfers THEN {value} ELSE {value, old}

WriteInput(a) ==
    /\ Goto(a, "write_input", "write_mwm")
    /\ idata' \in Transferred(input, idata)
    /\ UNCHANGED <<stage, held, context, running, odata>>

WriteMwm(a) ==
    /\ Goto(a, "write_mwm", "read_status")
    /\ running' \in
           Transferred(IF ControlRestarts \/ running = None THEN idata ELSE running, running)
    /\ UNCHANGED <<stage, held, context, idata, odata>>

NoWait == TRUE \* mutant
DeviceIdle == running = None

\* What the control file returns is not looked at.
ReadStatus(a) ==
    /\ DeviceIdle
    /\ Goto(a, "read_status", "read_nonce")
    /\ UNCHANGED <<stage, held, context, device>>

ReadNonce(a) ==
    /\ Goto(a, "read_nonce", "output")
    /\ \E trits \in Transferred(odata, None) :
           fpga_out_nonce_trit' = [fpga_out_nonce_trit EXCEPT ![a] = trits]
    /\ UNCHANGED <<stage, held, input, output, device>>

\* The nonce converted and copied behind the transaction.
WriteOutput(a) ==
    /\ Goto(a, "output", "succeeded")
    /\ output' = Output(input, fpga_out_nonce_trit[a])
    /\ fpga_out_nonce_trit' = [fpga_out_nonce_trit EXCEPT ![a] = None]
    /\ UNCHANGED <<stage, held, input, device>>

\* A conversion, a write or a read fails: goto fail. The read that waits may
\* fail before or after the end of the proof of work.
PowFails(a) ==
    /\ step[a] \in {"write_input", "write_mwm", "read_status", "read_nonce", "output"}
    /\ step' = [step EXCEPT ![a] = "failed"]
    /\ fpga_out_nonce_trit' = [fpga_out_nonce_trit EXCEPT ![a] = None]
    /\ UNCHANGED <<stage, held, input, output, device>>

\* The device ends its proof of work.
DeviceDone ==
    /\ running # None
    /\ odata' = running
    /\ running' = None
    /\ UNCHANGED <<step, stage, held, context, idata>>

Dialogue(a) ==
    \/ WriteInput(a) \/ WriteMwm(a) \/ ReadStatus(a) \/ ReadNonce(a)
    \/ WriteOutput(a) \/ PowFails(a)
=============================================================================
