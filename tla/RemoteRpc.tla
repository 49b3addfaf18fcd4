------------------------------ MODULE RemoteRpc ------------------------------
(***************************************************************************)
(* The remote procedure call behind remote_do_pow: the slots of the remote *)
(* interface (src/src/remote_interface.c), the broker operations           *)
(* (src/src/remote_common.c), the RabbitMQ broker they talk to, and the    *)
(* remote workers (src/src/remote_worker.c).                               *)
(*                                                                         *)
(* A request is published in the durable incoming_queue with the name of a *)
(* private queue declared for it; the broker pushes it to some worker,     *)
(* which does the PoW, acknowledges the request and then publishes the     *)
(* result in the private queue. The private queue lives as long as the     *)
(* slot's connection, not as long as the request. Queues are sets: several *)
(* workers, redelivery and the many private queues of one connection leave *)
(* no order the code could rely on. Time is abstracted: a timeout or a TTL *)
(* may fire whenever it is running. A connection may fall silent: it stays *)
(* open but nothing passes any more, and with heartbeat 0 nobody notices.  *)
(***************************************************************************)
EXTENDS Naturals, FiniteSets

CONSTANTS
    Slots,        \* the slots of remote_context, one connection each
    Workers,      \* the remote_worker processes
    MaxRequests,  \* bound: requests per slot
    None          \* NULL, no request

Requests == Slots \X (1 .. MaxRequests)

ASSUME PartyAssumption == Slots \cap Workers = {}
ASSUME RequestAssumption == MaxRequests \in Nat /\ None \notin Requests

VARIABLES
    link,       \* the slots and workers with a live connection
    silent,     \* the slots whose live connection carries nothing any more
    step,       \* per slot: the next step of remote_do_pow
    req,        \* per slot: the number of its last request
    outcome,    \* per slot: the request whose reply it took last, or None
    inbox,      \* per slot: replies delivered on its connection, not yet read
    partial,    \* per slot: a reply of which only the first frames were read
    lost,       \* history: requests published on the present connections that
                \* ended without their reply, which may still come
    queues,     \* the private queues, named after their requests
    consumed,   \* the private queues a slot consumes
    kept,       \* the private queues that hold a reply
    incoming,   \* the requests in incoming_queue
    pushed,     \* per worker: requests delivered to its connection, not read
    unacked,    \* per worker: requests read, not acknowledged
    work,       \* per worker: the next step of its loop
    job,        \* per worker: the request it works on
    solved,     \* per worker: dcurl_entry returned a result (not NULL)
    published,  \* history: the requests published
    acked,      \* history: the requests acknowledged
    replies     \* history: the number of replies published, per request

conn == <<link, silent>>
slotVars == <<step, req, outcome, inbox, partial, lost>>
brokerVars == <<queues, consumed, kept, incoming>>
workerVars == <<pushed, unacked, work, job, solved>>
history == <<published, acked, replies>>
vars == <<conn, slotVars, brokerVars, workerVars, history>>

Request(s) == <<s, req[s]>>

Init ==
    /\ link = Slots
    /\ silent = {}
    /\ step = [s \in Slots |-> "idle"]
    /\ req = [s \in Slots |-> 0]
    /\ outcome = [s \in Slots |-> None]
    /\ inbox = [s \in Slots |-> {}]
    /\ partial = [s \in Slots |-> None]
    /\ lost = {}
    /\ queues = {}
    /\ consumed = {}
    /\ kept = {}
    /\ incoming = {}
    /\ pushed = [w \in Workers |-> {}]
    /\ unacked = [w \in Workers |-> {}]
    /\ work = [w \in Workers |-> "down"]
    /\ job = [w \in Workers |-> None]
    /\ solved = [w \in Workers |-> FALSE]
    /\ published = {}
    /\ acked = {}
    /\ replies = [r \in Requests |-> 0]

-----------------------------------------------------------------------------
(* remote_do_pow on slot s, called by the thread that owns the slot.        *)

Begin(s) ==
    /\ step[s] = "idle"
    /\ req[s] < MaxRequests
    /\ req' = [req EXCEPT ![s] = @ + 1]
    /\ outcome' = [outcome EXCEPT ![s] = None]
    /\ step' = [step EXCEPT ![s] = "declare"]
    /\ UNCHANGED <<conn, inbox, partial, lost, brokerVars, workerVars, history>>

\* A synchronous method of AMQP waits for the broker's answer without a limit.
Answers(s) == s \in link \ silent

DeclareCallbackQueue(s) ==
    /\ step[s] = "declare"
    /\ Answers(s)
    /\ queues' = queues \cup {Request(s)}
    /\ step' = [step EXCEPT ![s] = "publish"]
    /\ UNCHANGED <<conn, req, outcome, inbox, partial, lost, consumed, kept,
                   incoming, workerVars, history>>

\* basic.publish has no answer: on a silent connection it gets lost unnoticed.
PublishRequest(s) ==
    /\ step[s] = "publish"
    /\ s \in link
    /\ IF Answers(s) THEN /\ incoming' = incoming \cup {Request(s)}
                          /\ published' = published \cup {Request(s)}
                     ELSE UNCHANGED <<incoming, published>>
    /\ step' = [step EXCEPT ![s] = "subscribe"]
    /\ UNCHANGED <<conn, req, outcome, inbox, partial, lost, queues, consumed,
                   kept, workerVars, acked, replies>>

\* basic.consume on the private queue; the consumers of earlier requests stay.
Subscribe(s) ==
    /\ step[s] = "subscribe"
    /\ Answers(s)
    /\ consumed' = consumed \cup {Request(s)}
    /\ step' = [step EXCEPT ![s] = "wait"]
    /\ UNCHANGED <<conn, req, outcome, inbox, partial, lost, queues, kept,
                   incoming, workerVars, history>>

\* Frames that are no basic.deliver are skipped, each for another 10 s: what an
\* earlier wait left of a reply.
SkipFrames(s) ==
    /\ step[s] = "wait"
    /\ partial[s] # None
    /\ partial' = [partial EXCEPT ![s] = None]
    /\ UNCHANGED <<conn, step, req, outcome, inbox, lost, brokerVars, workerVars,
                   history>>

\* The first basic.deliver on the connection is taken for the reply: neither its
\* consumer nor its queue is compared, and pow_validation's verdict is dropped.
Readable(s) == IF step[s] = "wait" /\ partial[s] = None THEN inbox[s] ELSE {}
EnvelopeKept(s, r) == inbox \* mutant
Read(s, r) == [inbox EXCEPT ![s] = @ \ {r}]

WaitResponse(s) ==
    /\ \E r \in Readable(s) :
          /\ outcome' = [outcome EXCEPT ![s] = r]
          /\ inbox' = Read(s, r)
          /\ lost' = (lost \cup {Request(s)}) \ {r}
    /\ step' = [step EXCEPT ![s] = "idle"]
    /\ UNCHANGED <<conn, req, partial, brokerVars, workerVars, history>>

\* A broker operation fails: the broker refuses it, or the connection is gone; an
\* operation that waits for a silent broker does not. Each wait for a frame may
\* run into its 10 s.
WaitForever(s) == s \notin link \* mutant
MayTimeOut(s) == TRUE

MayFail(s) ==
    CASE step[s] \in {"declare", "subscribe"} -> s \notin silent
      [] step[s] = "publish" -> TRUE
      [] step[s] = "wait" -> MayTimeOut(s)
      [] OTHER -> FALSE

GiveUp(s) ==
    /\ MayFail(s)
    /\ lost' = IF step[s] \in {"subscribe", "wait"} THEN lost \cup {Request(s)}
                                                   ELSE lost
    /\ step' = [step EXCEPT ![s] = "idle"]
    /\ UNCHANGED <<conn, req, outcome, inbox, partial, brokerVars, workerVars,
                   history>>

\* The time runs out between the frames of a reply: the rest stays behind.
GiveUpReading(s) ==
    /\ MayFail(s)
    /\ \E r \in Readable(s) :
          /\ inbox' = Read(s, r)
          /\ partial' = [partial EXCEPT ![s] = r]
          /\ lost' = (lost \cup {Request(s)}) \ {r}
    /\ step' = [step EXCEPT ![s] = "idle"]
    /\ UNCHANGED <<conn, req, outcome, brokerVars, workerVars, history>>

\* dcurl_destroy and dcurl_init while no call is in progress: the connections
\* are closed, with their exclusive queues, and opened again. Closing waits for
\* an answer of the broker.
Reconnect ==
    /\ \A s \in Slots : step[s] = "idle"
    /\ silent = {}
    /\ link' = link \cup Slots
    /\ inbox' = [s \in Slots |-> {}]
    /\ partial' = [s \in Slots |-> None]
    /\ lost' = {}
    /\ queues' = {}
    /\ consumed' = {}
    /\ kept' = {}
    /\ UNCHANGED <<silent, step, req, outcome, incoming, workerVars, history>>

-----------------------------------------------------------------------------
(* The RabbitMQ broker. *)

\* The workers consume with acknowledgements (no_ack = 0): the broker takes back
\* what it pushed to a connection that ends, unless it was acknowledged.
NothingReturned(w) == {} \* mutant
Returned(w) == pushed[w] \cup unacked[w]

\* There is no basic.qos: a worker is pushed requests while it works on another.
Push(w) ==
    /\ w \in link
    /\ \E r \in incoming :
          /\ incoming' = incoming \ {r}
          /\ pushed' = [pushed EXCEPT ![w] = @ \cup {r}]
    /\ UNCHANGED <<conn, slotVars, queues, consumed, kept, unacked, work, job,
                   solved, history>>

\* The private queues are consumed without acknowledgement (no_ack = 1).
Deliver(r) ==
    /\ r \in kept \cap consumed
    /\ Answers(r[1])
    /\ kept' = kept \ {r}
    /\ inbox' = [inbox EXCEPT ![r[1]] = @ \cup {r}]
    /\ UNCHANGED <<conn, step, req, outcome, partial, lost, queues, consumed,
                   incoming, workerVars, history>>

\* x-message-ttl of the private queue.
Expire(r) ==
    /\ r \in kept
    /\ kept' = kept \ {r}
    /\ UNCHANGED <<conn, slotVars, queues, consumed, incoming, workerVars, history>>

\* The broker restarts: the durable queue and its persistent messages survive,
\* unacknowledged ones return to it; connections and private queues are gone.
BrokerRestart ==
    /\ link' = {}
    /\ silent' = {}
    /\ queues' = {}
    /\ consumed' = {}
    /\ kept' = {}
    /\ incoming' = incoming \cup UNION {Returned(w) : w \in Workers}
    /\ pushed' = [w \in Workers |-> {}]
    /\ unacked' = [w \in Workers |-> {}]
    /\ UNCHANGED <<slotVars, work, job, solved, history>>

\* The broker's host, or the way to it, fails without closing the connection.
FallSilent(s) ==
    /\ s \in link \ silent
    /\ silent' = silent \cup {s}
    /\ UNCHANGED <<link, slotVars, brokerVars, workerVars, history>>

-----------------------------------------------------------------------------
(* The loop of a remote worker. *)

StartWorker(w) ==
    /\ work[w] = "down"
    /\ link' = link \cup {w}
    /\ work' = [work EXCEPT ![w] = "consume"]
    /\ UNCHANGED <<silent, slotVars, brokerVars, pushed, unacked, job, solved,
                   history>>

ConsumeMessage(w) ==
    /\ work[w] = "consume"
    /\ \E r \in pushed[w] :
          /\ pushed' = [pushed EXCEPT ![w] = @ \ {r}]
          /\ unacked' = [unacked EXCEPT ![w] = @ \cup {r}]
          /\ job' = [job EXCEPT ![w] = r]
    /\ work' = [work EXCEPT ![w] = "pow"]
    /\ UNCHANGED <<conn, slotVars, brokerVars, solved, history>>

\* dcurl_entry in the worker's process: a result or NULL.
DoPow(w) ==
    /\ work[w] = "pow"
    /\ solved' \in {[solved EXCEPT ![w] = b] : b \in BOOLEAN}
    /\ work' = [work EXCEPT ![w] = "ack"]
    /\ UNCHANGED <<conn, slotVars, brokerVars, pushed, unacked, job, history>>

\* basic.ack, sent whatever dcurl_entry returned.
NotAcked(w) == unacked \* mutant
Acked(w) == [unacked EXCEPT ![w] = @ \ {job[w]}]

AcknowledgeBroker(w) ==
    /\ work[w] = "ack"
    /\ unacked' = Acked(w)
    /\ acked' = IF w \in link THEN acked \cup {job[w]} ELSE acked
    /\ work' = [work EXCEPT ![w] = "publish"]
    /\ UNCHANGED <<conn, slotVars, brokerVars, pushed, job, solved, published,
                   replies>>

\* A result for a private queue that is gone is dropped by the default exchange.
\* NULL is no string to publish: the worker dies of it.
PublishResult(w) ==
    /\ work[w] = "publish"
    /\ solved[w]
    /\ LET reaches == w \in link /\ job[w] \in queues
       IN  /\ kept' = IF reaches THEN kept \cup {job[w]} ELSE kept
           /\ replies' = IF reaches THEN [replies EXCEPT ![job[w]] = @ + 1]
                                    ELSE replies
    /\ work' = [work EXCEPT ![w] = "consume"]
    /\ job' = [job EXCEPT ![w] = None]
    /\ solved' = [solved EXCEPT ![w] = FALSE]
    /\ UNCHANGED <<conn, slotVars, queues, consumed, incoming, pushed, unacked,
                   published, acked>>

\* The worker ends: a failed broker operation, the NULL result, or a crash. The
\* broker takes back what it did not acknowledge.
StopWorker(w) ==
    /\ work[w] # "down"
    /\ link' = link \ {w}
    /\ incoming' = incoming \cup Returned(w)
    /\ pushed' = [pushed EXCEPT ![w] = {}]
    /\ unacked' = [unacked EXCEPT ![w] = {}]
    /\ work' = [work EXCEPT ![w] = "down"]
    /\ job' = [job EXCEPT ![w] = None]
    /\ solved' = [solved EXCEPT ![w] = FALSE]
    /\ UNCHANGED <<silent, slotVars, queues, consumed, kept, history>>

-----------------------------------------------------------------------------
RemoteDoPow(s) ==
    \/ DeclareCallbackQueue(s)
    \/ PublishRequest(s)
    \/ Subscribe(s)
    \/ SkipFrames(s)
    \/ WaitResponse(s)
    \/ GiveUp(s)
    \/ GiveUpReading(s)

Worker(w) ==
    \/ ConsumeMessage(w)
    \/ DoPow(w)
    \/ AcknowledgeBroker(w)
    \/ PublishResult(w)

Next ==
    \/ \E s \in Slots : Begin(s) \/ RemoteDoPow(s) \/ FallSilent(s)
    \/ \E w \in Workers : Push(w) \/ StartWorker(w) \/ Worker(w) \/ StopWorker(w)
    \/ \E r \in Requests : Deliver(r) \/ Expire(r)
    \/ Reconnect
    \/ BrokerRestart

Spec == Init /\ [][Next]_vars

\* The calling thread runs: an operation that the broker answers returns, and each
\* wait for a frame ends after 10 s at most. A blocked operation has no step.
FairSpec == Spec /\ \A s \in Slots : WF_vars(RemoteDoPow(s))

-----------------------------------------------------------------------------
(* Properties. *)

TypeOK ==
    /\ link \subseteq Slots \cup Workers
    /\ silent \subseteq Slots
    /\ step \in [Slots -> {"idle", "declare", "publish", "subscribe", "wait"}]
    /\ req \in [Slots -> 0 .. MaxRequests]
    /\ outcome \in [Slots -> Requests \cup {None}]
    /\ inbox \in [Slots -> SUBSET Requests]
    /\ partial \in [Slots -> Requests \cup {None}]
    /\ lost \subseteq Requests
    /\ queues \subseteq Requests
    /\ consumed \subseteq Requests
    /\ kept \subseteq Requests
    /\ incoming \subseteq Requests
    /\ pushed \in [Workers -> SUBSET Requests]
    /\ unacked \in [Workers -> SUBSET Requests]
    /\ work \in [Workers -> {"down", "consume", "pow", "ack", "publish"}]
    /\ job \in [Workers -> Requests \cup {None}]
    /\ solved \in [Workers -> BOOLEAN]
    /\ published \subseteq Requests
    /\ acked \subseteq Requests
    /\ replies \in [Requests -> Nat]

\* A request is answered at most once, however often it is redelivered: the
\* worker acknowledges before it publishes (remote_worker.c:90, 95).
OneReplyPerRequest == \A r \in Requests : replies[r] <= 1

\* Where the broker has a published request.
Keepers(r) == {w \in Workers \cap link : r \in pushed[w] \cup unacked[w]}

\* A published request is in exactly one place, incoming_queue or a connected
\* worker, until it is acknowledged, and in none afterwards: worker crashes,
\* restarts of the broker and redelivery neither lose nor duplicate it.
RequestConserved ==
    \A r \in published :
        /\ r \in acked => r \notin incoming /\ Keepers(r) = {}
        /\ r \notin acked => IF r \in incoming THEN Keepers(r) = {}
                                               ELSE Cardinality(Keepers(r)) = 1

\* s waits for the answer of a silent broker, for which the code sets no limit
\* (remote_common.c:135, 184; heartbeat 0 in remote_common.c:84).
Hangs(s) == s \in silent /\ step[s] \in {"declare", "subscribe"}

\* remote_do_pow returns, with a reply or for the fallback to the local pool,
\* unless the broker falls silent where the code waits for its answer: no loss,
\* crash, restart, expiry, silence during the wait for the reply, nor what earlier
\* requests left behind, keeps it.
RequestEnds ==
    \A s \in Slots : step[s] # "idle" ~> step[s] = "idle" \/ Hangs(s)

\* RemoteRpc gives dcurl_entry what it assumes of a slot.
Channel == INSTANCE RemoteChannel WITH busy <- {s \in Slots : step[s] # "idle"}
ChannelSpec == Channel!Spec

\* remote_common.c:278: "everything was fine [...] we received the reply": the
\* message that ends the wait is the reply to this request.
ReplyIsOwn == \A s \in Slots : outcome[s] \in {None, Request(s)}

\* remote_common.c:335: the acknowledgement is there to "make sure a message is
\* never lost": a request is acknowledged when it is answered, or is being
\* answered by the worker that acknowledged it.
AckedIsAnswered ==
    \A r \in acked \cap queues :
        replies[r] > 0 \/ \E w \in Workers : work[w] = "publish" /\ job[w] = r

-----------------------------------------------------------------------------
(* The inductive invariants behind these properties.                         *)

Held(w) == pushed[w] \cup unacked[w]

\* A worker is "down" without a connection; one that lost its connection to a
\* restart of the broker goes on with its step, holding nothing.
ConnInv ==
    \A w \in Workers :
        /\ work[w] = "down" => w \notin link
        /\ w \notin link => pushed[w] = {} /\ unacked[w] = {}

\* A worker has not acknowledged the request it works on, and no other.
WorkInv ==
    \A w \in Workers :
        /\ work[w] \in {"pow", "ack", "publish"} => job[w] \in Requests
        /\ unacked[w] = IF w \in link /\ work[w] \in {"pow", "ack"}
                          THEN {job[w]} ELSE {}

\* Requests are numbered in the order they are made, from 1.
FreshInv ==
    /\ \A s \in Slots : step[s] # "idle" => req[s] > 0
    /\ \A r \in published : r[2] <= req[r[1]]
    /\ \A s \in Slots :
           step[s] \in {"declare", "publish"} => Request(s) \notin published

\* A request that was published and not acknowledged is in one place.
PlaceInv ==
    /\ acked \subseteq published
    /\ incoming \subseteq published \ acked
    /\ \A w \in Workers :
           /\ Held(w) \subseteq published \ acked
           /\ Held(w) \cap incoming = {}
           /\ pushed[w] \cap unacked[w] = {}
           /\ \A v \in Workers \ {w} : Held(v) \cap Held(w) = {}
    /\ \A r \in published \ acked :
           r \in incoming \/ \E w \in Workers : r \in Held(w)

\* Only the worker that acknowledged a request, on the connection on which it did,
\* answers it.
AnswerInv ==
    /\ \A r \in Requests : replies[r] > 0 => r \in acked
    /\ \A w \in Workers \cap link : work[w] = "publish" =>
           /\ job[w] \in acked
           /\ replies[job[w]] = 0
           /\ \A v \in (Workers \cap link) \ {w} :
                  work[v] = "publish" => job[v] # job[w]

\* A reply that may still come, or has come, is the one to the request in progress
\* or to a lost one; there is one of each at most.
Pending(r) ==
    \/ r \in lost
    \/ r = Request(r[1]) /\ step[r[1]] \in {"subscribe", "wait"}

PendInv ==
    /\ \A r \in published \cap queues : replies[r] = 0 => Pending(r)
    /\ \A r \in kept :
           replies[r] > 0 /\ Pending(r) /\ r \notin inbox[r[1]]
    /\ \A s \in Slots : \A r \in inbox[s] :
           r[1] = s /\ replies[r] > 0 /\ Pending(r)
=============================================================================
