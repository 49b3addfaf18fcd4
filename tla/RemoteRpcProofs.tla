--------------------------- MODULE RemoteRpcProofs ---------------------------
(* Proofs about RemoteRpc. *)
EXTENDS RemoteRpc, FiniteSetTheorems, TLAPS

\* The request in progress is one of the requests.
LEMMA RequestType ==
    ASSUME TypeOK, FreshInv, NEW s \in Slots, step[s] # "idle"
    PROVE  Request(s) \in Requests
BY RequestAssumption DEF TypeOK, FreshInv, Request, Requests

-----------------------------------------------------------------------------
(* Type correctness. *)

LEMMA TypeStep ==
    ASSUME TypeOK, FreshInv, WorkInv, [Next]_vars
    PROVE  TypeOK'
<1> USE RequestAssumption DEF TypeOK, conn, slotVars, brokerVars, workerVars, history
<1>1. ASSUME NEW s \in Slots, Begin(s) PROVE TypeOK'
  BY <1>1 DEF Begin
<1>2. ASSUME NEW s \in Slots, DeclareCallbackQueue(s) PROVE TypeOK'
  BY <1>2, RequestType DEF DeclareCallbackQueue
<1>3. ASSUME NEW s \in Slots, PublishRequest(s) PROVE TypeOK'
  BY <1>3, RequestType DEF PublishRequest
<1>4. ASSUME NEW s \in Slots, Subscribe(s) PROVE TypeOK'
  BY <1>4, RequestType DEF Subscribe
<1>5. ASSUME NEW s \in Slots, WaitResponse(s) PROVE TypeOK'
  BY <1>5, RequestType DEF WaitResponse, Readable, Read
<1>6. ASSUME NEW s \in Slots, GiveUp(s) PROVE TypeOK'
  BY <1>6, RequestType DEF GiveUp, MayFail
<1>7. ASSUME NEW w \in Workers, Push(w) PROVE TypeOK'
  BY <1>7 DEF Push
<1>8. ASSUME NEW w \in Workers, StartWorker(w) PROVE TypeOK'
  BY <1>8 DEF StartWorker
<1>9. ASSUME NEW w \in Workers, ConsumeMessage(w) PROVE TypeOK'
  BY <1>9 DEF ConsumeMessage
<1>10. ASSUME NEW w \in Workers, DoPow(w) PROVE TypeOK'
  BY <1>10 DEF DoPow
<1>11. ASSUME NEW w \in Workers, AcknowledgeBroker(w) PROVE TypeOK'
  BY <1>11 DEF AcknowledgeBroker, Acked, WorkInv
<1>12. ASSUME NEW w \in Workers, PublishResult(w) PROVE TypeOK'
  BY <1>12 DEF PublishResult
<1>13. ASSUME NEW w \in Workers, StopWorker(w) PROVE TypeOK'
  BY <1>13 DEF StopWorker, Returned
<1>14. ASSUME NEW r \in Requests, Deliver(r) PROVE TypeOK'
  BY <1>14 DEF Deliver
<1>15. ASSUME NEW r \in Requests, Expire(r) PROVE TypeOK'
  BY <1>15 DEF Expire
<1>16. CASE Reconnect
  BY <1>16 DEF Reconnect
<1>17. CASE BrokerRestart
  BY <1>17 DEF BrokerRestart, Returned
<1>18. ASSUME NEW s \in Slots, SkipFrames(s) PROVE TypeOK'
  BY <1>18 DEF SkipFrames
<1>19. ASSUME NEW s \in Slots, GiveUpReading(s) PROVE TypeOK'
  BY <1>19, RequestType DEF GiveUpReading, MayFail, Readable, Read
<1>20. ASSUME NEW s \in Slots, FallSilent(s) PROVE TypeOK'
  BY <1>20 DEF FallSilent
<1>21. CASE UNCHANGED vars
  BY <1>21 DEF vars
<1> QED
  BY <1>1, <1>2, <1>3, <1>4, <1>5, <1>6, <1>7, <1>8, <1>9, <1>10, <1>11, <1>12, <1>13, <1>14, <1>15, <1>16, <1>17, <1>18, <1>19, <1>20, <1>21 DEF Next, RemoteDoPow, Worker

-----------------------------------------------------------------------------
(* The requests are numbered, and the workers hold what they are pushed. *)

LEMMA RequestParts ==
    ASSUME NEW r \in Requests
    PROVE  r[1] \in Slots /\ r[2] \in Nat /\ r = <<r[1], r[2]>>
BY RequestAssumption DEF Requests

LEMMA FreshStep ==
    ASSUME TypeOK, FreshInv, [Next]_vars
    PROVE  FreshInv'
<1> USE RequestParts DEF TypeOK, FreshInv, Request, conn, slotVars, brokerVars, workerVars, history
<1>1. ASSUME NEW s \in Slots, Begin(s) PROVE FreshInv'
  BY <1>1 DEF Begin
<1>2. ASSUME NEW s \in Slots, DeclareCallbackQueue(s) PROVE FreshInv'
  BY <1>2 DEF DeclareCallbackQueue
<1>3. ASSUME NEW s \in Slots, PublishRequest(s) PROVE FreshInv'
  BY <1>3 DEF PublishRequest
<1>4. ASSUME NEW s \in Slots, Subscribe(s) PROVE FreshInv'
  BY <1>4 DEF Subscribe
<1>5. ASSUME NEW s \in Slots, WaitResponse(s) PROVE FreshInv'
  BY <1>5 DEF WaitResponse, Readable, Read
<1>6. ASSUME NEW s \in Slots, GiveUp(s) PROVE FreshInv'
  BY <1>6 DEF GiveUp, MayFail
<1>7. ASSUME NEW w \in Workers, Push(w) PROVE FreshInv'
  BY <1>7 DEF Push
<1>8. ASSUME NEW w \in Workers, StartWorker(w) PROVE FreshInv'
  BY <1>8 DEF StartWorker
<1>9. ASSUME NEW w \in Workers, ConsumeMessage(w) PROVE FreshInv'
  BY <1>9 DEF ConsumeMessage
<1>10. ASSUME NEW w \in Workers, DoPow(w) PROVE FreshInv'
  BY <1>10 DEF DoPow
<1>11. ASSUME NEW w \in Workers, AcknowledgeBroker(w) PROVE FreshInv'
  BY <1>11 DEF AcknowledgeBroker, Acked
<1>12. ASSUME NEW w \in Workers, PublishResult(w) PROVE FreshInv'
  BY <1>12 DEF PublishResult
<1>13. ASSUME NEW w \in Workers, StopWorker(w) PROVE FreshInv'
  BY <1>13 DEF StopWorker, Returned
<1>14. ASSUME NEW r \in Requests, Deliver(r) PROVE FreshInv'
  BY <1>14 DEF Deliver
<1>15. ASSUME NEW r \in Requests, Expire(r) PROVE FreshInv'
  BY <1>15 DEF Expire
<1>16. CASE Reconnect
  BY <1>16 DEF Reconnect
<1>17. CASE BrokerRestart
  BY <1>17 DEF BrokerRestart, Returned
<1>18. ASSUME NEW s \in Slots, SkipFrames(s) PROVE FreshInv'
  BY <1>18 DEF SkipFrames
<1>19. ASSUME NEW s \in Slots, GiveUpReading(s) PROVE FreshInv'
  BY <1>19 DEF GiveUpReading, MayFail, Readable, Read
<1>20. ASSUME NEW s \in Slots, FallSilent(s) PROVE FreshInv'
  BY <1>20 DEF FallSilent
<1>21. CASE UNCHANGED vars
  BY <1>21 DEF vars
<1> QED
  BY <1>1, <1>2, <1>3, <1>4, <1>5, <1>6, <1>7, <1>8, <1>9, <1>10, <1>11, <1>12, <1>13, <1>14, <1>15, <1>16, <1>17, <1>18, <1>19, <1>20, <1>21 DEF Next, RemoteDoPow, Worker

LEMMA ConnStep ==
    ASSUME TypeOK, ConnInv, [Next]_vars
    PROVE  ConnInv'
<1> USE PartyAssumption DEF TypeOK, ConnInv, conn, slotVars, brokerVars, workerVars, history
<1>1. ASSUME NEW s \in Slots, Begin(s) PROVE ConnInv'
  BY <1>1 DEF Begin
<1>2. ASSUME NEW s \in Slots, DeclareCallbackQueue(s) PROVE ConnInv'
  BY <1>2 DEF DeclareCallbackQueue
<1>3. ASSUME NEW s \in Slots, PublishRequest(s) PROVE ConnInv'
  BY <1>3 DEF PublishRequest
<1>4. ASSUME NEW s \in Slots, Subscribe(s) PROVE ConnInv'
  BY <1>4 DEF Subscribe
<1>5. ASSUME NEW s \in Slots, WaitResponse(s) PROVE ConnInv'
  BY <1>5 DEF WaitResponse, Readable, Read
<1>6. ASSUME NEW s \in Slots, GiveUp(s) PROVE ConnInv'
  BY <1>6 DEF GiveUp, MayFail
<1>7. ASSUME NEW w \in Workers, Push(w) PROVE ConnInv'
  BY <1>7 DEF Push
<1>8. ASSUME NEW w \in Workers, StartWorker(w) PROVE ConnInv'
  BY <1>8 DEF StartWorker
<1>9. ASSUME NEW w \in Workers, ConsumeMessage(w) PROVE ConnInv'
  BY <1>9 DEF ConsumeMessage
<1>10. ASSUME NEW w \in Workers, DoPow(w) PROVE ConnInv'
  BY <1>10 DEF DoPow
<1>11. ASSUME NEW w \in Workers, AcknowledgeBroker(w) PROVE ConnInv'
  BY <1>11 DEF AcknowledgeBroker, Acked
<1>12. ASSUME NEW w \in Workers, PublishResult(w) PROVE ConnInv'
  BY <1>12 DEF PublishResult
<1>13. ASSUME NEW w \in Workers, StopWorker(w) PROVE ConnInv'
  BY <1>13 DEF StopWorker, Returned
<1>14. ASSUME NEW r \in Requests, Deliver(r) PROVE ConnInv'
  BY <1>14 DEF Deliver
<1>15. ASSUME NEW r \in Requests, Expire(r) PROVE ConnInv'
  BY <1>15 DEF Expire
<1>16. CASE Reconnect
  BY <1>16 DEF Reconnect
<1>17. CASE BrokerRestart
  BY <1>17 DEF BrokerRestart, Returned
<1>18. ASSUME NEW s \in Slots, SkipFrames(s) PROVE ConnInv'
  BY <1>18 DEF SkipFrames
<1>19. ASSUME NEW s \in Slots, GiveUpReading(s) PROVE ConnInv'
  BY <1>19 DEF GiveUpReading, MayFail, Readable, Read
<1>20. ASSUME NEW s \in Slots, FallSilent(s) PROVE ConnInv'
  BY <1>20 DEF FallSilent
<1>21. CASE UNCHANGED vars
  BY <1>21 DEF vars
<1> QED
  BY <1>1, <1>2, <1>3, <1>4, <1>5, <1>6, <1>7, <1>8, <1>9, <1>10, <1>11, <1>12, <1>13, <1>14, <1>15, <1>16, <1>17, <1>18, <1>19, <1>20, <1>21 DEF Next, RemoteDoPow, Worker

LEMMA WorkStep ==
    ASSUME TypeOK, ConnInv, WorkInv, [Next]_vars
    PROVE  WorkInv'
<1> USE PartyAssumption DEF TypeOK, ConnInv, WorkInv, conn, slotVars, brokerVars, workerVars, history
<1>1. ASSUME NEW s \in Slots, Begin(s) PROVE WorkInv'
  BY <1>1 DEF Begin
<1>2. ASSUME NEW s \in Slots, DeclareCallbackQueue(s) PROVE WorkInv'
  BY <1>2 DEF DeclareCallbackQueue
<1>3. ASSUME NEW s \in Slots, PublishRequest(s) PROVE WorkInv'
  BY <1>3 DEF PublishRequest
<1>4. ASSUME NEW s \in Slots, Subscribe(s) PROVE WorkInv'
  BY <1>4 DEF Subscribe
<1>5. ASSUME NEW s \in Slots, WaitResponse(s) PROVE WorkInv'
  BY <1>5 DEF WaitResponse, Readable, Read
<1>6. ASSUME NEW s \in Slots, GiveUp(s) PROVE WorkInv'
  BY <1>6 DEF GiveUp, MayFail
<1>7. ASSUME NEW w \in Workers, Push(w) PROVE WorkInv'
  BY <1>7 DEF Push
<1>8. ASSUME NEW w \in Workers, StartWorker(w) PROVE WorkInv'
  BY <1>8 DEF StartWorker
<1>9. ASSUME NEW w \in Workers, ConsumeMessage(w) PROVE WorkInv'
  <2>1. w \in link /\ unacked[w] = {}
    BY <1>9 DEF ConsumeMessage
  <2>2. PICK r \in pushed[w] :
            /\ unacked' = [unacked EXCEPT ![w] = @ \cup {r}]
            /\ job' = [job EXCEPT ![w] = r]
    BY <1>9 DEF ConsumeMessage
  <2>3. r \in Requests
    BY <2>2
  <2>4. unacked'[w] = {r} /\ job'[w] = r /\ work'[w] = "pow" /\ w \in link'
    BY <1>9, <2>1, <2>2 DEF ConsumeMessage
  <2>5. ASSUME NEW v \in Workers \ {w}
        PROVE  /\ unacked'[v] = unacked[v] /\ job'[v] = job[v]
               /\ work'[v] = work[v] /\ link' = link
    BY <1>9, <2>2 DEF ConsumeMessage
  <2>6. ASSUME NEW v \in Workers
        PROVE  /\ work'[v] \in {"pow", "ack", "publish"} => job'[v] \in Requests
               /\ unacked'[v] = IF v \in link' /\ work'[v] \in {"pow", "ack"}
                                 THEN {job'[v]} ELSE {}
    <3>1. CASE v = w
      BY <2>3, <2>4, <3>1
    <3>2. CASE v # w
      BY <2>5, <3>2
    <3> QED
      BY <3>1, <3>2
  <2> QED
    BY <2>6, Zenon DEF WorkInv
<1>10. ASSUME NEW w \in Workers, DoPow(w) PROVE WorkInv'
  BY <1>10 DEF DoPow
<1>11. ASSUME NEW w \in Workers, AcknowledgeBroker(w) PROVE WorkInv'
  BY <1>11 DEF AcknowledgeBroker, Acked
<1>12. ASSUME NEW w \in Workers, PublishResult(w) PROVE WorkInv'
  BY <1>12 DEF PublishResult
<1>13. ASSUME NEW w \in Workers, StopWorker(w) PROVE WorkInv'
  BY <1>13 DEF StopWorker, Returned
<1>14. ASSUME NEW r \in Requests, Deliver(r) PROVE WorkInv'
  BY <1>14 DEF Deliver
<1>15. ASSUME NEW r \in Requests, Expire(r) PROVE WorkInv'
  BY <1>15 DEF Expire
<1>16. CASE Reconnect
  BY <1>16 DEF Reconnect
<1>17. CASE BrokerRestart
  BY <1>17 DEF BrokerRestart, Returned
<1>18. ASSUME NEW s \in Slots, SkipFrames(s) PROVE WorkInv'
  BY <1>18 DEF SkipFrames
<1>19. ASSUME NEW s \in Slots, GiveUpReading(s) PROVE WorkInv'
  BY <1>19 DEF GiveUpReading, MayFail, Readable, Read
<1>20. ASSUME NEW s \in Slots, FallSilent(s) PROVE WorkInv'
  BY <1>20 DEF FallSilent
<1>21. CASE UNCHANGED vars
  BY <1>21 DEF vars
<1> QED
  BY <1>1, <1>2, <1>3, <1>4, <1>5, <1>6, <1>7, <1>8, <1>9, <1>10, <1>11, <1>12, <1>13, <1>14, <1>15, <1>16, <1>17, <1>18, <1>19, <1>20, <1>21 DEF Next, RemoteDoPow, Worker

-----------------------------------------------------------------------------
(* Each request is in one place. *)

LEMMA PlaceStep ==
    ASSUME TypeOK, ConnInv, WorkInv, FreshInv, PlaceInv, [Next]_vars
    PROVE  PlaceInv'
<1> USE DEF TypeOK, PlaceInv, Held, conn, slotVars, brokerVars, workerVars, history
<1>1. ASSUME NEW s \in Slots, Begin(s) PROVE PlaceInv'
  BY <1>1 DEF Begin
<1>2. ASSUME NEW s \in Slots, DeclareCallbackQueue(s) PROVE PlaceInv'
  BY <1>2 DEF DeclareCallbackQueue
<1>3. ASSUME NEW s \in Slots, PublishRequest(s) PROVE PlaceInv'
  BY <1>3 DEF PublishRequest, FreshInv
<1>4. ASSUME NEW s \in Slots, Subscribe(s) PROVE PlaceInv'
  BY <1>4 DEF Subscribe
<1>5. ASSUME NEW s \in Slots, WaitResponse(s) PROVE PlaceInv'
  BY <1>5 DEF WaitResponse, Readable, Read
<1>6. ASSUME NEW s \in Slots, GiveUp(s) PROVE PlaceInv'
  BY <1>6 DEF GiveUp, MayFail
<1>7. ASSUME NEW w \in Workers, Push(w) PROVE PlaceInv'
  BY <1>7 DEF Push
<1>8. ASSUME NEW w \in Workers, StartWorker(w) PROVE PlaceInv'
  BY <1>8 DEF StartWorker
<1>9. ASSUME NEW w \in Workers, ConsumeMessage(w) PROVE PlaceInv'
  BY <1>9 DEF ConsumeMessage, WorkInv
<1>10. ASSUME NEW w \in Workers, DoPow(w) PROVE PlaceInv'
  BY <1>10 DEF DoPow
<1>11. ASSUME NEW w \in Workers, AcknowledgeBroker(w) PROVE PlaceInv'
  BY <1>11 DEF AcknowledgeBroker, Acked, WorkInv
<1>12. ASSUME NEW w \in Workers, PublishResult(w) PROVE PlaceInv'
  BY <1>12 DEF PublishResult
<1>13. ASSUME NEW w \in Workers, StopWorker(w) PROVE PlaceInv'
  BY <1>13 DEF StopWorker, Returned
<1>14. ASSUME NEW r \in Requests, Deliver(r) PROVE PlaceInv'
  BY <1>14 DEF Deliver
<1>15. ASSUME NEW r \in Requests, Expire(r) PROVE PlaceInv'
  BY <1>15 DEF Expire
<1>16. CASE Reconnect
  BY <1>16 DEF Reconnect
<1>17. CASE BrokerRestart
  BY <1>17 DEF BrokerRestart, Returned
<1>18. ASSUME NEW s \in Slots, SkipFrames(s) PROVE PlaceInv'
  BY <1>18 DEF SkipFrames
<1>19. ASSUME NEW s \in Slots, GiveUpReading(s) PROVE PlaceInv'
  BY <1>19 DEF GiveUpReading, MayFail, Readable, Read
<1>20. ASSUME NEW s \in Slots, FallSilent(s) PROVE PlaceInv'
  BY <1>20 DEF FallSilent
<1>21. CASE UNCHANGED vars
  BY <1>21 DEF vars
<1> QED
  BY <1>1, <1>2, <1>3, <1>4, <1>5, <1>6, <1>7, <1>8, <1>9, <1>10, <1>11, <1>12, <1>13, <1>14, <1>15, <1>16, <1>17, <1>18, <1>19, <1>20, <1>21 DEF Next, RemoteDoPow, Worker

-----------------------------------------------------------------------------
(* Each request is answered once. *)

LEMMA AnswerStep ==
    ASSUME TypeOK, ConnInv, WorkInv, FreshInv, PlaceInv, AnswerInv, [Next]_vars
    PROVE  AnswerInv'
<1> USE DEF TypeOK, AnswerInv, conn, slotVars, brokerVars, workerVars, history
<1>1. ASSUME NEW s \in Slots, Begin(s) PROVE AnswerInv'
  BY <1>1 DEF Begin
<1>2. ASSUME NEW s \in Slots, DeclareCallbackQueue(s) PROVE AnswerInv'
  BY <1>2 DEF DeclareCallbackQueue
<1>3. ASSUME NEW s \in Slots, PublishRequest(s) PROVE AnswerInv'
  BY <1>3 DEF PublishRequest
<1>4. ASSUME NEW s \in Slots, Subscribe(s) PROVE AnswerInv'
  BY <1>4 DEF Subscribe
<1>5. ASSUME NEW s \in Slots, WaitResponse(s) PROVE AnswerInv'
  BY <1>5 DEF WaitResponse, Readable, Read
<1>6. ASSUME NEW s \in Slots, GiveUp(s) PROVE AnswerInv'
  BY <1>6 DEF GiveUp, MayFail
<1>7. ASSUME NEW w \in Workers, Push(w) PROVE AnswerInv'
  BY <1>7 DEF Push
<1>8. ASSUME NEW w \in Workers, StartWorker(w) PROVE AnswerInv'
  BY <1>8 DEF StartWorker, ConnInv
<1>9. ASSUME NEW w \in Workers, ConsumeMessage(w) PROVE AnswerInv'
  BY <1>9 DEF ConsumeMessage
<1>10. ASSUME NEW w \in Workers, DoPow(w) PROVE AnswerInv'
  BY <1>10 DEF DoPow
<1>11. ASSUME NEW w \in Workers, AcknowledgeBroker(w) PROVE AnswerInv'
  BY <1>11 DEF AcknowledgeBroker, Acked, WorkInv, PlaceInv, Held
<1>12. ASSUME NEW w \in Workers, PublishResult(w) PROVE AnswerInv'
  BY <1>12 DEF PublishResult, WorkInv
<1>13. ASSUME NEW w \in Workers, StopWorker(w) PROVE AnswerInv'
  BY <1>13 DEF StopWorker, Returned
<1>14. ASSUME NEW r \in Requests, Deliver(r) PROVE AnswerInv'
  BY <1>14 DEF Deliver
<1>15. ASSUME NEW r \in Requests, Expire(r) PROVE AnswerInv'
  BY <1>15 DEF Expire
<1>16. CASE Reconnect
  BY <1>16, PartyAssumption DEF Reconnect
<1>17. CASE BrokerRestart
  BY <1>17 DEF BrokerRestart, Returned
<1>18. ASSUME NEW s \in Slots, SkipFrames(s) PROVE AnswerInv'
  BY <1>18 DEF SkipFrames
<1>19. ASSUME NEW s \in Slots, GiveUpReading(s) PROVE AnswerInv'
  BY <1>19 DEF GiveUpReading, MayFail, Readable, Read
<1>20. ASSUME NEW s \in Slots, FallSilent(s) PROVE AnswerInv'
  BY <1>20 DEF FallSilent
<1>21. CASE UNCHANGED vars
  BY <1>21 DEF vars
<1> QED
  BY <1>1, <1>2, <1>3, <1>4, <1>5, <1>6, <1>7, <1>8, <1>9, <1>10, <1>11, <1>12, <1>13, <1>14, <1>15, <1>16, <1>17, <1>18, <1>19, <1>20, <1>21 DEF Next, RemoteDoPow, Worker

-----------------------------------------------------------------------------
(* The replies on their way. *)

LEMMA PendStep ==
    ASSUME TypeOK, WorkInv, FreshInv, PlaceInv, AnswerInv, PendInv, [Next]_vars
    PROVE  PendInv'
<1> USE RequestParts DEF TypeOK, PendInv, Pending, Request, conn, slotVars, brokerVars, workerVars, history
<1>1. ASSUME NEW s \in Slots, Begin(s) PROVE PendInv'
  BY <1>1 DEF Begin
<1>2. ASSUME NEW s \in Slots, DeclareCallbackQueue(s) PROVE PendInv'
  BY <1>2 DEF DeclareCallbackQueue, FreshInv
<1>3. ASSUME NEW s \in Slots, PublishRequest(s) PROVE PendInv'
  BY <1>3 DEF PublishRequest, FreshInv, PlaceInv, AnswerInv
<1>4. ASSUME NEW s \in Slots, Subscribe(s) PROVE PendInv'
  BY <1>4 DEF Subscribe
<1>5. ASSUME NEW s \in Slots, WaitResponse(s) PROVE PendInv'
  BY <1>5 DEF WaitResponse, Readable, Read
<1>6. ASSUME NEW s \in Slots, GiveUp(s) PROVE PendInv'
  BY <1>6 DEF GiveUp, MayFail, FreshInv
<1>7. ASSUME NEW w \in Workers, Push(w) PROVE PendInv'
  BY <1>7 DEF Push
<1>8. ASSUME NEW w \in Workers, StartWorker(w) PROVE PendInv'
  BY <1>8 DEF StartWorker
<1>9. ASSUME NEW w \in Workers, ConsumeMessage(w) PROVE PendInv'
  BY <1>9 DEF ConsumeMessage
<1>10. ASSUME NEW w \in Workers, DoPow(w) PROVE PendInv'
  BY <1>10 DEF DoPow
<1>11. ASSUME NEW w \in Workers, AcknowledgeBroker(w) PROVE PendInv'
  BY <1>11 DEF AcknowledgeBroker, Acked
<1>12. ASSUME NEW w \in Workers, PublishResult(w) PROVE PendInv'
  BY <1>12 DEF PublishResult, WorkInv, PlaceInv, AnswerInv
<1>13. ASSUME NEW w \in Workers, StopWorker(w) PROVE PendInv'
  BY <1>13 DEF StopWorker, Returned
<1>14. ASSUME NEW r \in Requests, Deliver(r) PROVE PendInv'
  BY <1>14 DEF Deliver
<1>15. ASSUME NEW r \in Requests, Expire(r) PROVE PendInv'
  BY <1>15 DEF Expire
<1>16. CASE Reconnect
  BY <1>16 DEF Reconnect
<1>17. CASE BrokerRestart
  BY <1>17 DEF BrokerRestart, Returned
<1>18. ASSUME NEW s \in Slots, SkipFrames(s) PROVE PendInv'
  BY <1>18 DEF SkipFrames
<1>19. ASSUME NEW s \in Slots, GiveUpReading(s) PROVE PendInv'
  BY <1>19 DEF GiveUpReading, MayFail, Readable, Read, FreshInv
<1>20. ASSUME NEW s \in Slots, FallSilent(s) PROVE PendInv'
  BY <1>20 DEF FallSilent
<1>21. CASE UNCHANGED vars
  BY <1>21 DEF vars
<1> QED
  BY <1>1, <1>2, <1>3, <1>4, <1>5, <1>6, <1>7, <1>8, <1>9, <1>10, <1>11, <1>12, <1>13, <1>14, <1>15, <1>16, <1>17, <1>18, <1>19, <1>20, <1>21 DEF Next, RemoteDoPow, Worker

-----------------------------------------------------------------------------
(* The invariant, and what follows from it. *)

RpcInv ==
    /\ TypeOK /\ ConnInv /\ WorkInv /\ FreshInv
    /\ PlaceInv /\ AnswerInv /\ PendInv

LEMMA InitInv == Init => RpcInv
<1> SUFFICES ASSUME Init PROVE RpcInv
  OBVIOUS
<1> USE PartyAssumption, RequestAssumption DEF Init
<1>1. TypeOK
  BY DEF TypeOK
<1>2. ConnInv /\ WorkInv
  BY DEF ConnInv, WorkInv
<1>3. FreshInv
  BY DEF FreshInv
<1>4. PlaceInv
  BY DEF PlaceInv, Held
<1>5. AnswerInv
  BY DEF AnswerInv
<1>6. PendInv
  BY DEF PendInv
<1> QED
  BY <1>1, <1>2, <1>3, <1>4, <1>5, <1>6 DEF RpcInv

\* The invariant behind the theorems below: where the broker has each request, what
\* each worker holds and may still answer, which replies may still come
\* (remote_worker.c:86, remote_interface.c:113).
THEOREM Invariant == Spec => []RpcInv
<1>1. RpcInv /\ [Next]_vars => RpcInv'
  BY TypeStep, ConnStep, WorkStep, FreshStep, PlaceStep, AnswerStep, PendStep DEF RpcInv
<1> QED
  BY InitInv, <1>1, PTL DEF Spec

\* TypeOK, whatever fails and restarts: any slots, workers and number of requests.
THEOREM TypeCorrect == Spec => []TypeOK
<1>1. RpcInv => TypeOK
  BY DEF RpcInv
<1> QED
  BY Invariant, <1>1, PTL

LEMMA OnceStep ==
    ASSUME RpcInv, OneReplyPerRequest, [Next]_vars
    PROVE  OneReplyPerRequest'
<1>1. ASSUME NEW w \in Workers, PublishResult(w) PROVE OneReplyPerRequest'
  <2>1. w \in link /\ job[w] \in queues =>
            /\ replies' = [replies EXCEPT ![job[w]] = @ + 1]
            /\ replies[job[w]] = 0
    BY <1>1 DEF PublishResult, RpcInv, AnswerInv
  <2>2. ~(w \in link /\ job[w] \in queues) => replies' = replies
    BY <1>1 DEF PublishResult
  <2> QED
    BY <2>1, <2>2 DEF OneReplyPerRequest, RpcInv, TypeOK
<1>2. CASE replies' = replies
  BY <1>2 DEF OneReplyPerRequest
<1>3. replies' = replies \/ \E w \in Workers : PublishResult(w)
  BY DEF Next, RemoteDoPow, Worker, vars, history, Begin, DeclareCallbackQueue,
         PublishRequest, Subscribe, SkipFrames, WaitResponse, GiveUp, GiveUpReading,
         FallSilent, Push, StartWorker, ConsumeMessage, DoPow, AcknowledgeBroker, StopWorker, Deliver, Expire,
         Reconnect, BrokerRestart
<1> QED
  BY <1>1, <1>2, <1>3

\* OneReplyPerRequest: no request is answered twice, however often the broker
\* delivers it again, for any number of workers and restarts (remote_worker.c:90).
THEOREM OneReply == Spec => []OneReplyPerRequest
<1>1. Init => OneReplyPerRequest
  BY DEF Init, OneReplyPerRequest
<1> QED
  BY Invariant, <1>1, OnceStep, PTL DEF Spec

LEMMA KeepersOf ==
    ASSUME RpcInv, NEW r \in Requests
    PROVE  Keepers(r) = {w \in Workers : r \in Held(w)}
BY DEF RpcInv, ConnInv, Keepers, Held

\* RequestConserved: a request that was published is in one place until it is
\* acknowledged, and nowhere afterwards (remote_worker.c:86, 90).
THEOREM Conserved == Spec => []RequestConserved
<1>1. RpcInv => RequestConserved
  <2> SUFFICES ASSUME RpcInv, NEW r \in published
               PROVE  /\ r \in acked => r \notin incoming /\ Keepers(r) = {}
                      /\ r \notin acked =>
                             IF r \in incoming THEN Keepers(r) = {}
                                               ELSE Cardinality(Keepers(r)) = 1
    BY DEF RequestConserved
  <2>1. r \in Requests
    BY DEF RpcInv, TypeOK
  <2>2. Keepers(r) = {w \in Workers : r \in Held(w)}
    BY <2>1, KeepersOf
  <2>3. CASE r \in acked
    BY <2>2, <2>3 DEF RpcInv, PlaceInv
  <2>4. CASE r \in incoming
    BY <2>2, <2>4 DEF RpcInv, PlaceInv
  <2>5. CASE r \notin acked /\ r \notin incoming
    <3>1. PICK w \in Workers : r \in Held(w)
      BY <2>5 DEF RpcInv, PlaceInv
    <3>2. ASSUME NEW v \in Workers, r \in Held(v) PROVE v = w
      BY <3>1, <3>2 DEF RpcInv, PlaceInv
    <3>3. Keepers(r) = {w}
      BY <2>2, <3>1, <3>2
    <3> QED
      BY <2>5, <3>3, FS_Singleton
  <2> QED
    BY <2>3, <2>4, <2>5 DEF RpcInv, PlaceInv
<1> QED
  BY Invariant, <1>1, PTL

-----------------------------------------------------------------------------
(* The refinement of RemoteChannel. *)

Busy == {s \in Slots : step[s] # "idle"}

LEMMA ChannelInit == Init => Channel!Init
BY DEF Init, Channel!Init

\* What a slot reads is the reply to its request or to one that it lost.
LEMMA ReadReply ==
    ASSUME RpcInv, NEW s \in Slots, NEW r \in inbox[s]
    PROVE  r \in {Channel!Request(s)} \cup Channel!LostBy(s)
BY DEF RpcInv, PendInv, Pending, Request, Channel!Request, Channel!LostBy

LEMMA ChannelStep ==
    ASSUME RpcInv, [Next]_vars
    PROVE  [Channel!Next]_(Channel!vars)
<1> USE DEF Channel!Next, Channel!vars
<1>1. ASSUME NEW s \in Slots, Begin(s) PROVE Channel!Ask(s)
  BY <1>1 DEF Begin, Channel!Ask, RpcInv, TypeOK
<1>2. ASSUME NEW s \in Slots, WaitResponse(s) PROVE Channel!Answer(s)
  <2>1. PICK r \in inbox[s] :
            /\ outcome' = [outcome EXCEPT ![s] = r]
            /\ lost' = (lost \cup {Request(s)}) \ {r}
    BY <1>2 DEF WaitResponse, Readable
  <2>2. r \in {Channel!Request(s)} \cup Channel!LostBy(s)
    BY ReadReply
  <2>3. s \in Busy /\ Busy' = Busy \ {s} /\ req' = req
    BY <1>2 DEF WaitResponse, Readable, Busy, RpcInv, TypeOK
  <2> QED
    BY <2>1, <2>2, <2>3 DEF Channel!Answer, Channel!Request, Request, Busy
<1>3. ASSUME NEW s \in Slots, GiveUp(s) PROVE Channel!GiveUp(s)
  BY <1>3 DEF GiveUp, MayFail, Channel!GiveUp, Channel!Request, Request, RpcInv, TypeOK
<1>9. ASSUME NEW s \in Slots, GiveUpReading(s) PROVE Channel!GiveUp(s)
  <2>1. PICK r \in inbox[s] : lost' = (lost \cup {Request(s)}) \ {r}
    BY <1>9 DEF GiveUpReading, Readable
  <2>2. r \in {Channel!Request(s)} \cup Channel!LostBy(s)
    BY ReadReply
  <2>3. s \in Busy /\ Busy' = Busy \ {s} /\ req' = req /\ outcome' = outcome
    BY <1>9 DEF GiveUpReading, Readable, Busy, RpcInv, TypeOK
  <2> QED
    BY <2>1, <2>2, <2>3 DEF Channel!GiveUp, Channel!Request, Request, Busy
<1>4. CASE Reconnect
  BY <1>4 DEF Reconnect, Channel!Reset
<1>5. ASSUME NEW s \in Slots,
             \/ DeclareCallbackQueue(s) \/ PublishRequest(s) \/ Subscribe(s)
             \/ SkipFrames(s) \/ FallSilent(s)
      PROVE  UNCHANGED Channel!vars
  <2>1. Busy' = Busy
    BY <1>5 DEF DeclareCallbackQueue, PublishRequest, Subscribe, SkipFrames,
                FallSilent, slotVars, Busy, RpcInv, TypeOK
  <2> QED
    BY <1>5, <2>1 DEF DeclareCallbackQueue, PublishRequest, Subscribe, SkipFrames,
                     FallSilent, slotVars, Busy
<1>6. ASSUME NEW w \in Workers,
             Push(w) \/ StartWorker(w) \/ Worker(w) \/ StopWorker(w)
      PROVE  UNCHANGED Channel!vars
  BY <1>6 DEF Push, StartWorker, Worker, StopWorker, ConsumeMessage, DoPow,
              AcknowledgeBroker, PublishResult, slotVars
<1>7. ASSUME NEW r \in Requests, Deliver(r) \/ Expire(r)
      PROVE  UNCHANGED Channel!vars
  BY <1>7 DEF Deliver, Expire, slotVars
<1>8. CASE BrokerRestart \/ UNCHANGED vars
  BY <1>8 DEF BrokerRestart, vars, slotVars
<1> QED
  BY <1>1, <1>2, <1>3, <1>4, <1>5, <1>6, <1>7, <1>8, <1>9 DEF Next, RemoteDoPow

\* ChannelSpec: RemoteRpc gives dcurl_entry what it assumes of a remote slot, for
\* any slots, workers and number of requests. It rests on PendInv: a reply that
\* is read belongs to the request in progress or to one that was lost.
THEOREM ChannelRefined == Spec => ChannelSpec
BY ChannelInit, ChannelStep, Invariant, PTL DEF Spec, ChannelSpec, Channel!Spec

=============================================================================
