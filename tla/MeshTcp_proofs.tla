---------------------------- MODULE MeshTcp_proofs ----------------------------
(***************************************************************************)
(* Proofs about MeshTcp, for any number of experts, any batches and        *)
(* windows, and whatever fails and is retried: an expert serves a request  *)
(* once, the origin folds what it sealed in order and in whole batches,    *)
(* and an expert that met no fault is folded without a gap.                *)
(***************************************************************************)
EXTENDS MeshTcp, FiniteSetTheorems, SequenceTheorems, TLAPS

(* The position of an expert in the order of the dispatch, which is the    *)
(* sequence number of its request.                                         *)
PositionOf(x) == SelectInSeq(Experts, LAMBDA y : y = x)

Field == DOMAIN NoStream

(* A stream has the fields of a stream, whatever they hold.                *)
StreamsTyped ==
  \A x \in ExpertSet : stream[x] = [f \in Field |-> stream[x][f]]

MemoryTyped ==
  /\ DOMAIN stream = ExpertSet /\ stream = [x \in ExpertSet |-> stream[x]]
  /\ DOMAIN guard = ExpertSet /\ guard = [x \in ExpertSet |-> guard[x]]
  /\ \A x \in ExpertSet : guard[x].lastSeq \in [Peers -> Nat]

(* An expert that serves has heard the one sequence number the origin      *)
(* gives the request, and nothing takes that away again.                   *)
ServedIsRemembered ==
  \A x \in ExpertSet :
    \/ stream[x].served = 0
    \/ /\ stream[x].served = 1
       /\ \E k \in DOMAIN Experts : Experts[k] = x /\ guard[x].lastSeq[Origin] = k

ServeInv == MemoryTyped /\ StreamsTyped /\ ServedIsRemembered
-----------------------------------------------------------------------------
(* The origin numbers its envelopes from 1.                                *)
LEMMA Position ==
  ASSUME NEW x \in ExpertSet
  PROVE  /\ PositionOf(x) \in Nat \ {0}
         /\ \A k \in DOMAIN Experts : Experts[k] = x <=> k = PositionOf(x)
         /\ PositionOf(x) \in DOMAIN Experts
<1>1. PICK k \in DOMAIN Experts : Experts[k] = x
  BY DEF ExpertSet, ToSet
<1>2. DOMAIN Experts = 1 .. Len(Experts) /\ Len(Experts) \in Nat
  BY MeshAssumption
<1>3. {i \in 1 .. Len(Experts) : Experts[i] = x} = {k}
  BY <1>1, <1>2, MeshAssumption
<1>4. Min({k}) = k
  BY <1>1, <1>2 DEF Min
<1>5. PositionOf(x) = k
  BY <1>3, <1>4 DEF PositionOf, SelectInSeq
<1> QED BY <1>1, <1>2, <1>5, MeshAssumption

-----------------------------------------------------------------------------
LEMMA ServeInit == Init => ServeInv
<1> SUFFICES ASSUME Init PROVE ServeInv
  OBVIOUS
<1>1. \A x \in ExpertSet : stream[x] = NoStream /\ guard[x] = NewGuard
  BY DEF Init
<1>2. MemoryTyped
  BY <1>1 DEF Init, MemoryTyped, NewGuard
<1>3. StreamsTyped
  BY <1>1 DEF StreamsTyped, Field, NoStream
<1>4. ServedIsRemembered
  BY <1>1 DEF ServedIsRemembered, NoStream
<1> QED BY <1>2, <1>3, <1>4 DEF ServeInv

(* A step of an expert's stream that leaves alone how often it served.     *)
LEMMA StreamingKeeps ==
  ASSUME ServeInv, NEW x \in ExpertSet, NEW s, s = [f \in Field |-> s[f]],
         s.served = stream[x].served,
         stream' = [stream EXCEPT ![x] = s], guard' = guard
  PROVE  ServeInv'
<1>1. MemoryTyped'
  BY DEF ServeInv, MemoryTyped
<1>2. StreamsTyped'
  BY DEF ServeInv, MemoryTyped, StreamsTyped
<1>3. ServedIsRemembered'
  BY DEF ServeInv, MemoryTyped, ServedIsRemembered
<1> QED BY <1>1, <1>2, <1>3 DEF ServeInv

LEMMA QuietKeeps == ServeInv /\ UNCHANGED <<stream, guard>> => ServeInv'
BY DEF ServeInv, MemoryTyped, StreamsTyped, ServedIsRemembered

(* The handler of a request: what repeats it is refused by the guard.      *)
LEMMA OpenedFirst ==
  ASSUME ServeInv, NEW x \in ExpertSet, HandleOpen(x)
  PROVE  \/ stream' = stream /\ guard' = guard
         \/ /\ stream[x].served = 0
            /\ stream' = [stream EXCEPT ![x].state = "streaming", ![x].served = @ + 1]
            /\ \E after : /\ guard' = [guard EXCEPT ![x] = after]
                          /\ after.lastSeq = [guard[x].lastSeq EXCEPT ![Origin] = PositionOf(x)]
<1> DEFINE e == SealEnvelope(Origin, x, PositionOf(x), "request.open", <<>>)
           trusted == IF Head(inbound[x]) = "pinned" THEN {Origin} ELSE {}
           reason == VerifyEnvelope(e, x, trusted, guard[x], FALSE)
           after == GuardAfter(e, x, trusted, guard[x], FALSE)
<1>1. e.senderPeer = Origin /\ e.senderSequence = PositionOf(x) /\ Origin \in Peers
  BY MeshAssumption DEF SealEnvelope
<1>2. /\ PositionOf(x) \in Nat \ {0} /\ PositionOf(x) \in DOMAIN Experts
      /\ \A k \in DOMAIN Experts : Experts[k] = x <=> k = PositionOf(x)
  BY Position
<1>3. guard[x].lastSeq \in [Peers -> Nat]
  BY DEF ServeInv, MemoryTyped
<1>4. /\ guard' = [guard EXCEPT ![x] = after]
      /\ stream' = IF reason # "none" THEN stream
                   ELSE [stream EXCEPT ![x].state = "streaming", ![x].served = @ + 1]
  BY DEF HandleOpen, PositionOf
<1> HIDE DEF e, trusted
<1>5. CASE reason # "none"
  <2>1. after = guard[x]
    BY <1>5 DEF GuardAfter
  <2> HIDE DEF reason, after
  <2> QED BY <1>4, <1>5, <2>1 DEF ServeInv, MemoryTyped
<1>6. CASE reason = "none"
  <2>1. Check(guard[x], e) = "none"
    BY <1>6 DEF VerifyEnvelope
  <2>2. guard[x].lastSeq[Origin] < PositionOf(x)
    BY <1>1, <1>2, <1>3, <2>1 DEF Check
  <2>3. after.lastSeq = [guard[x].lastSeq EXCEPT ![Origin] = PositionOf(x)]
    BY <1>1, <1>6 DEF GuardAfter, Remember
  <2> HIDE DEF reason, after
  <2>4. stream[x].served = 0
    BY <1>2, <2>2 DEF ServeInv, ServedIsRemembered
  <2> QED BY <1>4, <1>6, <2>3, <2>4
<1> QED BY <1>5, <1>6

LEMMA HandleOpenKeeps ==
  ASSUME ServeInv, NEW x \in ExpertSet, HandleOpen(x)
  PROVE  ServeInv'
<1>1. CASE stream' = stream /\ guard' = guard
  BY <1>1, QuietKeeps
<1>2. CASE ~(stream' = stream /\ guard' = guard)
  <2>1. /\ stream[x].served = 0
        /\ stream' = [stream EXCEPT ![x].state = "streaming", ![x].served = @ + 1]
    BY <1>2, OpenedFirst
  <2>2. PICK after : /\ guard' = [guard EXCEPT ![x] = after]
                     /\ after.lastSeq = [guard[x].lastSeq EXCEPT ![Origin] = PositionOf(x)]
    BY <1>2, OpenedFirst
  <2>3. /\ PositionOf(x) \in Nat \ {0} /\ PositionOf(x) \in DOMAIN Experts
        /\ Experts[PositionOf(x)] = x /\ Origin \in Peers
    BY Position, MeshAssumption
  <2>4. guard[x].lastSeq \in [Peers -> Nat]
    BY DEF ServeInv, MemoryTyped
  <2>5. /\ stream[x] = [f \in Field |-> stream[x][f]]
        /\ "served" \in Field /\ "state" \in Field
        /\ stream = [y \in ExpertSet |-> stream[y]] /\ DOMAIN stream = ExpertSet
    BY DEF ServeInv, MemoryTyped, StreamsTyped, Field, NoStream
  <2>6. /\ stream' = [y \in ExpertSet |-> stream'[y]] /\ DOMAIN stream' = ExpertSet
        /\ stream'[x] = [f \in Field |-> stream'[x][f]] /\ stream'[x].served = 1
        /\ \A y \in ExpertSet \ {x} : stream'[y] = stream[y]
    <3> DEFINE mid == [stream EXCEPT ![x].state = "streaming"]
    <3>1. /\ mid = [y \in ExpertSet |-> mid[y]] /\ DOMAIN mid = ExpertSet
          /\ mid[x] = [f \in Field |-> mid[x][f]] /\ mid[x].served = 0
          /\ \A y \in ExpertSet \ {x} : mid[y] = stream[y]
      BY <2>1, <2>5
    <3>2. stream' = [mid EXCEPT ![x].served = @ + 1]
      BY <2>1
    <3> HIDE DEF mid
    <3> QED BY <2>5, <3>1, <3>2
  <2>7. MemoryTyped'
    BY <2>2, <2>3, <2>4, <2>6 DEF ServeInv, MemoryTyped
  <2>8. StreamsTyped'
    BY <2>6 DEF ServeInv, StreamsTyped
  <2>9. ServedIsRemembered'
    BY <2>2, <2>3, <2>4, <2>6 DEF ServeInv, MemoryTyped, ServedIsRemembered
  <2> QED BY <2>7, <2>8, <2>9 DEF ServeInv
<1> QED BY <1>1, <1>2

(* A stream with other values in the fields that a stream keeps for itself. *)
LEMMA FieldsKept ==
  ASSUME NEW r, r = [f \in Field |-> r[f]], NEW k \in Field, k # "served", NEW v
  PROVE  LET s == [r EXCEPT ![k] = v] IN s = [f \in Field |-> s[f]] /\ s.served = r.served
BY DEF Field, NoStream

LEMMA ServeNext == ServeInv /\ [Next]_vars => ServeInv'
<1> SUFFICES ASSUME ServeInv, [Next]_vars PROVE ServeInv'
  OBVIOUS
<1>0. ASSUME NEW x \in ExpertSet
      PROVE  stream[x] = [f \in Field |-> stream[x][f]]
  BY <1>0 DEF ServeInv, StreamsTyped
<1>f. /\ "served" \in Field /\ "state" \in Field /\ "seq" \in Field /\ "toYield" \in Field
      /\ "step" \in Field /\ "sealed" \in Field /\ "outbox" \in Field /\ "socket" \in Field
  BY DEF Field, NoStream
<1>1. CASE UNCHANGED vars
  BY <1>1, QuietKeeps DEF vars
<1>2. CASE OriginStep \/ Deadline
  BY <1>2, QuietKeeps DEF OriginStep, Deadline, ReadDescriptors, Dispatch, AllDone, node
<1>3. ASSUME NEW x \in ExpertSet, SeeOrigin(x) \/ Relisten(x) PROVE ServeInv'
  BY <1>3, QuietKeeps DEF SeeOrigin, Relisten
<1>4. ASSUME NEW x \in ExpertSet, Emit(x) PROVE ServeInv'
  <2>1. PICK v : stream' = [stream EXCEPT ![x] = [stream[x] EXCEPT !["toYield"] = v]]
    BY <1>4 DEF Emit
  <2>2. guard' = guard
    BY <1>4 DEF Emit, node
  <2>3. /\ [stream[x] EXCEPT !["toYield"] = v]
             = [f \in Field |-> [stream[x] EXCEPT !["toYield"] = v][f]]
        /\ [stream[x] EXCEPT !["toYield"] = v].served = stream[x].served
    BY <1>0, <1>4, <1>f, FieldsKept
  <2> QED BY <1>4, <2>1, <2>2, <2>3, StreamingKeeps
<1>5. ASSUME NEW x \in ExpertSet, Yield(x) PROVE ServeInv'
  <2> DEFINE s == [stream[x] EXCEPT !.toYield = @ - 1, !.step = @ + 1]
             t == IF s.step - s.sealed < BatchSize THEN s
                  ELSE [s EXCEPT !.outbox = <<Delta(x, s)>>, !.seq = @ + 1, !.sealed = s.step]
  <2>1. stream' = [stream EXCEPT ![x] = t] /\ guard' = guard
    BY <1>5 DEF Yield, node
  <2>2. s = [f \in Field |-> s[f]] /\ s.served = stream[x].served
    BY <1>0, <1>5, <1>f
  <2> HIDE DEF s
  <2>3. t = [f \in Field |-> t[f]] /\ t.served = s.served
    BY <2>2, <1>f
  <2> HIDE DEF t
  <2> QED BY <1>5, <2>1, <2>2, <2>3, StreamingKeeps
<1>6. ASSUME NEW x \in ExpertSet, EndOfStream(x) PROVE ServeInv'
  <2> DEFINE s == stream[x]
             tail == IF s.step = s.sealed THEN <<>> ELSE <<Delta(x, s)>>
             seq == s.seq + Len(tail) + 1
             out == Append(tail, SealEnvelope(x, Origin, seq, "stream.end", <<>>))
             t == [s EXCEPT !.state = "ending", !.sealed = s.step, !.seq = seq, !.outbox = out]
  <2>1. stream' = [stream EXCEPT ![x] = t] /\ guard' = guard
    BY <1>6 DEF EndOfStream, node
  <2> HIDE DEF seq, out
  <2>2. t = [f \in Field |-> t[f]] /\ t.served = stream[x].served
    BY <1>0, <1>6, <1>f
  <2> HIDE DEF t
  <2> QED BY <1>6, <2>1, <2>2, StreamingKeeps
<1>7. ASSUME NEW x \in ExpertSet, Send(x) PROVE ServeInv'
  <2> DEFINE s == stream[x]
             socket == IF s.socket # 0 THEN s.socket ELSE Len(wire[x]) + 1
             last == s.state = "ending" /\ Len(s.outbox) = 1
             sock == IF last THEN 0 ELSE socket
             state == IF last THEN "complete" ELSE s.state
             t == [s EXCEPT !.outbox = Tail(@), !.socket = sock, !.state = state]
  <2>1. stream' = [stream EXCEPT ![x] = t] /\ guard' = guard
    BY <1>7 DEF Send
  <2> HIDE DEF sock, state
  <2>2. t = [f \in Field |-> t[f]] /\ t.served = stream[x].served
    BY <1>0, <1>7, <1>f
  <2> HIDE DEF t
  <2> QED BY <1>7, <2>1, <2>2, StreamingKeeps
<1>8. ASSUME NEW x \in ExpertSet, Reset(x) PROVE ServeInv'
  <2>1. stream' = [stream EXCEPT ![x] = [stream[x] EXCEPT !["socket"] = 0]] /\ guard' = guard
    BY <1>8 DEF Reset, node
  <2>2. /\ [stream[x] EXCEPT !["socket"] = 0]
             = [f \in Field |-> [stream[x] EXCEPT !["socket"] = 0][f]]
        /\ [stream[x] EXCEPT !["socket"] = 0].served = stream[x].served
    BY <1>0, <1>8, <1>f, FieldsKept
  <2> QED BY <1>8, <2>1, <2>2, StreamingKeeps
<1>9. ASSUME NEW x \in ExpertSet, Deliver(x) PROVE ServeInv'
  BY <1>9, QuietKeeps DEF Deliver, node
<1>10. ASSUME NEW x \in ExpertSet, Unreachable(x) \/ WriteFails(x) \/ BackendThrows(x)
       PROVE  ServeInv'
  BY <1>10, QuietKeeps DEF Unreachable, WriteFails, BackendThrows, Crashed
<1>11. ASSUME NEW x \in ExpertSet, HandleOpen(x) PROVE ServeInv'
  BY <1>11, HandleOpenKeeps
<1> QED
  BY <1>1, <1>2, <1>3, <1>4, <1>5, <1>6, <1>7, <1>8, <1>9, <1>10, <1>11 DEF Next, ExpertStep

(* An expert that gets the request several times, because the origin took  *)
(* an attempt for failed that was not, or met the node before, starts one  *)
(* stream (mesh-tcp.ts:230-238, tcp-transport.ts:137-147).                 *)
THEOREM RequestServedOnce == Spec => []ServedOnce
<1>1. ServeInv => ServedOnce
  BY DEF ServeInv, ServedIsRemembered, ServedOnce
<1> QED BY <1>1, ServeInit, ServeNext, PTL DEF Spec
-----------------------------------------------------------------------------
(* The batches of a stream: the q-th envelope of an expert seals the steps *)
(* from First(q) on that it has, and ends the stream if there are none.    *)
First(q) == (q - 1) * BatchSize

Batch(x, q, sealed) ==
  [i \in 1 .. Min({BatchSize, sealed - First(q)}) |-> [agentId |-> x, step |-> First(q) + i - 1]]

Sent(x, q, sealed) ==
  IF First(q) < sealed
  THEN SealEnvelope(x, Origin, q, "stream.delta", SealBatch(x, First(q), Batch(x, q, sealed)))
  ELSE SealEnvelope(x, Origin, q, "stream.end", <<>>)

Envelopes == {Sent(x, q, n) : x \in ExpertSet, q \in Nat \ {0}, n \in Nat}

(* First is taken from here on by what follows.                            *)
LEMMA Firsts ==
  /\ BatchSize \in Nat \ {0} /\ First(1) = 0
  /\ \A q \in Nat \ {0} : First(q) \in Nat /\ First(q + 1) = First(q) + BatchSize
  /\ \A q, r \in Nat \ {0} : q < r => First(q) + BatchSize <= First(r)
<1>1. BatchSize \in Nat \ {0}
  BY TransportAssumption
<1> DEFINE B == BatchSize
<1> HIDE DEF B
<1>2. B \in Nat \ {0}
  BY <1>1 DEF B
<1>3. \A a \in Nat : a * B \in Nat /\ (a + 1) * B = a * B + B
  BY <1>2
<1>4. \A a, c \in Nat : a * B + c * B = (a + c) * B
  BY <1>2
<1>5. ASSUME NEW q \in Nat \ {0}
      PROVE  First(q) \in Nat /\ First(q + 1) = First(q) + BatchSize
  <2>1. q - 1 \in Nat /\ q + 1 - 1 = q - 1 + 1
    OBVIOUS
  <2> QED BY <1>3, <2>1 DEF First, B
<1>6. ASSUME NEW q \in Nat \ {0}, NEW r \in Nat \ {0}, q < r
      PROVE  First(q) + BatchSize <= First(r)
  <2>1. q \in Nat /\ r - 1 - q \in Nat /\ q + (r - 1 - q) = r - 1
    BY <1>6
  <2>2. q * B + (r - 1 - q) * B = (r - 1) * B
    BY <1>4, <2>1
  <2>3. (q - 1 + 1) * B = (q - 1) * B + B /\ (r - 1 - q) * B \in Nat
    BY <1>3, <2>1
  <2>4. q * B = (q - 1) * B + B /\ (q - 1) * B \in Nat
    <3>1. q - 1 + 1 = q /\ q - 1 \in Nat
      OBVIOUS
    <3> QED BY <1>3, <2>3, <3>1
  <2>5. q * B \in Nat /\ (r - 1) * B \in Nat
    BY <1>3, <2>1, <1>6
  <2>6. (q - 1) * B + B <= (r - 1) * B
    <3> DEFINE a == (q - 1) * B
               b == (r - 1 - q) * B
               c == (r - 1) * B
               d == q * B
    <3>1. d + b = c /\ b \in Nat /\ d = a + B /\ a \in Nat /\ c \in Nat /\ d \in Nat
      BY <2>2, <2>3, <2>4, <2>5
    <3> HIDE DEF a, b, c, d
    <3>2. a + B <= c
      BY <1>2, <3>1
    <3> QED BY <3>2 DEF a, c
  <2> QED BY <2>6 DEF First, B
<1>7. First(1) = 0
  <2>1. First(1) = (1 - 1) * B /\ 1 - 1 = 0
    BY DEF First, B
  <2> QED BY <1>2, <2>1
<1> QED BY <1>1, <1>5, <1>6, <1>7

LEMMA LesserOfTwo ==
  ASSUME NEW a \in Int, NEW b \in Int
  PROVE  Min({a, b}) = IF a <= b THEN a ELSE b
<1>1. CASE a <= b
  BY <1>1 DEF Min
<1>2. CASE ~(a <= b)
  BY <1>2 DEF Min
<1> QED BY <1>1, <1>2

(* An envelope names its expert and its place in the stream.               *)
LEMMA SentFields ==
  ASSUME NEW x \in ExpertSet, NEW q \in Nat \ {0}, NEW n \in Nat
  PROVE  LET e == Sent(x, q, n)
         IN  /\ e \in Envelopes
             /\ e.senderPeer = x /\ e.recipientPeer = Origin /\ e.senderSequence = q
             /\ e.eventId = <<x, Origin, q>>
             /\ First(q) < n => /\ e.kind = "stream.delta"
                                /\ e.payload = SealBatch(x, First(q), Batch(x, q, n))
             /\ ~(First(q) < n) => e.kind = "stream.end"
<1>1. Sent(x, q, n) \in Envelopes
  BY DEF Envelopes
<1> QED BY <1>1 DEF Sent, SealEnvelope

(* An envelope that was sealed stays what it is when more is sealed.       *)
LEMMA SentStable ==
  ASSUME NEW x, NEW q \in Nat \ {0}, NEW n \in Nat, NEW m \in Nat,
         First(q) + BatchSize <= n, n <= m
  PROVE  Sent(x, q, m) = Sent(x, q, n)
<1>1. BatchSize \in Nat \ {0} /\ First(q) \in Nat
  BY Firsts
<1>2. First(q) < n /\ First(q) < m
  BY <1>1
<1>3. Min({BatchSize, n - First(q)}) = BatchSize /\ Min({BatchSize, m - First(q)}) = BatchSize
  BY <1>1, LesserOfTwo
<1> QED BY <1>2, <1>3 DEF Sent, Batch

(* What BatchSigner seals is the batch at its place.                       *)
LEMMA DeltaIsSent ==
  ASSUME NEW x, NEW s, s.seq \in Nat, s.step \in Nat, s.sealed = First(s.seq + 1),
         s.sealed < s.step, s.step <= s.sealed + BatchSize
  PROVE  Delta(x, s) = Sent(x, s.seq + 1, s.step)
<1>1. BatchSize \in Nat \ {0} /\ s.sealed \in Nat
  <2>1. s.seq + 1 \in Nat \ {0}
    OBVIOUS
  <2> QED BY <2>1, Firsts
<1>2. Min({BatchSize, s.step - s.sealed}) = s.step - s.sealed
  <2>1. s.step - s.sealed \in Int /\ s.step - s.sealed <= BatchSize
    BY <1>1
  <2>2. s.step - s.sealed = BatchSize \/ ~(BatchSize <= s.step - s.sealed)
    BY <1>1, <2>1
  <2> QED BY <1>1, <2>1, <2>2, LesserOfTwo
<1>3. Batch(x, s.seq + 1, s.step)
        = [i \in 1 .. s.step - s.sealed |-> [agentId |-> x, step |-> s.sealed + i - 1]]
  BY <1>2 DEF Batch
<1> QED BY <1>3 DEF Delta, BatchOfPending, Sent
-----------------------------------------------------------------------------
(* The requests that wait at an expert are attempts of its dispatch.       *)
OriginTyped ==
  /\ origin \in [phase : {"starting", "dispatching", "waiting", "finished", "crashed"},
                 next : 1 .. Len(Experts) + 1, attempt : 0 .. MaxRetries,
                 known : [ExpertSet -> 0 .. 2]]
  /\ origin.phase \in {"starting", "dispatching"} => origin.next <= Len(Experts)
  /\ inbound \in [ExpertSet -> Seq({"unpinned", "pinned"})]
  /\ \A k \in DOMAIN Experts :
       Len(inbound[Experts[k]]) <= IF k > origin.next THEN 0
                                   ELSE IF k = origin.next /\ origin.phase # "crashed"
                                   THEN origin.attempt ELSE MaxRetries + 1

NodesTyped ==
  /\ phase \in [ExpertSet -> {"unpinned", "closing", "pinned", "exited", "crashed"}]
  /\ port \in [ExpertSet -> 1 .. 2]

LEMMA NodesInit == Init => NodesTyped
BY DEF Init, NodesTyped

LEMMA NodesNext == NodesTyped /\ [Next]_vars => NodesTyped'
<1> SUFFICES ASSUME NodesTyped, [Next]_vars PROVE NodesTyped'
  OBVIOUS
<1>1. CASE UNCHANGED <<phase, port>>
  BY <1>1 DEF NodesTyped
<1>2. CASE UNCHANGED vars \/ OriginStep \/ Deadline
  BY <1>1, <1>2 DEF vars, node, OriginStep, Deadline, ReadDescriptors, Dispatch, AllDone
<1>3. ASSUME NEW x \in ExpertSet, SeeOrigin(x) \/ Relisten(x) \/ Send(x)
      PROVE  NodesTyped'
  <2>1. CASE SeeOrigin(x)
    BY <2>1 DEF NodesTyped, SeeOrigin
  <2>2. CASE Relisten(x)
    BY <2>2 DEF NodesTyped, Relisten
  <2>3. CASE Send(x)
    <3>1. /\ \E p \in {"exited", phase[x]} : phase' = [phase EXCEPT ![x] = p]
          /\ port' = port
      BY <2>3 DEF Send
    <3> QED BY <3>1 DEF NodesTyped
  <2> QED BY <1>3, <2>1, <2>2, <2>3
<1>4. ASSUME NEW x \in ExpertSet, Unreachable(x) \/ WriteFails(x) \/ BackendThrows(x)
      PROVE  NodesTyped'
  BY <1>4 DEF NodesTyped, Unreachable, WriteFails, BackendThrows, Crashed
<1>5. ASSUME NEW x \in ExpertSet,
             HandleOpen(x) \/ Emit(x) \/ Yield(x) \/ EndOfStream(x) \/ Deliver(x) \/ Reset(x)
      PROVE  NodesTyped'
  BY <1>1, <1>5 DEF HandleOpen, Emit, Yield, EndOfStream, Deliver, Reset, node
<1> QED BY <1>2, <1>3, <1>4, <1>5 DEF Next, ExpertStep

LEMMA OriginInit == Init => OriginTyped
<1> SUFFICES ASSUME Init PROVE OriginTyped
  OBVIOUS
<1>1. Len(Experts) \in Nat \ {0} /\ DOMAIN Experts = 1 .. Len(Experts)
  BY MeshAssumption
<1>2. \A k \in DOMAIN Experts : Experts[k] \in ExpertSet
  BY DEF ExpertSet, ToSet
<1> QED BY <1>1, <1>2, MeshAssumption DEF Init, OriginTyped

LEMMA OriginNext == OriginTyped /\ NodesTyped /\ [Next]_vars => OriginTyped'
<1> SUFFICES ASSUME OriginTyped, NodesTyped, [Next]_vars PROVE OriginTyped'
  OBVIOUS
<1>e. /\ Len(Experts) \in Nat \ {0} /\ DOMAIN Experts = 1 .. Len(Experts) /\ MaxRetries \in Nat
      /\ \A k \in DOMAIN Experts : Experts[k] \in ExpertSet
      /\ \A j, k \in DOMAIN Experts : Experts[j] = Experts[k] => j = k
  BY MeshAssumption DEF ExpertSet, ToSet
<1>1. CASE UNCHANGED <<origin, inbound>>
  BY <1>1 DEF OriginTyped
<1>2. CASE UNCHANGED vars
  BY <1>1, <1>2 DEF vars
<1>3. CASE ReadDescriptors
  <2>1. port \in [ExpertSet -> 0 .. 2]
    BY DEF NodesTyped
  <2>2. /\ origin' = [origin EXCEPT !.phase = "dispatching", !.known = port]
        /\ origin.phase = "starting" /\ inbound' = inbound
    BY <1>3 DEF ReadDescriptors, node
  <2>3. /\ origin' \in [phase : {"starting", "dispatching", "waiting", "finished", "crashed"},
                         next : 1 .. Len(Experts) + 1, attempt : 0 .. MaxRetries,
                         known : [ExpertSet -> 0 .. 2]]
        /\ origin'.phase = "dispatching" /\ origin'.next = origin.next
        /\ origin'.attempt = origin.attempt
    BY <2>1, <2>2 DEF OriginTyped
  <2> QED BY <2>2, <2>3 DEF OriginTyped
<1>4. CASE AllDone \/ Deadline
  BY <1>4, <1>e DEF OriginTyped, AllDone, Deadline, node
<1>5. CASE Dispatch
  <2> DEFINE x == Experts[origin.next]
             more == inbound' = [inbound EXCEPT ![x] = Append(@, phase[x])]
  <2>1. /\ origin.next \in DOMAIN Experts /\ x \in ExpertSet /\ origin.phase = "dispatching"
        /\ origin.attempt \in 0 .. MaxRetries
    BY <1>5, <1>e DEF Dispatch, OriginTyped
  <2>2. /\ inbound' = inbound \/ (more /\ phase[x] \in {"unpinned", "pinned"})
        /\ AttemptFailed \/ (more /\ Dispatched)
    BY <1>5 DEF Dispatch, Listening
  <2>3. inbound' \in [ExpertSet -> Seq({"unpinned", "pinned"})]
    <3>1. ASSUME more, phase[x] \in {"unpinned", "pinned"}
          PROVE  inbound' \in [ExpertSet -> Seq({"unpinned", "pinned"})]
      <4>1. Append(inbound[x], phase[x]) \in Seq({"unpinned", "pinned"})
        BY <2>1, <3>1 DEF OriginTyped
      <4> QED BY <2>1, <3>1, <4>1 DEF OriginTyped
    <3> QED BY <2>2, <3>1 DEF OriginTyped
  <2>4. \A y \in ExpertSet : Len(inbound[y]) \in Nat
    BY DEF OriginTyped
  <2>5. /\ Len(inbound'[x]) <= origin.attempt + 1
        /\ \A y \in ExpertSet \ {x} : inbound'[y] = inbound[y]
    <3>1. Len(inbound[x]) <= origin.attempt
      BY <2>1, <1>e DEF OriginTyped
    <3> QED BY <2>1, <2>2, <2>4, <3>1 DEF OriginTyped
  <2>6. \A k \in DOMAIN Experts \ {origin.next} : Experts[k] \in ExpertSet \ {x}
    BY <1>e, <2>1
  <2>7. \A k \in DOMAIN Experts \ {origin.next} :
          Len(inbound'[Experts[k]]) <= IF k > origin.next THEN 0 ELSE MaxRetries + 1
    BY <2>5, <2>6 DEF OriginTyped
  <2> HIDE DEF x, more
  <2>8. CASE AttemptFailed
    <3>1. /\ origin' \in [phase : {"starting", "dispatching", "waiting", "finished", "crashed"},
                           next : 1 .. Len(Experts) + 1, attempt : 0 .. MaxRetries,
                           known : [ExpertSet -> 0 .. 2]]
          /\ origin'.next = origin.next
          /\ \/ origin'.phase = "crashed"
             \/ origin'.phase = "dispatching" /\ origin'.attempt = origin.attempt + 1
      <4>1. CASE origin.attempt >= MaxRetries
        <5>1. origin' = [origin EXCEPT !.phase = "crashed"]
          BY <2>8, <4>1 DEF AttemptFailed
        <5> QED BY <5>1 DEF OriginTyped
      <4>2. CASE ~(origin.attempt >= MaxRetries)
        <5>1. origin' = [origin EXCEPT !.attempt = origin.attempt + 1]
          BY <2>8, <4>2 DEF AttemptFailed
        <5>2. origin.attempt + 1 \in 0 .. MaxRetries
          BY <2>1, <4>2, <1>e
        <5> QED BY <2>1, <5>1, <5>2 DEF OriginTyped
      <4> QED BY <4>1, <4>2
    <3>2. Len(inbound'[Experts[origin.next]]) <= MaxRetries + 1
      BY <2>1, <2>3, <2>5, <1>e DEF x
    <3> QED BY <2>1, <2>3, <2>5, <2>7, <3>1, <3>2, <1>e DEF OriginTyped, x
  <2>9. CASE Dispatched
    <3>1. /\ origin' \in [phase : {"starting", "dispatching", "waiting", "finished", "crashed"},
                           next : 1 .. Len(Experts) + 1, attempt : 0 .. MaxRetries,
                           known : [ExpertSet -> 0 .. 2]]
          /\ origin'.next = origin.next + 1 /\ origin'.attempt = 0
          /\ IF origin.next = Len(Experts) THEN origin'.phase = "waiting"
             ELSE origin'.phase = "dispatching"
      <4> DEFINE p == IF origin.next = Len(Experts) THEN "waiting" ELSE origin.phase
                 n == origin.next + 1
      <4>1. origin' = [origin EXCEPT !.next = n, !.attempt = 0, !.phase = p]
        BY <2>9 DEF Dispatched
      <4>2. n \in 1 .. Len(Experts) + 1 /\ 0 \in 0 .. MaxRetries /\ p \in {"waiting", "dispatching"}
        BY <2>1, <1>e
      <4>3. IF origin.next = Len(Experts) THEN p = "waiting" ELSE p = "dispatching"
        BY <2>1
      <4> HIDE DEF p, n
      <4>4. /\ origin' \in [phase : {"starting", "dispatching", "waiting", "finished", "crashed"},
                             next : 1 .. Len(Experts) + 1, attempt : 0 .. MaxRetries,
                             known : [ExpertSet -> 0 .. 2]]
            /\ origin'.next = n /\ origin'.attempt = 0 /\ origin'.phase = p
        BY <4>1, <4>2 DEF OriginTyped
      <4> QED BY <4>3, <4>4 DEF n
    <3>2. Len(inbound'[Experts[origin.next]]) <= MaxRetries + 1
      BY <2>1, <2>3, <2>5, <1>e DEF x
    <3>3. \A k \in DOMAIN Experts :
            Len(inbound'[Experts[k]]) <= IF k > origin'.next THEN 0
                                         ELSE IF k = origin'.next /\ origin'.phase # "crashed"
                                         THEN origin'.attempt ELSE MaxRetries + 1
      BY <2>1, <2>7, <3>1, <3>2, <1>e
    <3> QED BY <2>1, <2>3, <3>1, <3>3, <1>e DEF OriginTyped
  <2> QED BY <2>2, <2>8, <2>9
<1>6. ASSUME NEW x \in ExpertSet, HandleOpen(x) PROVE OriginTyped'
  <2>1. /\ inbound[x] # <<>> /\ inbound' = [inbound EXCEPT ![x] = Tail(@)] /\ origin' = origin
        /\ inbound[x] \in Seq({"unpinned", "pinned"})
    BY <1>6 DEF HandleOpen, atOrigin, OriginTyped
  <2>2. /\ inbound' \in [ExpertSet -> Seq({"unpinned", "pinned"})]
        /\ \A y \in ExpertSet : Len(inbound'[y]) <= Len(inbound[y]) /\ Len(inbound[y]) \in Nat
                                /\ Len(inbound'[y]) \in Nat
    BY <2>1 DEF OriginTyped
  <2>3. \A k \in DOMAIN Experts : Len(inbound'[Experts[k]]) <= Len(inbound[Experts[k]])
    BY <2>2, <1>e
  <2> QED BY <2>1, <2>2, <2>3, <1>e DEF OriginTyped
<1>7. ASSUME NEW x \in ExpertSet, SeeOrigin(x) \/ Relisten(x) \/ Send(x) PROVE OriginTyped'
  BY <1>1, <1>7 DEF SeeOrigin, Relisten, Send, atOrigin
<1>8. ASSUME NEW x \in ExpertSet, Unreachable(x) \/ WriteFails(x) \/ BackendThrows(x)
      PROVE  OriginTyped'
  BY <1>1, <1>8 DEF Unreachable, WriteFails, BackendThrows, Crashed, atOrigin
<1>9. ASSUME NEW x \in ExpertSet,
             Emit(x) \/ Yield(x) \/ EndOfStream(x) \/ Deliver(x) \/ Reset(x)
      PROVE  OriginTyped'
  BY <1>1, <1>9 DEF Emit, Yield, EndOfStream, Deliver, Reset, node, atOrigin
<1> QED
  BY <1>2, <1>3, <1>4, <1>5, <1>6, <1>7, <1>8, <1>9 DEF Next, OriginStep, ExpertStep
-----------------------------------------------------------------------------
Stream ==
  [state : {"none", "streaming", "ending", "complete"}, seq : Nat, toYield : Nat,
   step : Nat, sealed : Nat, outbox : Seq(Envelopes), socket : Nat, served : Nat]

(* What an expert has yielded it has sealed in full batches, at the end    *)
(* the rest in one more.                                                   *)
Counting(s) ==
  /\ s.step + s.toYield <= MaxFrames
  /\ s.state = "none" <=> s.served = 0
  /\ s.state = "none" => s.step = 0 /\ s.toYield = 0 /\ s.outbox = <<>> /\ s.socket = 0
  /\ s.state \in {"none", "streaming"} =>
       s.sealed = First(s.seq + 1) /\ s.sealed <= s.step /\ s.step < s.sealed + BatchSize
  /\ s.state \in {"ending", "complete"} => s.sealed = s.step /\ s.toYield = 0
  /\ s.state = "complete" => s.outbox = <<>>

(* What is on its way to the origin is what the expert has sealed.         *)
SealedIn(x, s, envelopes) ==
  \A i \in DOMAIN envelopes : \E q \in 1 .. s.seq : envelopes[i] = Sent(x, q, s.sealed)

SealedAs(x, s, w) ==
  /\ s.socket <= Len(w)
  /\ SealedIn(x, s, s.outbox)
  /\ \A k \in DOMAIN w : SealedIn(x, s, w[k])

StreamInv ==
  /\ stream \in [ExpertSet -> Stream] /\ wire \in [ExpertSet -> Seq(Seq(Envelopes))]
  /\ \A x \in ExpertSet : Counting(stream[x]) /\ SealedAs(x, stream[x], wire[x])

(* A step of an expert's stream and its sockets: what was sealed stays     *)
(* sealed, and a stream that has ended seals no more.                      *)
GoesOn(x, s, w) ==
  /\ s \in Stream /\ w \in Seq(Seq(Envelopes)) /\ Counting(s) /\ SealedAs(x, s, w)
  /\ stream[x].seq <= s.seq /\ stream[x].sealed <= s.sealed
  /\ stream[x].state \in {"ending", "complete"} =>
       s.state \in {"ending", "complete"} /\ s.sealed = stream[x].sealed /\ s.seq = stream[x].seq
  /\ stream' = [stream EXCEPT ![x] = s] /\ wire' = [wire EXCEPT ![x] = w]

LEMMA GoingOnKeeps ==
  ASSUME StreamInv, NEW x \in ExpertSet, NEW s, NEW w, GoesOn(x, s, w)
  PROVE  StreamInv'
<1>1. /\ \A y \in ExpertSet \ {x} : stream'[y] = stream[y] /\ wire'[y] = wire[y]
      /\ stream'[x] = s /\ wire'[x] = w
  BY DEF GoesOn, StreamInv
<1>2. stream' \in [ExpertSet -> Stream] /\ wire' \in [ExpertSet -> Seq(Seq(Envelopes))]
  BY DEF GoesOn, StreamInv
<1>3. ASSUME NEW y \in ExpertSet
      PROVE  Counting(stream'[y]) /\ SealedAs(y, stream'[y], wire'[y])
  BY <1>1 DEF GoesOn, StreamInv
<1>4. \A y \in ExpertSet : (Counting(stream[y]) /\ SealedAs(y, stream[y], wire[y]))'
  BY <1>3
<1> QED BY <1>2, <1>4 DEF StreamInv

LEMMA StreamInit == Init => StreamInv
<1> SUFFICES ASSUME Init PROVE StreamInv
  OBVIOUS
<1>1. /\ stream = [x \in ExpertSet |-> NoStream] /\ wire = [x \in ExpertSet |-> <<>>]
      /\ NoStream \in Stream /\ <<>> \in Seq(Seq(Envelopes))
  BY DEF Init, NoStream, Stream
<1>2. Counting(NoStream)
  <2>1. 0 + 1 = 1
    OBVIOUS
  <2> QED BY <2>1, Firsts, MeshAssumption DEF Counting, NoStream
<1>3. \A x \in ExpertSet : SealedAs(x, NoStream, <<>>)
  BY DEF SealedAs, SealedIn, NoStream
<1> QED BY <1>1, <1>2, <1>3 DEF StreamInv

(* What was sealed stays what it is when more is.                          *)
LEMMA SealedStays ==
  ASSUME NEW x, NEW s \in Stream, NEW t \in Stream, NEW es, SealedIn(x, s, es),
         s.seq <= t.seq, s.sealed <= t.sealed,
         s.sealed = t.sealed \/ s.sealed = First(s.seq + 1)
  PROVE  SealedIn(x, t, es)
<1>1. s.seq \in Nat /\ t.seq \in Nat /\ s.sealed \in Nat /\ t.sealed \in Nat
  BY DEF Stream
<1>2. SUFFICES ASSUME NEW i \in DOMAIN es
               PROVE  \E q \in 1 .. t.seq : es[i] = Sent(x, q, t.sealed)
  BY DEF SealedIn
<1>3. PICK q \in 1 .. s.seq : es[i] = Sent(x, q, s.sealed)
  BY DEF SealedIn
<1>4. q \in 1 .. t.seq /\ q \in Nat \ {0} /\ s.seq + 1 \in Nat \ {0} /\ q < s.seq + 1
  BY <1>1
<1>5. CASE s.sealed = t.sealed
  BY <1>3, <1>4, <1>5
<1>6. CASE s.sealed = First(s.seq + 1)
  <2>1. First(q) + BatchSize <= s.sealed
    BY <1>4, <1>6, Firsts
  <2>2. Sent(x, q, t.sealed) = Sent(x, q, s.sealed)
    BY <1>1, <1>4, <2>1, SentStable
  <2> QED BY <1>3, <1>4, <2>2
<1> QED BY <1>5, <1>6
-----------------------------------------------------------------------------
(* What is true of the stream of one expert.                               *)
LEMMA StreamOf ==
  ASSUME StreamInv, NEW x \in ExpertSet
  PROVE  /\ stream[x] \in Stream /\ wire[x] \in Seq(Seq(Envelopes))
         /\ Counting(stream[x]) /\ SealedAs(x, stream[x], wire[x])
         /\ stream[x].seq \in Nat /\ stream[x].step \in Nat /\ stream[x].sealed \in Nat
         /\ stream[x].toYield \in Nat /\ stream[x].socket \in Nat
         /\ stream[x].outbox \in Seq(Envelopes)
         /\ stream = [stream EXCEPT ![x] = stream[x]] /\ wire = [wire EXCEPT ![x] = wire[x]]
BY DEF StreamInv, Stream

LEMMA EmitGoesOn ==
  ASSUME StreamInv, NEW x \in ExpertSet, Emit(x)
  PROVE  \E s, w : GoesOn(x, s, w)
<1>1. PICK event \in Events :
        /\ stream[x].step + FramesOf(x, event) <= MaxFrames
        /\ stream' = [stream EXCEPT ![x].toYield = FramesOf(x, event)]
  BY DEF Emit
<1> DEFINE v == FramesOf(x, event)
           s == [stream[x] EXCEPT !.toYield = v]
<1>2. v \in Nat
  BY MeshAssumption DEF FramesOf, FakeFrames, OpenaiFrames
<1>3. stream' = [stream EXCEPT ![x] = s] /\ wire' = wire /\ stream[x].step + v <= MaxFrames
  BY <1>1 DEF Emit
<1>4. stream[x].state = "streaming"
  BY DEF Emit, Waits
<1> HIDE DEF v
<1>5. /\ s \in Stream /\ s.toYield = v /\ s.step = stream[x].step /\ s.state = stream[x].state
      /\ s.seq = stream[x].seq /\ s.sealed = stream[x].sealed /\ s.outbox = stream[x].outbox
      /\ s.socket = stream[x].socket /\ s.served = stream[x].served
  BY <1>2, StreamOf DEF Stream
<1> HIDE DEF s
<1>6. Counting(s)
  BY <1>3, <1>4, <1>5, StreamOf DEF Counting
<1>7. SealedAs(x, s, wire[x])
  BY <1>5, StreamOf DEF SealedAs, SealedIn
<1>8. GoesOn(x, s, wire[x])
  BY <1>3, <1>4, <1>5, <1>6, <1>7, StreamOf DEF GoesOn
<1> QED BY <1>8

LEMMA YieldGoesOn ==
  ASSUME StreamInv, NEW x \in ExpertSet, Yield(x)
  PROVE  \E s, w : GoesOn(x, s, w)
<1> DEFINE r == stream[x]
           s == [r EXCEPT !.toYield = @ - 1, !.step = @ + 1]
           t == [s EXCEPT !.outbox = <<Delta(x, s)>>, !.seq = @ + 1, !.sealed = s.step]
<1>1. /\ r \in Stream /\ Counting(r) /\ SealedAs(x, r, wire[x]) /\ wire[x] \in Seq(Seq(Envelopes))
      /\ r.seq \in Nat /\ r.step \in Nat /\ r.sealed \in Nat /\ r.toYield \in Nat
      /\ wire = [wire EXCEPT ![x] = wire[x]]
  BY StreamOf
<1>2. r.toYield > 0 /\ r.outbox = <<>> /\ wire' = wire
  BY DEF Yield
<1>3. /\ r.state = "streaming" /\ r.served # 0 /\ r.sealed = First(r.seq + 1) /\ r.sealed <= r.step
      /\ r.step < r.sealed + BatchSize /\ r.step + r.toYield <= MaxFrames
  BY <1>1, <1>2 DEF Counting, Stream
<1>4. stream' = [stream EXCEPT ![x] = IF s.step - s.sealed < BatchSize THEN s ELSE t]
  BY DEF Yield
<1>b. BatchSize \in Nat \ {0} /\ MaxFrames \in Nat
  BY TransportAssumption, MeshAssumption
<1>5. /\ s \in Stream /\ s.toYield = r.toYield - 1 /\ s.step = r.step + 1 /\ s.state = r.state
      /\ s.seq = r.seq /\ s.sealed = r.sealed /\ s.outbox = <<>>
      /\ s.socket = r.socket /\ s.served = r.served
  <2>1. r.toYield - 1 \in Nat /\ r.step + 1 \in Nat
    BY <1>1, <1>2
  <2> HIDE DEF r
  <2> QED BY <1>1, <1>2, <2>1 DEF Stream
<1> HIDE DEF r
<1>6. Delta(x, s) \in Envelopes /\ Delta(x, s) = Sent(x, s.seq + 1, s.step)
  <2>1. s.seq \in Nat /\ s.step \in Nat /\ s.sealed < s.step /\ s.step <= s.sealed + BatchSize
        /\ s.sealed = First(s.seq + 1) /\ s.seq + 1 \in Nat \ {0}
    BY <1>1, <1>3, <1>5, <1>b
  <2>2. Delta(x, s) = Sent(x, s.seq + 1, s.step)
    BY <2>1, DeltaIsSent
  <2> QED BY <2>1, <2>2 DEF Envelopes
<1>7. /\ t \in Stream /\ t.toYield = s.toYield /\ t.step = s.step /\ t.state = s.state
      /\ t.seq = s.seq + 1 /\ t.sealed = s.step /\ t.outbox = <<Delta(x, s)>>
      /\ t.socket = s.socket /\ t.served = s.served
  <2>1. s.seq + 1 \in Nat /\ s.step \in Nat /\ <<Delta(x, s)>> \in Seq(Envelopes)
    BY <1>1, <1>5, <1>6
  <2> HIDE DEF s
  <2> QED BY <1>5, <2>1 DEF Stream
<1> HIDE DEF s, t
<1>8. CASE s.step - s.sealed < BatchSize
  <2>1. Counting(s)
    BY <1>1, <1>3, <1>5, <1>8, <1>b DEF Counting
  <2>2. SealedAs(x, s, wire[x])
    BY <1>1, <1>2, <1>5 DEF SealedAs, SealedIn
  <2>3. GoesOn(x, s, wire[x])
    BY <1>1, <1>2, <1>3, <1>4, <1>5, <1>8, <2>1, <2>2 DEF GoesOn, r
  <2> QED BY <2>3
<1>9. CASE ~(s.step - s.sealed < BatchSize)
  <2>1. s.step = s.sealed + BatchSize /\ s.sealed < s.step
    <3>1. /\ s.step \in Nat /\ s.sealed \in Nat /\ BatchSize \in Nat \ {0}
          /\ s.step < s.sealed + BatchSize + 1
      BY <1>1, <1>3, <1>5, <1>b
    <3> QED BY <1>9, <3>1
  <2>2. First(s.seq + 1 + 1) = s.step
    <3>1. s.seq + 1 \in Nat \ {0}
      BY <1>1, <1>5
    <3> QED BY <2>1, <1>3, <1>5, <3>1, Firsts
  <2>3. Counting(t)
    BY <1>1, <1>3, <1>5, <1>7, <2>1, <2>2, <1>b DEF Counting
  <2>4. SealedIn(x, t, t.outbox)
    <3>1. t.seq \in 1 .. t.seq /\ t.outbox[1] = Sent(x, t.seq, t.sealed) /\ DOMAIN t.outbox = {1}
      BY <1>1, <1>5, <1>6, <1>7
    <3> QED BY <3>1 DEF SealedIn
  <2>5. \A k \in DOMAIN wire[x] : SealedIn(x, t, wire[x][k])
    <3>1. ASSUME NEW k \in DOMAIN wire[x] PROVE SealedIn(x, t, wire[x][k])
      <4>1. SealedIn(x, r, wire[x][k])
        BY <1>1 DEF SealedAs
      <4>2. r.seq <= t.seq /\ r.sealed <= t.sealed
        BY <1>1, <1>5, <1>7, <2>1
      <4> QED BY <1>1, <1>3, <1>7, <4>1, <4>2, SealedStays
    <3> QED BY <3>1
  <2>6. SealedAs(x, t, wire[x])
    BY <1>1, <1>5, <1>7, <2>4, <2>5 DEF SealedAs
  <2>7. GoesOn(x, t, wire[x])
    BY <1>1, <1>2, <1>3, <1>4, <1>5, <1>7, <1>9, <2>1, <2>3, <2>6 DEF GoesOn, r
  <2> QED BY <2>7
<1> QED BY <1>8, <1>9

LEMMA EndGoesOn ==
  ASSUME StreamInv, NEW x \in ExpertSet, EndOfStream(x)
  PROVE  \E s, w : GoesOn(x, s, w)
<1> DEFINE s == stream[x]
           tail == IF s.step = s.sealed THEN <<>> ELSE <<Delta(x, s)>>
           seq == s.seq + Len(tail) + 1
           end == SealEnvelope(x, Origin, seq, "stream.end", <<>>)
           out == Append(tail, end)
           t == [s EXCEPT !.state = "ending", !.sealed = s.step, !.seq = seq, !.outbox = out]
<1>1. /\ s \in Stream /\ Counting(s) /\ SealedAs(x, s, wire[x]) /\ wire[x] \in Seq(Seq(Envelopes))
      /\ s.seq \in Nat /\ s.step \in Nat /\ s.sealed \in Nat /\ s.toYield \in Nat
      /\ s.socket \in Nat /\ wire = [wire EXCEPT ![x] = wire[x]]
  BY StreamOf
<1>2. /\ s.state = "streaming" /\ s.toYield = 0 /\ wire' = wire
      /\ stream' = [stream EXCEPT ![x] = t]
  BY DEF EndOfStream, Waits
<1>3. /\ s.served # 0 /\ s.sealed = First(s.seq + 1) /\ s.sealed <= s.step
      /\ s.step < s.sealed + BatchSize /\ s.step + 0 <= MaxFrames
  BY <1>1, <1>2 DEF Counting, Stream
<1>b. BatchSize \in Nat \ {0} /\ MaxFrames \in Nat
  BY TransportAssumption, MeshAssumption
<1>4. /\ seq \in Nat \ {0} /\ s.seq < seq /\ out \in Seq(Envelopes)
      /\ \A i \in DOMAIN out : \E q \in 1 .. seq : out[i] = Sent(x, q, s.step)
  <2>1. ASSUME NEW q \in Nat \ {0}, s.step <= First(q), First(q) \in Nat
        PROVE  SealEnvelope(x, Origin, q, "stream.end", <<>>) = Sent(x, q, s.step)
    BY <1>1, <2>1 DEF Sent
  <2>2. s.seq + 1 \in Nat \ {0} /\ s.seq + 1 + 1 \in Nat \ {0}
    BY <1>1
  <2>3. /\ First(s.seq + 1) \in Nat /\ First(s.seq + 1 + 1) \in Nat
        /\ First(s.seq + 1 + 1) = First(s.seq + 1) + BatchSize
    BY <2>2, Firsts
  <2>4. CASE s.step = s.sealed
    <3>1. tail = <<>> /\ seq = s.seq + 1 /\ out = <<end>>
      BY <1>1, <2>4
    <3> HIDE DEF tail, seq, out
    <3>2. end = Sent(x, seq, s.step)
      BY <1>3, <2>1, <2>2, <2>3, <2>4, <3>1
    <3> HIDE DEF end
    <3>3. end \in Envelopes
      BY <1>1, <2>2, <3>1, <3>2 DEF Envelopes
    <3>4. out \in Seq(Envelopes) /\ DOMAIN out = {1} /\ out[1] = end
      BY <3>1, <3>3
    <3>5. seq \in 1 .. seq /\ seq \in Nat \ {0} /\ s.seq < seq
      BY <1>1, <3>1
    <3> QED BY <3>2, <3>4, <3>5
  <2>5. CASE s.step # s.sealed
    <3> DEFINE d == Delta(x, s)
    <3>1. tail = <<d>> /\ seq = s.seq + 1 + 1 /\ out = Append(<<d>>, end)
      <4>1. tail = <<d>>
        BY <2>5
      <4> HIDE DEF d
      <4>2. seq = s.seq + 1 + 1
        BY <1>1, <4>1
      <4> HIDE DEF end, seq, tail
      <4> QED BY <4>1, <4>2
    <3> HIDE DEF tail, seq, out
    <3>2. end = Sent(x, seq, s.step)
      BY <1>1, <1>3, <2>1, <2>2, <2>3, <3>1, <1>b
    <3>3. d = Sent(x, s.seq + 1, s.step)
      <4>1. s.sealed < s.step /\ s.step <= s.sealed + BatchSize
        BY <1>1, <1>3, <2>5, <1>b
      <4> QED BY <1>1, <1>3, <4>1, DeltaIsSent
    <3> HIDE DEF d, end
    <3>4. d \in Envelopes /\ end \in Envelopes
      BY <1>1, <2>2, <3>1, <3>2, <3>3 DEF Envelopes
    <3>5. out \in Seq(Envelopes) /\ DOMAIN out = {1, 2} /\ out[1] = d /\ out[2] = end
      <4>1. <<d>> \in Seq(Envelopes) /\ Len(<<d>>) = 1 /\ <<d>>[1] = d
        BY <3>4
      <4> QED BY <3>1, <3>4, <4>1
    <3>6. s.seq + 1 \in 1 .. seq /\ seq \in 1 .. seq /\ seq \in Nat \ {0} /\ s.seq < seq
      <4>1. s.seq \in Nat /\ seq = s.seq + 1 + 1
        BY <1>1, <3>1
      <4> QED BY <4>1
    <3>7. \A i \in DOMAIN out : \E q \in 1 .. seq : out[i] = Sent(x, q, s.step)
      BY <3>2, <3>3, <3>5, <3>6
    <3> QED BY <3>5, <3>6, <3>7
  <2> QED BY <2>4, <2>5
<1> HIDE DEF tail, seq, out
<1>5. /\ t \in Stream /\ t.toYield = s.toYield /\ t.step = s.step /\ t.state = "ending"
      /\ t.seq = seq /\ t.sealed = s.step /\ t.outbox = out
      /\ t.socket = s.socket /\ t.served = s.served
  <2> HIDE DEF s
  <2> QED BY <1>1, <1>4 DEF Stream
<1> HIDE DEF s, t
<1>6. Counting(t)
  BY <1>1, <1>2, <1>3, <1>5, <1>b DEF Counting
<1>7. \A k \in DOMAIN wire[x] : SealedIn(x, t, wire[x][k])
  <2>1. ASSUME NEW k \in DOMAIN wire[x] PROVE SealedIn(x, t, wire[x][k])
    <3>1. SealedIn(x, s, wire[x][k])
      BY <1>1 DEF SealedAs
    <3>2. s.seq <= t.seq /\ s.sealed <= t.sealed
      BY <1>1, <1>3, <1>4, <1>5
    <3> QED BY <1>1, <1>3, <1>5, <3>1, <3>2, SealedStays
  <2> QED BY <2>1
<1>8. SealedAs(x, t, wire[x])
  BY <1>1, <1>4, <1>5, <1>7 DEF SealedAs, SealedIn
<1>9. s.seq <= t.seq /\ s.sealed <= t.sealed
  BY <1>1, <1>3, <1>4, <1>5
<1>10. GoesOn(x, t, wire[x])
  BY <1>1, <1>2, <1>5, <1>6, <1>8, <1>9 DEF GoesOn, s
<1> QED BY <1>10
-----------------------------------------------------------------------------
LEMMA SendGoesOn ==
  ASSUME StreamInv, NEW x \in ExpertSet, Send(x)
  PROVE  \E s, w : GoesOn(x, s, w)
<1> DEFINE s == stream[x]
           socket == IF s.socket # 0 THEN s.socket ELSE Len(wire[x]) + 1
           w == IF s.socket # 0 THEN [wire[x] EXCEPT ![socket] = Append(@, Head(s.outbox))]
                ELSE Append(wire[x], <<Head(s.outbox)>>)
           last == s.state = "ending" /\ Len(s.outbox) = 1
           sock == IF last THEN 0 ELSE socket
           state == IF last THEN "complete" ELSE s.state
           t == [s EXCEPT !.outbox = Tail(@), !.socket = sock, !.state = state]
<1>1. /\ s \in Stream /\ Counting(s) /\ SealedAs(x, s, wire[x]) /\ wire[x] \in Seq(Seq(Envelopes))
      /\ s.seq \in Nat /\ s.step \in Nat /\ s.sealed \in Nat /\ s.toYield \in Nat
      /\ s.socket \in Nat /\ s.outbox \in Seq(Envelopes)
  BY StreamOf
<1>2. /\ s.outbox # <<>> /\ wire' = [wire EXCEPT ![x] = w] /\ stream' = [stream EXCEPT ![x] = t]
  <2>1. stream' = [stream EXCEPT ![x] = t]
    BY DEF Send
  <2>2. wire' = [wire EXCEPT ![x] = w]
    <3>1. CASE s.socket # 0
      BY <3>1 DEF Send
    <3>2. CASE s.socket = 0
      BY <3>2 DEF Send
    <3> QED BY <3>1, <3>2
  <2> QED BY <2>1, <2>2 DEF Send
<1>3. /\ s.state \in {"streaming", "ending"} /\ s.served # 0 /\ s.socket <= Len(wire[x])
      /\ state \in {"streaming", "ending", "complete"}
      /\ s.state = "ending" => state \in {"ending", "complete"}
      /\ state = "streaming" <=> s.state = "streaming"
      /\ state = "complete" => s.state = "ending" /\ Tail(s.outbox) = <<>>
  <2>1. /\ s.state \in {"streaming", "ending"} /\ s.served # 0
    BY <1>1, <1>2 DEF Counting, Stream
  <2>2. s.socket <= Len(wire[x])
    BY <1>1 DEF SealedAs
  <2>3. last => Tail(s.outbox) = <<>>
    <3>1. s.outbox \in Seq(Envelopes) /\ s.outbox # <<>>
      BY <1>1, <1>2
    <3>2. Tail(s.outbox) \in Seq(Envelopes) /\ Len(Tail(s.outbox)) = Len(s.outbox) - 1
      BY <3>1, HeadTailProperties
    <3>3. \A es \in Seq(Envelopes) : Len(es) = 1 - 1 => es = <<>>
      BY EmptySeq
    <3>4. Len(s.outbox) = 1 => Tail(s.outbox) = <<>>
      BY <3>2, <3>3
    <3> QED BY <3>4
  <2> QED BY <2>1, <2>2, <2>3
<1>4. /\ Head(s.outbox) \in Envelopes /\ Tail(s.outbox) \in Seq(Envelopes)
      /\ Head(s.outbox) = s.outbox[1] /\ 1 \in DOMAIN s.outbox
      /\ \A i \in DOMAIN Tail(s.outbox) : i + 1 \in DOMAIN s.outbox
                                          /\ Tail(s.outbox)[i] = s.outbox[i + 1]
  BY <1>1, <1>2
<1>5. /\ sock \in Nat /\ socket \in DOMAIN w /\ w \in Seq(Seq(Envelopes)) /\ socket <= Len(w)
      /\ sock <= Len(w)
      /\ \A k \in DOMAIN w : \/ k \in DOMAIN wire[x] /\ w[k] = wire[x][k]
                             \/ k \in DOMAIN wire[x] /\ w[k] = Append(wire[x][k], s.outbox[1])
                             \/ w[k] = <<s.outbox[1]>>
  <2> DEFINE e == Head(s.outbox)
  <2> HIDE DEF e
  <2>0. e \in Envelopes /\ e = s.outbox[1] /\ Len(wire[x]) \in Nat /\ DOMAIN wire[x] = 1 .. Len(wire[x])
    BY <1>1, <1>4 DEF e
  <2>1. CASE s.socket # 0
    <3>1. s.socket \in DOMAIN wire[x] /\ wire[x][s.socket] \in Seq(Envelopes)
      BY <1>1, <1>3, <2>0, <2>1
    <3>2. w = [wire[x] EXCEPT ![s.socket] = Append(wire[x][s.socket], e)] /\ socket = s.socket
      BY <2>1 DEF e
    <3>3. Append(wire[x][s.socket], e) \in Seq(Envelopes)
      BY <2>0, <3>1
    <3> HIDE DEF w, socket, s
    <3>4. /\ w \in Seq(Seq(Envelopes)) /\ Len(w) = Len(wire[x]) /\ DOMAIN w = DOMAIN wire[x]
          /\ \A k \in DOMAIN w : w[k] = IF k = s.socket THEN Append(wire[x][s.socket], e) ELSE wire[x][k]
      BY <1>1, <3>1, <3>2, <3>3, ExceptSeq
    <3>5. sock \in {0, s.socket} /\ s.socket \in DOMAIN w /\ s.socket <= Len(w)
      BY <3>1, <3>2, <3>4
    <3>6. sock \in Nat /\ sock <= Len(w) /\ socket \in DOMAIN w /\ socket <= Len(w)
      <4> HIDE DEF sock
      <4> QED BY <1>1, <2>0, <3>2, <3>4, <3>5
    <3>7. \A k \in DOMAIN w : \/ k \in DOMAIN wire[x] /\ w[k] = wire[x][k]
                              \/ k \in DOMAIN wire[x] /\ w[k] = Append(wire[x][k], s.outbox[1])
      BY <2>0, <3>4
    <3> QED BY <3>4, <3>6, <3>7
  <2>2. CASE s.socket = 0
    <3>1. w = Append(wire[x], <<e>>) /\ socket = Len(wire[x]) + 1 /\ <<e>> \in Seq(Envelopes)
      BY <2>0, <2>2 DEF e
    <3> HIDE DEF w, socket, s
    <3>2. /\ w \in Seq(Seq(Envelopes)) /\ Len(w) = Len(wire[x]) + 1
          /\ \A k \in 1 .. Len(wire[x]) : w[k] = wire[x][k]
          /\ w[Len(wire[x]) + 1] = <<e>>
      BY <1>1, <3>1, AppendProperties
    <3> QED BY <2>0, <3>1, <3>2
  <2> QED BY <2>1, <2>2
<1> HIDE DEF w, socket, sock, state
<1>6. /\ t \in Stream /\ t.toYield = s.toYield /\ t.step = s.step /\ t.state = state
      /\ t.seq = s.seq /\ t.sealed = s.sealed /\ t.outbox = Tail(s.outbox)
      /\ t.socket = sock /\ t.served = s.served
  <2>1. s.outbox \in Seq(Envelopes) /\ Tail(s.outbox) \in Seq(Envelopes)
    BY <1>1, <1>4
  <2> HIDE DEF s
  <2> QED BY <1>1, <1>3, <1>5, <2>1 DEF Stream
<1>7. \E q \in 1 .. s.seq : s.outbox[1] = Sent(x, q, s.sealed)
  BY <1>1, <1>4 DEF SealedAs, SealedIn
<1> HIDE DEF s, t
<1>8. Counting(t)
  <2>1. CASE s.state = "streaming"
    BY <1>1, <1>3, <1>6, <2>1 DEF Counting
  <2>2. CASE s.state = "ending"
    BY <1>1, <1>3, <1>6, <2>2 DEF Counting
  <2> QED BY <1>3, <2>1, <2>2
<1>9. SealedIn(x, t, t.outbox)
  BY <1>1, <1>4, <1>6 DEF SealedAs, SealedIn
<1>10. \A k \in DOMAIN w : SealedIn(x, t, w[k])
  <2>1. ASSUME NEW k \in DOMAIN w PROVE SealedIn(x, s, w[k])
    <3>1. CASE k \in DOMAIN wire[x] /\ w[k] = wire[x][k]
      BY <1>1, <3>1 DEF SealedAs
    <3>2. CASE k \in DOMAIN wire[x] /\ w[k] = Append(wire[x][k], s.outbox[1])
      <4>1. wire[x][k] \in Seq(Envelopes) /\ SealedIn(x, s, wire[x][k]) /\ s.outbox[1] \in Envelopes
        BY <1>1, <1>4, <3>2 DEF SealedAs
      <4>2. \A i \in DOMAIN w[k] : \/ i \in DOMAIN wire[x][k] /\ w[k][i] = wire[x][k][i]
                                   \/ w[k][i] = s.outbox[1]
        BY <3>2, <4>1, AppendProperties
      <4> QED BY <1>7, <4>1, <4>2 DEF SealedIn
    <3>3. CASE w[k] = <<s.outbox[1]>>
      <4>1. \A i \in DOMAIN w[k] : w[k][i] = s.outbox[1]
        BY <3>3
      <4> QED BY <1>7, <4>1 DEF SealedIn
    <3> QED BY <1>5, <3>1, <3>2, <3>3
  <2> QED BY <1>6, <2>1 DEF SealedIn
<1>11. SealedAs(x, t, w)
  BY <1>5, <1>6, <1>9, <1>10 DEF SealedAs
<1>12. GoesOn(x, t, w)
  BY <1>1, <1>2, <1>3, <1>5, <1>6, <1>8, <1>11 DEF GoesOn, s
<1> QED BY <1>12

LEMMA ResetGoesOn ==
  ASSUME StreamInv, NEW x \in ExpertSet, Reset(x)
  PROVE  \E s, w : GoesOn(x, s, w)
<1> DEFINE s == stream[x]
           t == [s EXCEPT !.socket = 0]
<1>1. /\ s \in Stream /\ Counting(s) /\ SealedAs(x, s, wire[x]) /\ wire[x] \in Seq(Seq(Envelopes))
      /\ s.seq \in Nat /\ s.sealed \in Nat /\ s.socket \in Nat
  BY StreamOf
<1>2. s.socket # 0 /\ stream' = [stream EXCEPT ![x] = t]
  BY DEF Reset
<1>3. PICK kept \in 0 .. Len(wire[x][s.socket]) :
        wire' = [wire EXCEPT ![x][s.socket] = SubSeq(@, 1, kept)]
  BY DEF Reset
<1> DEFINE w == [wire[x] EXCEPT ![s.socket] = SubSeq(wire[x][s.socket], 1, kept)]
<1>4. wire' = [wire EXCEPT ![x] = w]
  BY <1>3
<1>5. s.socket \in DOMAIN wire[x] /\ wire[x][s.socket] \in Seq(Envelopes)
  BY <1>1, <1>2 DEF SealedAs
<1>6. /\ SubSeq(wire[x][s.socket], 1, kept) \in Seq(Envelopes)
      /\ \A i \in DOMAIN SubSeq(wire[x][s.socket], 1, kept) :
           i \in DOMAIN wire[x][s.socket] /\ SubSeq(wire[x][s.socket], 1, kept)[i] = wire[x][s.socket][i]
  BY <1>3, <1>5
<1>7. /\ t \in Stream /\ t.toYield = s.toYield /\ t.step = s.step /\ t.state = s.state
      /\ t.seq = s.seq /\ t.sealed = s.sealed /\ t.outbox = s.outbox
      /\ t.socket = 0 /\ t.served = s.served
  <2> HIDE DEF s
  <2> QED BY <1>1 DEF Stream
<1> DEFINE part == SubSeq(wire[x][s.socket], 1, kept)
<1> HIDE DEF s, t, part
<1>8. /\ w \in Seq(Seq(Envelopes)) /\ Len(w) = Len(wire[x]) /\ DOMAIN w = DOMAIN wire[x]
      /\ \A k \in DOMAIN w : w[k] = IF k = s.socket THEN part ELSE wire[x][k]
  BY <1>1, <1>5, <1>6, ExceptSeq DEF part
<1> HIDE DEF w
<1>9. Counting(t)
  BY <1>1, <1>7 DEF Counting
<1>10. \A k \in DOMAIN w : SealedIn(x, t, w[k])
  <2>1. ASSUME NEW k \in DOMAIN w PROVE SealedIn(x, t, w[k])
    <3>1. SealedIn(x, s, wire[x][k])
      BY <1>1, <1>8 DEF SealedAs
    <3>2. \A i \in DOMAIN w[k] : i \in DOMAIN wire[x][k] /\ w[k][i] = wire[x][k][i]
      BY <1>6, <1>8 DEF part
    <3> QED BY <1>7, <3>1, <3>2 DEF SealedIn
  <2> QED BY <2>1
<1>11. SealedAs(x, t, w)
  BY <1>1, <1>7, <1>8, <1>10 DEF SealedAs, SealedIn
<1>12. GoesOn(x, t, w)
  BY <1>1, <1>2, <1>4, <1>7, <1>8, <1>9, <1>11 DEF GoesOn, s
<1> QED BY <1>12
-----------------------------------------------------------------------------
LEMMA OpenGoesOn ==
  ASSUME ServeInv, StreamInv, NEW x \in ExpertSet, HandleOpen(x)
  PROVE  \E s, w : GoesOn(x, s, w)
<1> DEFINE r == stream[x]
           s == [r EXCEPT !.state = "streaming", !.served = @ + 1]
<1>1. /\ r \in Stream /\ Counting(r) /\ SealedAs(x, r, wire[x]) /\ wire[x] \in Seq(Seq(Envelopes))
      /\ r.seq \in Nat /\ r.sealed \in Nat /\ r.served \in Nat
      /\ stream = [stream EXCEPT ![x] = r] /\ wire = [wire EXCEPT ![x] = wire[x]]
  BY StreamOf DEF Stream
<1>2. wire' = wire
  BY DEF HandleOpen
<1>3. CASE stream' = stream
  <2>1. GoesOn(x, r, wire[x])
    <3> HIDE DEF r
    <3> QED BY <1>1, <1>2, <1>3 DEF GoesOn, r
  <2> QED BY <2>1
<1>4. CASE stream' # stream
  <2>1. /\ r.served = 0
        /\ stream' = [stream EXCEPT ![x].state = "streaming", ![x].served = @ + 1]
    BY <1>4, OpenedFirst
  <2>2. stream' = [stream EXCEPT ![x] = s]
    BY <2>1
  <2> HIDE DEF r
  <2>3. /\ s \in Stream /\ s.toYield = r.toYield /\ s.step = r.step /\ s.state = "streaming"
        /\ s.seq = r.seq /\ s.sealed = r.sealed /\ s.outbox = r.outbox
        /\ s.socket = r.socket /\ s.served = r.served + 1
    <3> DEFINE v == r.served + 1
    <3>1. v \in Nat
      BY <1>1
    <3> HIDE DEF v
    <3>2. s = [r EXCEPT !.state = "streaming", !.served = v]
      BY DEF v
    <3> HIDE DEF s
    <3>3. /\ s \in Stream /\ s.toYield = r.toYield /\ s.step = r.step /\ s.state = "streaming"
          /\ s.seq = r.seq /\ s.sealed = r.sealed /\ s.outbox = r.outbox
          /\ s.socket = r.socket /\ s.served = v
      BY <1>1, <3>1, <3>2 DEF Stream
    <3> QED BY <3>3 DEF v
  <2>4. r.state = "none"
    BY <1>1, <2>1 DEF Counting
  <2> HIDE DEF s
  <2>5. Counting(s)
    BY <1>1, <2>1, <2>3, <2>4 DEF Counting
  <2>6. SealedAs(x, s, wire[x])
    BY <1>1, <2>3 DEF SealedAs, SealedIn
  <2>7. GoesOn(x, s, wire[x])
    BY <1>1, <1>2, <2>2, <2>3, <2>4, <2>5, <2>6 DEF GoesOn, r
  <2> QED BY <2>7
<1> QED BY <1>3, <1>4

LEMMA DeliverGoesOn ==
  ASSUME StreamInv, NEW x \in ExpertSet, Deliver(x)
  PROVE  \E s, w : GoesOn(x, s, w)
<1> DEFINE s == stream[x]
<1>1. /\ s \in Stream /\ Counting(s) /\ SealedAs(x, s, wire[x]) /\ wire[x] \in Seq(Seq(Envelopes))
      /\ s.seq \in Nat /\ s.sealed \in Nat /\ stream = [stream EXCEPT ![x] = s]
  BY StreamOf
<1>2. PICK k \in DOMAIN wire[x] :
        wire[x][k] # <<>> /\ wire' = [wire EXCEPT ![x][k] = Tail(@)] /\ stream' = stream
  BY DEF Deliver
<1> DEFINE w == [wire[x] EXCEPT ![k] = Tail(wire[x][k])]
<1>3. wire' = [wire EXCEPT ![x] = w]
  BY <1>2
<1>4. /\ wire[x][k] \in Seq(Envelopes) /\ Tail(wire[x][k]) \in Seq(Envelopes)
      /\ \A i \in DOMAIN Tail(wire[x][k]) : i + 1 \in DOMAIN wire[x][k]
                                            /\ Tail(wire[x][k])[i] = wire[x][k][i + 1]
  BY <1>1, <1>2
<1> DEFINE rest == Tail(wire[x][k])
<1> HIDE DEF s, rest
<1>5. /\ w \in Seq(Seq(Envelopes)) /\ Len(w) = Len(wire[x]) /\ DOMAIN w = DOMAIN wire[x]
      /\ \A j \in DOMAIN w : w[j] = IF j = k THEN rest ELSE wire[x][j]
  BY <1>1, <1>2, <1>4, ExceptSeq DEF rest
<1> HIDE DEF w
<1>6. \A j \in DOMAIN w : SealedIn(x, s, w[j])
  <2>1. ASSUME NEW j \in DOMAIN w PROVE SealedIn(x, s, w[j])
    <3>1. SealedIn(x, s, wire[x][j])
      BY <1>1, <1>5 DEF SealedAs
    <3>2. CASE j = k
      <4>1. \A i \in DOMAIN w[j] : i + 1 \in DOMAIN wire[x][j] /\ w[j][i] = wire[x][j][i + 1]
        BY <1>4, <1>5, <3>2 DEF rest
      <4> QED BY <3>1, <4>1 DEF SealedIn
    <3>3. CASE j # k
      BY <1>5, <3>1, <3>3
    <3> QED BY <3>2, <3>3
  <2> QED BY <2>1
<1>7. SealedAs(x, s, w)
  BY <1>1, <1>5, <1>6 DEF SealedAs
<1>8. GoesOn(x, s, w)
  <2>1. stream' = [stream EXCEPT ![x] = s] /\ s.seq <= s.seq /\ s.sealed <= s.sealed
    BY <1>1, <1>2
  <2> QED BY <1>1, <1>3, <1>5, <1>7, <2>1 DEF GoesOn, s
<1> QED BY <1>8

LEMMA StreamSteps ==
  ASSUME ServeInv, StreamInv, [Next]_vars
  PROVE  UNCHANGED <<stream, wire>> \/ \E x \in ExpertSet : \E s, w : GoesOn(x, s, w)
<1>1. CASE UNCHANGED vars
  BY <1>1 DEF vars
<1>2. CASE OriginStep \/ Deadline
  BY <1>2 DEF OriginStep, Deadline, ReadDescriptors, Dispatch, AllDone
<1>3. ASSUME NEW x \in ExpertSet,
             \/ SeeOrigin(x) \/ Relisten(x) \/ Unreachable(x) \/ WriteFails(x) \/ BackendThrows(x)
      PROVE  UNCHANGED <<stream, wire>>
  BY <1>3 DEF SeeOrigin, Relisten, Unreachable, WriteFails, BackendThrows, Crashed
<1>4. ASSUME NEW x \in ExpertSet,
             \/ HandleOpen(x) \/ Emit(x) \/ Yield(x) \/ EndOfStream(x) \/ Send(x)
             \/ Deliver(x) \/ Reset(x)
      PROVE  \E s, w : GoesOn(x, s, w)
  BY <1>4, OpenGoesOn, EmitGoesOn, YieldGoesOn, EndGoesOn, SendGoesOn, DeliverGoesOn, ResetGoesOn
<1> QED BY <1>1, <1>2, <1>3, <1>4 DEF Next, ExpertStep

LEMMA StreamNext == ServeInv /\ StreamInv /\ [Next]_vars => StreamInv'
<1> SUFFICES ASSUME ServeInv, StreamInv, [Next]_vars PROVE StreamInv'
  OBVIOUS
<1>1. CASE UNCHANGED <<stream, wire>>
  BY <1>1 DEF StreamInv
<1>2. CASE \E x \in ExpertSet : \E s, w : GoesOn(x, s, w)
  BY <1>2, GoingOnKeeps
<1> QED BY <1>1, <1>2, StreamSteps
-----------------------------------------------------------------------------
Ids == {<<y, Origin, q>> : y \in ExpertSet, q \in Nat \ {0}}

(* A guard holds the window of the ids it heard last, each once.           *)
Window(g) ==
  /\ g = [seen |-> g.seen, order |-> g.order, lastSeq |-> g.lastSeq]
  /\ g.order \in Seq(Ids) /\ g.seen = ToSet(g.order) /\ Len(g.order) <= ReplayWindow
  /\ \A i, j \in DOMAIN g.order : g.order[i] = g.order[j] => i = j

(* The origin heard no id of a sequence number it did not hear of yet.     *)
HeardInv ==
  /\ Window(heard) /\ heard.lastSeq \in [Peers -> Nat] /\ done \subseteq ExpertSet
  /\ \A x \in ExpertSet :
       /\ heard.lastSeq[x] <= stream[x].seq
       /\ \A q \in Nat \ {0} : <<x, Origin, q>> \in heard.seen => q <= heard.lastSeq[x]

LEMMA Remembered ==
  ASSUME NEW g, Window(g), NEW e, e.eventId \in Ids, e.eventId \notin g.seen
  PROVE  LET h == Remember(g, e)
         IN  /\ Window(h) /\ h.seen \subseteq g.seen \cup {e.eventId}
             /\ h.lastSeq = [g.lastSeq EXCEPT ![e.senderPeer] = e.senderSequence]
<1> DEFINE id == e.eventId
           n == Len(g.order)
           order == Append(g.order, id)
           h == Remember(g, e)
<1>1. /\ g.order \in Seq(Ids) /\ n \in Nat /\ n <= ReplayWindow /\ id \in Ids
      /\ ReplayWindow \in Nat \ {0} /\ DOMAIN g.order = 1 .. n
      /\ g.seen = {g.order[i] : i \in 1 .. n}
      /\ \A i, j \in 1 .. n : g.order[i] = g.order[j] => i = j
      /\ \A i \in 1 .. n : g.order[i] # id
  BY TransportAssumption DEF Window, ToSet
<1> HIDE DEF id
<1>2. /\ order \in Seq(Ids) /\ Len(order) = n + 1 /\ DOMAIN order = 1 .. n + 1
      /\ \A i \in 1 .. n : order[i] = g.order[i]
      /\ order[n + 1] = id
  BY <1>1, AppendProperties
<1>3. \A i, j \in 1 .. n + 1 : order[i] = order[j] => i = j
  BY <1>1, <1>2
<1>4. g.seen \cup {id} = {order[i] : i \in 1 .. n + 1}
  <2>1. \A i \in 1 .. n + 1 : i \in 1 .. n \/ i = n + 1
    BY <1>1
  <2>2. \A i \in 1 .. n : i \in 1 .. n + 1
    BY <1>1
  <2>3. n + 1 \in 1 .. n + 1
    BY <1>1
  <2> HIDE DEF n, order
  <2> QED BY <1>1, <1>2, <2>1, <2>2, <2>3
<1>5. h.lastSeq = [g.lastSeq EXCEPT ![e.senderPeer] = e.senderSequence]
  BY DEF Remember
<1>6. CASE n + 1 > ReplayWindow
  <2>1. h = [seen |-> (g.seen \cup {id}) \ {Head(order)}, order |-> Tail(order), lastSeq |-> h.lastSeq]
    BY <1>2, <1>6 DEF Remember, id
  <2>2. /\ Head(order) = order[1] /\ Tail(order) \in Seq(Ids) /\ Len(Tail(order)) = n
        /\ DOMAIN Tail(order) = 1 .. n /\ \A i \in 1 .. n : Tail(order)[i] = order[i + 1]
    <3>1. order \in Seq(Ids) /\ Len(order) = n + 1 /\ n \in Nat
      BY <1>1, <1>2
    <3> HIDE DEF order, n
    <3> QED BY <3>1
  <2> HIDE DEF n, order, h
  <2>3. \A i, j \in 1 .. n : Tail(order)[i] = Tail(order)[j] => i = j
    BY <1>1, <1>3, <2>2
  <2>4. \A i \in 1 .. n : i + 1 \in 1 .. n + 1 /\ i + 1 # 1
    BY <1>1
  <2>5. \A i \in 1 .. n + 1 : i = 1 \/ (i - 1 \in 1 .. n /\ i - 1 + 1 = i)
    BY <1>1
  <2>6. 1 \in 1 .. n + 1
    BY <1>1
  <2>7. {order[i] : i \in 1 .. n + 1} \ {order[1]} = {Tail(order)[i] : i \in 1 .. n}
    <3>1. ASSUME NEW i \in 1 .. n + 1, order[i] # order[1]
          PROVE  order[i] \in {Tail(order)[j] : j \in 1 .. n}
      <4>1. i - 1 \in 1 .. n /\ Tail(order)[i - 1] = order[i]
        BY <2>2, <2>5, <3>1
      <4> QED BY <4>1
    <3>2. ASSUME NEW i \in 1 .. n
          PROVE  Tail(order)[i] \in {order[j] : j \in 1 .. n + 1} /\ Tail(order)[i] # order[1]
      <4>1. Tail(order)[i] = order[i + 1] /\ i + 1 \in 1 .. n + 1 /\ i + 1 # 1
        BY <2>2, <2>4
      <4> QED BY <1>3, <2>6, <4>1
    <3> QED BY <3>1, <3>2
  <2>8. h.seen = ToSet(h.order) /\ h.order = Tail(order)
    <3>1. h.seen = (g.seen \cup {id}) \ {Head(order)} /\ h.order = Tail(order)
      BY <2>1
    <3>2. ToSet(Tail(order)) = {Tail(order)[i] : i \in 1 .. n}
      BY <2>2 DEF ToSet
    <3> QED BY <1>4, <2>2, <2>7, <3>1, <3>2
  <2>9. Window(h)
    BY <1>1, <2>1, <2>2, <2>3, <2>8 DEF Window
  <2>10. h.seen \subseteq g.seen \cup {id}
    BY <2>1
  <2> QED BY <1>5, <2>9, <2>10 DEF id, h
<1>7. CASE ~(n + 1 > ReplayWindow)
  <2>1. h = [seen |-> g.seen \cup {id}, order |-> order, lastSeq |-> h.lastSeq]
    BY <1>2, <1>7 DEF Remember, id
  <2> HIDE DEF n, order, h
  <2>2. h.seen = ToSet(h.order) /\ h.order = order
    BY <1>2, <1>4, <2>1 DEF ToSet
  <2>3. Len(order) <= ReplayWindow
    BY <1>1, <1>2, <1>7
  <2>4. Window(h)
    BY <1>1, <1>2, <1>3, <2>1, <2>2, <2>3 DEF Window
  <2>5. h.seen \subseteq g.seen \cup {id}
    BY <2>1
  <2> QED BY <1>5, <2>4, <2>5 DEF id, h
<1> QED BY <1>6, <1>7

(* What is at the front of a socket was sealed by its expert.              *)
LEMMA Arrival ==
  ASSUME StreamInv, NEW x \in ExpertSet, NEW k \in DOMAIN wire[x], wire[x][k] # <<>>
  PROVE  \E q \in 1 .. stream[x].seq :
           q \in Nat \ {0} /\ Head(wire[x][k]) = Sent(x, q, stream[x].sealed)
<1>1. wire[x][k] \in Seq(Envelopes) /\ SealedIn(x, stream[x], wire[x][k]) /\ stream[x].seq \in Nat
  BY StreamOf DEF SealedAs
<1>2. 1 \in DOMAIN wire[x][k] /\ Head(wire[x][k]) = wire[x][k][1]
  BY <1>1
<1> QED BY <1>1, <1>2 DEF SealedIn

Held == {<<f.agentId, f.step>> : f \in ToSet(folded)}

(* What an envelope does to the origin that accepts it.                    *)
Accepts(x, q) ==
  /\ q \in 1 .. stream[x].seq /\ q \in Nat \ {0} /\ heard.lastSeq[x] < q
  /\ <<x, Origin, q>> \notin heard.seen
  /\ heard' = Remember(heard, Sent(x, q, stream[x].sealed))
  /\ IF First(q) < stream[x].sealed
     THEN /\ folded' = folded \o Accepted(Held, x, Batch(x, q, stream[x].sealed))
          /\ done' = done
     ELSE folded' = folded /\ done' = done \cup {x}

LEMMA Deliveries ==
  ASSUME StreamInv, HeardInv, NEW x \in ExpertSet, Deliver(x)
  PROVE  UNCHANGED <<heard, folded, done>> \/ \E q : Accepts(x, q)
<1>1. PICK k \in DOMAIN wire[x] :
        /\ wire[x][k] # <<>>
        /\ LET e == Head(wire[x][k]) IN
           \E late \in BOOLEAN :
             /\ heard' = GuardAfter(e, Origin, ExpertSet, heard, late)
             /\ IF VerifyEnvelope(e, Origin, ExpertSet, heard, late) = "none"
                THEN Consume(e) ELSE UNCHANGED <<folded, done>>
  BY DEF Deliver
<1> DEFINE e == Head(wire[x][k])
<1>2. PICK late \in BOOLEAN :
        /\ heard' = GuardAfter(e, Origin, ExpertSet, heard, late)
        /\ IF VerifyEnvelope(e, Origin, ExpertSet, heard, late) = "none"
           THEN Consume(e) ELSE UNCHANGED <<folded, done>>
  BY <1>1
<1>3. PICK q \in 1 .. stream[x].seq :
        q \in Nat \ {0} /\ e = Sent(x, q, stream[x].sealed)
  BY <1>1, Arrival
<1>s. stream[x].sealed \in Nat
  BY StreamOf
<1> HIDE DEF e
<1>4. /\ e.senderPeer = x /\ e.senderSequence = q /\ e.eventId = <<x, Origin, q>>
      /\ First(q) < stream[x].sealed
           => /\ e.kind = "stream.delta"
              /\ e.payload = SealBatch(x, First(q), Batch(x, q, stream[x].sealed))
      /\ ~(First(q) < stream[x].sealed) => e.kind = "stream.end"
  BY <1>3, <1>s, SentFields
<1>5. CASE VerifyEnvelope(e, Origin, ExpertSet, heard, late) # "none"
  BY <1>2, <1>5 DEF GuardAfter
<1>6. CASE VerifyEnvelope(e, Origin, ExpertSet, heard, late) = "none"
  <2>1. heard' = Remember(heard, e) /\ Consume(e)
    BY <1>2, <1>6 DEF GuardAfter
  <2>2. Check(heard, e) = "none"
    BY <1>6 DEF VerifyEnvelope
  <2>3. e.eventId \notin heard.seen
    BY <2>2 DEF Check
  <2>4. heard.lastSeq[x] < q
    <3>1. heard.lastSeq[x] \in Nat
      BY MeshAssumption DEF HeardInv
    <3> QED BY <1>3, <1>4, <2>2, <3>1 DEF Check
  <2>5. CASE First(q) < stream[x].sealed
    <3>1. /\ e.kind = "stream.delta" /\ e.payload.agentId = x
          /\ e.payload.root = Batch(x, q, stream[x].sealed) /\ VerifyBatch(e.payload, e.payload.root)
      BY <1>4, <2>5 DEF SealBatch, VerifyBatch
    <3>2. /\ folded' = folded \o Accepted(Held, x, Batch(x, q, stream[x].sealed))
          /\ done' = done
      BY <1>4, <2>1, <3>1 DEF Consume, Held
    <3>3. Accepts(x, q)
      BY <1>3, <1>4, <2>1, <2>3, <2>4, <2>5, <3>2 DEF Accepts
    <3> QED BY <3>3
  <2>6. CASE ~(First(q) < stream[x].sealed)
    <3>1. folded' = folded /\ done' = done \cup {x}
      BY <1>4, <2>1, <2>6 DEF Consume
    <3>2. Accepts(x, q)
      BY <1>3, <1>4, <2>1, <2>3, <2>4, <2>6, <3>1 DEF Accepts
    <3> QED BY <3>2
  <2> QED BY <2>5, <2>6
<1> QED BY <1>5, <1>6
-----------------------------------------------------------------------------
LEMMA HeardAfter ==
  ASSUME StreamInv, HeardInv, NEW x \in ExpertSet, NEW q, Accepts(x, q)
  PROVE  /\ Window(heard') /\ heard'.seen \subseteq heard.seen \cup {<<x, Origin, q>>}
         /\ heard'.lastSeq = [heard.lastSeq EXCEPT ![x] = q]
<1> DEFINE e == Sent(x, q, stream[x].sealed)
<1>1. q \in Nat \ {0} /\ stream[x].sealed \in Nat
  BY StreamOf DEF Accepts
<1>2. e.senderPeer = x /\ e.senderSequence = q /\ e.eventId = <<x, Origin, q>>
  BY <1>1, SentFields
<1>3. heard' = Remember(heard, e) /\ <<x, Origin, q>> \notin heard.seen
  BY DEF Accepts
<1> HIDE DEF e
<1>4. e.eventId \in Ids /\ e.eventId \notin heard.seen
  BY <1>1, <1>2, <1>3 DEF Ids
<1>5. Window(heard)
  BY DEF HeardInv
<1> DEFINE h == Remember(heard, e)
<1>6. /\ Window(h) /\ h.seen \subseteq heard.seen \cup {e.eventId}
      /\ h.lastSeq = [heard.lastSeq EXCEPT ![e.senderPeer] = e.senderSequence]
  BY <1>4, <1>5, Remembered
<1>7. heard' = h
  BY <1>3
<1> HIDE DEF h
<1> QED BY <1>2, <1>6, <1>7

LEMMA HeardInit == Init => HeardInv
<1> SUFFICES ASSUME Init PROVE HeardInv
  OBVIOUS
<1>1. /\ heard = NewGuard /\ done = {} /\ stream = [x \in ExpertSet |-> NoStream]
  BY DEF Init
<1>2. Window(heard)
  BY <1>1, TransportAssumption DEF Window, NewGuard, ToSet
<1>3. heard.lastSeq = [p \in Peers |-> 0] /\ heard.seen = {}
  BY <1>1 DEF NewGuard
<1>4. \A x \in ExpertSet : x \in Peers /\ stream[x].seq = 0
  BY <1>1, MeshAssumption DEF NoStream
<1> QED BY <1>1, <1>2, <1>3, <1>4 DEF HeardInv

(* Only a delivery changes what the origin heard.                          *)
LEMMA HeardSteps ==
  ASSUME StreamInv, HeardInv, [Next]_vars
  PROVE  \/ UNCHANGED <<heard, folded, done>>
         \/ \E x \in ExpertSet : UNCHANGED stream /\ \E q : Accepts(x, q)
<1>1. CASE UNCHANGED vars
  BY <1>1 DEF vars
<1>2. CASE OriginStep \/ Deadline
  BY <1>2 DEF OriginStep, Deadline, ReadDescriptors, Dispatch, AllDone
<1>3. ASSUME NEW x \in ExpertSet,
             \/ SeeOrigin(x) \/ Relisten(x) \/ HandleOpen(x) \/ Emit(x) \/ Yield(x)
             \/ EndOfStream(x) \/ Send(x) \/ Reset(x)
      PROVE  UNCHANGED <<heard, folded, done>>
  BY <1>3 DEF SeeOrigin, Relisten, HandleOpen, Emit, Yield, EndOfStream, Send, Reset, atOrigin
<1>4. ASSUME NEW x \in ExpertSet, Unreachable(x) \/ WriteFails(x) \/ BackendThrows(x)
      PROVE  UNCHANGED <<heard, folded, done>>
  BY <1>4 DEF Unreachable, WriteFails, BackendThrows, Crashed, atOrigin
<1>5. ASSUME NEW x \in ExpertSet, Deliver(x)
      PROVE  \/ UNCHANGED <<heard, folded, done>>
             \/ UNCHANGED stream /\ \E q : Accepts(x, q)
  BY <1>5, Deliveries DEF Deliver
<1> QED BY <1>1, <1>2, <1>3, <1>4, <1>5 DEF Next, ExpertStep

LEMMA HeardNext == ServeInv /\ StreamInv /\ HeardInv /\ [Next]_vars => HeardInv'
<1> SUFFICES ASSUME ServeInv, StreamInv, HeardInv, [Next]_vars PROVE HeardInv'
  OBVIOUS
<1>p. \A x \in ExpertSet : x \in Peers /\ heard.lastSeq[x] \in Nat /\ stream[x].seq \in Nat
  BY MeshAssumption, StreamOf DEF HeardInv
<1>1. \A y \in ExpertSet : stream'[y].seq \in Nat /\ stream[y].seq <= stream'[y].seq
  <2>1. CASE UNCHANGED <<stream, wire>>
    BY <1>p, <2>1
  <2>2. ASSUME NEW x \in ExpertSet, NEW s, NEW w, GoesOn(x, s, w)
        PROVE  \A y \in ExpertSet : stream'[y].seq \in Nat /\ stream[y].seq <= stream'[y].seq
    <3>1. stream'[x] = s /\ \A y \in ExpertSet \ {x} : stream'[y] = stream[y]
      BY <2>2 DEF GoesOn, StreamInv
    <3>2. s.seq \in Nat /\ stream[x].seq <= s.seq
      BY <2>2 DEF GoesOn, Stream
    <3> QED BY <1>p, <3>1, <3>2
  <2> QED BY <2>1, <2>2, StreamSteps
<1>2. CASE UNCHANGED <<heard, folded, done>>
  <2>1. \A x \in ExpertSet : heard.lastSeq[x] <= stream'[x].seq
    BY <1>1, <1>p DEF HeardInv
  <2> QED BY <1>2, <2>1 DEF HeardInv, Window
<1>3. ASSUME NEW x \in ExpertSet, UNCHANGED stream, NEW q, Accepts(x, q) PROVE HeardInv'
  <2>1. /\ Window(heard') /\ heard'.seen \subseteq heard.seen \cup {<<x, Origin, q>>}
        /\ heard'.lastSeq = [heard.lastSeq EXCEPT ![x] = q]
    BY <1>3, HeardAfter
  <2>2. q \in Nat \ {0} /\ q <= stream[x].seq /\ heard.lastSeq[x] < q
    BY <1>3, <1>p DEF Accepts
  <2>3. done' \subseteq ExpertSet
    BY <1>3 DEF Accepts, HeardInv
  <2>4. /\ heard'.lastSeq \in [Peers -> Nat] /\ heard'.lastSeq[x] = q
        /\ \A y \in ExpertSet \ {x} : heard'.lastSeq[y] = heard.lastSeq[y]
    BY <1>p, <2>1, <2>2 DEF HeardInv
  <2>5. \A y \in ExpertSet : heard'.lastSeq[y] <= stream'[y].seq
    BY <1>3, <2>2, <2>4 DEF HeardInv
  <2>6. ASSUME NEW y \in ExpertSet, NEW r \in Nat \ {0}, <<y, Origin, r>> \in heard'.seen
        PROVE  r <= heard'.lastSeq[y]
    <3>1. CASE <<y, Origin, r>> = <<x, Origin, q>>
      BY <2>2, <2>4, <3>1
    <3>2. CASE <<y, Origin, r>> \in heard.seen
      <4>1. r <= heard.lastSeq[y]
        BY <3>2 DEF HeardInv
      <4> QED BY <1>p, <2>2, <2>4, <4>1
    <3> QED BY <2>1, <2>6, <3>1, <3>2
  <2> QED BY <2>1, <2>3, <2>4, <2>5, <2>6 DEF HeardInv, Window
<1> QED BY <1>2, <1>3, HeardSteps
-----------------------------------------------------------------------------
TransportInv == ServeInv /\ StreamInv /\ NodesTyped /\ OriginTyped /\ HeardInv

LEMMA TransportInit == Init => TransportInv
BY ServeInit, StreamInit, NodesInit, OriginInit, HeardInit DEF TransportInv

LEMMA TransportNext == TransportInv /\ [Next]_vars => TransportInv'
<1> SUFFICES ASSUME TransportInv, [Next]_vars PROVE TransportInv'
  OBVIOUS
<1>1. ServeInv /\ StreamInv /\ NodesTyped /\ OriginTyped /\ HeardInv
  BY DEF TransportInv
<1> QED
  BY <1>1, ServeNext, StreamNext, NodesNext, OriginNext, HeardNext DEF TransportInv

(* The types, with what keeps them: a stream never has a full batch left   *)
(* to seal nor more frames than it may have, the requests that pile up at  *)
(* an expert are the attempts of its dispatch, the origin's window of      *)
(* event ids stays within its bound and in step with the set it searches,  *)
(* and no sequence number it remembers passes what the expert has sealed   *)
(* (batch-signing.ts:102-133, tcp-transport.ts:136-151).                   *)
THEOREM TypeCorrectness == Spec => []TypeOK
<1>1. TransportInv => TypeOK
  <2> SUFFICES ASSUME TransportInv PROVE TypeOK
    OBVIOUS
  <2>1. phase \in [ExpertSet -> {"unpinned", "closing", "pinned", "exited", "crashed"}]
        /\ port \in [ExpertSet -> 1 .. 2]
    BY DEF TransportInv, NodesTyped
  <2>2. ASSUME NEW x \in ExpertSet
        PROVE  ToSet(inbound[x]) \subseteq {"unpinned", "pinned"} /\ Len(inbound[x]) <= MaxRetries + 1
    <3>1. inbound[x] \in Seq({"unpinned", "pinned"})
      BY DEF TransportInv, OriginTyped
    <3>2. ToSet(inbound[x]) \subseteq {"unpinned", "pinned"}
      BY <3>1 DEF ToSet
    <3>3. PICK k \in DOMAIN Experts : Experts[k] = x
      BY DEF ExpertSet, ToSet
    <3>4. origin.attempt \in 0 .. MaxRetries /\ MaxRetries \in Nat
      BY MeshAssumption DEF TransportInv, OriginTyped
    <3>5. Len(inbound[x]) <= IF k > origin.next THEN 0
                             ELSE IF k = origin.next /\ origin.phase # "crashed"
                             THEN origin.attempt ELSE MaxRetries + 1
      BY <3>3 DEF TransportInv, OriginTyped
    <3>6. Len(inbound[x]) \in Nat
      BY <3>1
    <3>7. Len(inbound[x]) <= MaxRetries + 1
      BY <3>4, <3>5, <3>6
    <3> QED BY <3>2, <3>7
  <2>3. ASSUME NEW x \in ExpertSet
        PROVE  /\ stream[x].step \in 0 .. MaxFrames /\ stream[x].sealed \in 0 .. stream[x].step
               /\ stream[x].step - stream[x].sealed < BatchSize \/ stream[x].state = "complete"
               /\ stream[x].socket \in 0 .. Len(wire[x])
               /\ heard.lastSeq[x] \in 0 .. stream[x].seq
    <3>1. StreamInv
      BY DEF TransportInv
    <3>2. /\ stream[x] \in Stream /\ Counting(stream[x]) /\ SealedAs(x, stream[x], wire[x])
          /\ stream[x].step \in Nat /\ stream[x].sealed \in Nat /\ stream[x].toYield \in Nat
          /\ stream[x].socket \in Nat /\ Len(wire[x]) \in Nat
      BY <3>1, StreamOf
    <3>3. MaxFrames \in Nat /\ BatchSize \in Nat \ {0}
      BY MeshAssumption, TransportAssumption
    <3>4. stream[x].step + stream[x].toYield <= MaxFrames /\ stream[x].socket <= Len(wire[x])
      BY <3>2 DEF Counting, SealedAs
    <3>5. heard.lastSeq[x] \in 0 .. stream[x].seq
      BY <3>1, StreamOf, MeshAssumption DEF TransportInv, HeardInv
    <3>6. CASE stream[x].state \in {"none", "streaming"}
      <4>1. stream[x].sealed <= stream[x].step /\ stream[x].step < stream[x].sealed + BatchSize
        BY <3>2, <3>6 DEF Counting
      <4> QED BY <3>2, <3>3, <3>4, <3>5, <4>1
    <3>7. CASE stream[x].state \in {"ending", "complete"}
      BY <3>2, <3>3, <3>4, <3>5, <3>7 DEF Counting
    <3> QED BY <3>2, <3>6, <3>7 DEF Stream
  <2>4. /\ origin.phase \in {"starting", "dispatching", "waiting", "finished", "crashed"}
        /\ origin.attempt \in 0 .. MaxRetries /\ origin.next \in 1 .. Len(Experts) + 1
    BY DEF TransportInv, OriginTyped
  <2>5. Len(heard.order) <= ReplayWindow /\ ToSet(heard.order) = heard.seen /\ done \subseteq ExpertSet
    BY DEF TransportInv, HeardInv, Window
  <2> QED BY <2>1, <2>2, <2>3, <2>4, <2>5 DEF TypeOK
<1> QED BY <1>1, TransportInit, TransportNext, PTL DEF Spec
-----------------------------------------------------------------------------
Frame == [agentId : ExpertSet, step : Nat]

(* The steps of the q-th batch of a stream that has sealed its first n.    *)
PartOf(q, n) == {t \in Nat : t < n /\ First(q) <= t /\ t < First(q) + BatchSize}

LEMMA BatchFrames ==
  ASSUME NEW x \in ExpertSet, NEW q \in Nat \ {0}, NEW n \in Nat, First(q) < n
  PROVE  LET b == Batch(x, q, n)
         IN  /\ b \in Seq(Frame) /\ Len(b) \in Nat /\ First(q) \in Nat
             /\ \A i \in 1 .. Len(b) : b[i] = [agentId |-> x, step |-> First(q) + i - 1]
             /\ PartOf(q, n) = {First(q) + i - 1 : i \in 1 .. Len(b)}
<1> DEFINE b == Batch(x, q, n)
           m == Min({BatchSize, n - First(q)})
<1>1. BatchSize \in Nat \ {0} /\ First(q) \in Nat
  BY Firsts
<1>2. m \in Nat /\ m = IF BatchSize <= n - First(q) THEN BatchSize ELSE n - First(q)
  BY <1>1, LesserOfTwo
<1>3. b = [i \in 1 .. m |-> [agentId |-> x, step |-> First(q) + i - 1]]
  BY DEF Batch
<1> HIDE DEF m, b
<1>4. \A i \in 1 .. m : First(q) + i - 1 \in Nat
  BY <1>1, <1>2
<1>5. b \in Seq(Frame) /\ Len(b) = m
  <2>1. \A i \in 1 .. m : [agentId |-> x, step |-> First(q) + i - 1] \in Frame
    BY <1>4 DEF Frame
  <2> QED BY <1>2, <1>3, <2>1
<1>6. PartOf(q, n) = {First(q) + i - 1 : i \in 1 .. m}
  <2>1. ASSUME NEW t \in PartOf(q, n) PROVE t \in {First(q) + i - 1 : i \in 1 .. m}
    <3>1. t \in Nat /\ t < n /\ First(q) <= t /\ t < First(q) + BatchSize
      BY <2>1 DEF PartOf
    <3>2. t - First(q) + 1 \in 1 .. m /\ First(q) + (t - First(q) + 1) - 1 = t
      BY <1>1, <1>2, <3>1
    <3> QED BY <3>2
  <2>2. ASSUME NEW i \in 1 .. m PROVE First(q) + i - 1 \in PartOf(q, n)
    <3>1. /\ First(q) + i - 1 \in Nat /\ First(q) + i - 1 < n
          /\ First(q) <= First(q) + i - 1 /\ First(q) + i - 1 < First(q) + BatchSize
      BY <1>1, <1>2
    <3> QED BY <3>1 DEF PartOf
  <2> QED BY <2>1, <2>2
<1> QED BY <1>1, <1>2, <1>3, <1>5, <1>6 DEF b

(* A gate that knows none of the frames of a batch takes them all.         *)
LEMMA AllAccepted ==
  ASSUME NEW x \in ExpertSet, NEW q \in Nat \ {0}, NEW n \in Nat, First(q) < n, NEW seen,
         \A t \in PartOf(q, n) : <<x, t>> \notin seen
  PROVE  Accepted(seen, x, Batch(x, q, n)) = Batch(x, q, n)
<1> DEFINE b == Batch(x, q, n)
           m == Len(b)
           key(i) == <<b[i].agentId, b[i].step>>
           taken == {i \in DOMAIN b :
                       /\ b[i].agentId = x /\ key(i) \notin seen
                       /\ \A j \in 1 .. i - 1 : key(j) # key(i)}
           nth(k) == CHOOSE i \in taken : Cardinality({j \in taken : j <= i}) = k
<1>1. /\ b \in Seq(Frame) /\ m \in Nat /\ First(q) \in Nat
      /\ \A i \in 1 .. m : b[i] = [agentId |-> x, step |-> First(q) + i - 1]
      /\ PartOf(q, n) = {First(q) + i - 1 : i \in 1 .. m}
  BY BatchFrames
<1>2. Accepted(seen, x, b) = [k \in 1 .. Cardinality(taken) |-> b[nth(k)]]
  BY DEF Accepted
<1> HIDE DEF b, m
<1>3. taken = 1 .. m
  <2>1. ASSUME NEW i \in 1 .. m
        PROVE  b[i].agentId = x /\ key(i) \notin seen /\ \A j \in 1 .. i - 1 : key(j) # key(i)
    <3>0. b[i].agentId = x /\ b[i].step = First(q) + i - 1
      <4>1. b[i] = [agentId |-> x, step |-> First(q) + i - 1]
        BY <1>1
      <4> QED BY <4>1
    <3>1. b[i].agentId = x /\ b[i].step = First(q) + i - 1 /\ b[i].step \in PartOf(q, n)
      BY <1>1, <3>0
    <3>2. key(i) \notin seen
      BY <3>1
    <3>3. ASSUME NEW j \in 1 .. i - 1 PROVE key(j) # key(i)
      <4>1. j \in 1 .. m /\ j # i /\ j \in Int /\ i \in Int /\ First(q) \in Int
        BY <1>1
      <4>2. b[j].step = First(q) + j - 1
        <5>1. b[j] = [agentId |-> x, step |-> First(q) + j - 1]
          BY <1>1, <4>1
        <5> QED BY <5>1
      <4>3. b[j].step # b[i].step
        BY <3>1, <4>1, <4>2
      <4> QED BY <4>3
    <3> QED BY <3>1, <3>2, <3>3
  <2>2. DOMAIN b = 1 .. m
    BY <1>1 DEF m
  <2> QED BY <2>1, <2>2
<1>4. \A k \in 0 .. m : Cardinality(1 .. k) = k
  BY <1>1, FS_Interval
<1> HIDE DEF key, taken
<1>5. \A i \in 1 .. m : Cardinality({j \in taken : j <= i}) = i
  <2>1. ASSUME NEW i \in 1 .. m PROVE Cardinality({j \in taken : j <= i}) = i
    <3>1. {j \in taken : j <= i} = 1 .. i
      BY <1>1, <1>3
    <3>2. i \in 0 .. m
      BY <1>1
    <3>3. Cardinality(1 .. i) = i
      BY <1>4, <3>2
    <3> QED BY <3>1, <3>3
  <2> QED BY <2>1
<1>6. \A k \in 1 .. m : nth(k) = k
  <2>1. ASSUME NEW k \in 1 .. m PROVE nth(k) = k
    <3>1. \A i \in taken : Cardinality({j \in taken : j <= i}) = k <=> i = k
      BY <1>3, <1>5
    <3>2. k \in taken
      BY <1>3
    <3> QED BY <3>1, <3>2, Zenon
  <2> QED BY <2>1
<1>7. Cardinality(taken) = m
  BY <1>1, <1>3, <1>4
<1> HIDE DEF nth
<1>8. b = [k \in 1 .. m |-> b[k]]
  BY <1>1 DEF m
<1> QED BY <1>2, <1>6, <1>7, <1>8 DEF b
-----------------------------------------------------------------------------
(* What is folded of an expert is of the batches heard of so far, and the  *)
(* expert is done when its stream has ended and there is no batch left.    *)
FoldedOld(x) ==
  /\ \A t \in StepsOf(x) : t < First(heard.lastSeq[x] + 1) /\ t < stream[x].sealed
  /\ x \in done => /\ stream[x].state \in {"ending", "complete"}
                   /\ stream[x].sealed <= First(heard.lastSeq[x] + 1)

StepsInOrder(x) ==
  \A i, j \in DOMAIN folded :
    i < j /\ folded[i].agentId = x /\ folded[j].agentId = x => folded[i].step < folded[j].step

WholeBatches(x) ==
  \A q \in Nat \ {0} :
    \/ PartOf(q, stream[x].sealed) \subseteq StepsOf(x)
    \/ PartOf(q, stream[x].sealed) \cap StepsOf(x) = {}

FoldInv ==
  /\ folded \in Seq(Frame)
  /\ \A x \in ExpertSet : FoldedOld(x) /\ StepsInOrder(x) /\ WholeBatches(x)

LEMMA StepsFolded ==
  ASSUME NEW x, NEW t
  PROVE  t \in StepsOf(x) <=> \E i \in DOMAIN folded : folded[i].agentId = x /\ folded[i].step = t
BY DEF StepsOf, ToSet

LEMMA StepsTyped ==
  ASSUME FoldInv, NEW x, NEW t \in StepsOf(x)
  PROVE  t \in Nat
<1>1. PICK i \in DOMAIN folded : folded[i].step = t
  BY StepsFolded
<1>2. folded[i] \in Frame
  BY <1>1 DEF FoldInv
<1> QED BY <1>1, <1>2 DEF Frame

LEMMA FoldInit == Init => FoldInv
<1> SUFFICES ASSUME Init PROVE FoldInv
  OBVIOUS
<1>1. folded = <<>> /\ done = {}
  BY DEF Init
<1>2. \A x \in ExpertSet : StepsOf(x) = {}
  BY <1>1, StepsFolded
<1>3. folded \in Seq(Frame) /\ \A x \in ExpertSet : FoldedOld(x)
  BY <1>1, <1>2 DEF FoldedOld
<1>4. \A x \in ExpertSet : StepsInOrder(x) /\ WholeBatches(x)
  BY <1>1, <1>2 DEF StepsInOrder, WholeBatches
<1> QED BY <1>3, <1>4 DEF FoldInv

(* Batches do not overlap.                                                 *)
LEMMA BatchesApart ==
  ASSUME NEW q \in Nat \ {0}, NEW r \in Nat \ {0}, q # r, NEW n, NEW m,
         NEW t \in PartOf(q, n)
  PROVE  t \notin PartOf(r, m)
<1>1. BatchSize \in Nat \ {0} /\ First(q) \in Nat /\ First(r) \in Nat
  BY Firsts
<1>2. First(q) + BatchSize <= First(r) \/ First(r) + BatchSize <= First(q)
  BY Firsts
<1> QED BY <1>1, <1>2 DEF PartOf

LEMMA FirstsGrow ==
  ASSUME NEW q \in Nat, NEW r \in Nat, q < r
  PROVE  First(q + 1) \in Nat /\ First(r) \in Nat /\ First(q + 1) <= First(r)
<1>1. q + 1 \in Nat \ {0} /\ r \in Nat \ {0} /\ (q + 1 = r \/ q + 1 < r)
  OBVIOUS
<1>2. First(q + 1) \in Nat /\ First(r) \in Nat /\ BatchSize \in Nat \ {0}
  BY <1>1, Firsts
<1>3. CASE q + 1 = r
  BY <1>2, <1>3
<1>4. CASE q + 1 < r
  <2>1. First(q + 1) + BatchSize <= First(r)
    BY <1>1, <1>4, Firsts
  <2> QED BY <1>2, <2>1
<1> QED BY <1>1, <1>3, <1>4
-----------------------------------------------------------------------------
(* What an expert seals next is past everything that is folded of it.      *)
LEMMA FoldGoesOn ==
  ASSUME StreamInv, HeardInv, FoldInv, NEW x \in ExpertSet, NEW s, NEW w, GoesOn(x, s, w),
         UNCHANGED <<heard, folded, done>>
  PROVE  FoldInv'
<1>1. stream'[x] = s /\ \A y \in ExpertSet \ {x} : stream'[y] = stream[y]
  BY DEF GoesOn, StreamInv
<1>2. \A y \in ExpertSet : StepsOf(y)' = StepsOf(y)
  BY DEF StepsOf
<1>3. /\ s.sealed \in Nat /\ stream[x].sealed \in Nat /\ stream[x].seq \in Nat
      /\ stream[x].sealed <= s.sealed /\ stream[x].state \in {"none", "streaming", "ending", "complete"}
      /\ stream[x].state \in {"ending", "complete"} =>
           s.state \in {"ending", "complete"} /\ s.sealed = stream[x].sealed
  BY StreamOf DEF GoesOn, Stream
<1>4. \A t \in StepsOf(x) : t \in Nat /\ t < stream[x].sealed
  <2>1. \A t \in StepsOf(x) : t \in Nat
    BY StepsTyped
  <2> QED BY <2>1 DEF FoldInv, FoldedOld
<1>5. FoldedOld(x)'
  <2>1. \A t \in StepsOf(x) : t < s.sealed
    BY <1>3, <1>4
  <2>2. x \in done => /\ s.state \in {"ending", "complete"}
                      /\ s.sealed <= First(heard.lastSeq[x] + 1)
    BY <1>3 DEF FoldInv, FoldedOld
  <2> QED BY <1>1, <1>2, <2>1, <2>2 DEF FoldInv, FoldedOld
<1>6. WholeBatches(x)'
  <2>1. ASSUME NEW q \in Nat \ {0}
        PROVE  \/ PartOf(q, s.sealed) \subseteq StepsOf(x)
               \/ PartOf(q, s.sealed) \cap StepsOf(x) = {}
    <3>1. CASE s.sealed = stream[x].sealed
      BY <3>1 DEF FoldInv, WholeBatches
    <3>2. CASE s.sealed # stream[x].sealed
      <4>1. stream[x].sealed = First(stream[x].seq + 1) /\ stream[x].seq + 1 \in Nat \ {0}
        BY <1>3, <3>2, StreamOf DEF Counting
      <4>2. BatchSize \in Nat \ {0} /\ First(q) \in Nat
        BY Firsts
      <4>3. CASE q < stream[x].seq + 1
        <5>1. First(q) + BatchSize <= stream[x].sealed
          BY <4>1, <4>3, Firsts
        <5>2. PartOf(q, s.sealed) = PartOf(q, stream[x].sealed)
          BY <1>3, <4>2, <5>1 DEF PartOf
        <5> QED BY <5>2 DEF FoldInv, WholeBatches
      <4>4. CASE ~(q < stream[x].seq + 1)
        <5>1. stream[x].sealed <= First(q)
          <6>1. q = stream[x].seq + 1 \/ stream[x].seq + 1 < q
            BY <1>3, <4>4
          <6>2. CASE q = stream[x].seq + 1
            BY <4>1, <4>2, <6>2
          <6>3. CASE stream[x].seq + 1 < q
            <7>1. First(stream[x].seq + 1) + BatchSize <= First(q)
              BY <4>1, <6>3, Firsts
            <7> QED BY <1>3, <4>1, <4>2, <7>1
          <6> QED BY <6>1, <6>2, <6>3
        <5>2. \A t \in PartOf(q, s.sealed) : ~(t < stream[x].sealed)
          BY <1>3, <4>2, <5>1 DEF PartOf
        <5> QED BY <1>4, <5>2
      <4> QED BY <4>3, <4>4
    <3> QED BY <3>1, <3>2
  <2> QED BY <1>1, <1>2, <2>1 DEF WholeBatches
<1>7. ASSUME NEW y \in ExpertSet PROVE FoldedOld(y)' /\ WholeBatches(y)'
  <2>1. CASE y = x
    BY <1>5, <1>6, <2>1
  <2>2. CASE y # x
    BY <1>1, <1>2, <2>2 DEF FoldInv, FoldedOld, WholeBatches
  <2> QED BY <2>1, <2>2
<1>8. \A y \in ExpertSet : StepsInOrder(y)'
  BY DEF FoldInv, StepsInOrder
<1> QED BY <1>7, <1>8 DEF FoldInv

LEMMA AcceptedNumbers ==
  ASSUME StreamInv, HeardInv, FoldInv, NEW x \in ExpertSet, NEW q, Accepts(x, q)
  PROVE  LET n == stream[x].sealed
             last == heard.lastSeq[x]
         IN  /\ q \in Nat \ {0} /\ q \in Nat /\ q <= stream[x].seq /\ last < q /\ last \in Nat
             /\ n \in Nat /\ stream[x].seq \in Nat
             /\ heard'.lastSeq[x] = q
             /\ \A y \in ExpertSet \ {x} : heard'.lastSeq[y] = heard.lastSeq[y]
             /\ BatchSize \in Nat \ {0} /\ First(q) \in Nat /\ First(q + 1) = First(q) + BatchSize
             /\ First(last + 1) \in Nat /\ First(last + 1) <= First(q)
             /\ \A y \in ExpertSet : \A t \in StepsOf(y) : t \in Nat
             /\ \A t \in StepsOf(x) : t < First(last + 1) /\ t < n
<1> DEFINE n == stream[x].sealed
           last == heard.lastSeq[x]
<1>1. /\ q \in Nat \ {0} /\ q \in Nat /\ q <= stream[x].seq /\ last < q /\ last \in Nat /\ n \in Nat
      /\ stream[x].seq \in Nat
  BY MeshAssumption, StreamOf DEF Accepts, HeardInv
<1>2. /\ heard'.lastSeq[x] = q
      /\ \A y \in ExpertSet \ {x} : heard'.lastSeq[y] = heard.lastSeq[y]
  <2>1. heard'.lastSeq = [heard.lastSeq EXCEPT ![x] = q]
    BY HeardAfter
  <2>2. heard.lastSeq \in [Peers -> Nat] /\ \A y \in ExpertSet : y \in Peers
    BY MeshAssumption DEF HeardInv
  <2> QED BY <2>1, <2>2
<1>3. /\ BatchSize \in Nat \ {0} /\ First(q) \in Nat /\ First(q + 1) = First(q) + BatchSize
      /\ First(last + 1) \in Nat /\ First(last + 1) <= First(q)
  BY <1>1, Firsts, FirstsGrow
<1>4. \A y \in ExpertSet : \A t \in StepsOf(y) : t \in Nat
  BY StepsTyped
<1>5. \A t \in StepsOf(x) : t < First(last + 1) /\ t < n
  BY DEF FoldInv, FoldedOld
<1> QED BY <1>1, <1>2, <1>3, <1>4, <1>5

(* A batch that is accepted is folded as it is, behind what there was.     *)
LEMMA AcceptedFolds ==
  ASSUME StreamInv, HeardInv, FoldInv, NEW x \in ExpertSet, NEW q, Accepts(x, q),
         First(q) < stream[x].sealed
  PROVE  LET n == stream[x].sealed
             k == Len(folded)
             m == Len(Batch(x, q, n))
         IN  /\ k \in Nat /\ m \in Nat /\ DOMAIN folded = 1 .. k
             /\ folded' \in Seq(Frame) /\ DOMAIN folded' = 1 .. k + m /\ done' = done
             /\ \A i \in 1 .. k : folded'[i] = folded[i]
             /\ \A i \in 1 .. k + m : i > k =>
                  /\ folded'[i].agentId = x /\ folded'[i].step = First(q) + (i - k) - 1
                  /\ folded'[i].step \in PartOf(q, n)
             /\ StepsOf(x)' = StepsOf(x) \cup PartOf(q, n)
             /\ \A y \in ExpertSet \ {x} : StepsOf(y)' = StepsOf(y)
<1> DEFINE n == stream[x].sealed
           last == heard.lastSeq[x]
           b == Batch(x, q, n)
           m == Len(b)
<1>1. /\ q \in Nat \ {0} /\ q \in Nat /\ q <= stream[x].seq /\ last < q /\ last \in Nat
      /\ n \in Nat /\ stream[x].seq \in Nat
  BY AcceptedNumbers
<1>2. /\ heard'.lastSeq[x] = q
      /\ \A y \in ExpertSet \ {x} : heard'.lastSeq[y] = heard.lastSeq[y]
  BY AcceptedNumbers
<1>3. /\ BatchSize \in Nat \ {0} /\ First(q) \in Nat /\ First(q + 1) = First(q) + BatchSize
      /\ First(last + 1) \in Nat /\ First(last + 1) <= First(q)
  BY AcceptedNumbers
<1>4. \A y \in ExpertSet : \A t \in StepsOf(y) : t \in Nat
  BY AcceptedNumbers
<1>5. \A t \in StepsOf(x) : t < First(last + 1) /\ t < n
  BY AcceptedNumbers
<1> HIDE DEF n, last
<1>6. First(q) < n
  BY DEF n
<1>7. /\ b \in Seq(Frame) /\ m \in Nat
      /\ \A i \in 1 .. m : b[i] = [agentId |-> x, step |-> First(q) + i - 1]
      /\ PartOf(q, n) = {First(q) + i - 1 : i \in 1 .. m}
  BY <1>1, <1>6, BatchFrames
<1>8. \A t \in PartOf(q, n) : t \in Nat /\ First(q) <= t /\ t < n /\ t < First(q) + BatchSize
  BY DEF PartOf
<1>9. \A t \in PartOf(q, n) : <<x, t>> \notin Held
  <2>1. \A t \in PartOf(q, n) : t \notin StepsOf(x)
    BY <1>3, <1>5, <1>8
  <2>2. \A t : <<x, t>> \in Held => t \in StepsOf(x)
    BY DEF Held, StepsOf
  <2> QED BY <2>1, <2>2
<1>10. folded' = folded \o b /\ done' = done
  BY <1>1, <1>6, <1>9, AllAccepted DEF Accepts, n
<1> HIDE DEF b, m
<1> DEFINE k == Len(folded)
<1>11. /\ folded \in Seq(Frame) /\ k \in Nat /\ DOMAIN folded = 1 .. k
       /\ folded' \in Seq(Frame) /\ DOMAIN folded' = 1 .. k + m
       /\ \A i \in 1 .. k : folded'[i] = folded[i]
       /\ \A i \in 1 .. k + m : i > k => i - k \in 1 .. m /\ folded'[i] = b[i - k]
  <2>1. folded \in Seq(Frame)
    BY DEF FoldInv
  <2>2. /\ folded' \in Seq(Frame) /\ Len(folded') = k + m
        /\ \A i \in 1 .. k + m : folded'[i] = IF i <= k THEN folded[i] ELSE b[i - k]
    BY <1>7, <1>10, <2>1, ConcatProperties DEF m
  <2>3. m \in Nat /\ k \in Nat
    BY <1>7, <2>1
  <2>4. DOMAIN folded = 1 .. k /\ DOMAIN folded' = 1 .. k + m
    BY <2>1, <2>2
  <2> HIDE DEF k
  <2>5. \A i \in 1 .. k : i \in 1 .. k + m /\ i <= k
    BY <2>3
  <2>6. \A i \in 1 .. k + m : i > k => i - k \in 1 .. m /\ ~(i <= k)
    BY <2>3
  <2> QED BY <2>1, <2>2, <2>3, <2>4, <2>5, <2>6
<1> HIDE DEF k
<1>12. \A i \in 1 .. k + m : i > k =>
         /\ folded'[i].agentId = x /\ folded'[i].step = First(q) + (i - k) - 1
         /\ folded'[i].step \in PartOf(q, n)
  <2>1. ASSUME NEW i \in 1 .. k + m, i > k
        PROVE  /\ folded'[i].agentId = x /\ folded'[i].step = First(q) + (i - k) - 1
               /\ folded'[i].step \in PartOf(q, n)
    <3>1. i - k \in 1 .. m /\ folded'[i] = b[i - k]
      BY <1>11, <2>1
    <3>2. b[i - k] = [agentId |-> x, step |-> First(q) + (i - k) - 1]
      BY <1>7, <3>1
    <3>3. First(q) + (i - k) - 1 \in PartOf(q, n)
      BY <1>7, <3>1
    <3> QED BY <3>1, <3>2, <3>3
  <2> QED BY <2>1
<1>13. StepsOf(x)' = StepsOf(x) \cup PartOf(q, n)
  <2>1. ASSUME NEW t \in StepsOf(x)' PROVE t \in StepsOf(x) \cup PartOf(q, n)
    <3>1. PICK i \in DOMAIN folded' : folded'[i].agentId = x /\ folded'[i].step = t
      BY <2>1 DEF StepsOf, ToSet
    <3>2. CASE i > k
      BY <1>11, <1>12, <3>1, <3>2
    <3>3. CASE ~(i > k)
      <4>1. i \in DOMAIN folded /\ folded[i] = folded'[i]
        BY <1>11, <3>1, <3>3
      <4> QED BY <3>1, <4>1, StepsFolded
    <3> QED BY <3>2, <3>3
  <2>2. ASSUME NEW t \in StepsOf(x) PROVE t \in StepsOf(x)'
    <3>1. PICK i \in DOMAIN folded : folded[i].agentId = x /\ folded[i].step = t
      BY <2>2, StepsFolded
    <3>2. i \in DOMAIN folded' /\ folded'[i].agentId = x /\ folded'[i].step = t
      BY <1>7, <1>11, <3>1
    <3> QED BY <3>2 DEF StepsOf, ToSet
  <2>3. ASSUME NEW t \in PartOf(q, n) PROVE t \in StepsOf(x)'
    <3>1. PICK i \in 1 .. m : t = First(q) + i - 1
      BY <1>7, <2>3
    <3>2. k + i \in 1 .. k + m /\ k + i > k /\ k + i - k = i
      BY <1>7, <1>11, <3>1
    <3>3. k + i \in DOMAIN folded' /\ folded'[k + i].agentId = x /\ folded'[k + i].step = t
      BY <1>11, <1>12, <3>1, <3>2
    <3> QED BY <3>3 DEF StepsOf, ToSet
  <2> QED BY <2>1, <2>2, <2>3
<1>14. \A y \in ExpertSet \ {x} : StepsOf(y)' = StepsOf(y)
  <2>1. ASSUME NEW y \in ExpertSet \ {x}, NEW t \in StepsOf(y)' PROVE t \in StepsOf(y)
    <3>1. PICK i \in DOMAIN folded' : folded'[i].agentId = y /\ folded'[i].step = t
      BY <2>1 DEF StepsOf, ToSet
    <3>2. i \in DOMAIN folded /\ folded[i] = folded'[i]
      BY <1>11, <1>12, <3>1
    <3> QED BY <3>1, <3>2, StepsFolded
  <2>2. ASSUME NEW y \in ExpertSet \ {x}, NEW t \in StepsOf(y) PROVE t \in StepsOf(y)'
    <3>1. PICK i \in DOMAIN folded : folded[i].agentId = y /\ folded[i].step = t
      BY <2>2, StepsFolded
    <3>2. i \in DOMAIN folded' /\ folded'[i].agentId = y /\ folded'[i].step = t
      BY <1>7, <1>11, <3>1
    <3> QED BY <3>2 DEF StepsOf, ToSet
  <2> QED BY <2>1, <2>2
<1> QED BY <1>7, <1>10, <1>11, <1>12, <1>13, <1>14 DEF n, k, m, b

LEMMA FoldAccepts ==
  ASSUME StreamInv, HeardInv, FoldInv, NEW x \in ExpertSet, NEW q, Accepts(x, q), stream' = stream
  PROVE  FoldInv'
<1> DEFINE n == stream[x].sealed
           last == heard.lastSeq[x]
<1>1. /\ q \in Nat \ {0} /\ q \in Nat /\ q <= stream[x].seq /\ last < q /\ last \in Nat
      /\ n \in Nat /\ stream[x].seq \in Nat
  BY AcceptedNumbers
<1>2. /\ heard'.lastSeq[x] = q
      /\ \A y \in ExpertSet \ {x} : heard'.lastSeq[y] = heard.lastSeq[y]
  BY AcceptedNumbers
<1>3. /\ BatchSize \in Nat \ {0} /\ First(q) \in Nat /\ First(q + 1) = First(q) + BatchSize
      /\ First(last + 1) \in Nat /\ First(last + 1) <= First(q)
  BY AcceptedNumbers
<1>4. \A y \in ExpertSet : \A t \in StepsOf(y) : t \in Nat
  BY AcceptedNumbers
<1>5. \A t \in StepsOf(x) : t < First(last + 1) /\ t < n
  BY AcceptedNumbers
<1> HIDE DEF n, last
<1>6. CASE First(q) < n
  <2> DEFINE k == Len(folded)
             m == Len(Batch(x, q, n))
  <2>1. m \in Nat /\ k \in Nat
    BY <1>6, AcceptedFolds DEF n
  <2>2. \A t \in PartOf(q, n) : t \in Nat /\ First(q) <= t /\ t < n /\ t < First(q) + BatchSize
    BY DEF PartOf
  <2>4. done' = done
    BY <1>6, AcceptedFolds DEF n
  <2>5. /\ DOMAIN folded = 1 .. k /\ folded' \in Seq(Frame) /\ DOMAIN folded' = 1 .. k + m
        /\ \A i \in 1 .. k : folded'[i] = folded[i]
    BY <1>6, AcceptedFolds DEF n
  <2>6. \A i \in 1 .. k + m : i > k =>
          /\ folded'[i].agentId = x /\ folded'[i].step = First(q) + (i - k) - 1
          /\ folded'[i].step \in PartOf(q, n)
    BY <1>6, AcceptedFolds DEF n
  <2>7. StepsOf(x)' = StepsOf(x) \cup PartOf(q, n)
    BY <1>6, AcceptedFolds DEF n
  <2>8. \A y \in ExpertSet \ {x} : StepsOf(y)' = StepsOf(y)
    BY <1>6, AcceptedFolds DEF n
  <2> HIDE DEF k, m
  <2>9. FoldedOld(x)'
    <3>1. \A t \in StepsOf(x) \cup PartOf(q, n) : t < First(q + 1) /\ t < n
      BY <1>3, <1>4, <1>5, <2>2
    <3>2. x \in done => stream[x].state \in {"ending", "complete"} /\ n <= First(q + 1)
      BY <1>1, <1>3 DEF FoldInv, FoldedOld, n, last
    <3> QED BY <1>2, <2>4, <2>7, <3>1, <3>2 DEF FoldedOld, n
  <2>10. StepsInOrder(x)'
    <3>1. ASSUME NEW i \in 1 .. k + m, NEW j \in 1 .. k + m, i < j,
                 folded'[i].agentId = x, folded'[j].agentId = x
          PROVE  folded'[i].step < folded'[j].step
      <4>1. CASE j > k /\ i > k
        <5>1. /\ folded'[i].step = First(q) + (i - k) - 1 /\ folded'[j].step = First(q) + (j - k) - 1
          BY <2>6, <4>1
        <5> QED BY <1>3, <2>1, <2>5, <3>1, <5>1
      <4>2. CASE j > k /\ ~(i > k)
        <5>1. i \in DOMAIN folded /\ folded'[i] = folded[i]
          BY <2>1, <2>5, <3>1, <4>2
        <5>2. folded'[i].step \in StepsOf(x)
          BY <3>1, <5>1, StepsFolded
        <5>3. folded'[j].step \in PartOf(q, n)
          BY <2>6, <4>2
        <5> QED BY <1>3, <1>4, <1>5, <2>2, <5>2, <5>3
      <4>3. CASE ~(j > k)
        <5>1. i \in DOMAIN folded /\ j \in DOMAIN folded /\ folded'[i] = folded[i] /\ folded'[j] = folded[j]
          BY <2>1, <2>5, <3>1, <4>3
        <5> QED BY <3>1, <5>1 DEF FoldInv, StepsInOrder
      <4> QED BY <4>1, <4>2, <4>3
    <3> QED BY <2>5, <3>1 DEF StepsInOrder
  <2>11. WholeBatches(x)'
    <3>1. ASSUME NEW r \in Nat \ {0}
          PROVE  \/ PartOf(r, n) \subseteq StepsOf(x) \cup PartOf(q, n)
                 \/ PartOf(r, n) \cap (StepsOf(x) \cup PartOf(q, n)) = {}
      <4>1. CASE r = q
        BY <4>1
      <4>2. CASE r # q
        <5>1. PartOf(r, n) \cap PartOf(q, n) = {}
          BY <1>1, <4>2, BatchesApart
        <5>2. PartOf(r, n) \subseteq StepsOf(x) \/ PartOf(r, n) \cap StepsOf(x) = {}
          BY DEF FoldInv, WholeBatches, n
        <5> QED BY <5>1, <5>2
      <4> QED BY <4>1, <4>2
    <3> QED BY <2>7, <3>1 DEF WholeBatches, n
  <2>12. ASSUME NEW y \in ExpertSet \ {x}
         PROVE  FoldedOld(y)' /\ StepsInOrder(y)' /\ WholeBatches(y)'
    <3>1. FoldedOld(y)' /\ WholeBatches(y)'
      BY <1>2, <2>4, <2>8 DEF FoldInv, FoldedOld, WholeBatches
    <3>2. StepsInOrder(y)'
      <4>1. \A i \in DOMAIN folded' : folded'[i].agentId = y => i \in DOMAIN folded /\ folded'[i] = folded[i]
        BY <2>1, <2>5, <2>6
      <4> QED BY <4>1 DEF FoldInv, StepsInOrder
    <3> QED BY <3>1, <3>2
  <2>13. \A y \in ExpertSet : (FoldedOld(y) /\ StepsInOrder(y) /\ WholeBatches(y))'
    BY <2>9, <2>10, <2>11, <2>12
  <2> QED BY <2>5, <2>13 DEF FoldInv
<1>7. CASE ~(First(q) < n)
  <2>1. folded' = folded /\ done' = done \cup {x}
    BY <1>7 DEF Accepts, n
  <2>2. \A y \in ExpertSet : StepsOf(y)' = StepsOf(y)
    BY <2>1 DEF StepsOf
  <2>3. stream[x].state \in {"ending", "complete"}
    <3>1. SUFFICES ASSUME stream[x].state \in {"none", "streaming"} PROVE FALSE
      BY StreamOf DEF Stream
    <3>2. n = First(stream[x].seq + 1)
      BY <3>1, StreamOf DEF Counting, n
    <3>3. stream[x].seq + 1 \in Nat \ {0} /\ q < stream[x].seq + 1
      BY <1>1
    <3>4. First(q) + BatchSize <= n
      BY <1>1, <3>2, <3>3, Firsts
    <3> QED BY <1>1, <1>3, <1>7, <3>4
  <2>4. FoldedOld(x)'
    <3>1. \A t \in StepsOf(x) : t < First(q + 1) /\ t < n
      BY <1>3, <1>4, <1>5
    <3>2. n <= First(q + 1)
      BY <1>1, <1>3, <1>7
    <3> QED BY <1>2, <2>1, <2>2, <2>3, <3>1, <3>2 DEF FoldedOld, n
  <2>5. ASSUME NEW y \in ExpertSet \ {x} PROVE FoldedOld(y)'
    BY <1>2, <2>1, <2>2 DEF FoldInv, FoldedOld
  <2>6. \A y \in ExpertSet : (StepsInOrder(y) /\ WholeBatches(y))'
    BY <2>1, <2>2 DEF FoldInv, StepsInOrder, WholeBatches
  <2> QED BY <2>1, <2>4, <2>5, <2>6 DEF FoldInv
<1> QED BY <1>6, <1>7
-----------------------------------------------------------------------------
LEMMA FoldNext == TransportInv /\ FoldInv /\ [Next]_vars => FoldInv'
<1> SUFFICES ASSUME TransportInv, FoldInv, [Next]_vars PROVE FoldInv'
  OBVIOUS
<1>1. ServeInv /\ StreamInv /\ HeardInv
  BY DEF TransportInv
<1>2. CASE UNCHANGED <<heard, folded, done>>
  <2>1. CASE UNCHANGED <<stream, wire>>
    BY <1>2, <2>1 DEF FoldInv, FoldedOld, StepsInOrder, WholeBatches, StepsOf
  <2>2. ASSUME NEW x \in ExpertSet, NEW s, NEW w, GoesOn(x, s, w) PROVE FoldInv'
    BY <1>1, <1>2, <2>2, FoldGoesOn
  <2> QED BY <1>1, <2>1, <2>2, StreamSteps
<1>3. ASSUME NEW x \in ExpertSet, UNCHANGED stream, NEW q, Accepts(x, q) PROVE FoldInv'
  BY <1>1, <1>3, FoldAccepts
<1> QED BY <1>1, <1>2, <1>3, HeardSteps

(* What an expert has on its way was sealed by it.                         *)
LEMMA OnTheWayIsSealed ==
  ASSUME StreamInv, NEW x \in ExpertSet, NEW e \in OnTheWay(x)
  PROVE  \E q \in 1 .. stream[x].seq : e = Sent(x, q, stream[x].sealed)
<1>1. SealedAs(x, stream[x], wire[x])
  BY StreamOf
<1>2. CASE e \in ToSet(stream[x].outbox)
  BY <1>1, <1>2 DEF SealedAs, SealedIn, ToSet
<1>3. ASSUME NEW k \in DOMAIN wire[x], e \in ToSet(wire[x][k])
      PROVE  \E q \in 1 .. stream[x].seq : e = Sent(x, q, stream[x].sealed)
  BY <1>1, <1>3 DEF SealedAs, SealedIn, ToSet
<1> QED BY <1>2, <1>3 DEF OnTheWay

(* An end that is accepted has every batch of its stream behind it.        *)
LEMMA EndIsFinal ==
  ASSUME TransportInv, FoldInv, NEW x \in done, NEW e \in OnTheWay(x), e.kind = "stream.delta"
  PROVE  Check(heard, e) # "none"
<1>1. StreamInv /\ HeardInv /\ x \in ExpertSet
  BY DEF TransportInv, HeardInv
<1> DEFINE last == heard.lastSeq[x]
           n == stream[x].sealed
<1>2. last \in Nat /\ n \in Nat /\ stream[x].seq \in Nat
  BY <1>1, StreamOf, MeshAssumption DEF HeardInv
<1>3. PICK q \in 1 .. stream[x].seq : e = Sent(x, q, n)
  BY <1>1, OnTheWayIsSealed
<1>4. q \in Nat \ {0} /\ last + 1 \in Nat \ {0}
  BY <1>2
<1>5. e.senderPeer = x /\ e.senderSequence = q /\ First(q) < n
  BY <1>1, <1>2, <1>3, <1>4, SentFields
<1>6. n <= First(last + 1)
  BY <1>1 DEF FoldInv, FoldedOld
<1>7. q <= last
  <2>1. SUFFICES ASSUME ~(q <= last) PROVE FALSE
    OBVIOUS
  <2> DEFINE next == last + 1
  <2>2. next \in Nat \ {0} /\ next <= q
    BY <1>2, <1>4, <2>1
  <2> HIDE DEF next
  <2>3. First(next) <= First(q) /\ First(next) \in Nat /\ First(q) \in Nat
    BY <1>4, <2>2, Firsts, FirstsGrow
  <2>4. n <= First(next)
    BY <1>6 DEF next
  <2> HIDE DEF n
  <2> QED BY <1>2, <1>5, <2>3, <2>4
<1> QED BY <1>2, <1>4, <1>5, <1>7 DEF Check

(* Whatever resets, delays and late sockets do to the order of arrival,    *)
(* what the origin folded of an expert is in the order the expert produced *)
(* it, each frame once, a batch is folded as a whole or not at all, and    *)
(* what is still on its way when the end is heard is not folded any more   *)
(* (mesh-tcp.ts:184-197, tcp-transport.ts:137-147).                        *)
THEOREM StreamsFoldInOrder == Spec => []FoldedInOrder
<1>1. TransportInv /\ FoldInv => FoldedInOrder
  <2> SUFFICES ASSUME TransportInv, FoldInv, NEW x \in ExpertSet
               PROVE  /\ StepsInOrder(x)
                      /\ \A k \in 0 .. stream[x].seq :
                           LET batch == (k * BatchSize .. (k + 1) * BatchSize - 1)
                                          \cap (0 .. stream[x].sealed - 1)
                           IN batch \subseteq StepsOf(x) \/ batch \cap StepsOf(x) = {}
    BY EndIsFinal DEF FoldedInOrder, StepsInOrder
  <2>1. ASSUME NEW k \in 0 .. stream[x].seq
        PROVE  PartOf(k + 1, stream[x].sealed)
                 = (k * BatchSize .. (k + 1) * BatchSize - 1) \cap (0 .. stream[x].sealed - 1)
    <3>1. StreamInv
      BY DEF TransportInv
    <3>2. stream[x].seq \in Nat /\ stream[x].sealed \in Nat
      BY <3>1, StreamOf
    <3>3. k + 1 \in Nat \ {0} /\ k + 1 - 1 = k /\ k + 1 + 1 - 1 = k + 1
      BY <3>2
    <3>4. First(k + 1) = k * BatchSize /\ First(k + 1 + 1) = (k + 1) * BatchSize
      BY <3>3 DEF First
    <3>5. /\ First(k + 1) \in Nat /\ First(k + 1 + 1) = First(k + 1) + BatchSize
          /\ BatchSize \in Nat \ {0}
      BY <3>3, Firsts
    <3> DEFINE low == k * BatchSize
               high == (k + 1) * BatchSize
               n == stream[x].sealed
    <3>6. low = First(k + 1) /\ high = First(k + 1) + BatchSize /\ n \in Nat
      BY <3>2, <3>4, <3>5
    <3> HIDE DEF low, high, n
    <3>7. PartOf(k + 1, n) = (low .. high - 1) \cap (0 .. n - 1)
      BY <3>5, <3>6 DEF PartOf
    <3> QED BY <3>7 DEF low, high, n
  <2>2. \A k \in 0 .. stream[x].seq : k + 1 \in Nat \ {0}
    <3>1. StreamInv
      BY DEF TransportInv
    <3> QED BY <3>1, StreamOf
  <2> QED BY <2>1, <2>2 DEF FoldInv, WholeBatches
<1>2. TransportInv /\ FoldInv /\ [Next]_vars => (TransportInv /\ FoldInv)'
  BY TransportNext, FoldNext
<1>3. Init => TransportInv /\ FoldInv
  BY TransportInit, FoldInit
<1> QED BY <1>1, <1>2, <1>3, PTL DEF Spec
-----------------------------------------------------------------------------
(* An expert that met no fault has one socket, and what is on it and in    *)
(* the outbox are the envelopes the origin did not hear yet, in order.     *)
Unread(w) == IF w = <<>> THEN <<>> ELSE w[1]

Following(s, w, last, steps) ==
  /\ Len(w) <= 1 /\ (s.state # "complete" => s.socket = Len(w))
  /\ last + Len(Unread(w)) + Len(s.outbox) = s.seq
  /\ \A i \in DOMAIN Unread(w) : Unread(w)[i].senderSequence = last + i
  /\ \A i \in DOMAIN s.outbox : s.outbox[i].senderSequence = last + Len(Unread(w)) + i
  /\ steps = {t \in 0 .. s.sealed - 1 : t < First(last + 1)}

Gapless(x) == Following(stream[x], wire[x], heard.lastSeq[x], StepsOf(x))

GapInv ==
  /\ faulty \in Seq(ExpertSet)
  /\ \A x \in ExpertSet \ ToSet(faulty) : Gapless(x)

LEMMA UnreadTyped ==
  ASSUME NEW w \in Seq(Seq(Envelopes)), Len(w) <= 1
  PROVE  /\ Unread(w) \in Seq(Envelopes) /\ Len(Unread(w)) \in Nat
         /\ DOMAIN Unread(w) = 1 .. Len(Unread(w))
<1>1. CASE w = <<>>
  BY <1>1 DEF Unread
<1>2. CASE w # <<>>
  <2>1. w[1] \in Seq(Envelopes)
    BY <1>2
  <2> QED BY <1>2, <2>1 DEF Unread
<1> QED BY <1>1, <1>2

LEMMA GapInit == Init => GapInv
<1> SUFFICES ASSUME Init PROVE GapInv
  OBVIOUS
<1>1. faulty = <<>> /\ folded = <<>> /\ heard = NewGuard
  BY DEF Init
<1>2. ASSUME NEW x \in ExpertSet PROVE Gapless(x)
  <2>1. stream[x] = NoStream /\ wire[x] = <<>> /\ heard.lastSeq[x] = 0
    BY <1>1, MeshAssumption DEF Init, NewGuard
  <2>2. StepsOf(x) = {}
    BY <1>1, StepsFolded
  <2>3. /\ NoStream.state = "none" /\ NoStream.socket = 0 /\ NoStream.outbox = <<>>
        /\ NoStream.seq = 0 /\ NoStream.sealed = 0
    BY DEF NoStream
  <2>4. Unread(<<>>) = <<>>
    BY DEF Unread
  <2>5. Following(NoStream, <<>>, 0, {})
    BY <2>3, <2>4 DEF Following
  <2> QED BY <2>1, <2>2, <2>5 DEF Gapless
<1> QED BY <1>1, <1>2 DEF GapInv

(* A stream that seals more, and what becomes of it.                       *)
LEMMA FollowingSeals ==
  ASSUME NEW s \in Stream, NEW t \in Stream, NEW w \in Seq(Seq(Envelopes)), NEW last \in Nat,
         NEW steps, Following(s, w, last, steps),
         s.state # "complete", t.state # "complete", t.socket = s.socket,
         \/ t.outbox = s.outbox /\ t.seq = s.seq
         \/ /\ s.outbox = <<>> /\ t.seq = s.seq + Len(t.outbox)
            /\ \A i \in DOMAIN t.outbox : t.outbox[i].senderSequence = s.seq + i,
         t.sealed = s.sealed \/ (s.sealed = First(s.seq + 1) /\ s.sealed <= t.sealed)
  PROVE  Following(t, w, last, steps)
<1>1. /\ Len(Unread(w)) \in Nat /\ DOMAIN Unread(w) = 1 .. Len(Unread(w))
  BY UnreadTyped DEF Following
<1>2. /\ s.seq \in Nat /\ t.seq \in Nat /\ s.sealed \in Nat /\ t.sealed \in Nat
      /\ s.outbox \in Seq(Envelopes) /\ t.outbox \in Seq(Envelopes)
      /\ Len(s.outbox) \in Nat /\ Len(t.outbox) \in Nat
  BY DEF Stream
<1>3. /\ last + Len(Unread(w)) + Len(t.outbox) = t.seq
      /\ \A i \in DOMAIN t.outbox : t.outbox[i].senderSequence = last + Len(Unread(w)) + i
  <2>1. CASE t.outbox = s.outbox /\ t.seq = s.seq
    BY <2>1 DEF Following
  <2>2. CASE /\ s.outbox = <<>> /\ t.seq = s.seq + Len(t.outbox)
             /\ \A i \in DOMAIN t.outbox : t.outbox[i].senderSequence = s.seq + i
    <3>1. last + Len(Unread(w)) = s.seq
      BY <1>1, <1>2, <2>2 DEF Following
    <3> QED BY <2>2, <3>1
  <2> QED BY <2>1, <2>2
<1>4. {r \in 0 .. t.sealed - 1 : r < First(last + 1)} = {r \in 0 .. s.sealed - 1 : r < First(last + 1)}
  <2>1. CASE t.sealed = s.sealed
    BY <2>1
  <2>2. CASE s.sealed = First(s.seq + 1) /\ s.sealed <= t.sealed
    <3>1. last <= s.seq
      <4>1. last + Len(Unread(w)) + Len(s.outbox) = s.seq
        BY DEF Following
      <4> DEFINE a == Len(Unread(w))
                 c == Len(s.outbox)
                 d == s.seq
      <4>2. a \in Nat /\ c \in Nat /\ d \in Nat /\ last + a + c = d
        BY <1>1, <1>2, <4>1
      <4> HIDE DEF a, c, d
      <4>3. last <= d
        BY <4>2
      <4> QED BY <4>3 DEF d
    <3>2. First(last + 1) \in Nat /\ First(last + 1) <= s.sealed
      <4>1. CASE last = s.seq
        BY <1>2, <2>2, <4>1
      <4>2. CASE last < s.seq
        <5>1. s.seq + 1 \in Nat /\ last < s.seq + 1
          BY <1>2, <4>2
        <5> QED BY <2>2, <5>1, FirstsGrow
      <4> QED BY <1>2, <3>1, <4>1, <4>2
    <3> QED BY <1>2, <2>2, <3>2
  <2> QED BY <2>1, <2>2
<1> QED BY <1>3, <1>4 DEF Following

(* An envelope that is sent follows what is on the socket.                 *)
LEMMA FollowingSends ==
  ASSUME NEW s \in Stream, NEW t \in Stream, NEW w \in Seq(Seq(Envelopes)),
         NEW v \in Seq(Seq(Envelopes)), NEW last \in Nat, NEW steps,
         Following(s, w, last, steps), s.outbox # <<>>,
         t.outbox = Tail(s.outbox), t.seq = s.seq, t.sealed = s.sealed,
         t.state # "complete" => t.socket = 1,
         Len(v) = 1, v[1] = Append(Unread(w), s.outbox[1])
  PROVE  Following(t, v, last, steps)
<1>1. /\ Unread(w) \in Seq(Envelopes) /\ Len(Unread(w)) \in Nat
      /\ DOMAIN Unread(w) = 1 .. Len(Unread(w))
  BY UnreadTyped DEF Following
<1> DEFINE n == Len(Unread(w))
<1>2. /\ s.seq \in Nat /\ s.outbox \in Seq(Envelopes) /\ s.outbox[1] \in Envelopes
      /\ 1 \in DOMAIN s.outbox
  BY DEF Stream
<1>3. /\ Len(t.outbox) = Len(s.outbox) - 1 /\ Len(s.outbox) \in Nat /\ Len(t.outbox) \in Nat
      /\ \A i \in DOMAIN t.outbox : i \in Nat /\ i + 1 \in DOMAIN s.outbox
                                    /\ t.outbox[i] = s.outbox[i + 1]
  BY <1>2
<1>4. Unread(v) = Append(Unread(w), s.outbox[1])
  <2>1. v # <<>>
    <3>1. SUFFICES ASSUME v = <<>> PROVE FALSE
      OBVIOUS
    <3>2. Len(v) = 0
      BY <3>1
    <3> QED BY <3>2
  <2>2. Unread(v) = v[1]
    BY <2>1 DEF Unread
  <2> QED BY <2>2
<1>5. /\ Len(Unread(v)) = n + 1 /\ DOMAIN Unread(v) = 1 .. n + 1
      /\ \A i \in 1 .. n : Unread(v)[i] = Unread(w)[i]
      /\ Unread(v)[n + 1] = s.outbox[1]
  BY <1>1, <1>2, <1>4, AppendProperties
<1> HIDE DEF n
<1>6. /\ last + n + Len(s.outbox) = s.seq
      /\ \A i \in 1 .. n : Unread(w)[i].senderSequence = last + i
      /\ \A i \in DOMAIN s.outbox : s.outbox[i].senderSequence = last + n + i
  BY <1>1 DEF Following, n
<1>7. n \in Nat
  BY <1>1 DEF n
<1>8. last + Len(Unread(v)) + Len(t.outbox) = t.seq
  <2> DEFINE a == Len(s.outbox)
             c == Len(t.outbox)
  <2>1. a \in Nat /\ c = a - 1 /\ last + n + a = s.seq /\ Len(Unread(v)) = n + 1
    BY <1>3, <1>5, <1>6
  <2> HIDE DEF a, c
  <2>2. last + (n + 1) + c = s.seq
    BY <1>7, <2>1
  <2> QED BY <2>1, <2>2 DEF c
<1>9. \A i \in DOMAIN Unread(v) : Unread(v)[i].senderSequence = last + i
  <2>1. \A i \in 1 .. n + 1 : i \in 1 .. n \/ i = n + 1
    BY <1>7
  <2>2. s.outbox[1].senderSequence = last + (n + 1)
    BY <1>2, <1>6, <1>7
  <2> QED BY <1>5, <1>6, <2>1, <2>2
<1>10. \A i \in DOMAIN t.outbox : t.outbox[i].senderSequence = last + Len(Unread(v)) + i
  <2>1. ASSUME NEW i \in DOMAIN t.outbox
        PROVE  t.outbox[i].senderSequence = last + Len(Unread(v)) + i
    <3>1. i \in Nat /\ t.outbox[i].senderSequence = last + n + (i + 1)
      BY <1>3, <1>6
    <3> QED BY <1>5, <1>7, <3>1
  <2> QED BY <2>1
<1>11. Len(v) <= 1 /\ (t.state # "complete" => t.socket = Len(v))
  OBVIOUS
<1>12. steps = {r \in 0 .. t.sealed - 1 : r < First(last + 1)}
  BY DEF Following
<1> QED BY <1>8, <1>9, <1>10, <1>11, <1>12 DEF Following

(* The envelope that is read next is the next one the origin has not heard. *)
LEMMA FollowingReads ==
  ASSUME NEW s \in Stream, NEW w \in Seq(Seq(Envelopes)), NEW v \in Seq(Seq(Envelopes)),
         NEW last \in Nat, NEW steps, NEW more,
         Following(s, w, last, steps), Unread(w) # <<>>,
         Len(v) = Len(w), Unread(v) = Tail(Unread(w)),
         more = {t \in 0 .. s.sealed - 1 : t < First(last + 1 + 1)}
  PROVE  Following(s, v, last + 1, more)
<1>1. /\ Unread(w) \in Seq(Envelopes) /\ Len(Unread(w)) \in Nat
  BY UnreadTyped DEF Following
<1>2. s.outbox \in Seq(Envelopes) /\ Len(s.outbox) \in Nat /\ DOMAIN s.outbox = 1 .. Len(s.outbox)
  BY DEF Stream
<1>3. /\ Len(Unread(v)) = Len(Unread(w)) - 1
      /\ \A i \in DOMAIN Unread(v) : i \in Nat /\ i + 1 \in DOMAIN Unread(w)
                                     /\ Unread(v)[i] = Unread(w)[i + 1]
  BY <1>1
<1>4. last + 1 + Len(Unread(v)) = last + Len(Unread(w))
  BY <1>1, <1>3
<1>5. \A i \in DOMAIN Unread(v) : Unread(v)[i].senderSequence = last + 1 + i
  <2>1. ASSUME NEW i \in DOMAIN Unread(v) PROVE Unread(v)[i].senderSequence = last + 1 + i
    <3>1. i \in Nat /\ Unread(v)[i].senderSequence = last + (i + 1)
      BY <1>3 DEF Following
    <3> QED BY <3>1
  <2> QED BY <2>1
<1> QED BY <1>4, <1>5 DEF Following
-----------------------------------------------------------------------------
Does(x) ==
  \/ ExpertStep(x) \/ Deliver(x) \/ WriteFails(x) \/ BackendThrows(x) \/ Reset(x)

(* What an expert does leaves the streams of the others alone.             *)
LEMMA OthersApart ==
  ASSUME ServeInv, StreamInv, NEW z \in ExpertSet, Does(z), NEW x \in ExpertSet \ {z}
  PROVE  stream'[x] = stream[x] /\ wire'[x] = wire[x]
<1>1. CASE UNCHANGED <<stream, wire>>
  BY <1>1
<1>2. CASE \E s, w : GoesOn(z, s, w)
  BY <1>2 DEF GoesOn, StreamInv
<1>3. CASE SeeOrigin(z) \/ Relisten(z) \/ Unreachable(z) \/ WriteFails(z) \/ BackendThrows(z)
  BY <1>1, <1>3 DEF SeeOrigin, Relisten, Unreachable, WriteFails, BackendThrows, Crashed
<1>4. CASE \/ HandleOpen(z) \/ Emit(z) \/ Yield(z) \/ EndOfStream(z) \/ Send(z)
           \/ Deliver(z) \/ Reset(z)
  BY <1>2, <1>4, OpenGoesOn, EmitGoesOn, YieldGoesOn, EndGoesOn, SendGoesOn, DeliverGoesOn, ResetGoesOn
<1> QED BY <1>3, <1>4 DEF Does, ExpertStep

LEMMA HeardApart ==
  ASSUME StreamInv, HeardInv, FoldInv, NEW z \in ExpertSet, NEW q, Accepts(z, q),
         NEW x \in ExpertSet \ {z}
  PROVE  heard'.lastSeq[x] = heard.lastSeq[x] /\ StepsOf(x)' = StepsOf(x)
<1>1. heard'.lastSeq[x] = heard.lastSeq[x]
  BY AcceptedNumbers
<1>2. CASE First(q) < stream[z].sealed
  BY <1>1, <1>2, AcceptedFolds
<1>3. CASE ~(First(q) < stream[z].sealed)
  <2>1. folded' = folded
    BY <1>3 DEF Accepts
  <2> QED BY <1>1, <2>1 DEF StepsOf
<1> QED BY <1>2, <1>3

(* The origin reads the one socket of an expert in order and refuses       *)
(* nothing of it.                                                          *)
LEMMA ReadsNext ==
  ASSUME StreamInv, HeardInv, NEW x \in ExpertSet, Deliver(x), Gapless(x),
         faulty \in Seq(ExpertSet), x \notin ToSet(faulty')
  PROVE  /\ Accepts(x, heard.lastSeq[x] + 1) /\ Unread(wire[x]) # <<>>
         /\ Len(wire'[x]) = Len(wire[x]) /\ Unread(wire'[x]) = Tail(Unread(wire[x]))
<1> DEFINE last == heard.lastSeq[x]
<1>1. PICK k \in DOMAIN wire[x] :
        /\ wire[x][k] # <<>>
        /\ wire' = [wire EXCEPT ![x][k] = Tail(@)]
        /\ \E late \in BOOLEAN :
             /\ IF late THEN Fault("delay", x) ELSE UNCHANGED faulty
             /\ heard' = GuardAfter(Head(wire[x][k]), Origin, ExpertSet, heard, late)
  BY DEF Deliver
<1>2. wire[x] \in Seq(Seq(Envelopes)) /\ Len(wire[x]) <= 1 /\ wire \in [ExpertSet -> Seq(Seq(Envelopes))]
  BY StreamOf DEF Gapless, Following, StreamInv
<1>3. k = 1 /\ wire[x] # <<>> /\ Len(wire[x]) = 1 /\ wire[x][1] \in Seq(Envelopes)
  <2>1. k \in 1 .. Len(wire[x]) /\ Len(wire[x]) \in Nat
    BY <1>1, <1>2
  <2>2. k = 1 /\ Len(wire[x]) = 1
    <3> DEFINE n == Len(wire[x])
    <3>1. k \in 1 .. n /\ n \in Nat /\ n <= 1
      BY <1>2, <2>1
    <3> HIDE DEF n
    <3>2. k = 1 /\ n = 1
      BY <3>1
    <3> QED BY <3>2 DEF n
  <2>3. wire[x] # <<>>
    <3>1. SUFFICES ASSUME wire[x] = <<>> PROVE FALSE
      OBVIOUS
    <3>2. Len(wire[x]) = 0
      BY <3>1
    <3> QED BY <2>2, <3>2
  <2> QED BY <1>2, <2>2, <2>3
<1>4. Unread(wire[x]) = wire[x][1] /\ Unread(wire[x]) # <<>>
  BY <1>1, <1>3 DEF Unread
<1>5. /\ wire'[x] = [wire[x] EXCEPT ![1] = Tail(wire[x][1])]
      /\ Len(wire'[x]) = 1 /\ wire'[x][1] = Tail(wire[x][1])
  <2>1. wire'[x] = [wire[x] EXCEPT ![1] = Tail(wire[x][1])]
    BY <1>1, <1>2, <1>3
  <2>2. Tail(wire[x][1]) \in Seq(Envelopes)
    BY <1>1, <1>3
  <2> QED BY <1>2, <1>3, <2>1, <2>2, ExceptSeq
<1>6. Unread(wire'[x]) = Tail(Unread(wire[x]))
  <2>1. wire'[x] # <<>>
    <3>1. SUFFICES ASSUME wire'[x] = <<>> PROVE FALSE
      OBVIOUS
    <3>2. Len(wire'[x]) = 0
      BY <3>1
    <3> QED BY <1>5, <3>2
  <2>2. Unread(wire'[x]) = wire'[x][1]
    BY <2>1 DEF Unread
  <2> QED BY <1>4, <1>5, <2>2
<1> DEFINE e == Head(wire[x][1])
<1>7. heard' = GuardAfter(e, Origin, ExpertSet, heard, FALSE)
  <2>1. PICK late \in BOOLEAN :
             /\ IF late THEN Fault("delay", x) ELSE UNCHANGED faulty
             /\ heard' = GuardAfter(e, Origin, ExpertSet, heard, late)
    BY <1>1, <1>3
  <2>2. late = FALSE
    <3>1. SUFFICES ASSUME late PROVE FALSE
      OBVIOUS
    <3>2. faulty' = Append(faulty, x)
      BY <2>1, <3>1 DEF Fault
    <3>3. /\ Len(faulty) \in Nat /\ Len(faulty) + 1 \in DOMAIN faulty'
          /\ faulty'[Len(faulty) + 1] = x
      BY <3>2, AppendProperties
    <3> QED BY <3>3 DEF ToSet
  <2> QED BY <2>1, <2>2
<1>8. PICK q \in 1 .. stream[x].seq : q \in Nat \ {0} /\ e = Sent(x, q, stream[x].sealed)
  BY <1>1, <1>3, Arrival
<1>9. /\ e.senderPeer = x /\ e.senderSequence = q /\ e.eventId = <<x, Origin, q>>
      /\ e.recipientPeer = Origin
  <2>1. stream[x].sealed \in Nat
    BY StreamOf
  <2> QED BY <1>8, <2>1, SentFields
<1>10. e.senderSequence = last + 1
  <2>1. 1 \in DOMAIN wire[x][1] /\ e = wire[x][1][1]
    BY <1>1, <1>3
  <2> QED BY <1>4, <2>1 DEF Gapless, Following
<1>11. last \in Nat
  BY MeshAssumption DEF HeardInv
<1> HIDE DEF e
<1>12. Check(heard, e) = "none"
  <2>1. e.eventId \notin heard.seen
    BY <1>8, <1>9, <1>10, <1>11 DEF HeardInv
  <2>2. ~(e.senderSequence <= heard.lastSeq[e.senderPeer])
    BY <1>9, <1>10, <1>11
  <2> QED BY <2>1, <2>2 DEF Check
<1>13. heard' = Remember(heard, e)
  BY <1>7, <1>9, <1>12 DEF GuardAfter, VerifyEnvelope
<1>14. heard'.lastSeq[x] = last + 1
  <2>1. heard'.lastSeq = [heard.lastSeq EXCEPT ![x] = last + 1]
    BY <1>9, <1>10, <1>13 DEF Remember
  <2>2. heard.lastSeq \in [Peers -> Nat] /\ x \in Peers
    BY MeshAssumption DEF HeardInv
  <2> QED BY <2>1, <2>2
<1>15. heard' # heard
  BY <1>11, <1>14
<1>16. PICK r : Accepts(x, r)
  BY <1>15, Deliveries
<1>17. heard'.lastSeq[x] = r
  <2>1. heard'.lastSeq = [heard.lastSeq EXCEPT ![x] = r]
    BY <1>16, HeardAfter
  <2>2. heard.lastSeq \in [Peers -> Nat] /\ x \in Peers
    BY MeshAssumption DEF HeardInv
  <2> QED BY <2>1, <2>2
<1>18. Accepts(x, last + 1)
  BY <1>14, <1>16, <1>17
<1> QED BY <1>3, <1>4, <1>5, <1>6, <1>18

LEMMA DeliverGapless ==
  ASSUME StreamInv, HeardInv, FoldInv, NEW x \in ExpertSet, Deliver(x), Gapless(x),
         faulty \in Seq(ExpertSet), x \notin ToSet(faulty')
  PROVE  Gapless(x)'
<1> DEFINE last == heard.lastSeq[x]
           q == last + 1
           s == stream[x]
<1>1. /\ Accepts(x, q) /\ Unread(wire[x]) # <<>>
      /\ Len(wire'[x]) = Len(wire[x]) /\ Unread(wire'[x]) = Tail(Unread(wire[x]))
  BY ReadsNext
<1>2. /\ last \in Nat /\ heard'.lastSeq[x] = q /\ s.sealed \in Nat
      /\ First(q) \in Nat /\ First(q + 1) = First(q) + BatchSize /\ BatchSize \in Nat \ {0}
  BY <1>1, AcceptedNumbers
<1>3. StepsOf(x) = {t \in 0 .. s.sealed - 1 : t < First(q)}
  BY DEF Gapless, Following
<1>4. StepsOf(x)' = {t \in 0 .. s.sealed - 1 : t < First(q + 1)}
  <2>1. CASE First(q) < s.sealed
    <3>1. StepsOf(x)' = StepsOf(x) \cup PartOf(q, s.sealed)
      BY <1>1, <2>1, AcceptedFolds
    <3> HIDE DEF s, q
    <3> QED BY <1>2, <1>3, <3>1 DEF PartOf
  <2>2. CASE ~(First(q) < s.sealed)
    <3>1. folded' = folded
      BY <1>1, <2>2 DEF Accepts
    <3>2. StepsOf(x)' = StepsOf(x)
      BY <3>1 DEF StepsOf
    <3> HIDE DEF s, q
    <3> QED BY <1>2, <1>3, <2>2, <3>2
  <2> QED BY <2>1, <2>2
<1>5. s \in Stream /\ wire[x] \in Seq(Seq(Envelopes)) /\ wire'[x] \in Seq(Seq(Envelopes))
  <2>1. StreamInv'
    BY DeliverGoesOn, GoingOnKeeps
  <2> QED BY <2>1, StreamOf DEF StreamInv
<1>6. Following(s, wire[x], last, StepsOf(x)) /\ stream' = stream
  BY DEF Gapless, Deliver
<1>7. Following(s, wire'[x], last + 1, StepsOf(x)')
  <2> HIDE DEF s, last
  <2> QED BY <1>1, <1>2, <1>4, <1>5, <1>6, FollowingReads
<1> QED BY <1>2, <1>6, <1>7 DEF Gapless
-----------------------------------------------------------------------------
LEMMA OpenGapless ==
  ASSUME ServeInv, StreamInv, NEW x \in ExpertSet, HandleOpen(x), Gapless(x)
  PROVE  Gapless(x)'
<1> DEFINE s == stream[x]
           t == [s EXCEPT !.state = "streaming", !.served = @ + 1]
<1>1. UNCHANGED <<wire, heard, folded>>
  BY DEF HandleOpen, atOrigin
<1>2. StepsOf(x)' = StepsOf(x)
  BY <1>1 DEF StepsOf
<1>3. CASE stream' = stream
  BY <1>1, <1>2, <1>3 DEF Gapless
<1>4. CASE stream' # stream
  <2>1. s.served = 0 /\ stream' = [stream EXCEPT ![x].state = "streaming", ![x].served = @ + 1]
    BY <1>4, OpenedFirst
  <2>2. stream'[x] = t /\ s \in Stream /\ Counting(s)
    <3>1. stream' = [stream EXCEPT ![x] = t] /\ stream \in [ExpertSet -> Stream]
      BY <2>1 DEF StreamInv
    <3> QED BY <3>1, StreamOf
  <2>3. s.state = "none"
    BY <2>1, <2>2 DEF Counting
  <2> HIDE DEF s
  <2>4. /\ t.state = "streaming" /\ t.outbox = s.outbox /\ t.seq = s.seq /\ t.sealed = s.sealed
        /\ t.socket = s.socket
    BY <2>2 DEF Stream
  <2>5. Following(s, wire[x], heard.lastSeq[x], StepsOf(x))
    BY DEF Gapless, s
  <2> HIDE DEF t
  <2>6. Following(t, wire[x], heard.lastSeq[x], StepsOf(x))
    BY <2>3, <2>4, <2>5 DEF Following
  <2> QED BY <1>1, <1>2, <2>2, <2>6 DEF Gapless
<1> QED BY <1>3, <1>4

LEMMA EmitGapless ==
  ASSUME StreamInv, NEW x \in ExpertSet, Emit(x), Gapless(x)
  PROVE  Gapless(x)'
<1>1. PICK v : stream' = [stream EXCEPT ![x].toYield = v]
  BY DEF Emit
<1>2. UNCHANGED <<wire, heard, folded>>
  BY DEF Emit, atOrigin
<1>3. StepsOf(x)' = StepsOf(x)
  BY <1>2 DEF StepsOf
<1> DEFINE s == stream[x]
           t == [s EXCEPT !.toYield = v]
<1>4. stream'[x] = t /\ s \in Stream
  <2>1. stream' = [stream EXCEPT ![x] = t] /\ stream \in [ExpertSet -> Stream]
    BY <1>1 DEF StreamInv
  <2> QED BY <2>1
<1>5. Following(s, wire[x], heard.lastSeq[x], StepsOf(x))
  BY DEF Gapless
<1> HIDE DEF s
<1>6. /\ t.state = s.state /\ t.outbox = s.outbox /\ t.seq = s.seq /\ t.sealed = s.sealed
      /\ t.socket = s.socket
  BY <1>4 DEF Stream
<1> HIDE DEF t
<1>7. Following(t, wire[x], heard.lastSeq[x], StepsOf(x))
  BY <1>5, <1>6 DEF Following
<1> QED BY <1>2, <1>3, <1>4, <1>7 DEF Gapless

(* An expert that seals numbers what it seals on from its last.            *)
LEMMA SealGapless ==
  ASSUME StreamInv, StreamInv', NEW x \in ExpertSet, Gapless(x), UNCHANGED <<wire, heard, folded>>,
         HeardInv,
         stream[x].state = "streaming", stream'[x].state # "complete",
         stream'[x].socket = stream[x].socket, stream[x].sealed <= stream'[x].sealed,
         stream[x].outbox = <<>>, stream'[x].seq = stream[x].seq + Len(stream'[x].outbox),
         \A i \in DOMAIN stream'[x].outbox :
           stream'[x].outbox[i].senderSequence = stream[x].seq + i
  PROVE  Gapless(x)'
<1>1. StepsOf(x)' = StepsOf(x)
  BY DEF StepsOf
<1> DEFINE s == stream[x]
           t == stream'[x]
           last == heard.lastSeq[x]
           steps == StepsOf(x)
           w == wire[x]
<1>2. /\ s \in Stream /\ t \in Stream /\ w \in Seq(Seq(Envelopes)) /\ last \in Nat
      /\ s.sealed = First(s.seq + 1)
  <2>1. last \in Nat
    BY MeshAssumption DEF HeardInv
  <2>2. s.sealed = First(s.seq + 1)
    BY StreamOf DEF Counting
  <2> QED BY <2>1, <2>2 DEF StreamInv
<1>3. Following(s, w, last, steps)
  BY DEF Gapless
<1>4. /\ s.state # "complete" /\ t.state # "complete" /\ t.socket = s.socket
      /\ s.sealed <= t.sealed /\ s.outbox = <<>> /\ t.seq = s.seq + Len(t.outbox)
      /\ \A i \in DOMAIN t.outbox : t.outbox[i].senderSequence = s.seq + i
  OBVIOUS
<1> HIDE DEF s, t, last, steps, w
<1>5. Following(t, w, last, steps)
  BY <1>2, <1>3, <1>4, FollowingSeals
<1> QED BY <1>1, <1>5 DEF Gapless, t, w, last, steps
-----------------------------------------------------------------------------
LEMMA YieldGapless ==
  ASSUME StreamInv, HeardInv, NEW x \in ExpertSet, Yield(x), Gapless(x)
  PROVE  Gapless(x)'
<1> DEFINE r == stream[x]
           s == [r EXCEPT !.toYield = @ - 1, !.step = @ + 1]
           d == Delta(x, s)
           t == [s EXCEPT !.outbox = <<d>>, !.seq = @ + 1, !.sealed = s.step]
<1>1. /\ r \in Stream /\ Counting(r) /\ r.seq \in Nat /\ r.step \in Nat /\ r.sealed \in Nat
      /\ r.toYield \in Nat /\ stream \in [ExpertSet -> Stream]
  BY StreamOf DEF StreamInv
<1>2. r.toYield > 0 /\ r.outbox = <<>> /\ UNCHANGED <<wire, heard, folded>>
  BY DEF Yield, atOrigin
<1>3. r.state = "streaming" /\ r.sealed <= r.step
  BY <1>1, <1>2 DEF Counting, Stream
<1>4. stream' = [stream EXCEPT ![x] = IF s.step - s.sealed < BatchSize THEN s ELSE t]
  BY DEF Yield
<1>5. stream'[x] = s \/ stream'[x] = t
  BY <1>1, <1>4
<1>6. StreamInv'
  BY YieldGoesOn, GoingOnKeeps
<1>7. d.senderSequence = s.seq + 1
  BY DEF Delta, SealEnvelope
<1> HIDE DEF r, d
<1>8. /\ s.state = r.state /\ s.socket = r.socket /\ s.outbox = <<>> /\ s.seq = r.seq
      /\ s.sealed = r.sealed /\ s.step = r.step + 1
      /\ t.state = r.state /\ t.socket = r.socket /\ t.outbox = <<d>> /\ t.seq = r.seq + 1
      /\ t.sealed = r.step + 1
  <2>1. /\ s.state = r.state /\ s.socket = r.socket /\ s.outbox = <<>> /\ s.seq = r.seq
        /\ s.sealed = r.sealed /\ s.step = r.step + 1 /\ s = [s EXCEPT !.state = r.state]
    BY <1>1, <1>2 DEF Stream
  <2>2. DOMAIN s = {"state", "seq", "toYield", "step", "sealed", "outbox", "socket", "served"}
    BY <1>1 DEF Stream
  <2> HIDE DEF s
  <2> QED BY <2>1, <2>2
<1> HIDE DEF s, t
<1>9. CASE stream'[x] = s
  <2>1. /\ stream'[x].state # "complete" /\ stream'[x].socket = stream[x].socket
        /\ stream[x].sealed <= stream'[x].sealed /\ stream'[x].outbox = <<>>
        /\ stream'[x].seq = stream[x].seq + Len(stream'[x].outbox)
    BY <1>1, <1>3, <1>8, <1>9 DEF r
  <2> QED BY <1>2, <1>3, <1>6, <2>1, SealGapless DEF r
<1>10. CASE stream'[x] = t
  <2>1. Len(<<d>>) = 1 /\ DOMAIN <<d>> = {1} /\ <<d>>[1] = d
    OBVIOUS
  <2>2. /\ stream'[x].state # "complete" /\ stream'[x].socket = stream[x].socket
        /\ stream[x].sealed <= stream'[x].sealed
        /\ stream'[x].seq = stream[x].seq + Len(stream'[x].outbox)
    <3>1. r.step + 1 \in Nat /\ r.sealed <= r.step + 1
      BY <1>1, <1>3
    <3>2. Len(stream'[x].outbox) = 1 /\ stream'[x].seq = r.seq + 1 /\ stream'[x].sealed = r.step + 1
      BY <1>8, <1>10, <2>1
    <3>3. stream'[x].state # "complete" /\ stream'[x].socket = r.socket
      BY <1>3, <1>8, <1>10
    <3> QED BY <3>1, <3>2, <3>3 DEF r
  <2>3. \A i \in DOMAIN stream'[x].outbox : stream'[x].outbox[i].senderSequence = stream[x].seq + i
    BY <1>7, <1>8, <1>10, <2>1 DEF r
  <2> QED BY <1>2, <1>3, <1>6, <2>2, <2>3, SealGapless DEF r
<1> QED BY <1>5, <1>9, <1>10

LEMMA EndGapless ==
  ASSUME StreamInv, HeardInv, NEW x \in ExpertSet, EndOfStream(x), Gapless(x)
  PROVE  Gapless(x)'
<1> DEFINE s == stream[x]
           d == Delta(x, s)
           tail == IF s.step = s.sealed THEN <<>> ELSE <<d>>
           seq == s.seq + Len(tail) + 1
           end == SealEnvelope(x, Origin, seq, "stream.end", <<>>)
           out == Append(tail, end)
           t == [s EXCEPT !.state = "ending", !.sealed = s.step, !.seq = seq, !.outbox = out]
<1>1. /\ s \in Stream /\ Counting(s) /\ s.seq \in Nat /\ s.step \in Nat /\ s.sealed \in Nat
      /\ stream \in [ExpertSet -> Stream]
  BY StreamOf DEF StreamInv
<1>2. /\ s.state = "streaming" /\ s.outbox = <<>> /\ UNCHANGED <<wire, heard, folded>>
      /\ stream' = [stream EXCEPT ![x] = t]
  BY DEF EndOfStream, Waits, atOrigin
<1>3. stream'[x] = t /\ s.sealed <= s.step
  BY <1>1, <1>2 DEF Counting
<1>4. StreamInv'
  BY EndGoesOn, GoingOnKeeps
<1>5. d.senderSequence = s.seq + 1 /\ end.senderSequence = seq
  BY DEF Delta, SealEnvelope
<1> HIDE DEF s, d, end
<1>6. /\ Len(out) = Len(tail) + 1 /\ seq = s.seq + Len(out)
      /\ \A i \in DOMAIN out : out[i].senderSequence = s.seq + i
  <2>1. CASE tail = <<>>
    <3> HIDE DEF tail
    <3>1. Len(tail) = 0 /\ Len(out) = 1 /\ DOMAIN out = {1} /\ out[1] = end
      BY <2>1
    <3>2. seq = s.seq + 1
      BY <1>1, <3>1
    <3> HIDE DEF out, seq
    <3> QED BY <1>1, <1>5, <3>1, <3>2
  <2>2. CASE tail = <<d>>
    <3> HIDE DEF tail
    <3>1. Len(tail) = 1
      BY <2>2
    <3>2. Len(out) = 2 /\ DOMAIN out = {1, 2} /\ out[1] = d /\ out[2] = end
      <4>1. out = Append(<<d>>, end)
        BY <2>2
      <4> HIDE DEF out
      <4>2. /\ Len(Append(<<d>>, end)) = 2
            /\ Append(<<d>>, end)[1] = d /\ Append(<<d>>, end)[2] = end
        OBVIOUS
      <4>3. DOMAIN Append(<<d>>, end) = 1 .. 2
        OBVIOUS
      <4> QED BY <4>1, <4>2, <4>3
    <3>3. seq = s.seq + 1 + 1
      BY <1>1, <3>1
    <3> HIDE DEF out, seq
    <3> QED BY <1>1, <1>5, <3>1, <3>2, <3>3
  <2> QED BY <2>1, <2>2
<1> HIDE DEF tail, out, seq
<1>7. /\ t.state = "ending" /\ t.socket = s.socket /\ t.sealed = s.step /\ t.seq = seq
      /\ t.outbox = out
  BY <1>1 DEF Stream
<1> HIDE DEF t
<1>8. /\ stream[x].state = "streaming" /\ stream'[x].state # "complete"
      /\ stream'[x].socket = stream[x].socket /\ stream[x].sealed <= stream'[x].sealed
      /\ stream[x].outbox = <<>> /\ stream'[x].seq = stream[x].seq + Len(stream'[x].outbox)
  BY <1>2, <1>3, <1>6, <1>7 DEF s
<1>9. \A i \in DOMAIN stream'[x].outbox : stream'[x].outbox[i].senderSequence = stream[x].seq + i
  BY <1>3, <1>6, <1>7 DEF s
<1> QED BY <1>2, <1>4, <1>8, <1>9, SealGapless

LEMMA SendGapless ==
  ASSUME StreamInv, HeardInv, NEW x \in ExpertSet, Send(x), Gapless(x)
  PROVE  Gapless(x)'
<1> DEFINE s == stream[x]
           w == wire[x]
           socket == IF s.socket # 0 THEN s.socket ELSE Len(w) + 1
           last == s.state = "ending" /\ Len(s.outbox) = 1
           sock == IF last THEN 0 ELSE socket
           state == IF last THEN "complete" ELSE s.state
           t == [s EXCEPT !.outbox = Tail(@), !.socket = sock, !.state = state]
<1>1. /\ s \in Stream /\ Counting(s) /\ w \in Seq(Seq(Envelopes)) /\ s.outbox \in Seq(Envelopes)
      /\ stream \in [ExpertSet -> Stream] /\ wire \in [ExpertSet -> Seq(Seq(Envelopes))]
  BY StreamOf DEF StreamInv
<1>2. s.outbox # <<>> /\ UNCHANGED <<heard, folded>>
  BY DEF Send, atOrigin
<1>3. stream' = [stream EXCEPT ![x] = t]
  BY DEF Send
<1>4. Following(s, w, heard.lastSeq[x], StepsOf(x))
  BY DEF Gapless
<1>5. s.state # "complete" /\ s.socket = Len(w) /\ Len(w) <= 1 /\ Len(w) \in Nat
  BY <1>1, <1>2, <1>4 DEF Counting, Following
<1>6. socket = 1
  <2> DEFINE n == Len(w)
  <2>1. n \in Nat /\ n <= 1 /\ s.socket = n
    BY <1>5
  <2> HIDE DEF n
  <2>2. (IF s.socket # 0 THEN s.socket ELSE n + 1) = 1
    BY <2>1
  <2> QED BY <2>2 DEF n
<1>7. StreamInv' /\ stream'[x] = t
  <2>1. StreamInv'
    BY SendGoesOn, GoingOnKeeps
  <2> QED BY <2>1, <1>1, <1>3
<1>8. t \in Stream /\ wire'[x] \in Seq(Seq(Envelopes))
  BY <1>7 DEF StreamInv
<1>9. Len(wire'[x]) = 1 /\ wire'[x][1] = Append(Unread(w), s.outbox[1])
  <2>1. Head(s.outbox) = s.outbox[1] /\ s.outbox[1] \in Envelopes
    BY <1>1, <1>2
  <2>2. CASE s.socket # 0
    <3>1. wire' = [wire EXCEPT ![x][s.socket] = Append(@, Head(s.outbox))]
      BY <2>2 DEF Send
    <3>2. s.socket = 1 /\ Len(w) = 1
      BY <1>5, <1>6, <2>2
    <3>3. wire'[x] = [w EXCEPT ![1] = Append(w[1], s.outbox[1])]
      BY <1>1, <2>1, <3>1, <3>2
    <3>4. w[1] \in Seq(Envelopes) /\ 1 \in DOMAIN w
      <4>1. w \in Seq(Seq(Envelopes)) /\ Len(w) = 1
        BY <1>1, <3>2
      <4> HIDE DEF w
      <4> QED BY <4>1
    <3>5. Append(w[1], s.outbox[1]) \in Seq(Envelopes)
      BY <2>1, <3>4
    <3>6. Len(wire'[x]) = 1 /\ wire'[x][1] = Append(w[1], s.outbox[1])
      BY <1>1, <3>2, <3>3, <3>4, <3>5, ExceptSeq
    <3>7. w # <<>>
      <4>1. Len(w) = 1
        BY <3>2
      <4> HIDE DEF w
      <4> QED BY <4>1
    <3> QED BY <3>6, <3>7 DEF Unread
  <2>3. CASE s.socket = 0
    <3>1. wire' = [wire EXCEPT ![x] = Append(@, <<Head(s.outbox)>>)]
      BY <2>3 DEF Send
    <3>2. w = <<>>
      BY <1>1, <1>5, <2>3, EmptySeq
    <3>3. wire'[x] = Append(w, <<s.outbox[1]>>)
      BY <1>1, <2>1, <3>1
    <3>4. Len(wire'[x]) = 1 /\ wire'[x][1] = <<s.outbox[1]>>
      BY <2>1, <3>2, <3>3
    <3>5. Unread(w) = <<>>
      BY <3>2 DEF Unread
    <3>6. Append(<<>>, s.outbox[1]) = <<s.outbox[1]>>
      OBVIOUS
    <3> QED BY <3>4, <3>5, <3>6
  <2> QED BY <2>2, <2>3
<1> HIDE DEF socket, w
<1>10. /\ t.outbox = Tail(s.outbox) /\ t.seq = s.seq /\ t.sealed = s.sealed
       /\ t.state # "complete" => t.socket = 1
  <2>1. /\ t.outbox = Tail(s.outbox) /\ t.seq = s.seq /\ t.sealed = s.sealed
        /\ t.state = state /\ t.socket = sock
    <3> HIDE DEF s, state, sock
    <3> QED BY <1>1 DEF Stream
  <2>2. state # "complete" => sock = 1
    BY <1>6
  <2> QED BY <2>1, <2>2
<1>11. heard.lastSeq[x] \in Nat
  BY MeshAssumption DEF HeardInv
<1>12. StepsOf(x)' = StepsOf(x)
  BY <1>2 DEF StepsOf
<1> HIDE DEF s, t
<1>13. Following(t, wire'[x], heard.lastSeq[x], StepsOf(x))
  BY <1>1, <1>2, <1>4, <1>8, <1>9, <1>10, <1>11, FollowingSends
<1> QED BY <1>2, <1>7, <1>12, <1>13 DEF Gapless
-----------------------------------------------------------------------------
(* Who has met a fault stays on the list.                                  *)
LEMMA FaultyGrows ==
  ASSUME faulty \in Seq(ExpertSet), OriginTyped, [Next]_vars
  PROVE  faulty' \in Seq(ExpertSet) /\ ToSet(faulty) \subseteq ToSet(faulty')
<1>1. CASE faulty' = faulty
  BY <1>1
<1>2. ASSUME NEW x \in ExpertSet, faulty' = Append(faulty, x)
      PROVE  faulty' \in Seq(ExpertSet) /\ ToSet(faulty) \subseteq ToSet(faulty')
  <2>1. /\ faulty' \in Seq(ExpertSet) /\ Len(faulty') = Len(faulty) + 1 /\ Len(faulty) \in Nat
        /\ \A i \in 1 .. Len(faulty) : faulty'[i] = faulty[i]
    BY <1>2, AppendProperties
  <2>2. \A i \in DOMAIN faulty : i \in DOMAIN faulty' /\ faulty'[i] = faulty[i]
    BY <2>1
  <2> QED BY <2>1, <2>2 DEF ToSet
<1>3. CASE UNCHANGED vars \/ ReadDescriptors \/ AllDone \/ Deadline
  BY <1>1, <1>3 DEF vars, ReadDescriptors, AllDone, Deadline
<1>4. CASE Dispatch
  <2>1. Experts[origin.next] \in ExpertSet
    <3>1. origin.next \in 1 .. Len(Experts)
      BY <1>4 DEF Dispatch, OriginTyped
    <3> QED BY <3>1, MeshAssumption DEF ExpertSet, ToSet
  <2>2. faulty' = faulty \/ faulty' = Append(faulty, Experts[origin.next])
    BY <1>4 DEF Dispatch, Fault
  <2> QED BY <1>1, <1>2, <2>1, <2>2
<1>5. ASSUME NEW x \in ExpertSet, Does(x)
      PROVE  faulty' = faulty \/ faulty' = Append(faulty, x)
  <2>1. CASE SeeOrigin(x) \/ HandleOpen(x) \/ Emit(x) \/ Yield(x) \/ EndOfStream(x) \/ Send(x)
    BY <2>1 DEF SeeOrigin, HandleOpen, Emit, Yield, EndOfStream, Send
  <2>2. CASE Relisten(x) \/ Unreachable(x) \/ WriteFails(x) \/ BackendThrows(x) \/ Reset(x)
    BY <2>2 DEF Relisten, Unreachable, WriteFails, BackendThrows, Reset, Fault
  <2>3. CASE Deliver(x)
    BY <2>3 DEF Deliver, Fault
  <2> QED BY <1>5, <2>1, <2>2, <2>3 DEF Does, ExpertStep
<1> QED BY <1>1, <1>2, <1>3, <1>4, <1>5 DEF Next, OriginStep, Does

LEMMA GapNext == TransportInv /\ FoldInv /\ GapInv /\ [Next]_vars => GapInv'
<1> SUFFICES ASSUME TransportInv, FoldInv, GapInv, [Next]_vars PROVE GapInv'
  OBVIOUS
<1>1. ServeInv /\ StreamInv /\ HeardInv /\ OriginTyped /\ faulty \in Seq(ExpertSet)
  BY DEF TransportInv, GapInv
<1>2. faulty' \in Seq(ExpertSet) /\ ToSet(faulty) \subseteq ToSet(faulty')
  BY <1>1, FaultyGrows
<1>3. SUFFICES ASSUME NEW x \in ExpertSet \ ToSet(faulty') PROVE Gapless(x)'
  BY <1>2 DEF GapInv
<1>4. Gapless(x)
  BY <1>2 DEF GapInv
<1>5. ASSUME UNCHANGED <<stream, wire, heard, folded>> PROVE Gapless(x)'
  BY <1>4, <1>5 DEF Gapless, StepsOf
<1>6. CASE UNCHANGED vars \/ OriginStep \/ Deadline
  BY <1>5, <1>6 DEF vars, OriginStep, Deadline, ReadDescriptors, Dispatch, AllDone
<1>7. ASSUME NEW z \in ExpertSet, Does(z) PROVE Gapless(x)'
  <2>1. CASE z # x
    <3>1. stream'[x] = stream[x] /\ wire'[x] = wire[x]
      BY <1>1, <1>7, <2>1, OthersApart
    <3>2. heard'.lastSeq[x] = heard.lastSeq[x] /\ StepsOf(x)' = StepsOf(x)
      <4>1. CASE UNCHANGED <<heard, folded>>
        BY <4>1 DEF StepsOf
      <4>2. CASE Deliver(z)
        BY <1>1, <2>1, <4>1, <4>2, Deliveries, HeardApart
      <4>3. CASE SeeOrigin(z) \/ Relisten(z) \/ HandleOpen(z) \/ Emit(z) \/ Yield(z)
                 \/ EndOfStream(z) \/ Send(z) \/ Reset(z)
        BY <4>1, <4>3
           DEF SeeOrigin, Relisten, HandleOpen, Emit, Yield, EndOfStream, Send, Reset, atOrigin
      <4>4. CASE Unreachable(z) \/ WriteFails(z) \/ BackendThrows(z)
        BY <4>1, <4>4 DEF Unreachable, WriteFails, BackendThrows, Crashed, atOrigin
      <4> QED BY <1>7, <4>2, <4>3, <4>4 DEF Does, ExpertStep
    <3> QED BY <1>4, <3>1, <3>2 DEF Gapless
  <2>2. CASE z = x
    <3>1. CASE SeeOrigin(x) \/ Relisten(x) \/ Unreachable(x)
      BY <1>5, <3>1 DEF SeeOrigin, Relisten, Unreachable, Crashed, atOrigin
    <3>2. CASE HandleOpen(x) \/ Emit(x) \/ Yield(x) \/ EndOfStream(x) \/ Send(x)
      BY <1>1, <1>4, <3>2, OpenGapless, EmitGapless, YieldGapless, EndGapless, SendGapless
    <3>3. CASE Deliver(x)
      BY <1>1, <1>3, <1>4, <3>3, DeliverGapless
    <3>4. CASE WriteFails(x) \/ BackendThrows(x) \/ Reset(x)
      <4>1. faulty' = Append(faulty, x)
        BY <3>4 DEF WriteFails, BackendThrows, Reset, Fault
      <4>2. Len(faulty) + 1 \in DOMAIN faulty' /\ faulty'[Len(faulty) + 1] = x
        BY <1>1, <4>1, AppendProperties
      <4> QED BY <1>3, <4>2 DEF ToSet
    <3> QED BY <1>7, <2>2, <3>1, <3>2, <3>3, <3>4 DEF Does, ExpertStep
  <2> QED BY <2>1, <2>2
<1> QED BY <1>6, <1>7 DEF Next, Does

(* When the end of a stream has been heard and its expert met no reset,    *)
(* delay or failure, every frame of it is folded: what the other experts   *)
(* met, and however many there are, costs it nothing (mesh-tcp.ts:184-197, *)
(* batch-signing.ts:103-110, tcp-transport.ts:136-151).                    *)
THEOREM NoFrameIsLost == Spec => []GapsComeFromFaults
<1>1. TransportInv /\ FoldInv /\ GapInv => GapsComeFromFaults
  <2> SUFFICES ASSUME TransportInv, FoldInv, GapInv, NEW x \in done \ ToSet(faulty)
               PROVE  StepsOf(x) = 0 .. stream[x].step - 1
    BY DEF GapsComeFromFaults
  <2>1. StreamInv /\ HeardInv /\ x \in ExpertSet
    BY DEF TransportInv, HeardInv
  <2> DEFINE last == heard.lastSeq[x]
             n == stream[x].sealed
  <2>2. stream[x].state \in {"ending", "complete"} /\ n <= First(last + 1)
    BY <2>1 DEF FoldInv, FoldedOld
  <2>3. n = stream[x].step /\ n \in Nat
    BY <2>1, <2>2, StreamOf DEF Counting
  <2>4. StepsOf(x) = {t \in 0 .. n - 1 : t < First(last + 1)}
    BY <2>1 DEF GapInv, Gapless, Following
  <2>5. First(last + 1) \in Nat
    <3>1. last + 1 \in Nat \ {0}
      BY <2>1, MeshAssumption DEF HeardInv
    <3> QED BY <3>1, Firsts
  <2> HIDE DEF n, last
  <2>6. {t \in 0 .. n - 1 : t < First(last + 1)} = 0 .. n - 1
    BY <2>2, <2>3, <2>5
  <2> QED BY <2>3, <2>4, <2>6
<1>2. TransportInv /\ FoldInv /\ GapInv /\ [Next]_vars => (TransportInv /\ FoldInv /\ GapInv)'
  BY TransportNext, FoldNext, GapNext
<1>3. Init => TransportInv /\ FoldInv /\ GapInv
  BY TransportInit, FoldInit, GapInit
<1> QED BY <1>1, <1>2, <1>3, PTL DEF Spec
=============================================================================
