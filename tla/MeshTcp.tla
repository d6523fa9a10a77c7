------------------------------- MODULE MeshTcp -------------------------------
(***************************************************************************)
(* A mesh of processes, src/packages/radio-moe/examples/mesh-tcp.ts: an    *)
(* origin opens one request at its experts, and every expert streams its   *)
(* frames back in signed batches over a connection of its own.             *)
(*                                                                         *)
(* An expert listens before it knows the origin, closes that node and      *)
(* listens again with the origin pinned, on another port if it must.  The  *)
(* origin has read the experts' descriptors at some point of this.  What a *)
(* socket carries arrives in order, but a reset loses what is not yet      *)
(* read, and what an earlier socket still holds may be handled after what  *)
(* a later one brings.                                                     *)
(***************************************************************************)
EXTENDS TcpTransport

CONSTANTS
  Experts,      \* the experts, in the order they are dispatched to
  Origin,
  Backend,      \* of an expert: "command" or "openrouter"
  Events,       \* what backends emit
  Faults,       \* of "port", "error", "reset", "write", "delay", "http"
  MaxRetries,   \* retries of a dispatch (3)
  MaxFrames,    \* bounds of the instance: frames of a stream
  MaxFaults     \*   and resets, delays and failures in all

ExpertSet == ToSet(Experts)

ASSUME MeshAssumption ==
  /\ Experts \in Seq(ExpertSet)
  /\ \A i, j \in DOMAIN Experts : Experts[i] = Experts[j] => i = j
  /\ Experts # <<>>
  /\ Peers = ExpertSet \cup {Origin} /\ Origin \notin ExpertSet
  /\ Backend \in [ExpertSet -> {"command", "openrouter"}]
  /\ MaxRetries \in Nat /\ MaxFrames \in Nat

VARIABLES
  phase,        \* of an expert's process: "unpinned", "closing", "pinned", "exited", "crashed"
  port,         \* the port it listens on
  inbound,      \* connections with a request.open not yet read, by node
  guard,        \* ReplayGuard of its pinned node
  stream,       \* its handler of request.open
  wire,         \* the sockets it opened to the origin, oldest first
  origin,       \* the origin's dispatch
  heard,        \* ReplayGuard of the origin's node
  folded, done, \* of the origin
  faulty        \* experts that met a fault, as often as they did

vars == <<phase, port, inbound, guard, stream, wire, origin, heard, folded, done, faulty>>
node == <<phase, port, inbound, guard>>
atOrigin == <<origin, heard, folded, done>>

NoStream ==
  [state |-> "none", seq |-> 0, toYield |-> 0, step |-> 0, sealed |-> 0,
   outbox |-> <<>>, socket |-> 0, served |-> 0]

Init ==
  /\ phase = [x \in ExpertSet |-> "unpinned"]
  /\ port = [x \in ExpertSet |-> 1]
  /\ inbound = [x \in ExpertSet |-> <<>>]
  /\ guard = [x \in ExpertSet |-> NewGuard]
  /\ stream = [x \in ExpertSet |-> NoStream]
  /\ wire = [x \in ExpertSet |-> <<>>]
  /\ origin = [phase |-> "starting", next |-> 1, attempt |-> 0, known |-> [x \in ExpertSet |-> 0]]
  /\ heard = NewGuard /\ folded = <<>> /\ done = {}
  /\ faulty = <<>>

Fault(kind, x) ==
  /\ kind \in Faults /\ Len(faulty) < MaxFaults
  /\ faulty' = Append(faulty, x)

(* sealEnvelope *)
SealEnvelope(from, to, seq, kind, payload) ==
  [eventId |-> <<from, to, seq>>, senderPeer |-> from, recipientPeer |-> to,
   senderSequence |-> seq, kind |-> kind, payload |-> payload]
-----------------------------------------------------------------------------
(* Forms of the definitions below that carry a plausible defect.           *)

(* the rest of the frames is never sealed *)
EndOfStreamWithoutFlush(x) ==
  LET s == stream[x] IN
  /\ phase[x] = "pinned" /\ s.state = "streaming" /\ s.toYield = 0 /\ s.outbox = <<>>
  /\ stream' = [stream EXCEPT ![x] =
       [s EXCEPT !.state = "ending", !.seq = @ + 1,
                 !.outbox = <<SealEnvelope(x, Origin, s.seq + 1, "stream.end", <<>>)>>]]
  /\ UNCHANGED <<node, wire, atOrigin, faulty>>

(* only batches of frames are counted, the end of a stream is not *)
ConsumeDeltaOnly(e) ==
  /\ folded' = IF e.kind = "stream.delta" THEN folded \o e.payload.root ELSE folded
  /\ UNCHANGED done
-----------------------------------------------------------------------------
(* runExpert, up to its node with the origin pinned                        *)
SeeOrigin(x) ==
  /\ phase[x] = "unpinned"
  /\ phase' = [phase EXCEPT ![x] = "closing"]
  /\ UNCHANGED <<port, inbound, guard, stream, wire, atOrigin, faulty>>

(* node.close() waits for its connections; listen(port) may find the port  *)
(* taken and listens on another                                            *)
Relisten(x) ==
  /\ phase[x] = "closing" /\ inbound[x] = <<>>
  /\ phase' = [phase EXCEPT ![x] = "pinned"]
  /\ \/ UNCHANGED <<port, faulty>>
     \/ Fault("port", x) /\ port' = [port EXCEPT ![x] = 2]
  /\ UNCHANGED <<inbound, guard, stream, wire, atOrigin>>
-----------------------------------------------------------------------------
(* runOrigin: reading the descriptors again                                *)
ReadDescriptors ==
  /\ origin.phase = "starting"
  /\ origin' = [origin EXCEPT !.phase = "dispatching", !.known = port]
  /\ UNCHANGED <<node, stream, wire, heard, folded, done, faulty>>

Listening(x) == phase[x] \in {"unpinned", "pinned"}

(* one attempt of sendEnvelope failed *)
AttemptFailed ==
  origin' = IF origin.attempt >= MaxRetries THEN [origin EXCEPT !.phase = "crashed"]
            ELSE [origin EXCEPT !.attempt = @ + 1]

(* the request is with the expert whose turn it is                         *)
Dispatched ==
  origin' = [origin EXCEPT !.next = @ + 1, !.attempt = 0,
                           !.phase = IF origin.next = Len(Experts) THEN "waiting" ELSE @]

(* sendEnvelope of the one request.open of an expert: refused, taken, or   *)
(* taken and reported as failed; after a failure the same envelope goes    *)
(* out again                                                               *)
Dispatch ==
  /\ origin.phase = "dispatching"
  /\ LET x == Experts[origin.next] IN
     IF Listening(x) /\ origin.known[x] = port[x]
     THEN /\ inbound' = [inbound EXCEPT ![x] = Append(@, phase[x])]
          /\ \/ Dispatched /\ UNCHANGED faulty
             \/ AttemptFailed /\ Fault("error", x)
     ELSE AttemptFailed /\ UNCHANGED <<inbound, faulty>>
  /\ UNCHANGED <<phase, port, guard, stream, wire, heard, folded, done>>

(* The expert's node reads a request.open: the node that has nobody pinned *)
(* refuses it, the other starts a stream with it, once.                    *)
HandleOpen(x) ==
  LET e == SealEnvelope(Origin, x, SelectInSeq(Experts, LAMBDA y : y = x), "request.open", <<>>)
      trusted == IF Head(inbound[x]) = "pinned" THEN {Origin} ELSE {}
      reason == VerifyEnvelope(e, x, trusted, guard[x], FALSE)
  IN
  /\ phase[x] \in {"unpinned", "closing", "pinned"} /\ inbound[x] # <<>>
  /\ inbound' = [inbound EXCEPT ![x] = Tail(@)]
  /\ guard' = [guard EXCEPT ![x] = GuardAfter(e, x, trusted, @, FALSE)]
  /\ stream' = IF reason # "none" THEN stream
               ELSE [stream EXCEPT ![x].state = "streaming", ![x].served = @ + 1]
  /\ UNCHANGED <<phase, port, wire, atOrigin, faulty>>
-----------------------------------------------------------------------------
(* the parser of the expert's backend: fakeParser for a child process *)
FramesOf(x, event) ==
  IF Backend[x] = "openrouter" THEN OpenaiFrames(event) ELSE FakeFrames(event)

(* Streaming, with nothing left to yield and nothing left to send: the     *)
(* loop of handleOpen waits for the next frame.                            *)
Waits(x) == stream[x].state = "streaming" /\ stream[x].toYield = 0 /\ stream[x].outbox = <<>>

(* run of the expert: the backend emits an event *)
Emit(x) ==
  /\ phase[x] = "pinned" /\ Waits(x)
  /\ \E event \in Events :
       /\ stream[x].step + FramesOf(x, event) <= MaxFrames
       /\ stream' = [stream EXCEPT ![x].toYield = FramesOf(x, event)]
  /\ UNCHANGED <<node, wire, atOrigin, faulty>>

(* sealBatch, of what BatchSigner has pending *)
BatchOfPending(x, s) ==
  SealBatch(x, s.sealed, [i \in 1 .. s.step - s.sealed |-> [agentId |-> x, step |-> s.sealed + i - 1]])

Delta(x, s) == SealEnvelope(x, Origin, s.seq + 1, "stream.delta", BatchOfPending(x, s))

(* handleOpen takes a frame: BatchSigner.push seals a batch when it is full *)
Yield(x) ==
  LET s == [stream[x] EXCEPT !.toYield = @ - 1, !.step = @ + 1] IN
  /\ phase[x] = "pinned" /\ stream[x].toYield > 0 /\ stream[x].outbox = <<>>
  /\ stream' = [stream EXCEPT ![x] =
       IF s.step - s.sealed < BatchSize THEN s
       ELSE [s EXCEPT !.outbox = <<Delta(x, s)>>, !.seq = @ + 1, !.sealed = s.step]]
  /\ UNCHANGED <<node, wire, atOrigin, faulty>>

(* The backend is done (a child process that dies ends its stream like one *)
(* that is done): BatchSigner.flush seals the rest, stream.end follows.    *)
EndOfStream(x) ==
  LET s == stream[x]
      tail == IF s.step = s.sealed THEN <<>> ELSE <<Delta(x, s)>>
      seq == s.seq + Len(tail) + 1
  IN
  /\ phase[x] = "pinned" /\ Waits(x)
  /\ stream' = [stream EXCEPT ![x] =
       [s EXCEPT !.state = "ending", !.sealed = s.step, !.seq = seq,
                 !.outbox = Append(tail, SealEnvelope(x, Origin, seq, "stream.end", <<>>))]]
  /\ UNCHANGED <<node, wire, atOrigin, faulty>>

(* TcpConnection.send: on the socket there is, or on a new one.  After the *)
(* last envelope the connection is closed and the process exits.           *)
Send(x) ==
  LET s == stream[x]
      live == s.socket # 0
      socket == IF live THEN s.socket ELSE Len(wire[x]) + 1
      last == s.state = "ending" /\ Len(s.outbox) = 1
  IN
  /\ phase[x] = "pinned" /\ s.outbox # <<>>
  /\ live \/ origin.phase \notin {"finished", "crashed"}
  /\ wire' = IF live THEN [wire EXCEPT ![x][socket] = Append(@, Head(s.outbox))]
             ELSE [wire EXCEPT ![x] = Append(@, <<Head(s.outbox)>>)]
  /\ stream' = [stream EXCEPT ![x].outbox = Tail(@), ![x].socket = IF last THEN 0 ELSE socket,
                              ![x].state = IF last THEN "complete" ELSE @]
  /\ phase' = [phase EXCEPT ![x] = IF last THEN "exited" ELSE @]
  /\ UNCHANGED <<port, inbound, guard, atOrigin, faulty>>

Crashed(x) ==
  /\ phase' = [phase EXCEPT ![x] = "crashed"]
  /\ UNCHANGED <<port, inbound, guard, stream, wire, atOrigin>>

(* Nothing catches a rejection of handleOpen: the process ends when the    *)
(* origin cannot be reached, when a write fails, or when an HTTP backend   *)
(* throws.                                                                 *)
Unreachable(x) ==
  /\ phase[x] = "pinned" /\ stream[x].outbox # <<>> /\ stream[x].socket = 0
  /\ origin.phase \in {"finished", "crashed"}
  /\ UNCHANGED faulty /\ Crashed(x)

WriteFails(x) ==
  /\ phase[x] = "pinned" /\ stream[x].outbox # <<>> /\ Fault("write", x)
  /\ Crashed(x)

BackendThrows(x) ==
  /\ phase[x] = "pinned" /\ Waits(x) /\ Backend[x] = "openrouter" /\ Fault("http", x)
  /\ Crashed(x)

(* The socket is destroyed with what the origin has not read, or all but a *)
(* first part of it.  The next send opens another.                         *)
Reset(x) ==
  /\ stream[x].socket # 0 /\ Fault("reset", x)
  /\ \E kept \in 0 .. Len(wire[x][stream[x].socket]) :
       wire' = [wire EXCEPT ![x][stream[x].socket] = SubSeq(@, 1, kept)]
  /\ stream' = [stream EXCEPT ![x].socket = 0]
  /\ UNCHANGED <<node, atOrigin>>
-----------------------------------------------------------------------------
(* the steps an expert has frames folded of *)
StepsOf(x) == {f.step : f \in {g \in ToSet(folded) : g.agentId = x}}

(* onEnvelope of the origin's node, for an envelope that is accepted       *)
Consume(e) ==
  LET frames == Accepted({<<f.agentId, f.step>> : f \in ToSet(folded)},
                         e.senderPeer, e.payload.root)
  IN CASE e.kind = "stream.end" -> done' = done \cup {e.senderPeer} /\ UNCHANGED folded
       [] e.kind = "stream.delta" ->
            /\ folded' = IF /\ e.payload.agentId = e.senderPeer
                            /\ VerifyBatch(e.payload, e.payload.root)
                         THEN folded \o frames ELSE folded
            /\ UNCHANGED done

(* TcpPeerNode.wire and handle at the origin *)
Deliver(x) ==
  /\ origin.phase \notin {"finished", "crashed"}
  /\ \E k \in DOMAIN wire[x] :
       /\ wire[x][k] # <<>>
       /\ LET e == Head(wire[x][k]) IN
          \E late \in BOOLEAN :
            /\ IF late THEN Fault("delay", x) ELSE UNCHANGED faulty
            /\ wire' = [wire EXCEPT ![x][k] = Tail(@)]
            /\ heard' = GuardAfter(e, Origin, ExpertSet, heard, late)
            /\ IF VerifyEnvelope(e, Origin, ExpertSet, heard, late) = "none"
               THEN Consume(e) ELSE UNCHANGED <<folded, done>>
  /\ UNCHANGED <<node, stream, origin>>

(* the loop that waits for done, or for the deadline *)
AllDone ==
  /\ origin.phase = "waiting" /\ done = ExpertSet
  /\ origin' = [origin EXCEPT !.phase = "finished"]
  /\ UNCHANGED <<node, stream, wire, heard, folded, done, faulty>>

Deadline ==
  /\ origin.phase = "waiting" /\ done # ExpertSet
  /\ origin' = [origin EXCEPT !.phase = "finished"]
  /\ UNCHANGED <<node, stream, wire, heard, folded, done, faulty>>

ExpertStep(x) ==
  \/ SeeOrigin(x) \/ Relisten(x) \/ HandleOpen(x)
  \/ Emit(x) \/ Yield(x) \/ EndOfStream(x) \/ Send(x) \/ Unreachable(x)

OriginStep == ReadDescriptors \/ Dispatch \/ AllDone

Next ==
  \/ OriginStep \/ Deadline
  \/ \E x \in ExpertSet :
       ExpertStep(x) \/ Deliver(x) \/ WriteFails(x) \/ BackendThrows(x) \/ Reset(x)

(* The processes go on, what is on a socket is read, and a backend ends.   *)
Fairness ==
  /\ WF_vars(OriginStep)
  /\ \A x \in ExpertSet :
       /\ WF_vars(SeeOrigin(x) \/ Relisten(x) \/ HandleOpen(x))
       /\ WF_vars(Yield(x) \/ Send(x) \/ Unreachable(x))
       /\ WF_vars(EndOfStream(x))
       /\ WF_vars(Deliver(x))

Spec == Init /\ [][Next]_vars /\ Fairness
-----------------------------------------------------------------------------
TypeOK ==
  /\ phase \in [ExpertSet -> {"unpinned", "closing", "pinned", "exited", "crashed"}]
  /\ port \in [ExpertSet -> 1 .. 2]
  /\ \A x \in ExpertSet :
       /\ ToSet(inbound[x]) \subseteq {"unpinned", "pinned"} /\ Len(inbound[x]) <= MaxRetries + 1
       /\ stream[x].step \in 0 .. MaxFrames /\ stream[x].sealed \in 0 .. stream[x].step
       /\ stream[x].step - stream[x].sealed < BatchSize \/ stream[x].state = "complete"
       /\ stream[x].socket \in 0 .. Len(wire[x]) /\ heard.lastSeq[x] \in 0 .. stream[x].seq
  /\ origin.phase \in {"starting", "dispatching", "waiting", "finished", "crashed"}
  /\ origin.attempt \in 0 .. MaxRetries /\ origin.next \in 1 .. Len(Experts) + 1
  /\ Len(heard.order) <= ReplayWindow /\ ToSet(heard.order) = heard.seen
  /\ done \subseteq ExpertSet

OnTheWay(x) ==
  ToSet(stream[x].outbox) \cup UNION {ToSet(wire[x][k]) : k \in DOMAIN wire[x]}

(* What the origin holds of an expert is whole batches of its stream, in   *)
(* the order it produced them and each once, whatever resets and late      *)
(* sockets did to the order of arrival, and the end it has heard is final: *)
(* a batch that is still on its way then is refused (mesh-tcp.ts:184-197,  *)
(* tcp-transport.ts:137-147).                                              *)
FoldedInOrder ==
  \A x \in ExpertSet :
    /\ \A i, j \in DOMAIN folded :
         /\ i < j /\ folded[i].agentId = x /\ folded[j].agentId = x
         => folded[i].step < folded[j].step
    /\ \A k \in 0 .. stream[x].seq :
         LET batch == (k * BatchSize .. (k + 1) * BatchSize - 1) \cap (0 .. stream[x].sealed - 1)
         IN batch \subseteq StepsOf(x) \/ batch \cap StepsOf(x) = {}
    /\ x \in done => \A e \in OnTheWay(x) : e.kind = "stream.delta" => Check(heard, e) # "none"

(* Only a reset, a delay or a failure of this expert explains a frame that *)
(* is missing from a stream that has ended.                                *)
GapsComeFromFaults ==
  \A x \in done \ ToSet(faulty) : StepsOf(x) = 0 .. stream[x].step - 1

(* However often a request is sent again, an expert serves it once         *)
(* (mesh-tcp.ts:230-238).                                                  *)
ServedOnce == \A x \in ExpertSet : stream[x].served <= 1

(* A request that is served is done, or its expert met a fault, or the     *)
(* origin stopped waiting.                                                 *)
ServedIsDone ==
  \A x \in ExpertSet :
    stream[x].served = 1 ~> \/ x \in done \/ x \in ToSet(faulty)
                            \/ origin.phase \in {"finished", "crashed"}
=============================================================================
