---------------------------- MODULE TcpTransport ----------------------------
(***************************************************************************)
(* What the nodes of a mesh do with an envelope and with the frames in it: *)
(* src/packages/radio-moe/src/tcp-transport.ts (tls-transport.ts has the   *)
(* same steps over TLS), batch-signing.ts, agent-frame.ts, and the parsers *)
(* that examples/mesh-tcp.ts gives its backends.                           *)
(*                                                                         *)
(* An envelope is a record with eventId, senderPeer, recipientPeer,        *)
(* senderSequence, kind and payload; all are of one request, are of the    *)
(* right shape and carry the signature of their sender.  Frames are        *)
(* records with agentId and step; a hash chain is the sequence it hashes.  *)
(***************************************************************************)
EXTENDS Integers, SequencesExt

CONSTANTS
  Peers,
  ReplayWindow,   \* REPLAY_WINDOW
  BatchSize       \* size of BatchSigner, at most MAX_BATCH

ASSUME TransportAssumption == ReplayWindow \in Nat \ {0} /\ BatchSize \in 1 .. 64
-----------------------------------------------------------------------------
(* Forms of the definitions below that carry a plausible defect.           *)

(* an accepted envelope leaves no trace *)
RememberNothing(guard, e) == guard

(* the window of event ids grows without end *)
RememberForever(guard, e) ==
  [guard EXCEPT !.seen = @ \cup {e.eventId}, !.order = Append(@, e.eventId),
                !.lastSeq[e.senderPeer] = e.senderSequence]

(* only the event id is looked at *)
CheckEventOnly(guard, e) == IF e.eventId \in guard.seen THEN "replayed-event" ELSE "none"
-----------------------------------------------------------------------------
(* ReplayGuard; a sequence number of 0 is a sender not heard of.           *)
NewGuard == [seen |-> {}, order |-> <<>>, lastSeq |-> [p \in Peers |-> 0]]

Check(guard, e) ==
  CASE e.eventId \in guard.seen -> "replayed-event"
    [] guard.lastSeq[e.senderPeer] # 0 /\ e.senderSequence <= guard.lastSeq[e.senderPeer] ->
         "stale-sequence"
    [] OTHER -> "none"

Remember(guard, e) ==
  LET order == Append(guard.order, e.eventId)
      full == Len(order) > ReplayWindow
  IN [seen |-> (guard.seen \cup {e.eventId}) \ (IF full THEN {Head(order)} ELSE {}),
      order |-> IF full THEN Tail(order) ELSE order,
      lastSeq |-> [guard.lastSeq EXCEPT ![e.senderPeer] = e.senderSequence]]

(* verifyEnvelope of node `self` that has pinned `trusted`; late: the      *)
(* envelope is past its expiresAt.                                         *)
VerifyEnvelope(e, self, trusted, guard, late) ==
  CASE e.recipientPeer # self -> "wrong-recipient"
    [] late -> "expired-or-skewed"
    [] e.senderPeer \notin trusted -> "unknown-sender"
    [] OTHER -> Check(guard, e)

(* TcpPeerNode.handle: the guard afterwards *)
GuardAfter(e, self, trusted, guard, late) ==
  IF VerifyEnvelope(e, self, trusted, guard, late) = "none" THEN Remember(guard, e) ELSE guard
-----------------------------------------------------------------------------
(* sealBatch and verifyBatch *)
SealBatch(agent, startIndex, frames) ==
  [agentId |-> agent, startIndex |-> startIndex, count |-> Len(frames), root |-> frames]

VerifyBatch(seal, frames) == Len(frames) = seal.count /\ frames = seal.root

(* StreamNonceGate.accept of an agent's frames in a batch, one after the   *)
(* other, in that order; all carry the nonce of the stream.                *)
Accepted(seen, agent, frames) ==
  LET key(i) == <<frames[i].agentId, frames[i].step>>
      taken == {i \in DOMAIN frames :
                  /\ frames[i].agentId = agent /\ key(i) \notin seen
                  /\ \A j \in 1 .. i - 1 : key(j) # key(i)}
      nth(n) == CHOOSE i \in taken : Cardinality({j \in taken : j <= i}) = n
  IN [n \in 1 .. Cardinality(taken) |-> frames[nth(n)]]

(* What the parsers make of an event: the number of frames.                *)
FakeFrames(event) == IF event \in {"delta", "last delta"} THEN 1 ELSE 0
OpenaiFrames(event) == CASE event \in {"delta", "finish"} -> 1 [] event = "last delta" -> 2 [] OTHER -> 0
=============================================================================
