------------------------------ MODULE PeerMesh ------------------------------
(***************************************************************************)
(* The mesh of peers that host experts and route chunks to each other's:   *)
(* mesh.ts, gate.ts, merge.ts, expert.ts and transport.ts of               *)
(* src/packages/radio-moe/src, over the in-memory fabric.                  *)
(*                                                                         *)
(* The fabric delivers at once: a route with its dispatches, the experts'  *)
(* runs and their answers is one step.  All peers share one registry of    *)
(* admitted peers.  An expert is hosted as one of a few offers, which give *)
(* its kind, vocabulary, the length of its logits and its score for the    *)
(* one chunk of the instance.  The softmax is monotone: the order of       *)
(* weights is that of scores.  The log of the control plane is left out.   *)
(* The specification is named for the peers: MeshEvolve goes beside it.    *)
(***************************************************************************)
EXTENDS Integers, SequencesExt

CONSTANTS
  Peers,
  Core,         \* peers that stay and stay admitted
  ExpertIds,
  Offers,       \* what an expert can be hosted as
  TopK,         \* topK
  MaxHosts      \* bound of the instance: calls of host

ASSUME MeshAssumption ==
  /\ Core \subseteq Peers /\ TopK \in Nat /\ MaxHosts \in Nat
  /\ \A o \in Offers : o.kind \in {"logit", "text"} /\ o.size \in Nat /\ o.score \in Int

VARIABLES
  attached,     \* nodes of the fabric
  admitted,     \* AdmittedPeerRegistry
  localExperts, \* by peer: the offers it hosts, by expert id
  adverts,      \* of a peer's gate, in the order of the Map
  active,       \* peers with a collector left in #active
  hosts,
  result        \* of the route that was just made

peersVars == <<attached, admitted, localExperts, adverts, active, hosts, result>>

NoResult == [router |-> "none"]

PeersInit ==
  /\ attached = Peers /\ admitted = Peers
  /\ localExperts = [p \in Peers |-> <<>>]
  /\ adverts = [p \in Peers |-> <<>>]
  /\ active = {} /\ hosts = 0 /\ result = NoResult
-----------------------------------------------------------------------------
(* verifyAdmitted; before it, a form that takes possession for admission   *)
Possessed(sender) == TRUE

Accepted(sender) == sender \in admitted

(* Fabric.deliver; before it, a form that broadcasts whatever is addressed *)
Broadcast(from, to) == attached \ {from}

Addressees(from, to) == (attached \ {from}) \cap to

(* Gate.register: a known id keeps its place in the Map; before it, a form *)
(* that lists it again                                                     *)
RegisterAgain(list, advert) == Append(list, advert)

Register(list, advert) ==
  LET i == SelectInSeq(list, LAMBDA a : a.expertId = advert.expertId) IN
  IF i = 0 THEN Append(list, advert) ELSE [list EXCEPT ![i] = advert]

WithExpert(p, e, offer) ==
  LET mine == localExperts[p]
  IN [localExperts EXCEPT ![p] = [d \in DOMAIN mine \cup {e} |-> IF d = e THEN offer ELSE mine[d]]]

(* Peer.host: in the peer's own gate, and in that of everyone reached      *)
HostOthersOnly(p, e, offer) ==
  LET advert == [expertId |-> e, peerId |-> p, offer |-> offer]
      learners == {q \in Addressees(p, Peers) : Accepted(p)}
  IN
  /\ localExperts' = WithExpert(p, e, offer)
  /\ adverts' = [q \in Peers |-> IF q \in learners THEN Register(adverts[q], advert)
                                ELSE adverts[q]]

Advertise(p, e, offer) ==
  LET advert == [expertId |-> e, peerId |-> p, offer |-> offer]
      learners == {p} \cup {q \in Addressees(p, Peers) : Accepted(p)}
  IN
  /\ localExperts' = WithExpert(p, e, offer)
  /\ adverts' = [q \in Peers |-> IF q \in learners THEN Register(adverts[q], advert)
                                ELSE adverts[q]]

Host(p, e, offer) ==
  /\ hosts < MaxHosts /\ hosts' = hosts + 1
  /\ Advertise(p, e, offer)
  /\ result' = NoResult
  /\ UNCHANGED <<attached, admitted, active>>
-----------------------------------------------------------------------------
(* The sort of Gate.route: the higher score first, equal ones in the order *)
(* of the Map.                                                             *)
Ahead(list, i, j) ==
  \/ list[i].offer.score > list[j].offer.score
  \/ list[i].offer.score = list[j].offer.score /\ i < j

(* Gate.route: the best TopK adverts of the kind, at their places in the   *)
(* Map; of logit experts only those with the vocabulary of the first.      *)
Routed(list, kind) ==
  LET pool == {i \in DOMAIN list : list[i].offer.kind = kind}
      first == CHOOSE i \in pool : \A j \in pool \ {i} : Ahead(list, i, j)
      eligible == {i \in pool : kind = "text" \/ list[i].offer.vocabId = list[first].offer.vocabId}
      ahead(i) == {j \in eligible : Ahead(list, j, i)}
  IN [i \in {i \in eligible : Cardinality(ahead(i)) < Max({1, TopK})} |-> list[i]]

(* run of a LogitExpert, at one position, and of a TextExpert: the final   *)
(* frame, for the place it was asked from.  A bias has the length of the   *)
(* vocabulary it is offered with; the exception for one that has not is    *)
(* left out.                                                               *)
Run(p, e, i) ==
  LET offer == localExperts[p][e] IN
  [kind |-> offer.kind, expertId |-> e, peerId |-> p, size |-> offer.size, asked |-> i]

Hosts(p, e) == e \in DOMAIN localExperts[p]

(* A dispatch and what comes back of it.  A peer's own expert is run       *)
(* without a look at its kind.                                             *)
Answers(p, kind, i, r) ==
  LET runs == IF r.peerId = p THEN {q \in {p} : Hosts(q, r.expertId)}
              ELSE {q \in Addressees(p, {r.peerId}) :
                      /\ Accepted(p) /\ Hosts(q, r.expertId)
                      /\ localExperts[q][r.expertId].kind = kind /\ p \in attached}
  IN {Run(q, r.expertId, i) : q \in runs}

(* mixLogits throws when the lengths disagree *)
MixLogitsThrows(frames) == \E f, g \in frames : f.size # g.size

(* raceTextExperts: the final of the greatest weight, which is first in    *)
(* the order it was asked in                                               *)
RaceTextExperts(list, finals) ==
  {f \in finals : \A g \in finals : g.asked # f.asked => Ahead(list, f.asked, g.asked)}

(* combine: what is of the kind asked for *)
Combine(list, kind, frames) ==
  LET used == {f \in frames : f.kind = kind} IN
  [merged |-> used,
   throws |-> kind = "logit" /\ MixLogitsThrows(used),
   winners |-> IF kind = "text" THEN RaceTextExperts(list, used) ELSE {}]

(* Peer.route.  An exception in combine leaves the collector in #active.   *)
Route(p, kind) ==
  LET routed == Routed(adverts[p], kind)
      answers == UNION {Answers(p, kind, i, routed[i]) : i \in DOMAIN routed}
      frames == {f \in answers : f.peerId = p \/ Accepted(f.peerId)}
      combined == Combine(adverts[p], kind, frames)
  IN
  /\ result' = [router |-> p, kind |-> kind, routed |-> routed, merged |-> combined.merged,
                winners |-> combined.winners, rejected |-> answers \ frames]
  /\ active' = IF combined.throws THEN active \cup {p} ELSE active \ {p}
  /\ UNCHANGED <<attached, admitted, localExperts, adverts, hosts>>
-----------------------------------------------------------------------------
(* transport.leave *)
Leave(p) ==
  /\ p \in attached \ Core /\ attached' = attached \ {p}
  /\ result' = NoResult
  /\ UNCHANGED <<admitted, localExperts, adverts, active, hosts>>

(* a new Peer with the identity: it has no experts and knows of none       *)
Join(p) ==
  /\ p \notin attached /\ attached' = attached \cup {p}
  /\ localExperts' = [localExperts EXCEPT ![p] = <<>>]
  /\ adverts' = [adverts EXCEPT ![p] = <<>>]
  /\ active' = active \ {p} /\ result' = NoResult
  /\ UNCHANGED <<admitted, hosts>>

Admit(p) ==
  /\ p \notin admitted /\ admitted' = admitted \cup {p}
  /\ result' = NoResult
  /\ UNCHANGED <<attached, localExperts, adverts, active, hosts>>

Revoke(p) ==
  /\ p \in admitted \ Core /\ admitted' = admitted \ {p}
  /\ result' = NoResult
  /\ UNCHANGED <<attached, localExperts, adverts, active, hosts>>

PeersNext ==
  \E p \in Peers :
    \/ \E e \in ExpertIds, offer \in Offers : Host(p, e, offer)
    \/ \E kind \in {"logit", "text"} : Route(p, kind)
    \/ Leave(p) \/ Join(p) \/ Admit(p) \/ Revoke(p)

PeersSpec == PeersInit /\ [][PeersNext]_peersVars
-----------------------------------------------------------------------------
PeersTypeOK ==
  /\ Core \subseteq attached /\ attached \subseteq Peers
  /\ Core \subseteq admitted /\ admitted \subseteq Peers
  /\ active \subseteq Peers /\ hosts \in 0 .. MaxHosts
  /\ \A p \in Peers :
       /\ DOMAIN localExperts[p] \subseteq ExpertIds /\ Range(localExperts[p]) \subseteq Offers
       /\ IsInjective([i \in DOMAIN adverts[p] |-> adverts[p][i].expertId])
       /\ \A a \in ToSet(adverts[p]) :
            a.expertId \in ExpertIds /\ a.peerId \in Peers /\ a.offer \in Offers

(* What a route merges comes from its own experts and from admitted peers  *)
(* that can be reached and host the expert in the regime asked for,        *)
(* however old the advert is that led there (transport.ts:87-92,           *)
(* mesh.ts:142-171).                                                       *)
MergedIsTrusted ==
  result # NoResult =>
    \A f \in result.merged :
      /\ f.kind = result.kind
      /\ f.peerId = result.router \/ f.peerId \in admitted \cap attached
      /\ Hosts(f.peerId, f.expertId) /\ localExperts[f.peerId][f.expertId].kind = result.kind

(* Everything merged answers a routed expert, at the peer it was routed    *)
(* to, and no expert is counted twice, also when two peers host experts of *)
(* one id (merge.ts:36-41).                                                *)
EachOnce ==
  result # NoResult =>
    /\ \A f \in result.merged : \E r \in Range(result.routed) :
         r.expertId = f.expertId /\ r.peerId = f.peerId
    /\ \A f, g \in result.merged : f.expertId = g.expertId => f = g

(* Peers that stay see the same adverts in the same order: they route the  *)
(* same chunk to the same experts, ties included.                          *)
CoreAgrees ==
  \A p, q \in Core : \A kind \in {"logit", "text"} :
    Routed(adverts[p], kind) = Routed(adverts[q], kind)
=============================================================================
