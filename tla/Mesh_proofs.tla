----------------------------- MODULE Mesh_proofs -----------------------------
(***************************************************************************)
(* Proofs about the mesh: PeerMesh, for any peers, experts and offers, any *)
(* topK and any number of calls of host, and MeshEvolve, for any jitters,  *)
(* any size of a generation, any number of turns and wherever a turn is    *)
(* cut.                                                                    *)
(***************************************************************************)
EXTENDS PeerMesh, MeshEvolve, FiniteSetTheorems, SequenceTheorems, TLAPS

(***************************************************************************)
(* PeerMesh.                                                               *)
(*                                                                         *)
(* What a route merges is of interest in the one state that follows it:    *)
(* MergedIsTrusted and EachOnce are proved of the step of Route from the   *)
(* type invariant, whose part that says that a gate lists an expert once   *)
(* is what keeps an expert from being counted twice.  That the peers that  *)
(* stay route alike rests on the equality of their gates.                  *)
(***************************************************************************)

Adverts == [expertId : ExpertIds, peerId : Peers, offer : Offers]

(* A gate lists an expert once.                                            *)
ListsOnce(list) == \A i, j \in DOMAIN list : list[i].expertId = list[j].expertId => i = j

PeersTyped ==
  /\ Core \subseteq attached /\ attached \subseteq Peers
  /\ Core \subseteq admitted /\ admitted \subseteq Peers
  /\ active \subseteq Peers /\ hosts \in 0 .. MaxHosts

ExpertsTyped ==
  /\ DOMAIN localExperts = Peers
  /\ \A p \in Peers : /\ DOMAIN localExperts[p] \subseteq ExpertIds
                      /\ \A e \in DOMAIN localExperts[p] : localExperts[p][e] \in Offers

GatesTyped ==
  adverts \in [Peers -> Seq(Adverts)] /\ \A p \in Peers : ListsOnce(adverts[p])

TypeInv == PeersTyped /\ ExpertsTyped /\ GatesTyped

(* The gates of the peers that stay are equal.                             *)
GatesAgree == \A p, q \in Core : adverts[p] = adverts[q]
-----------------------------------------------------------------------------
(* Registering an advert leaves a list that names every expert once.       *)
LEMMA Registers ==
  ASSUME NEW list \in Seq(Adverts), ListsOnce(list), NEW advert \in Adverts
  PROVE  Register(list, advert) \in Seq(Adverts) /\ ListsOnce(Register(list, advert))
<1> DEFINE known == {i \in 1 .. Len(list) : list[i].expertId = advert.expertId}
<1>1. CASE known = {}
  <2>1. Register(list, advert) = Append(list, advert)
    BY <1>1 DEF Register, SelectInSeq
  <2>2. /\ Append(list, advert) \in Seq(Adverts)
        /\ Len(Append(list, advert)) = Len(list) + 1
        /\ \A i \in 1 .. Len(list) : Append(list, advert)[i] = list[i]
        /\ Append(list, advert)[Len(list) + 1] = advert
        /\ Len(list) \in Nat
    BY AppendProperties
  <2> DEFINE l == Append(list, advert)
             n == Len(list)
  <2>3. \A i, j \in 1 .. n : list[i].expertId = list[j].expertId => i = j
    BY DEF ListsOnce
  <2>4. \A i \in 1 .. n : list[i].expertId # advert.expertId
    BY <1>1
  <2>5. DOMAIN l = 1 .. n + 1
    BY <2>2
  <2>6. \A i \in DOMAIN l : (i \in 1 .. n /\ l[i] = list[i]) \/ (i = n + 1 /\ l[i] = advert)
    BY <2>2, <2>5
  <2> HIDE DEF l, n
  <2>7. ListsOnce(l)
    BY <2>3, <2>4, <2>6 DEF ListsOnce
  <2> QED BY <2>1, <2>2, <2>7 DEF l
<1>2. CASE known # {}
  <2>1. PICK k \in known : Register(list, advert) = [list EXCEPT ![k] = advert]
    <3> DEFINE k == SelectInSeq(list, LAMBDA a : a.expertId = advert.expertId)
    <3>1. k \in known
      <4>1. PICK i \in known : known = {i}
        <5>1. PICK i \in known : TRUE
          BY <1>2
        <5>2. known = {i}
          BY <5>1 DEF ListsOnce
        <5> QED BY <5>2
      <4>2. k = Min({i})
        BY <1>2, <4>1 DEF SelectInSeq
      <4> QED BY <4>1, <4>2 DEF Min
    <3>2. k # 0
      BY <3>1
    <3>3. Register(list, advert) = [list EXCEPT ![k] = advert]
      BY <3>2 DEF Register
    <3> QED BY <3>1, <3>3
  <2> DEFINE l == [list EXCEPT ![k] = advert]
  <2>2. l \in Seq(Adverts) /\ DOMAIN l = DOMAIN list
    BY <2>1
  <2>3. \A i \in DOMAIN list : l[i].expertId = list[i].expertId
    BY <2>1
  <2> HIDE DEF l
  <2>4. ListsOnce(l)
    BY <2>2, <2>3 DEF ListsOnce
  <2> QED BY <2>1, <2>2, <2>4 DEF l
<1> QED BY <1>1, <1>2

(* Who learns of an expert that p hosts: everyone who stays, or, when p is *)
(* revoked, nobody who stays.                                              *)
LEMMA Learners ==
  ASSUME PeersTyped, NEW p \in Peers
  PROVE  LET learners == {p} \cup {q \in Addressees(p, Peers) : Accepted(p)}
         IN Core \subseteq learners \/ Core \cap learners = {}
BY DEF PeersTyped, Addressees, Accepted

LEMMA Advertises ==
  ASSUME TypeInv, NEW p \in Peers, NEW e \in ExpertIds, NEW offer \in Offers,
         Advertise(p, e, offer)
  PROVE  ExpertsTyped' /\ GatesTyped' /\ (GatesAgree => GatesAgree')
<1> DEFINE advert == [expertId |-> e, peerId |-> p, offer |-> offer]
           learners == {p} \cup {q \in Addressees(p, Peers) : Accepted(p)}
<1>1. /\ localExperts' = WithExpert(p, e, offer)
      /\ adverts' = [q \in Peers |-> IF q \in learners THEN Register(adverts[q], advert)
                                     ELSE adverts[q]]
  BY DEF Advertise
<1>2. ExpertsTyped'
  <2> DEFINE mine == [d \in DOMAIN localExperts[p] \cup {e} |->
                       IF d = e THEN offer ELSE localExperts[p][d]]
  <2>1. /\ DOMAIN mine \subseteq ExpertIds
        /\ \A d \in DOMAIN mine : mine[d] \in Offers
    BY DEF TypeInv, ExpertsTyped
  <2>2. /\ DOMAIN localExperts' = Peers /\ localExperts'[p] = mine
        /\ \A q \in Peers \ {p} : localExperts'[q] = localExperts[q]
    BY <1>1 DEF WithExpert, TypeInv, ExpertsTyped
  <2> HIDE DEF mine
  <2> QED BY <2>1, <2>2 DEF TypeInv, ExpertsTyped
<1>3. advert \in Adverts
  BY DEF Adverts
<1>4. \A q \in Peers : adverts[q] \in Seq(Adverts) /\ ListsOnce(adverts[q])
  BY DEF TypeInv, GatesTyped
<1> HIDE DEF advert, learners
<1>5. \A q \in Peers : /\ Register(adverts[q], advert) \in Seq(Adverts)
                       /\ ListsOnce(Register(adverts[q], advert))
  BY <1>3, <1>4, Registers
<1>6. GatesTyped'
  BY <1>1, <1>4, <1>5 DEF GatesTyped
<1>7. ASSUME GatesAgree PROVE GatesAgree'
  <2>1. Core \subseteq learners \/ Core \cap learners = {}
    BY Learners DEF TypeInv, learners
  <2> QED BY <1>1, <1>7, <2>1, MeshAssumption DEF GatesAgree
<1> QED BY <1>2, <1>6, <1>7

LEMMA TypeInit == PeersInit => TypeInv /\ GatesAgree
BY MeshAssumption DEF PeersInit, TypeInv, PeersTyped, ExpertsTyped, GatesTyped, GatesAgree, ListsOnce

LEMMA TypeNext ==
  TypeInv /\ [PeersNext]_peersVars => TypeInv' /\ (GatesAgree => GatesAgree')
<1> SUFFICES ASSUME TypeInv, [PeersNext]_peersVars
             PROVE  TypeInv' /\ (GatesAgree => GatesAgree')
  OBVIOUS
<1>1. ASSUME UNCHANGED <<localExperts, adverts>>
      PROVE  ExpertsTyped' /\ GatesTyped' /\ (GatesAgree => GatesAgree')
  BY <1>1 DEF TypeInv, ExpertsTyped, GatesTyped, GatesAgree
<1>2. CASE UNCHANGED peersVars
  BY <1>1, <1>2 DEF peersVars, TypeInv, PeersTyped
<1>3. ASSUME NEW p \in Peers, NEW e \in ExpertIds, NEW offer \in Offers, Host(p, e, offer)
      PROVE  TypeInv' /\ (GatesAgree => GatesAgree')
  <2>1. ExpertsTyped' /\ GatesTyped' /\ (GatesAgree => GatesAgree')
    BY <1>3, Advertises DEF Host
  <2>2. PeersTyped'
    BY <1>3, MeshAssumption DEF Host, TypeInv, PeersTyped
  <2> QED BY <2>1, <2>2 DEF TypeInv
<1>4. ASSUME NEW p \in Peers, NEW kind \in {"logit", "text"}, Route(p, kind)
      PROVE  TypeInv' /\ (GatesAgree => GatesAgree')
  <2>1. UNCHANGED <<attached, admitted, localExperts, adverts, hosts>>
    BY <1>4 DEF Route
  <2>2. active' \subseteq active \cup {p}
    BY <1>4 DEF Route
  <2> QED BY <1>1, <2>1, <2>2 DEF TypeInv, PeersTyped
<1>5. ASSUME NEW p \in Peers, Leave(p) \/ Admit(p) \/ Revoke(p)
      PROVE  TypeInv' /\ (GatesAgree => GatesAgree')
  <2>1. UNCHANGED <<localExperts, adverts>>
    BY <1>5 DEF Leave, Admit, Revoke
  <2>2. PeersTyped'
    BY <1>5 DEF Leave, Admit, Revoke, TypeInv, PeersTyped
  <2> QED BY <1>1, <2>1, <2>2 DEF TypeInv
<1>6. ASSUME NEW p \in Peers, Join(p)
      PROVE  TypeInv' /\ (GatesAgree => GatesAgree')
  <2>1. PeersTyped' /\ p \notin Core
    BY <1>6 DEF Join, TypeInv, PeersTyped
  <2>2. ExpertsTyped'
    BY <1>6 DEF Join, TypeInv, ExpertsTyped
  <2>3. GatesTyped'
    BY <1>6 DEF Join, TypeInv, GatesTyped, ListsOnce
  <2>4. GatesAgree => GatesAgree'
    BY <1>6, <2>1, MeshAssumption DEF Join, GatesAgree, TypeInv, GatesTyped
  <2> QED BY <2>1, <2>2, <2>3, <2>4 DEF TypeInv
<1> QED BY <1>2, <1>3, <1>4, <1>5, <1>6 DEF PeersNext

(* Gates list an expert once and only what was hosted, peers that stay are *)
(* never lost, and the counters keep their bounds (gate.ts:27-30).         *)
THEOREM PeersTypeCorrectness == PeersSpec => []PeersTypeOK
<1>1. TypeInv => PeersTypeOK
  <2> SUFFICES ASSUME TypeInv, NEW p \in Peers
               PROVE  /\ DOMAIN localExperts[p] \subseteq ExpertIds
                      /\ Range(localExperts[p]) \subseteq Offers
                      /\ IsInjective([i \in DOMAIN adverts[p] |-> adverts[p][i].expertId])
                      /\ \A a \in ToSet(adverts[p]) :
                           a.expertId \in ExpertIds /\ a.peerId \in Peers /\ a.offer \in Offers
    BY DEF PeersTypeOK, TypeInv, PeersTyped
  <2>1. DOMAIN localExperts[p] \subseteq ExpertIds /\ Range(localExperts[p]) \subseteq Offers
    BY DEF TypeInv, ExpertsTyped, Range
  <2>2. IsInjective([i \in DOMAIN adverts[p] |-> adverts[p][i].expertId])
    BY DEF TypeInv, GatesTyped, ListsOnce, IsInjective
  <2>3. \A a \in ToSet(adverts[p]) : a \in Adverts
    BY DEF TypeInv, GatesTyped, ToSet
  <2> QED BY <2>1, <2>2, <2>3 DEF Adverts
<1> QED BY <1>1, TypeInit, TypeNext, PTL DEF PeersSpec

(* Peers that stay, and stay admitted, route every chunk to the same       *)
(* experts, however others come, go and host (gate.ts:27-77).              *)
THEOREM StayingPeersRouteAlike == PeersSpec => []CoreAgrees
<1>1. GatesAgree => CoreAgrees
  BY DEF GatesAgree, CoreAgrees
<1> QED BY <1>1, TypeInit, TypeNext, PTL DEF PeersSpec
-----------------------------------------------------------------------------
(* What a route merges: the runs of routed experts, each at the peer the   *)
(* gate names, of the kind asked for, and taken from an admitted peer.     *)
LEMMA Merges ==
  ASSUME TypeInv, NEW p \in Peers, NEW kind \in {"logit", "text"}, Route(p, kind)
  PROVE  /\ result'.router = p /\ result'.kind = kind
         /\ result'.routed = Routed(adverts[p], kind)
         /\ \A f \in result'.merged : \E i \in DOMAIN Routed(adverts[p], kind) :
              LET r == Routed(adverts[p], kind)[i] IN
              /\ f = Run(r.peerId, r.expertId, i) /\ f.kind = kind
              /\ Hosts(r.peerId, r.expertId)
              /\ r.peerId = p \/ r.peerId \in admitted \cap attached
<1> DEFINE routed == Routed(adverts[p], kind)
           answers == UNION {Answers(p, kind, i, routed[i]) : i \in DOMAIN routed}
           collected == {f \in answers : f.peerId = p \/ Accepted(f.peerId)}
           combined == Combine(adverts[p], kind, collected)
<1>1. result' = [router |-> p, kind |-> kind, routed |-> routed, merged |-> combined.merged,
                 winners |-> combined.winners, rejected |-> answers \ collected]
  BY DEF Route
<1>2. combined.merged = {f \in collected : f.kind = kind}
  BY DEF Combine
<1> HIDE DEF combined
<1>3. ASSUME NEW f \in answers
      PROVE  \E i \in DOMAIN routed :
               /\ f = Run(routed[i].peerId, routed[i].expertId, i)
               /\ Hosts(routed[i].peerId, routed[i].expertId)
               /\ routed[i].peerId = p \/ routed[i].peerId \in attached
  <2>1. PICK i \in DOMAIN routed : f \in Answers(p, kind, i, routed[i])
    OBVIOUS
  <2> HIDE DEF routed
  <2> QED BY <2>1 DEF Answers, Addressees
<1>4. \A q, e, i : Run(q, e, i).peerId = q
  BY DEF Run
<1>5. ASSUME NEW f \in result'.merged
      PROVE  \E i \in DOMAIN routed :
               /\ f = Run(routed[i].peerId, routed[i].expertId, i) /\ f.kind = kind
               /\ Hosts(routed[i].peerId, routed[i].expertId)
               /\ routed[i].peerId = p \/ routed[i].peerId \in admitted \cap attached
  <2>1. f \in collected /\ f.kind = kind
    <3> HIDE DEF collected, answers, routed
    <3> QED BY <1>1, <1>2, <1>5
  <2>2. f \in answers /\ (f.peerId = p \/ f.peerId \in admitted)
    <3> HIDE DEF answers
    <3> QED BY <2>1 DEF Accepted
  <2> HIDE DEF answers, routed
  <2> QED BY <1>3, <1>4, <2>1, <2>2
<1> HIDE DEF answers, collected
<1>6. result'.router = p /\ result'.kind = kind /\ result'.routed = routed
  <2> HIDE DEF routed
  <2> QED BY <1>1
<1> HIDE DEF routed
<1>7. \A f \in result'.merged : \E i \in DOMAIN routed :
        LET r == routed[i] IN
        /\ f = Run(r.peerId, r.expertId, i) /\ f.kind = kind
        /\ Hosts(r.peerId, r.expertId)
        /\ r.peerId = p \/ r.peerId \in admitted \cap attached
  BY <1>5
<1> QED BY <1>6, <1>7 DEF routed

(* Only a route leaves a result.                                           *)
LEMMA OnlyRoutes ==
  ASSUME [PeersNext]_peersVars
  PROVE  \/ \E p \in Peers : \E kind \in {"logit", "text"} : Route(p, kind)
         \/ result' = NoResult
         \/ UNCHANGED peersVars
BY DEF PeersNext, Host, Leave, Join, Admit, Revoke

LEMMA TrustNext == TypeInv /\ MergedIsTrusted /\ [PeersNext]_peersVars => MergedIsTrusted'
<1> SUFFICES ASSUME TypeInv, MergedIsTrusted, [PeersNext]_peersVars PROVE MergedIsTrusted'
  OBVIOUS
<1>1. CASE UNCHANGED peersVars
  BY <1>1 DEF peersVars, MergedIsTrusted, Hosts
<1>2. CASE result' = NoResult
  BY <1>2 DEF MergedIsTrusted
<1>3. ASSUME NEW p \in Peers, NEW kind \in {"logit", "text"}, Route(p, kind)
      PROVE  MergedIsTrusted'
  <2>1. UNCHANGED <<attached, admitted, localExperts>> /\ result'.router = p /\ result'.kind = kind
    BY <1>3, Merges DEF Route
  <2>2. ASSUME NEW f \in result'.merged
        PROVE  /\ f.kind = kind /\ (f.peerId = p \/ f.peerId \in admitted \cap attached)
               /\ Hosts(f.peerId, f.expertId) /\ localExperts[f.peerId][f.expertId].kind = kind
    <3>1. PICK i \in DOMAIN Routed(adverts[p], kind) :
            LET r == Routed(adverts[p], kind)[i] IN
            /\ f = Run(r.peerId, r.expertId, i) /\ f.kind = kind
            /\ Hosts(r.peerId, r.expertId)
            /\ r.peerId = p \/ r.peerId \in admitted \cap attached
      BY <1>3, <2>2, Merges
    <3> DEFINE r == Routed(adverts[p], kind)[i]
    <3>2. /\ f = Run(r.peerId, r.expertId, i) /\ f.kind = kind /\ Hosts(r.peerId, r.expertId)
          /\ r.peerId = p \/ r.peerId \in admitted \cap attached
      BY <3>1
    <3> HIDE DEF r
    <3>3. /\ f.peerId = r.peerId /\ f.expertId = r.expertId
          /\ f.kind = localExperts[r.peerId][r.expertId].kind
      BY <3>2 DEF Run
    <3> QED BY <3>2, <3>3
  <2> QED BY <2>1, <2>2 DEF MergedIsTrusted, Hosts
<1> QED BY <1>1, <1>2, <1>3, OnlyRoutes

LEMMA OnceNext == TypeInv /\ EachOnce /\ [PeersNext]_peersVars => EachOnce'
<1> SUFFICES ASSUME TypeInv, EachOnce, [PeersNext]_peersVars PROVE EachOnce'
  OBVIOUS
<1>1. CASE UNCHANGED peersVars
  BY <1>1 DEF peersVars, EachOnce
<1>2. CASE result' = NoResult
  BY <1>2 DEF EachOnce
<1>3. ASSUME NEW p \in Peers, NEW kind \in {"logit", "text"}, Route(p, kind)
      PROVE  EachOnce'
  <2> DEFINE routed == Routed(adverts[p], kind)
  <2>1. \A i \in DOMAIN routed : i \in DOMAIN adverts[p] /\ routed[i] = adverts[p][i]
    BY DEF Routed
  <2>2. \A i, j \in DOMAIN routed : routed[i].expertId = routed[j].expertId => i = j
    <3> HIDE DEF routed
    <3> QED BY <2>1 DEF TypeInv, GatesTyped, ListsOnce
  <2>3. result'.routed = routed
    BY <1>3, Merges
  <2>4. \A f \in result'.merged : \E i \in DOMAIN routed :
          f = Run(routed[i].peerId, routed[i].expertId, i)
    BY <1>3, Merges
  <2> HIDE DEF routed
  <2>5. \A i : /\ Run(routed[i].peerId, routed[i].expertId, i).expertId = routed[i].expertId
               /\ Run(routed[i].peerId, routed[i].expertId, i).peerId = routed[i].peerId
    BY DEF Run
  <2>6. ASSUME NEW f \in result'.merged
        PROVE  \E r \in Range(result'.routed) : r.expertId = f.expertId /\ r.peerId = f.peerId
    BY <2>3, <2>4, <2>5 DEF Range
  <2>7. ASSUME NEW f \in result'.merged, NEW g \in result'.merged, f.expertId = g.expertId
        PROVE  f = g
    BY <2>2, <2>4, <2>5, <2>7
  <2> QED BY <2>6, <2>7 DEF EachOnce
<1> QED BY <1>1, <1>2, <1>3, OnlyRoutes

(* Whatever adverts are left of peers that went, were revoked or host      *)
(* something else by now, a route merges only frames of its own experts    *)
(* and of admitted, reachable peers that host the expert in the regime     *)
(* asked for (transport.ts:87-92, mesh.ts:142-171).                        *)
THEOREM OnlyTrustedIsMerged == PeersSpec => []MergedIsTrusted
<1>1. PeersInit => TypeInv /\ MergedIsTrusted
  BY TypeInit DEF PeersInit, MergedIsTrusted
<1>2. TypeInv /\ MergedIsTrusted /\ [PeersNext]_peersVars => (TypeInv /\ MergedIsTrusted)'
  BY TypeNext, TrustNext
<1> QED BY <1>1, <1>2, PTL DEF PeersSpec

(* Every merged frame answers a routed expert at the peer it was routed    *)
(* to, and no expert is counted twice (merge.ts:36-41).                    *)
THEOREM NobodyCountsTwice == PeersSpec => []EachOnce
<1>1. PeersInit => TypeInv /\ EachOnce
  BY TypeInit DEF PeersInit, EachOnce
<1>2. TypeInv /\ EachOnce /\ [PeersNext]_peersVars => (TypeInv /\ EachOnce)'
  BY TypeNext, OnceNext
<1> QED BY <1>1, <1>2, PTL DEF PeersSpec

-----------------------------------------------------------------------------
(***************************************************************************)
(* MeshEvolve: the champion stays within its ceilings, passes every gate   *)
(* and gained every margin.                                                *)
(***************************************************************************)

Record == [generation : Nat, champion : EvolvableParams, promoted : BOOLEAN]
Frame == [step : Nat, value : Record, signer : {Identity}]

(* What a run holds is of its type.  A generation that has tried a         *)
(* candidate has a best one, and is one of Generations.                    *)
RunTyped ==
  /\ start \in EvolvableParams /\ champion \in EvolvableParams
  /\ best = NoCandidate \/ best[1] \in EvolvableParams
  /\ tried \in 0 .. Population
  /\ tried > 0 => best # NoCandidate /\ Len(history) < Generations
  /\ history \in Seq(Record) /\ frames \in Seq(Frame)
  /\ Len(history) <= Generations /\ Len(frames) = Len(history)

TurnTyped ==
  /\ phase \in {"down", "evolving", "evolved", "champion"}
  /\ turn \in 0 .. MaxTurns /\ now \in 0 .. MaxTime

FileTyped ==
  /\ championFile.state \in {"absent", "torn", "written"}
  /\ championFile.state = "written" => championFile.document \in EvolvableParams

EvolveInv == RunTyped /\ TurnTyped /\ FileTyped /\ ChampionIsLawful
-----------------------------------------------------------------------------
(* Arithmetic of the ceilings and of the fitness.                          *)
LEMMA MaxOfTwo ==
  ASSUME NEW a \in Int, NEW b \in Int
  PROVE  Max({a, b}) \in {a, b} /\ Max({a, b}) >= a /\ Max({a, b}) >= b
<1>1. \E x \in {a, b} : \A y \in {a, b} : x >= y
  <2>1. CASE a >= b BY <2>1
  <2>2. CASE ~(a >= b) BY <2>2
  <2> QED BY <2>1, <2>2
<1> QED BY <1>1 DEF Max

LEMMA MinOfTwo ==
  ASSUME NEW a \in Int, NEW b \in Int
  PROVE  Min({a, b}) \in {a, b} /\ Min({a, b}) <= a /\ Min({a, b}) <= b
<1>1. \E x \in {a, b} : \A y \in {a, b} : x <= y
  <2>1. CASE a <= b BY <2>1
  <2>2. CASE ~(a <= b) BY <2>2
  <2> QED BY <2>1, <2>2
<1> QED BY <1>1 DEF Min

LEMMA ClampStaysInside ==
  ASSUME NEW x \in Int, NEW lo \in Int, NEW hi \in Int, lo <= hi
  PROVE  Clamp(x, lo, hi) \in lo .. hi
<1>1. Max({lo, x}) \in Int /\ Max({lo, x}) >= lo
  BY MaxOfTwo
<1>2. Clamp(x, lo, hi) \in {hi, Max({lo, x})} /\ Clamp(x, lo, hi) <= hi
  BY <1>1, MinOfTwo DEF Clamp
<1> QED BY <1>1, <1>2

(* A mutant of lawful parameters is within the ceilings.                   *)
LEMMA MutantsWithinCeilings ==
  ASSUME NEW parent \in EvolvableParams
  PROVE  Mutants(parent) \subseteq EvolvableParams
<1> SUFFICES ASSUME NEW k \in Knobs, NEW d \in Jitters, NEW q \in QuorumJitters
             PROVE  [weights |-> [parent.weights EXCEPT ![k] =
                                    Clamp(@ + d, Ceilings.weightMin, Ceilings.weightMax)],
                     quorumThreshold |-> Clamp(parent.quorumThreshold + q,
                                               Ceilings.quorumMin, Ceilings.quorumMax)]
                      \in EvolvableParams
  BY DEF Mutants
<1>1. d \in Int /\ q \in Int
  BY EvolveAssumption
<1>2. /\ Ceilings.weightMin \in Int /\ Ceilings.weightMax \in Int
      /\ Ceilings.weightMin <= Ceilings.weightMax
      /\ Ceilings.quorumMin \in Int /\ Ceilings.quorumMax \in Int
      /\ Ceilings.quorumMin <= Ceilings.quorumMax
  BY DEF Ceilings
<1>3. /\ parent.weights \in [Knobs -> Ceilings.weightMin .. Ceilings.weightMax]
      /\ parent.quorumThreshold \in Ceilings.quorumMin .. Ceilings.quorumMax
  BY DEF EvolvableParams
<1>4. parent.weights[k] + d \in Int /\ parent.quorumThreshold + q \in Int
  BY <1>1, <1>2, <1>3
<1>5. /\ Clamp(parent.weights[k] + d, Ceilings.weightMin, Ceilings.weightMax)
           \in Ceilings.weightMin .. Ceilings.weightMax
      /\ Clamp(parent.quorumThreshold + q, Ceilings.quorumMin, Ceilings.quorumMax)
           \in Ceilings.quorumMin .. Ceilings.quorumMax
  BY <1>2, <1>4, ClampStaysInside
<1> QED BY <1>3, <1>5 DEF EvolvableParams

LEMMA FitnessTyped ==
  ASSUME NEW params \in EvolvableParams
  PROVE  Evaluate(params).separation \in Int
<1>1. params.weights["sameProvider"] \in Int /\ params.weights["sameArch"] \in Int
  BY DEF EvolvableParams, Knobs, Ceilings
<1> DEFINE related == Independence(params, TRUE)
           unrelated == Independence(params, FALSE)
           shared == params.weights["sameProvider"] + params.weights["sameArch"]
<1>2. related \in Int /\ unrelated \in Int
  <2>1. Unit - shared \in Int
    BY <1>1 DEF Unit
  <2>2. ASSUME NEW x \in Int PROVE Max({0, x}) \in Int
    <3>1. 0 \in Int
      OBVIOUS
    <3>2. Max({0, x}) \in {0, x}
      BY <2>2, <3>1, MaxOfTwo, Zenon
    <3> QED BY <2>2, <3>2
  <2>3. Max({0, Unit - shared}) \in Int
    BY <2>1, <2>2
  <2> QED BY <2>3 DEF Independence, Unit
<1>3. Evaluate(params).separation =
        4 * ((Unit + unrelated) - (Unit + related + related))
          + ((Unit + unrelated) + related) - (Unit + related + related)
  BY DEF Evaluate
<1> HIDE DEF related, unrelated
<1> QED BY <1>2, <1>3 DEF Unit

LEMMA StartIsLawful == Start \in EvolvableParams /\ Evaluate(Start).hardGatesPass
<1>1. /\ Start \in EvolvableParams /\ Start.quorumThreshold = 400
      /\ Start.weights["sameProvider"] = 80 /\ Start.weights["sameArch"] = 70
  BY DEF Start, EvolvableParams, Knobs, Ceilings
<1>2. Independence(Start, TRUE) = 50 /\ Independence(Start, FALSE) = 200
  BY <1>1, MaxOfTwo DEF Independence, Unit
<1> DEFINE related == Independence(Start, TRUE)
           unrelated == Independence(Start, FALSE)
<1>3. Evaluate(Start).hardGatesPass <=>
         /\ Unit + related + related < Hard.familyStackCeiling
         /\ Unit + unrelated >= Hard.diversePairFloor
         /\ Start.quorumThreshold > Unit + related + related
         /\ Start.quorumThreshold <= Unit + unrelated
  BY DEF Evaluate
<1>4. related = 50 /\ unrelated = 200 /\ Start.quorumThreshold = 400
  BY <1>1, <1>2
<1> HIDE DEF related, unrelated
<1>5. Evaluate(Start).hardGatesPass <=> TRUE
  BY <1>3, <1>4 DEF Unit, Hard
<1> QED BY <1>1, <1>5
-----------------------------------------------------------------------------
(* The promotions of a history are counted one by one.                     *)
LEMMA PromotionsCount ==
  ASSUME NEW records \in Seq(Record), NEW record \in Record
  PROVE  /\ Cardinality(PromotedIn(records)) \in Nat
         /\ Cardinality(PromotedIn(Append(records, record)))
              = Cardinality(PromotedIn(records)) + (IF record.promoted THEN 1 ELSE 0)
<1> DEFINE more == Append(records, record)
           n == Len(records)
<1>1. /\ n \in Nat /\ DOMAIN records = 1 .. n /\ DOMAIN more = 1 .. n + 1
      /\ \A i \in 1 .. n : more[i] = records[i]
      /\ more[n + 1] = record
  BY AppendProperties, LenProperties
<1>2. IsFiniteSet(PromotedIn(records))
  <2>1. IsFiniteSet(1 .. n) /\ PromotedIn(records) \in SUBSET (1 .. n)
    BY <1>1, FS_Interval DEF PromotedIn
  <2> QED BY <2>1, FS_Subset
<1>3. PromotedIn(more) = PromotedIn(records) \cup (IF record.promoted THEN {n + 1} ELSE {})
  BY <1>1 DEF PromotedIn
<1>4. n + 1 \notin PromotedIn(records)
  BY <1>1 DEF PromotedIn
<1>5. Cardinality(PromotedIn(records)) \in Nat
  BY <1>2, FS_CardinalityType
<1>6. ASSUME record.promoted
      PROVE  Cardinality(PromotedIn(more)) = Cardinality(PromotedIn(records)) + 1
  <2>1. PromotedIn(more) = PromotedIn(records) \cup {n + 1}
    BY <1>3, <1>6
  <2>2. Cardinality(PromotedIn(records) \cup {n + 1}) = Cardinality(PromotedIn(records)) + 1
    BY <1>2, <1>4, FS_AddElement
  <2> QED BY <2>1, <2>2
<1>7. ASSUME ~record.promoted
      PROVE  Cardinality(PromotedIn(more)) = Cardinality(PromotedIn(records)) + 0
  BY <1>3, <1>5, <1>7
<1> QED BY <1>5, <1>6, <1>7

LEMMA NoPromotions == PromotedIn(<<>>) = {} /\ Cardinality({}) = 0
  BY FS_EmptySet DEF PromotedIn
-----------------------------------------------------------------------------
(* The invariant.                                                          *)
LEMMA EvolveInit == Init => EvolveInv
<1> SUFFICES ASSUME Init PROVE EvolveInv
  OBVIOUS
<1>1. RunTyped
  BY StartIsLawful, EvolveAssumption DEF Init, RunTyped
<1>2. TurnTyped /\ FileTyped
  BY BoundAssumption DEF Init, TurnTyped, FileTyped, NoFile
<1>3. Promotions = 0
  BY NoPromotions DEF Init, Promotions, PromotedIn
<1>4. Evaluate(Start).separation \in Int
  BY StartIsLawful, FitnessTyped
<1>5. ChampionIsLawful
  BY <1>3, <1>4, StartIsLawful DEF Init, ChampionIsLawful, NoFile, PromotionMargin
<1> QED BY <1>1, <1>2, <1>5 DEF EvolveInv

(* Steps that leave the champion, the history and the file alone.          *)
LEMMA QuietKeeps ==
  ASSUME EvolveInv, UNCHANGED <<start, champion, history, championFile>>
  PROVE  FileTyped' /\ ChampionIsLawful'
BY DEF EvolveInv, FileTyped, ChampionIsLawful, Promotions

LEMMA StartTurnKeeps ==
  ASSUME EvolveInv, StartTurn
  PROVE  EvolveInv'
<1>1. start' \in EvolvableParams /\ Evaluate(start').hardGatesPass
  BY StartIsLawful DEF EvolveInv, FileTyped, StartTurn
<1>2. RunTyped'
  BY <1>1, EvolveAssumption DEF StartTurn, RunTyped
<1>3. TurnTyped' /\ FileTyped'
  BY BoundAssumption DEF EvolveInv, TurnTyped, FileTyped, StartTurn, files
<1>4. Promotions' = 0
  BY NoPromotions DEF StartTurn, Promotions, PromotedIn
<1>5. Evaluate(start').separation \in Int
  BY <1>1, FitnessTyped
<1>6. ChampionIsLawful'
  BY <1>1, <1>4, <1>5 DEF EvolveInv, StartTurn, ChampionIsLawful, PromotionMargin, files
<1> QED BY <1>2, <1>3, <1>6 DEF EvolveInv

LEMMA TryKeeps ==
  ASSUME EvolveInv, Try
  PROVE  EvolveInv'
<1>1. PICK candidate \in Mutants(champion) :
        best' = IF \/ best = NoCandidate
                   \/ Evaluate(candidate).separation > Evaluate(best[1]).separation
                THEN <<candidate>> ELSE best
  BY DEF Try
<1>2. candidate \in EvolvableParams
  BY MutantsWithinCeilings DEF EvolveInv, RunTyped
<1>3. best' # NoCandidate /\ best'[1] \in EvolvableParams
  BY <1>1, <1>2 DEF EvolveInv, RunTyped, NoCandidate
<1>4. RunTyped'
  BY <1>3, EvolveAssumption DEF EvolveInv, RunTyped, Try
<1>5. TurnTyped'
  BY DEF EvolveInv, TurnTyped, Try
<1> QED BY <1>4, <1>5, QuietKeeps DEF EvolveInv, Try, files

(* The champion changes only for a candidate that passes the gates and     *)
(* gains the margin, and then the history gains a promotion.               *)
LEMMA GenerationKeeps ==
  ASSUME EvolveInv, Generation
  PROVE  EvolveInv'
<1> DEFINE decision == PromoteAuthorized(Evaluate(best[1]), Evaluate(champion), TRUE, TRUE)
           record == [generation |-> Len(history) + 1, champion |-> champion',
                      promoted |-> decision.promote]
<1>1. best[1] \in EvolvableParams /\ Len(history) < Generations
  BY EvolveAssumption DEF EvolveInv, RunTyped, Generation
<1>2. decision.promote <=> /\ Evaluate(best[1]).separation
                                 >= Evaluate(champion).separation + PromotionMargin
                           /\ Evaluate(best[1]).hardGatesPass
  BY DEF PromoteAuthorized
<1>3. decision.promote \in BOOLEAN
  BY DEF PromoteAuthorized
<1>4. champion' = (IF decision.promote THEN best[1] ELSE champion)
  BY DEF Generation
<1>5. champion' \in EvolvableParams
  BY <1>1, <1>4 DEF EvolveInv, RunTyped
<1>6. record \in Record
  <2>1. Len(history) + 1 \in Nat
    BY LenProperties DEF EvolveInv, RunTyped
  <2> HIDE DEF decision
  <2> QED BY <1>3, <1>5, <2>1 DEF Record
<1>7. /\ history' = Append(history, record)
      /\ frames' = Append(frames, [step |-> record.generation, value |-> record,
                                   signer |-> Identity])
      /\ best' = NoCandidate /\ tried' = 0
      /\ UNCHANGED <<phase, turn, now, start, championFile>>
  BY DEF Generation, files
<1> HIDE DEF record, decision
<1>8. RunTyped'
  <2>1. [step |-> record.generation, value |-> record, signer |-> Identity] \in Frame
    BY <1>6 DEF Frame, Record
  <2>2. /\ history' \in Seq(Record) /\ Len(history') = Len(history) + 1
        /\ frames' \in Seq(Frame) /\ Len(frames') = Len(frames) + 1
    BY <1>6, <1>7, <2>1, AppendProperties DEF EvolveInv, RunTyped
  <2> QED BY <1>1, <1>5, <1>7, <2>2, EvolveAssumption, LenProperties DEF EvolveInv, RunTyped
<1>9. TurnTyped' /\ FileTyped'
  BY <1>7 DEF EvolveInv, TurnTyped, FileTyped
<1>10. ChampionIsLawful'
  <2>1. /\ Promotions \in Nat
        /\ Promotions' = Promotions + (IF record.promoted THEN 1 ELSE 0)
    BY <1>6, <1>7, PromotionsCount DEF EvolveInv, RunTyped, Promotions, PromotedIn
  <2>2. record.promoted = decision.promote
    BY DEF record
  <2>3. /\ Evaluate(champion).separation \in Int /\ Evaluate(best[1]).separation \in Int
        /\ Evaluate(start).separation \in Int
    BY <1>1, FitnessTyped DEF EvolveInv, RunTyped
  <2>4. /\ Evaluate(champion).hardGatesPass
        /\ Evaluate(champion).separation >= Evaluate(start).separation + Promotions * 16
    BY DEF EvolveInv, ChampionIsLawful, PromotionMargin
  <2>5. championFile'.state = "written" => Evaluate(championFile'.document).hardGatesPass
    BY <1>7 DEF EvolveInv, ChampionIsLawful
  <2>6. CASE decision.promote
    <3>1. champion' = best[1] /\ Promotions' = Promotions + 1 /\ start' = start
      BY <1>4, <1>7, <2>1, <2>2, <2>6
    <3>2. /\ Evaluate(best[1]).hardGatesPass
          /\ Evaluate(best[1]).separation >= Evaluate(champion).separation + 16
      BY <1>2, <2>6 DEF PromotionMargin
    <3>3. Evaluate(best[1]).separation >= Evaluate(start).separation + Promotions' * 16
      BY <2>1, <2>3, <2>4, <3>1, <3>2
    <3> QED BY <2>5, <3>1, <3>2, <3>3 DEF ChampionIsLawful, PromotionMargin
  <2>7. CASE ~decision.promote
    <3>1. champion' = champion /\ Promotions' = Promotions /\ start' = start
      BY <1>4, <1>7, <2>1, <2>2, <2>7
    <3> QED BY <2>4, <2>5, <3>1 DEF ChampionIsLawful, PromotionMargin
  <2> QED BY <2>6, <2>7
<1> QED BY <1>8, <1>9, <1>10 DEF EvolveInv

LEMMA EvolveNext == EvolveInv /\ [Next]_vars => EvolveInv'
<1> SUFFICES ASSUME EvolveInv, [Next]_vars PROVE EvolveInv'
  OBVIOUS
<1>1. CASE StartTurn
  BY <1>1, StartTurnKeeps
<1>2. CASE Try
  BY <1>2, TryKeeps
<1>3. CASE Generation
  BY <1>3, GenerationKeeps
<1>4. CASE Evolved \/ Export \/ WriteLedger \/ Tick
  <2>1. RunTyped'
    BY <1>4 DEF EvolveInv, RunTyped, Evolved, Export, WriteLedger, Tick, run, files
  <2>2. TurnTyped'
    BY <1>4, BoundAssumption
    DEF EvolveInv, TurnTyped, Evolved, Export, WriteLedger, Tick, run, files
  <2> QED BY <1>4, <2>1, <2>2, QuietKeeps
          DEF EvolveInv, Evolved, Export, WriteLedger, Tick, run, files
<1>5. CASE WriteChampion
  <2>1. RunTyped' /\ TurnTyped'
    BY <1>5 DEF EvolveInv, RunTyped, TurnTyped, WriteChampion, run
  <2>2. FileTyped' /\ ChampionIsLawful'
    BY <1>5 DEF EvolveInv, RunTyped, FileTyped, ChampionIsLawful, Promotions,
                WriteChampion, Written, run
  <2> QED BY <2>1, <2>2 DEF EvolveInv
<1>6. CASE Crash
  <2>1. RunTyped' /\ TurnTyped'
    BY <1>6 DEF EvolveInv, RunTyped, TurnTyped, Crash, run
  <2>2. FileTyped' /\ ChampionIsLawful'
    BY <1>6 DEF EvolveInv, FileTyped, ChampionIsLawful, Promotions, Crash, Torn, run, files
  <2> QED BY <2>1, <2>2 DEF EvolveInv
<1>7. CASE UNCHANGED vars
  BY <1>7 DEF EvolveInv, RunTyped, TurnTyped, FileTyped, ChampionIsLawful, Promotions, vars
<1> QED BY <1>1, <1>2, <1>3, <1>4, <1>5, <1>6, <1>7 DEF Next

LEMMA Invariance == Spec => []EvolveInv
BY EvolveInit, EvolveNext, PTL DEF Spec
-----------------------------------------------------------------------------
(* Parameters never leave the ceilings, and what a run keeps is of its     *)
(* type: mutate clamps every weight and the threshold (mesh-evolve.ts:     *)
(* 120-135).                                                               *)
THEOREM EvolutionTyped == Spec => []TypeOK
<1>1. EvolveInv => TypeOK
  BY DEF EvolveInv, RunTyped, TurnTyped, FileTyped, TypeOK
<1> QED BY <1>1, Invariance, PTL

(* The champion, and the one on disk that a next turn starts from, pass    *)
(* every hard gate, and every promotion of a turn gained the margin,       *)
(* wherever turns were cut: promoteAuthorized and evolveMesh.              *)
THEOREM EvolutionIsLawful == Spec => []ChampionIsLawful
<1>1. EvolveInv => ChampionIsLawful
  BY DEF EvolveInv
<1> QED BY <1>1, Invariance, PTL
-----------------------------------------------------------------------------
(* The order of the promotions.                                            *)

UpTo(P, i) == {j \in P : j <= i}

(* The members of a finite set of numbers are ranked from 1 by how many    *)
(* there are up to each.                                                   *)
LEMMA Ranks ==
  ASSUME NEW n \in Nat, NEW P \in SUBSET (1 .. n)
  PROVE  /\ IsFiniteSet(P) /\ Cardinality(P) \in Nat
         /\ \A i \in P : Cardinality(UpTo(P, i)) \in 1 .. Cardinality(P)
         /\ \A i, j \in P :
              i < j => Cardinality(UpTo(P, i)) < Cardinality(UpTo(P, j))
         /\ \A k \in 1 .. Cardinality(P) : \E i \in P : Cardinality(UpTo(P, i)) = k
<1>1. IsFiniteSet(P) /\ Cardinality(P) \in Nat
  <2>1. IsFiniteSet(1 .. n)
    BY FS_Interval
  <2> QED BY <2>1, FS_Subset, FS_CardinalityType
<1>2. \A i \in P : /\ UpTo(P, i) \in SUBSET P /\ IsFiniteSet(UpTo(P, i))
                   /\ Cardinality(UpTo(P, i)) \in Nat
  <2> SUFFICES ASSUME NEW i \in P
               PROVE  /\ UpTo(P, i) \in SUBSET P /\ IsFiniteSet(UpTo(P, i))
                      /\ Cardinality(UpTo(P, i)) \in Nat
    OBVIOUS
  <2>1. UpTo(P, i) \in SUBSET P
    BY DEF UpTo
  <2> QED BY <1>1, <2>1, FS_Subset, FS_CardinalityType
<1>3. ASSUME NEW i \in P
      PROVE  Cardinality(UpTo(P, i)) \in 1 .. Cardinality(P)
  <2>1. Cardinality(UpTo(P, i)) <= Cardinality(P)
    BY <1>1, <1>2, FS_Subset
  <2>2. i \in UpTo(P, i)
    BY DEF UpTo
  <2>3. Cardinality(UpTo(P, i)) # 0
    BY <1>2, <2>2, FS_EmptySet
  <2> QED BY <1>1, <1>2, <2>1, <2>3
<1>4. ASSUME NEW i \in P, NEW j \in P, i < j
      PROVE  Cardinality(UpTo(P, i)) < Cardinality(UpTo(P, j))
  <2>1. /\ UpTo(P, i) \in SUBSET UpTo(P, j)
        /\ j \in UpTo(P, j) /\ j \notin UpTo(P, i)
    <3>1. i \in Int /\ j \in Int /\ \A x \in P : x \in Int
      OBVIOUS
    <3>2. /\ j <= j /\ ~(j <= i)
          /\ \A x \in P : x <= i => x <= j
      BY <1>4, <3>1
    <3> QED BY <3>2 DEF UpTo
  <2>2. /\ Cardinality(UpTo(P, i)) <= Cardinality(UpTo(P, j))
        /\ Cardinality(UpTo(P, i)) # Cardinality(UpTo(P, j))
    BY <1>2, <2>1, FS_Subset
  <2> QED BY <1>2, <2>2
<1>5. \A k \in 1 .. Cardinality(P) : \E i \in P : Cardinality(UpTo(P, i)) = k
  <2> DEFINE c == Cardinality(P)
             rank == [i \in P |-> Cardinality(UpTo(P, i))]
  <2>1. rank \in [P -> 1 .. c]
    BY <1>3
  <2>2. \A i, j \in P : rank[i] = rank[j] => i = j
    <3> SUFFICES ASSUME NEW i \in P, NEW j \in P, rank[i] = rank[j] PROVE i = j
      OBVIOUS
    <3>1. i \in Nat /\ j \in Nat /\ rank[i] \in Nat /\ rank[j] \in Nat
      BY <1>2
    <3>2. ~(i < j) /\ ~(j < i)
      BY <1>4, <3>1
    <3> QED BY <3>1, <3>2
  <2>3. rank \in Injection(P, 1 .. c)
    BY <2>1, <2>2 DEF Injection, IsInjective
  <2>4. IsFiniteSet(1 .. c) /\ Cardinality(1 .. c) = c
    BY <1>1, FS_Interval
  <2>5. rank \in Surjection(P, 1 .. c)
    BY <2>3, <2>4, FS_Injection
  <2>6. \A k \in 1 .. c : \E i \in P : rank[i] = k
    BY <2>5 DEF Surjection
  <2> QED BY <2>6
<1> QED BY <1>1, <1>3, <1>4, <1>5

LEMMA MaxIs ==
  ASSUME NEW S \in SUBSET Int, NEW m \in S, \A x \in S : m >= x
  PROVE  Max(S) = m
<1>1. ASSUME NEW x \in S, \A y \in S : x >= y
      PROVE  x = m
  <2>1. x >= m /\ m >= x /\ x \in Int /\ m \in Int
    BY <1>1
  <2> QED BY <2>1
<1>2. m = CHOOSE x \in S : \A y \in S : x >= y
  BY <1>1, Zenon
<1> QED BY <1>2 DEF Max

(* A set of numbers up to n has a greatest one, unless it is empty.        *)
LEMMA MaxExists ==
  ASSUME NEW n \in Nat, NEW P \in SUBSET (1 .. n), P # {}
  PROVE  Max(P) \in P /\ \A x \in P : Max(P) >= x
<1>1. Cardinality(P) \in 1 .. Cardinality(P)
  <2>1. IsFiniteSet(P) /\ Cardinality(P) \in Nat
    BY Ranks
  <2>2. Cardinality(P) # 0
    BY <2>1, FS_EmptySet
  <2> QED BY <2>1, <2>2
<1>2. PICK m \in P : Cardinality(UpTo(P, m)) = Cardinality(P)
  BY <1>1, Ranks
<1>3. ASSUME NEW x \in P PROVE m >= x
  <2>1. Cardinality(UpTo(P, x)) \in 1 .. Cardinality(P) /\ Cardinality(P) \in Nat
    BY Ranks
  <2>2. m < x => Cardinality(UpTo(P, m)) < Cardinality(UpTo(P, x))
    BY Ranks
  <2> QED BY <1>2, <2>1, <2>2
<1> QED BY <1>3, MaxIs
-----------------------------------------------------------------------------
(* Baselines.                                                              *)

LEMMA PromotedPositions ==
  ASSUME NEW h \in Seq(Record)
  PROVE  /\ Len(h) \in Nat /\ PromotedIn(h) \in SUBSET (1 .. Len(h))
         /\ IsFiniteSet(PromotedIn(h)) /\ Cardinality(PromotedIn(h)) \in Nat
<1>1. Len(h) \in Nat /\ PromotedIn(h) \in SUBSET (1 .. Len(h))
  BY LenProperties DEF PromotedIn
<1> QED BY <1>1, Ranks

(* There is an n-th promotion for each n up to their number, and each      *)
(* promotion is the n-th for one n.                                        *)
LEMMA NthPromotionIs ==
  ASSUME NEW h \in Seq(Record), NEW n \in 1 .. Cardinality(PromotedIn(h))
  PROVE  /\ NthPromotion(h, n) \in PromotedIn(h)
         /\ Cardinality(UpTo(PromotedIn(h), NthPromotion(h, n))) = n
<1>1. \E i \in PromotedIn(h) : Cardinality(UpTo(PromotedIn(h), i)) = n
  BY PromotedPositions, Ranks
<1> QED BY <1>1 DEF NthPromotion, UpTo

(* The promotion before an n-th is the one of rank n - 1.                  *)
LEMMA BaselineBefore ==
  ASSUME NEW h \in Seq(Record), NEW first, NEW i \in 1 .. Len(h) + 1,
         NEW n \in Nat, n <= Cardinality(PromotedIn(h)),
         \A j \in PromotedIn(h) : j < i <=> Cardinality(UpTo(PromotedIn(h), j)) <= n
  PROVE  Baseline(h, first, i) = IF n = 0 THEN first ELSE h[NthPromotion(h, n)].champion
<1> DEFINE P == PromotedIn(h)
           before == {j \in 1 .. i - 1 : h[j].promoted}
<1>1. Len(h) \in Nat /\ P \in SUBSET (1 .. Len(h)) /\ Cardinality(P) \in Nat
  BY PromotedPositions
<1>2. before = {j \in P : j < i}
  <2>1. P = {j \in 1 .. Len(h) : h[j].promoted}
    BY LenProperties DEF PromotedIn
  <2> QED BY <1>1, <2>1
<1>3. Baseline(h, first, i) = IF before = {} THEN first ELSE h[Max(before)].champion
  BY DEF Baseline
<1>4. \A j \in P : Cardinality(UpTo(P, j)) \in 1 .. Cardinality(P)
  BY <1>1, Ranks
<1> HIDE DEF before, P
<1>5. CASE n = 0
  <2>1. before = {}
    BY <1>1, <1>2, <1>4, <1>5 DEF P
  <2> QED BY <1>3, <1>5, <2>1
<1>6. CASE n # 0
  <2> DEFINE m == NthPromotion(h, n)
  <2>1. m \in P /\ Cardinality(UpTo(P, m)) = n
    BY <1>1, <1>6, NthPromotionIs DEF P
  <2> HIDE DEF m
  <2>2. m \in before
    BY <1>2, <2>1 DEF P
  <2>3. ASSUME NEW j \in before
        PROVE  m >= j
    <3>1. j \in P /\ Cardinality(UpTo(P, j)) <= n /\ j \in Int /\ m \in Int
      BY <1>1, <1>2, <2>1 DEF P
    <3>2. m < j => Cardinality(UpTo(P, m)) < Cardinality(UpTo(P, j))
      BY <1>1, <2>1, <3>1, Ranks
    <3>3. Cardinality(UpTo(P, j)) \in Int
      BY <1>1, <1>4, <3>1
    <3> QED BY <2>1, <3>1, <3>2, <3>3
  <2>4. before \in SUBSET Int
    <3>1. before \in SUBSET P /\ \A j \in 1 .. Len(h) : j \in Int
      BY <1>2
    <3> QED BY <1>1, <3>1
  <2>5. Max(before) = m
    BY <2>2, <2>3, <2>4, MaxIs
  <2> QED BY <1>3, <1>6, <2>2, <2>5 DEF m
<1> QED BY <1>5, <1>6

(* The baseline of the n-th promotion is the candidate of the one before,  *)
(* the start for the first; after the last there is its candidate.         *)
LEMMA BaselinesChain ==
  ASSUME NEW h \in Seq(Record), NEW first
  PROVE  LET count == Cardinality(PromotedIn(h))
         IN  /\ \A n \in 1 .. count :
                  Baseline(h, first, NthPromotion(h, n)) =
                    IF n = 1 THEN first ELSE h[NthPromotion(h, n - 1)].champion
             /\ Baseline(h, first, Len(h) + 1) =
                  IF count = 0 THEN first ELSE h[NthPromotion(h, count)].champion
<1> DEFINE P == PromotedIn(h)
           count == Cardinality(P)
<1>1. Len(h) \in Nat /\ P \in SUBSET (1 .. Len(h)) /\ count \in Nat
  BY PromotedPositions
<1>2. \A j \in P : Cardinality(UpTo(P, j)) \in 1 .. count
  BY <1>1, Ranks
<1> HIDE DEF P, count
<1>3. ASSUME NEW n \in 1 .. count
      PROVE  Baseline(h, first, NthPromotion(h, n)) =
               IF n = 1 THEN first ELSE h[NthPromotion(h, n - 1)].champion
  <2> DEFINE i == NthPromotion(h, n)
  <2>1. i \in P /\ Cardinality(UpTo(P, i)) = n
    BY NthPromotionIs DEF P, count
  <2> HIDE DEF i
  <2>2. i \in 1 .. Len(h) + 1
    <3>1. i \in 1 .. Len(h)
      BY <1>1, <2>1
    <3> QED BY <1>1, <3>1
  <2>3. ASSUME NEW j \in P
        PROVE  j < i <=> Cardinality(UpTo(P, j)) <= n - 1
    <3>1. /\ j < i => Cardinality(UpTo(P, j)) < Cardinality(UpTo(P, i))
          /\ i < j => Cardinality(UpTo(P, i)) < Cardinality(UpTo(P, j))
      BY <1>1, <2>1, Ranks
    <3>2. Cardinality(UpTo(P, j)) \in Int /\ i \in Int /\ j \in Int /\ n \in Int
      BY <1>1, <1>2, <2>1
    <3>3. j = i => Cardinality(UpTo(P, j)) = n
      BY <2>1
    <3> QED BY <2>1, <3>1, <3>2, <3>3
  <2>4. n - 1 \in Nat /\ n - 1 <= count
    BY <1>1
  <2>5. Baseline(h, first, i) = IF n - 1 = 0 THEN first ELSE h[NthPromotion(h, n - 1)].champion
    BY <2>2, <2>3, <2>4, BaselineBefore DEF P, count
  <2> QED BY <2>5 DEF i
<1>4. Baseline(h, first, Len(h) + 1) =
        IF count = 0 THEN first ELSE h[NthPromotion(h, count)].champion
  <2>1. \A j \in P : j < Len(h) + 1 /\ Cardinality(UpTo(P, j)) <= count
    <3> SUFFICES ASSUME NEW j \in P
                 PROVE  j < Len(h) + 1 /\ Cardinality(UpTo(P, j)) <= count
      OBVIOUS
    <3>1. j \in 1 .. Len(h) /\ Cardinality(UpTo(P, j)) \in 1 .. count
      BY <1>1, <1>2
    <3> QED BY <1>1, <3>1
  <2>2. Len(h) + 1 \in 1 .. Len(h) + 1 /\ count <= count
    BY <1>1
  <2> QED BY <1>1, <2>1, <2>2, BaselineBefore DEF P, count
<1> QED BY <1>3, <1>4 DEF P, count

(* A record more leaves the baselines so far, and the next is its          *)
(* champion if it was promoted.                                            *)
LEMMA BaselineAppend ==
  ASSUME NEW h \in Seq(Record), NEW first, NEW record \in Record
  PROVE  LET more == Append(h, record)
             last == Len(h) + 1
         IN  /\ \A i \in 1 .. last : Baseline(more, first, i) = Baseline(h, first, i)
             /\ Baseline(more, first, last + 1) =
                  IF record.promoted THEN record.champion ELSE Baseline(h, first, last)
<1> DEFINE more == Append(h, record)
           n == Len(h)
           Before(x, i) == {j \in 1 .. i - 1 : x[j].promoted}
<1>1. /\ n \in Nat
      /\ \A i \in 1 .. n : more[i] = h[i]
      /\ more[n + 1] = record
  BY AppendProperties, LenProperties
<1>2. ASSUME NEW x, NEW i
      PROVE  Baseline(x, first, i) =
               IF Before(x, i) = {} THEN first ELSE x[Max(Before(x, i))].champion
  BY DEF Baseline
<1> HIDE DEF more, n
<1>3. ASSUME NEW i \in 1 .. n + 1
      PROVE  /\ Before(more, i) = Before(h, i)
             /\ Before(h, i) \in SUBSET (1 .. n)
             /\ Before(h, i) # {} => Max(Before(h, i)) \in 1 .. n
  <2>1. /\ Before(more, i) = Before(h, i)
        /\ Before(h, i) \in SUBSET (1 .. n)
    <3>1. \A j \in 1 .. i - 1 : j \in 1 .. n /\ more[j] = h[j]
      BY <1>1
    <3> QED BY <3>1
  <2> HIDE DEF Before
  <2> QED BY <1>1, <2>1, MaxExists
<1>4. \A i \in 1 .. n + 1 : Baseline(more, first, i) = Baseline(h, first, i)
  <2> HIDE DEF Before
  <2> QED BY <1>1, <1>2, <1>3
<1>5. CASE record.promoted
  <2>1. n + 1 \in Before(more, n + 2) /\ Before(more, n + 2) \in SUBSET Int
    BY <1>1, <1>5
  <2>2. \A j \in Before(more, n + 2) : n + 1 >= j
    BY <1>1
  <2> HIDE DEF Before
  <2>3. Max(Before(more, n + 2)) = n + 1
    BY <2>1, <2>2, MaxIs
  <2>4. Baseline(more, first, n + 2) = record.champion
    BY <1>1, <1>2, <2>1, <2>3
  <2>5. n + 1 + 1 = n + 2
    BY <1>1
  <2> QED BY <1>4, <1>5, <2>4, <2>5 DEF more, n
<1>6. CASE ~record.promoted
  <2>1. Before(more, n + 2) = Before(more, n + 1)
    BY <1>1, <1>6
  <2>2. Baseline(more, first, n + 2) = Baseline(more, first, n + 1)
    BY <1>2, <2>1
  <2>3. n + 1 + 1 = n + 2 /\ n + 1 \in 1 .. n + 1
    BY <1>1
  <2> QED BY <1>4, <1>6, <2>2, <2>3 DEF more, n
<1> QED BY <1>5, <1>6
-----------------------------------------------------------------------------
(* Receipts and trajectories.                                              *)

(* A receipt just exported verifies under the exporter's key until it      *)
(* expires, whatever the decision it states.                               *)
LEMMA ExportedVerifies ==
  ASSUME NEW base, NEW candidate, NEW decision, NEW issuedAt \in Nat, NEW at \in Nat
  PROVE  LET r == ExportPromotionReceipt(base, candidate, decision, issuedAt)
         IN  VerifyExportedReceipt(r, {Identity}, at) =
               IF at < r.body.expiresAt THEN "none" ELSE "receipt is expired"
<1> DEFINE r == ExportPromotionReceipt(base, candidate, decision, issuedAt)
           p == r.body
           recomputed == RecomputeStatistics(p.heldOutDeltas, p.baselineScore, p.candidateScore)
<1>1. /\ p.candidateId = ContentIdOf(candidate) /\ p.candidatePolicy = candidate
      /\ p.selectionTaskIds \cap p.promotionHoldoutTaskIds = {}
      /\ p.expiresAt = issuedAt + TtlMs
      /\ r.receiptId = ContentIdOf(p) /\ r.signature.key = Identity
      /\ r.signature.over = <<p, ContentIdOf(p)>>
  BY DEF ExportPromotionReceipt
<1>2. recomputed = p.statistics /\ p.decision = Decision(p.statistics.accepted, p.gates)
  BY DEF ExportPromotionReceipt
<1>3. p.statistics.accepted \in BOOLEAN
  <2>1. recomputed.accepted \in BOOLEAN
    BY DEF RecomputeStatistics
  <2> QED BY <1>2, <2>1
<1> HIDE DEF r, p, recomputed
<1>4. (recomputed.accepted /\ AllPass(p.gates)) = (p.decision = "accepted")
  <2>1. p.decision = IF recomputed.accepted /\ AllPass(p.gates) THEN "accepted" ELSE "rejected"
    BY <1>2 DEF Decision
  <2>2. "accepted" # "rejected"
    OBVIOUS
  <2> QED BY <2>1, <2>2, Zenon
<1>5. p.expiresAt <= at <=> ~(at < p.expiresAt)
  BY <1>1, EvolveAssumption
<1>6. VerifyExportedReceipt(r, {Identity}, at) =
        IF at < p.expiresAt THEN "none" ELSE "receipt is expired"
  BY <1>1, <1>2, <1>4, <1>5 DEF VerifyExportedReceipt, p, recomputed
<1> QED BY <1>6 DEF r, p

(* A packaged trajectory verifies with its frames and with no shorter part *)
(* of them.                                                                *)
LEMMA PackagedVerifies ==
  ASSUME NEW fs \in Seq(Frame), NEW n \in 0 .. Len(fs)
  PROVE  VerifyTrajectory(PackageTrajectory(fs), SubSeq(fs, 1, n)) <=> n = Len(fs)
<1>1. /\ Len(fs) \in Nat /\ Len(SubSeq(fs, 1, n)) = n
      /\ SubSeq(fs, 1, Len(fs)) = fs
      /\ DOMAIN fs = 1 .. Len(fs)
  OBVIOUS
<1>2. Len(PackageTrajectory(fs).entries) = Len(fs)
  BY <1>1 DEF PackageTrajectory
<1>3. CASE n = Len(fs)
  BY <1>1, <1>2, <1>3 DEF VerifyTrajectory, PackageTrajectory
<1>4. CASE n # Len(fs)
  BY <1>1, <1>2, <1>4 DEF VerifyTrajectory
<1> QED BY <1>3, <1>4
-----------------------------------------------------------------------------
(* The invariant of what a run can show.                                   *)

(* Every promotion on record re-derives, and the champion is what a next   *)
(* promotion would have for a baseline.                                    *)
HistoryRederives ==
  /\ \A i \in PromotedIn(history) : Rederived(history, start, i).promote
  /\ champion = Baseline(history, start, Len(history) + 1)

(* There are receipts of this run only, exported before now.               *)
ReceiptsOfRun ==
  /\ phase = "evolving" => receipts = <<>>
  /\ receipts # <<>> =>
       \E t \in 0 .. now : receipts = ExportEvolutionReceipts(history, start, t)

AuditInv == EvolveInv /\ HistoryRederives /\ ReceiptsOfRun

LEMMA GenerationRederives ==
  ASSUME AuditInv, Generation
  PROVE  HistoryRederives'
<1> DEFINE decision == PromoteAuthorized(Evaluate(best[1]), Evaluate(champion), TRUE, TRUE)
           record == [generation |-> Len(history) + 1, champion |-> champion',
                      promoted |-> decision.promote]
           n == Len(history)
<1>1. EvolveInv' /\ EvolveInv
  BY GenerationKeeps DEF AuditInv
<1>2. /\ history \in Seq(Record) /\ history' \in Seq(Record) /\ champion' \in EvolvableParams
      /\ n \in Nat
  BY <1>1, LenProperties DEF EvolveInv, RunTyped
<1>3. /\ history' = Append(history, record) /\ start' = start
      /\ champion' = (IF decision.promote THEN best[1] ELSE champion)
  BY DEF Generation
<1>4. record \in Record /\ record.promoted = decision.promote /\ record.champion = champion'
  <2>1. decision.promote \in BOOLEAN /\ n + 1 \in Nat
    BY <1>2 DEF PromoteAuthorized
  <2> HIDE DEF decision
  <2> QED BY <1>2, <2>1 DEF Record
<1>5. /\ \A i \in PromotedIn(history) : Rederived(history, start, i).promote
      /\ champion = Baseline(history, start, n + 1)
  BY DEF AuditInv, HistoryRederives
<1> HIDE DEF record, n
<1>6. /\ \A i \in 1 .. n + 1 : Baseline(history', start, i) = Baseline(history, start, i)
      /\ Baseline(history', start, n + 2) =
           IF record.promoted THEN record.champion ELSE Baseline(history, start, n + 1)
  <2>1. n + 1 + 1 = n + 2
    BY <1>2
  <2>2. /\ \A i \in 1 .. n + 1 :
             Baseline(Append(history, record), start, i) = Baseline(history, start, i)
        /\ Baseline(Append(history, record), start, n + 1 + 1) =
             IF record.promoted THEN record.champion ELSE Baseline(history, start, n + 1)
    BY <1>2, <1>4, BaselineAppend DEF n
  <2> QED BY <1>3, <2>1, <2>2
<1>7. /\ Len(history') = n + 1 /\ history'[n + 1] = record
      /\ \A i \in 1 .. n : history'[i] = history[i]
      /\ DOMAIN history' = 1 .. n + 1 /\ DOMAIN history = 1 .. n
  BY <1>2, <1>3, <1>4, AppendProperties, LenProperties DEF n
<1>8. ASSUME NEW i \in PromotedIn(history')
      PROVE  Rederived(history', start', i).promote
  <2>1. CASE i \in 1 .. n
    <3>1. i \in PromotedIn(history) /\ i \in 1 .. n + 1
      BY <1>2, <1>7, <2>1 DEF PromotedIn
    <3>2. Rederived(history', start', i) = Rederived(history, start, i)
      BY <1>3, <1>6, <1>7, <2>1, <3>1 DEF Rederived
    <3> QED BY <1>5, <3>1, <3>2
  <2>2. CASE i = n + 1
    <3>1. decision.promote
      BY <1>4, <1>7, <2>2 DEF PromotedIn
    <3>2. history'[i].champion = best[1] /\ Baseline(history', start', i) = champion
      <4>1. n + 1 \in 1 .. n + 1
        BY <1>2
      <4> QED BY <1>3, <1>4, <1>5, <1>6, <1>7, <2>2, <3>1, <4>1
    <3> QED BY <3>1, <3>2 DEF Rederived
  <2> QED BY <1>2, <1>7, <2>1, <2>2 DEF PromotedIn
<1>9. champion' = Baseline(history', start', Len(history') + 1)
  <2>1. n + 1 + 1 = n + 2
    BY <1>2
  <2> QED BY <1>3, <1>4, <1>5, <1>6, <1>7, <2>1
<1> QED BY <1>8, <1>9 DEF HistoryRederives

LEMMA AuditNext == AuditInv /\ [Next]_vars => AuditInv'
<1> SUFFICES ASSUME AuditInv, [Next]_vars PROVE AuditInv'
  OBVIOUS
<1>1. EvolveInv /\ EvolveInv' /\ HistoryRederives /\ ReceiptsOfRun
  BY EvolveNext DEF AuditInv
<1>2. now \in Nat /\ history \in Seq(Record)
  BY <1>1, BoundAssumption DEF EvolveInv, TurnTyped, RunTyped
<1>3. ASSUME UNCHANGED <<start, champion, history>>
      PROVE  HistoryRederives'
  BY <1>1, <1>3 DEF HistoryRederives
<1>4. ASSUME UNCHANGED <<start, history, receipts, now>>, phase' = "evolving" => phase = "evolving"
      PROVE  ReceiptsOfRun'
  BY <1>1, <1>4 DEF ReceiptsOfRun
<1>5. CASE StartTurn
  <2>1. history' = <<>> /\ champion' = start' /\ receipts' = <<>>
    BY <1>5 DEF StartTurn
  <2>2. PromotedIn(<<>>) = {} /\ Len(<<>>) + 1 = 1
    BY DEF PromotedIn
  <2>3. Baseline(<<>>, start', 1) = start'
    BY DEF Baseline
  <2>4. HistoryRederives'
    BY <2>1, <2>2, <2>3 DEF HistoryRederives
  <2>5. ReceiptsOfRun'
    BY <2>1 DEF ReceiptsOfRun
  <2> QED BY <1>1, <2>4, <2>5 DEF AuditInv
<1>6. CASE Try
  BY <1>1, <1>3, <1>4, <1>6 DEF AuditInv, Try
<1>7. CASE Generation
  <2>1. ReceiptsOfRun'
    BY <1>1, <1>7 DEF ReceiptsOfRun, Generation
  <2> QED BY <1>1, <1>7, <2>1, GenerationRederives DEF AuditInv
<1>8. CASE Evolved \/ WriteChampion \/ WriteLedger \/ Crash
  <2>1. UNCHANGED <<start, champion, history, receipts, now>> /\ phase' # "evolving"
    BY <1>8 DEF Evolved, WriteChampion, WriteLedger, Crash, run
  <2> QED BY <1>1, <1>3, <1>4, <2>1 DEF AuditInv
<1>9. CASE Export
  <2>1. /\ UNCHANGED <<start, champion, history, now>> /\ phase' = "evolved"
        /\ receipts' = ExportEvolutionReceipts(history, start, now)
    BY <1>9 DEF Export
  <2>2. now \in 0 .. now
    BY <1>2
  <2>3. ReceiptsOfRun'
    BY <2>1, <2>2 DEF ReceiptsOfRun
  <2> QED BY <1>1, <1>3, <2>1, <2>3 DEF AuditInv
<1>10. CASE Tick
  <2>1. UNCHANGED <<start, champion, history, receipts, phase>> /\ now' = now + 1
    BY <1>10 DEF Tick, run
  <2>2. \A t \in 0 .. now : t \in 0 .. now'
    BY <1>2, <2>1
  <2>3. ReceiptsOfRun'
    BY <1>1, <2>1, <2>2 DEF ReceiptsOfRun
  <2> QED BY <1>1, <1>3, <2>1, <2>3 DEF AuditInv
<1>11. CASE UNCHANGED vars
  BY <1>1, <1>3, <1>4, <1>11 DEF AuditInv, vars
<1> QED BY <1>5, <1>6, <1>7, <1>8, <1>9, <1>10, <1>11 DEF Next

LEMMA AuditInvariance == Spec => []AuditInv
<1>1. Init => AuditInv
  <2> SUFFICES ASSUME Init PROVE HistoryRederives /\ ReceiptsOfRun
    BY EvolveInit DEF AuditInv
  <2>1. PromotedIn(<<>>) = {} /\ Len(<<>>) + 1 = 1
    BY DEF PromotedIn
  <2>2. Baseline(<<>>, Start, 1) = Start
    BY DEF Baseline
  <2> QED BY <2>1, <2>2 DEF Init, HistoryRederives, ReceiptsOfRun
<1> QED BY <1>1, AuditNext, PTL DEF Spec

(* What the receipts of a run are.                                         *)
LEMMA ReceiptsAre ==
  ASSUME AuditInv, receipts # <<>>
  PROVE  \E t \in Nat :
           LET receipt(n) ==
                 ExportPromotionReceipt(Baseline(history, start, NthPromotion(history, n)),
                                        history[NthPromotion(history, n)].champion,
                                        Rederived(history, start, NthPromotion(history, n)), t)
           IN  receipts = [n \in 1 .. Cardinality(PromotedIn(history)) |-> receipt(n)]
<1>1. PICK t \in 0 .. now : receipts = ExportEvolutionReceipts(history, start, t)
  BY DEF AuditInv, ReceiptsOfRun
<1>2. t \in Nat
  BY <1>1 DEF AuditInv, EvolveInv, TurnTyped
<1>3. ~ \E i \in PromotedIn(history) : ~Rederived(history, start, i).promote
  BY DEF AuditInv, HistoryRederives
<1> QED BY <1>1, <1>2, <1>3 DEF ExportEvolutionReceipts

(* There is a receipt for each promotion, from the champion before it to   *)
(* its own, and it verifies until it expires.                              *)
LEMMA ReceiptOfPromotion ==
  ASSUME AuditInv, receipts # <<>>
  PROVE  /\ receipts \in Seq(ToSet(receipts)) /\ Len(receipts) = Promotions
         /\ \A n \in 1 .. Promotions :
              LET i == NthPromotion(history, n)
              IN  /\ receipts[n].body.candidateId = ContentIdOf(history[i].champion)
                  /\ receipts[n].body.baselineRef = ContentIdOf(Baseline(history, start, i))
                  /\ VerifyExportedReceipt(receipts[n], {Identity}, now) =
                       IF now < receipts[n].body.expiresAt
                       THEN "none" ELSE "receipt is expired"
<1> DEFINE receipt(n, t) ==
             ExportPromotionReceipt(Baseline(history, start, NthPromotion(history, n)),
                                    history[NthPromotion(history, n)].champion,
                                    Rederived(history, start, NthPromotion(history, n)), t)
<1>1. PICK t \in Nat : receipts = [n \in 1 .. Promotions |-> receipt(n, t)]
  BY ReceiptsAre DEF Promotions
<1>2. now \in Nat /\ Promotions \in Nat
  <2>1. history \in Seq(Record) /\ now \in 0 .. MaxTime
    BY DEF AuditInv, EvolveInv, RunTyped, TurnTyped
  <2> QED BY <2>1, PromotedPositions DEF Promotions
<1>3. ASSUME NEW n \in 1 .. Promotions
      PROVE  LET i == NthPromotion(history, n)
             IN  /\ receipts[n].body.candidateId = ContentIdOf(history[i].champion)
                 /\ receipts[n].body.baselineRef = ContentIdOf(Baseline(history, start, i))
                 /\ VerifyExportedReceipt(receipts[n], {Identity}, now) =
                      IF now < receipts[n].body.expiresAt THEN "none" ELSE "receipt is expired"
  <2> DEFINE i == NthPromotion(history, n)
  <2>1. receipts[n] = ExportPromotionReceipt(Baseline(history, start, i), history[i].champion,
                                             Rederived(history, start, i), t)
    BY <1>1
  <2> HIDE DEF i
  <2>2. /\ receipts[n].body.candidateId = ContentIdOf(history[i].champion)
        /\ receipts[n].body.baselineRef = ContentIdOf(Baseline(history, start, i))
        /\ VerifyExportedReceipt(receipts[n], {Identity}, now) =
             IF now < receipts[n].body.expiresAt THEN "none" ELSE "receipt is expired"
    <3> DEFINE base == Baseline(history, start, i)
               candidate == history[i].champion
               decision == Rederived(history, start, i)
               r == ExportPromotionReceipt(base, candidate, decision, t)
    <3>1. t \in Nat /\ now \in Nat
      BY <1>1, <1>2
    <3> HIDE DEF base, candidate, decision
    <3>2. VerifyExportedReceipt(r, {Identity}, now) =
            IF now < r.body.expiresAt THEN "none" ELSE "receipt is expired"
      BY <3>1, ExportedVerifies, Zenon
    <3>3. r.body.candidateId = ContentIdOf(candidate) /\ r.body.baselineRef = ContentIdOf(base)
      BY DEF ExportPromotionReceipt
    <3>4. receipts[n] = r
      BY <2>1 DEF base, candidate, decision
    <3> HIDE DEF r
    <3> QED BY <3>2, <3>3, <3>4 DEF base, candidate
  <2> QED BY <2>2 DEF i
<1>4. receipts \in Seq(ToSet(receipts)) /\ Len(receipts) = Promotions
  <2>1. DOMAIN receipts = 1 .. Promotions /\ \A n \in 1 .. Promotions : receipts[n] \in ToSet(receipts)
    BY <1>1 DEF ToSet
  <2>2. receipts = [n \in 1 .. Promotions |-> receipts[n]]
    BY <1>1
  <2> HIDE DEF receipt
  <2> QED BY <1>2, <2>1, <2>2
<1> QED BY <1>3, <1>4

(* What a run leaves can be audited, whatever its jitters and however many *)
(* its generations: its ledger verifies with its frames and no part of     *)
(* them, its receipts until they expire.                                   *)
THEOREM RunAudited == Spec => []RunIsAuditable
<1>1. AuditInv => RunIsAuditable
  <2> SUFFICES ASSUME AuditInv PROVE RunIsAuditable
    OBVIOUS
  <2>1. frames \in Seq(Frame)
    BY DEF AuditInv, EvolveInv, RunTyped
  <2>2. \A n \in 0 .. Len(frames) :
          VerifyTrajectory(PackageTrajectory(frames), SubSeq(frames, 1, n)) <=> n = Len(frames)
    BY <2>1, PackagedVerifies
  <2>3. ASSUME NEW r \in ToSet(receipts)
        PROVE  VerifyExportedReceipt(r, {Identity}, now) =
                 IF now < r.body.expiresAt THEN "none" ELSE "receipt is expired"
    <3>1. PICK n \in DOMAIN receipts : r = receipts[n]
      BY DEF ToSet
    <3>2. receipts # <<>>
      BY <3>1
    <3>3. n \in 1 .. Promotions
      BY <3>1, <3>2, ReceiptOfPromotion, LenProperties
    <3> QED BY <3>1, <3>2, <3>3, ReceiptOfPromotion
  <2> QED BY <2>2, <2>3 DEF RunIsAuditable
<1> QED BY <1>1, AuditInvariance, PTL

(* The receipts of a run lead from its start to its champion, one per      *)
(* promotion, for any number of promotions.                                *)
THEOREM ReceiptsLinked == Spec => []ReceiptsChain
<1>1. AuditInv => ReceiptsChain
  <2> SUFFICES ASSUME AuditInv, receipts # <<>>
               PROVE  /\ Len(receipts) = Promotions
                      /\ receipts[1].body.baselineRef = ContentIdOf(start)
                      /\ \A i \in 2 .. Len(receipts) :
                           receipts[i].body.baselineRef = receipts[i - 1].body.candidateId
                      /\ receipts[Len(receipts)].body.candidateId = ContentIdOf(champion)
    BY DEF ReceiptsChain
  <2>1. history \in Seq(Record) /\ champion = Baseline(history, start, Len(history) + 1)
    BY DEF AuditInv, EvolveInv, RunTyped, HistoryRederives
  <2>2. /\ \A n \in 1 .. Promotions :
             Baseline(history, start, NthPromotion(history, n)) =
               IF n = 1 THEN start ELSE history[NthPromotion(history, n - 1)].champion
        /\ champion = IF Promotions = 0 THEN start
                      ELSE history[NthPromotion(history, Promotions)].champion
    BY <2>1, BaselinesChain DEF Promotions
  <2>3. Len(receipts) = Promotions /\ Promotions \in Nat \ {0}
    BY <2>1, ReceiptOfPromotion, LenProperties, EmptySeq, PromotedPositions DEF Promotions
  <2>4. \A n \in 1 .. Promotions :
          /\ receipts[n].body.candidateId = ContentIdOf(history[NthPromotion(history, n)].champion)
          /\ receipts[n].body.baselineRef =
               ContentIdOf(Baseline(history, start, NthPromotion(history, n)))
    BY ReceiptOfPromotion
  <2>5. 1 \in 1 .. Promotions /\ Promotions \in 1 .. Promotions /\ Promotions # 0
    BY <2>3
  <2>6. ASSUME NEW i \in 2 .. Promotions
        PROVE  receipts[i].body.baselineRef = receipts[i - 1].body.candidateId
    <3>1. i \in 1 .. Promotions /\ i - 1 \in 1 .. Promotions /\ i # 1
      BY <2>3
    <3> QED BY <2>2, <2>4, <3>1
  <2> QED BY <2>2, <2>3, <2>4, <2>5, <2>6
<1> QED BY <1>1, AuditInvariance, PTL
=============================================================================
