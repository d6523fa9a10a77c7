------------------------ MODULE CognitumSpaces_proofs ------------------------
(***************************************************************************)
(* Proofs about CognitumSpaces: what comes back through the service is no  *)
(* evidence of its own, and keeps the label it was given.                  *)
(*                                                                         *)
(* The invariant adds to the properties what the service and the request   *)
(* in flight hold: only what was sensed, with its window and its label.    *)
(***************************************************************************)
EXTENDS CognitumSpaces, TLAPS

Recalls(e) ==
  /\ e.event \in DOMAIN sensed
  /\ e.observedAt = sensed[e.event].issuedAt
  /\ e.expiresAt = sensed[e.event].expiresAt
  /\ e.privacy = Label(sensed[e.event].privacy)

InWindow(w) ==
  /\ w.event \in DOMAIN sensed
  /\ w.admittedAt \in Start .. now /\ w.expiresAt \in Int
  /\ sensed[w.event].issuedAt <= w.admittedAt + ClockSkew
  /\ w.admittedAt < sensed[w.event].expiresAt
  /\ w.expiresAt <= sensed[w.event].expiresAt

Labelled(w) ==
  /\ w.privacy \in PrivacyClasses
  /\ PrivacyOrder[sensed[w.event].privacy] <= PrivacyOrder[w.privacy]

FirstHand(a) ==
  /\ a.event \in DOMAIN sensed
  /\ a.at \in Start .. now
  /\ a.at = sensed[a.event].at
  /\ sensed[a.event].confidence >= High

SpacesInv ==
  /\ now \in Start .. End
  /\ sensed \in Seq(Reading)
  /\ \A e \in bridged : Recalls(e)
  /\ call.phase \in {"stream", "text"} => call.items \subseteq bridged
  /\ \A w \in world : InWindow(w) /\ Labelled(w)
  /\ \A a \in acted : FirstHand(a)

(* An observation of what was sensed: no later than it, no lower than it,  *)
(* and marked as derived unless it is the reading itself.                  *)
Faithful(o, s, t) ==
  /\ o.event \in DOMAIN s
  /\ o.expiresAt \in Int
  /\ o.issuedAt = s[o.event].issuedAt \/ o.issuedAt = 0
  /\ o.expiresAt <= s[o.event].expiresAt \/ o.expiresAt = 0
  /\ o.privacy \in PrivacyClasses
  /\ PrivacyOrder[s[o.event].privacy] <= PrivacyOrder[o.privacy]
  /\ ConfidenceTier(o) = "authorized-workflow" =>
       t = s[o.event].at /\ s[o.event].confidence >= High

-----------------------------------------------------------------------------
(* What an envelope or a resource of the service is mapped to is faithful. *)
LEMMA MappedIsFaithful ==
  ASSUME SpacesInv, NEW e \in bridged
  PROVE  /\ Faithful(EnvelopeToObservation(e), sensed, now)
         /\ Faithful(ResourceToObservation(e), sensed, now)
<1>1. e.event \in DOMAIN sensed /\ sensed[e.event] \in Reading /\ Recalls(e)
  BY DEF SpacesInv, Recalls
<1> DEFINE o == EnvelopeToObservation(e)
           r == ResourceToObservation(e)
<1>2. /\ o.event = e.event /\ r.event = e.event
      /\ o.privacy = PrivacyOf(e.privacy) /\ r.privacy = PrivacyOf(e.privacy)
      /\ o.expiresAt = (IF e.lost = "expiresAt" THEN 0 ELSE e.expiresAt)
      /\ r.expiresAt = (IF e.lost = "expiresAt" THEN 0 ELSE e.expiresAt)
      /\ o.issuedAt = (IF e.lost = "observedAt" THEN 0 ELSE e.observedAt)
      /\ r.issuedAt = (IF e.lost = "observedAt" THEN 0 ELSE e.observedAt)
  BY DEF EnvelopeToObservation, ResourceToObservation
<1>3. o.lineage = <<[derived |-> TRUE, provenance |-> e.lost # "provenance"]>>
      /\ r.lineage = <<[derived |-> TRUE, provenance |-> e.lost # "provenance"]>>
  BY DEF EnvelopeToObservation, ResourceToObservation
<1>4. ASSUME NEW x,
             x.lineage = <<[derived |-> TRUE, provenance |-> e.lost # "provenance"]>>
      PROVE  ConfidenceTier(x) = "update-world-model"
  <2>1. 1 \in DOMAIN x.lineage /\ x.lineage[1].derived
    BY <1>4
  <2> QED BY <2>1 DEF ConfidenceTier
<1>5. ConfidenceTier(o) = "update-world-model" /\ ConfidenceTier(r) = "update-world-model"
  BY <1>3, <1>4
<1>6. /\ PrivacyOf(e.privacy) \in PrivacyClasses
      /\ PrivacyOrder[sensed[e.event].privacy] <= PrivacyOrder[PrivacyOf(e.privacy)]
  BY <1>1 DEF Recalls, Label, PrivacyOf, PrivacyClasses, PrivacyOrder, Reading
<1>7. o.expiresAt \in Int /\ r.expiresAt \in Int
      /\ (o.issuedAt = sensed[e.event].issuedAt \/ o.issuedAt = 0)
      /\ (r.issuedAt = sensed[e.event].issuedAt \/ r.issuedAt = 0)
      /\ (o.expiresAt <= sensed[e.event].expiresAt \/ o.expiresAt = 0)
      /\ (r.expiresAt <= sensed[e.event].expiresAt \/ r.expiresAt = 0)
  BY <1>1, <1>2 DEF Recalls, Reading
<1> HIDE DEF o, r
<1>8. Faithful(o, sensed, now)
  BY <1>1, <1>2, <1>5, <1>6, <1>7 DEF Faithful
<1>9. Faithful(r, sensed, now)
  BY <1>1, <1>2, <1>5, <1>6, <1>7 DEF Faithful
<1> QED BY <1>8, <1>9 DEF o, r

(* Admitting faithful observations keeps the evidence in its windows and   *)
(* under its labels, and acts on first hand only.                          *)
LEMMA ObserveKeeps ==
  ASSUME SpacesInv, NEW observations, Observe(observations),
         sensed' \in Seq(Reading), now' = now,
         \A i \in DOMAIN sensed : i \in DOMAIN sensed' /\ sensed'[i] = sensed[i],
         \A o \in observations : Faithful(o, sensed', now)
  PROVE  /\ \A w \in world' : InWindow(w)' /\ Labelled(w)'
         /\ \A a \in acted' : FirstHand(a)'
<1>1. ASSUME NEW w \in world' PROVE InWindow(w)' /\ Labelled(w)'
  <2>1. CASE w \in world
    BY <2>1 DEF SpacesInv, InWindow, Labelled
  <2>2. CASE w \notin world
    <3>1. PICK o \in observations :
            /\ Admissible(o, now, Floor)
            /\ w = [event |-> o.event, privacy |-> o.privacy, admittedAt |-> now,
                    expiresAt |-> o.expiresAt]
      BY <2>2 DEF Observe
    <3>2. Faithful(o, sensed', now) /\ o.expiresAt \in Int
          /\ sensed'[o.event] \in Reading /\ sensed'[o.event].expiresAt \in Int
      <4>1. Faithful(o, sensed', now) /\ o.expiresAt \in Int /\ o.event \in DOMAIN sensed'
        BY DEF Faithful
      <4>2. sensed'[o.event] \in Reading
        BY <4>1
      <4> QED BY <4>1, <4>2 DEF Reading
    <3>3. /\ now \in Start .. End /\ now < o.expiresAt
          /\ o.issuedAt <= now + ClockSkew /\ o.expiresAt - o.issuedAt <= MaxTtl
      BY <3>1 DEF SpacesInv, Admissible
    <3>4. /\ w.event = o.event /\ w.privacy = o.privacy /\ w.admittedAt = now
          /\ w.expiresAt = o.expiresAt
      BY <3>1
    <3>5. now < sensed'[o.event].expiresAt /\ o.expiresAt <= sensed'[o.event].expiresAt
      <4>1. now \in Nat
        BY <3>3, SpacesAssumption
      <4>2. o.expiresAt <= sensed'[o.event].expiresAt \/ o.expiresAt = 0
        BY <3>2 DEF Faithful
      <4> QED BY <3>2, <3>3, <4>1, <4>2
    <3>6. o.issuedAt # 0
      BY <3>2, <3>3, SpacesAssumption, ObservationAssumption DEF Faithful
    <3>7. sensed'[o.event].issuedAt <= now + ClockSkew
      BY <3>2, <3>3, <3>6 DEF Faithful
    <3>8. now' \in Start .. now'
      BY <3>3, SpacesAssumption
    <3> QED BY <3>2, <3>4, <3>5, <3>7, <3>8 DEF Faithful, InWindow, Labelled
  <2> QED BY <2>1, <2>2
<1>2. ASSUME NEW a \in acted' PROVE FirstHand(a)'
  <2>1. CASE a \in acted
    BY <2>1 DEF SpacesInv, FirstHand
  <2>2. CASE a \notin acted
    <3>1. PICK o \in observations :
            /\ ConfidenceTier(o) = "authorized-workflow"
            /\ a = [event |-> o.event, at |-> now]
      BY <2>2 DEF Observe
    <3>2. now' \in Start .. now'
      BY SpacesAssumption DEF SpacesInv
    <3> QED BY <3>1, <3>2 DEF Faithful, FirstHand
  <2> QED BY <2>1, <2>2
<1> QED BY <1>1, <1>2

(* A step that leaves the readings and what they led to alone.             *)
LEMMA QuietKeeps ==
  ASSUME SpacesInv, UNCHANGED <<sensed, bridged, world, acted>>,
         now' \in Start .. End, now <= now',
         (call.phase \in {"stream", "text"} => call.items \subseteq bridged)'
  PROVE  SpacesInv'
BY DEF SpacesInv, Recalls, InWindow, Labelled, FirstHand

LEMMA SpacesInit == Init => SpacesInv
BY SpacesAssumption DEF Init, SpacesInv, Idle, Reading

-----------------------------------------------------------------------------
LEMMA SenseKeeps ==
  ASSUME SpacesInv, NEW c \in Confidences, NEW p \in Labels, NEW ttl \in Ttls,
         NEW ahead \in 0 .. ClockSkew + 1, NEW calibrated, NEW health,
         Sense(c, p, ttl, ahead, calibrated, health)
  PROVE  SpacesInv'
<1> DEFINE reading == [confidence |-> c, privacy |-> p, issuedAt |-> now + ahead,
                       expiresAt |-> now + ahead + ttl, at |-> now]
           seen == [event |-> Len(sensed'), source |-> TRUE, location |-> TRUE,
                    confidence |-> c, privacy |-> p, calibrated |-> calibrated,
                    health |-> health, issuedAt |-> now + ahead,
                    expiresAt |-> now + ahead + ttl, lineage |-> <<>>]
<1>1. sensed' = Append(sensed, reading) /\ Observe({seen})
      /\ UNCHANGED <<now, bridged, call>>
  BY DEF Sense
<1>2. /\ c \in Int /\ p \in PrivacyClasses /\ ttl \in Int /\ ahead \in Int
      /\ now \in Start .. End
  BY SpacesAssumption, ObservationAssumption DEF SpacesInv
<1>3. reading \in Reading
  BY <1>2 DEF Reading
<1>4. sensed' \in Seq(Reading) /\ Len(sensed') = Len(sensed) + 1
      /\ sensed'[Len(sensed')] = reading
      /\ \A i \in DOMAIN sensed : i \in DOMAIN sensed' /\ sensed'[i] = sensed[i]
  <2> HIDE DEF reading
  <2> QED BY <1>1, <1>3 DEF SpacesInv
<1>5. Len(sensed') \in DOMAIN sensed'
  <2> HIDE DEF reading
  <2> QED BY <1>4 DEF SpacesInv
<1>6. ConfidenceTier(seen) = "authorized-workflow" => c >= High
  <2>1. DOMAIN seen.lineage = {}
    OBVIOUS
  <2>2. ConfidenceTier(seen) = TierByConfidence(seen) /\ seen.confidence = c
    BY <2>1 DEF ConfidenceTier
  <2> QED BY <1>2, <2>2, ObservationAssumption DEF TierByConfidence
<1>7. PrivacyOrder[p] <= PrivacyOrder[p]
  BY <1>2 DEF PrivacyClasses, PrivacyOrder
<1>8. Faithful(seen, sensed', now)
  <2>1. /\ seen.event = Len(sensed') /\ seen.expiresAt = now + ahead + ttl
        /\ seen.issuedAt = now + ahead
        /\ seen.privacy = p
    OBVIOUS
  <2>2. /\ sensed'[seen.event].expiresAt = now + ahead + ttl
        /\ sensed'[seen.event].issuedAt = now + ahead
        /\ sensed'[seen.event].privacy = p /\ sensed'[seen.event].at = now
        /\ sensed'[seen.event].confidence = c
    BY <1>4, <2>1
  <2>3. now + ahead + ttl \in Int
    BY <1>2
  <2> HIDE DEF seen
  <2> QED BY <1>2, <1>5, <1>6, <1>7, <2>1, <2>2, <2>3 DEF Faithful
<1> HIDE DEF seen, reading
<1>9. /\ \A w \in world' : InWindow(w)' /\ Labelled(w)'
      /\ \A a \in acted' : FirstHand(a)'
  BY <1>1, <1>4, <1>8, ObserveKeeps
<1>10. \A e \in bridged' : Recalls(e)'
  BY <1>1, <1>4 DEF SpacesInv, Recalls
<1> QED BY <1>1, <1>2, <1>4, <1>9, <1>10 DEF SpacesInv

LEMMA BridgeKeeps ==
  ASSUME SpacesInv, NEW i \in DOMAIN sensed, NEW lost, Bridge(i, lost)
  PROVE  SpacesInv'
<1>1. \A e \in bridged' : Recalls(e)'
  BY DEF SpacesInv, Bridge, Recalls
<1>2. bridged \subseteq bridged' /\ UNCHANGED <<now, sensed, call, world, acted>>
  BY DEF Bridge
<1> QED BY <1>1, <1>2 DEF SpacesInv, InWindow, Labelled, FirstHand

(* Observations of what the service keeps, by either way.                  *)
LEMMA RecollectionKeeps ==
  ASSUME SpacesInv, NEW observations, Observe(observations),
         \A o \in observations : Faithful(o, sensed, now),
         UNCHANGED <<now, sensed, bridged>>,
         (call.phase \in {"stream", "text"} => call.items \subseteq bridged)'
  PROVE  SpacesInv'
<1>1. sensed' \in Seq(Reading)
      /\ \A i \in DOMAIN sensed : i \in DOMAIN sensed' /\ sensed'[i] = sensed[i]
      /\ \A o \in observations : Faithful(o, sensed', now)
  BY DEF SpacesInv
<1>2. /\ \A w \in world' : InWindow(w)' /\ Labelled(w)'
      /\ \A a \in acted' : FirstHand(a)'
  BY <1>1, ObserveKeeps
<1>3. \A e \in bridged' : Recalls(e)'
  BY DEF SpacesInv, Recalls
<1> QED BY <1>1, <1>2, <1>3 DEF SpacesInv

LEMMA DeliverKeeps ==
  ASSUME SpacesInv, NEW e \in bridged, DeliverEnvelope(e)
  PROVE  SpacesInv'
<1>1. \A o \in {EnvelopeToObservation(e)} : Faithful(o, sensed, now)
  BY MappedIsFaithful
<1>2. Observe({EnvelopeToObservation(e)}) /\ UNCHANGED <<now, sensed, bridged, call>>
  BY DEF DeliverEnvelope
<1>3. (call.phase \in {"stream", "text"} => call.items \subseteq bridged)'
  BY <1>2 DEF SpacesInv
<1> QED BY <1>1, <1>2, <1>3, RecollectionKeeps

LEMMA ThrowKeeps ==
  ASSUME SpacesInv, Throw
  PROVE  SpacesInv'
BY QuietKeeps DEF SpacesInv, Throw, Idle

LEMMA SendKeeps ==
  ASSUME SpacesInv, NEW kind, NEW credentials, Send(kind, credentials)
  PROVE  SpacesInv'
BY QuietKeeps DEF SpacesInv, Send

LEMMA HeadersKeeps ==
  ASSUME SpacesInv, NEW items \in SUBSET bridged, NEW defect, NEW phase \in {"stream", "text"},
         Headers(items, defect, phase)
  PROVE  SpacesInv'
BY QuietKeeps, ThrowKeeps DEF SpacesInv, Headers

LEMMA ReadKeeps ==
  ASSUME SpacesInv, NEW size, ReadChunk(size) \/ ReadText(size)
  PROVE  SpacesInv'
<1>1. CASE Throw
  BY <1>1, ThrowKeeps
<1>2. CASE ~Throw
  <2>1. Buffer(size)
    BY <1>2 DEF ReadChunk, ReadText
  <2>2. call'.phase = call.phase /\ (call.phase \in {"stream", "text"} => call'.items = call.items)
    BY <2>1 DEF Buffer
  <2> QED BY <2>1, <2>2, QuietKeeps DEF Buffer, SpacesInv
<1> QED BY <1>1, <1>2

LEMMA ReturnKeeps ==
  ASSUME SpacesInv, Return
  PROVE  SpacesInv'
<1>1. CASE Unacceptable
  BY <1>1, ThrowKeeps DEF Return
<1>2. CASE ~Unacceptable
  <2>1. /\ call' = Idle /\ UNCHANGED <<now, sensed, bridged>>
        /\ call.phase \in {"stream", "text"}
    BY <1>2 DEF Return
  <2>2. (call.phase \in {"stream", "text"} => call.items \subseteq bridged)'
    BY <2>1 DEF Idle
  <2>3. CASE call.kind = "twins"
    <3>1. UNCHANGED <<world, acted>>
      BY <1>2, <2>3 DEF Return
    <3> QED BY <2>1, <2>2, <3>1, QuietKeeps DEF SpacesInv
  <2>4. CASE call.kind # "twins"
    <3>1. Observe({ResourceToObservation(r) : r \in call.items})
      BY <1>2, <2>4 DEF Return
    <3>2. \A o \in {ResourceToObservation(r) : r \in call.items} : Faithful(o, sensed, now)
      BY <2>1, MappedIsFaithful DEF SpacesInv
    <3> QED BY <2>1, <2>2, <3>1, <3>2, RecollectionKeeps
  <2> QED BY <2>3, <2>4
<1> QED BY <1>1, <1>2

LEMMA SpacesNext == SpacesInv /\ [Next]_vars => SpacesInv'
<1> SUFFICES ASSUME SpacesInv, [Next]_vars PROVE SpacesInv'
  OBVIOUS
<1>1. ASSUME NEW c \in Confidences, NEW p \in Labels, NEW ttl \in Ttls,
             NEW ahead \in 0 .. ClockSkew + 1, NEW calibrated \in BOOLEAN,
             NEW health \in {Unknown, Unit},
             Sense(c, p, ttl, ahead, calibrated, health)
      PROVE  SpacesInv'
  BY <1>1, SenseKeeps
<1>2. ASSUME NEW i \in DOMAIN sensed, NEW lost \in Lost, Bridge(i, lost)
      PROVE  SpacesInv'
  BY <1>2, BridgeKeeps
<1>3. ASSUME NEW e \in bridged, DeliverEnvelope(e) PROVE SpacesInv'
  BY <1>3, DeliverKeeps
<1>4. ASSUME NEW credentials, ListSpacesResult(credentials) PROVE SpacesInv'
  BY <1>4, SendKeeps DEF ListSpacesResult
<1>5. ASSUME NEW kind, NEW credentials, NEW w, ListSpatial(kind, credentials, w)
      PROVE  SpacesInv'
  BY <1>5, SendKeeps DEF ListSpatial
<1>6. CASE Abort \/ Disconnect \/ ErrorRead
  BY <1>6, ThrowKeeps DEF Abort, Disconnect, ErrorRead
<1>7. ASSUME NEW items \in SUBSET bridged, NEW defect \in Defects,
             NEW phase \in {"stream", "text"}, Headers(items, defect, phase)
      PROVE  SpacesInv'
  BY <1>7, HeadersKeeps
<1>8. ASSUME NEW size \in ChunkSizes, ReadChunk(size) \/ ReadText(size) PROVE SpacesInv'
  BY <1>8, ReadKeeps
<1>9. CASE Return
  BY <1>9, ReturnKeeps
<1>10. CASE Tick
  <2>1. now' \in Start .. End /\ now <= now'
    BY <1>10, SpacesAssumption DEF Tick, SpacesInv
  <2> QED BY <1>10, <2>1, QuietKeeps DEF Tick, SpacesInv
<1>11. CASE UNCHANGED vars
  BY <1>11, QuietKeeps DEF vars, SpacesInv
<1> QED BY <1>1, <1>2, <1>3, <1>4, <1>5, <1>6, <1>7, <1>8, <1>9, <1>10, <1>11 DEF Next

LEMMA Invariance == Spec => []SpacesInv
BY SpacesInit, SpacesNext, PTL DEF Spec

-----------------------------------------------------------------------------
(* A recollection is not evidence of its own, whatever the service loses,  *)
(* delays or repeats, and whatever the windows and thresholds are.         *)
THEOREM RecollectionIsNotEvidence == Spec => []MemoryIsNotEvidence
<1>1. SpacesInv => MemoryIsNotEvidence
  BY DEF SpacesInv, InWindow, FirstHand, MemoryIsNotEvidence
<1> QED BY <1>1, Invariance, PTL

(* What a sensor labelled is not disclosed under a lower ceiling, nor is   *)
(* anything that came back of it.                                          *)
THEOREM LabelsAreKept == Spec => []LabelsHold
<1>1. SpacesInv => LabelsHold
  <2> SUFFICES ASSUME SpacesInv, NEW ceiling \in PrivacyClasses
               PROVE  LET d == Disclosure(world, ceiling, TRUE)
                      IN  /\ WithinCeiling(d)
                          /\ \A r \in d.evidenceRefs :
                               PrivacyOrder[sensed[r.event].privacy] <= PrivacyOrder[ceiling]
    BY DEF LabelsHold
  <2> DEFINE d == Disclosure(world, ceiling, TRUE)
  <2>1. d.privacyCeiling = ceiling
    BY DEF Disclosure
  <2>2. ASSUME NEW r \in d.evidenceRefs
        PROVE  /\ PrivacyOrder[r.privacy] <= PrivacyOrder[ceiling]
               /\ PrivacyOrder[sensed[r.event].privacy] <= PrivacyOrder[ceiling]
    <3>1. PICK w \in world : /\ PrivacyOrder[w.privacy] <= PrivacyOrder[ceiling]
                             /\ r = [event |-> w.event, privacy |-> w.privacy]
      BY <2>2 DEF Disclosure
    <3>2. /\ InWindow(w) /\ Labelled(w) /\ sensed[w.event] \in Reading
          /\ r.event = w.event /\ r.privacy = w.privacy
      BY <3>1 DEF SpacesInv, InWindow
    <3>3. /\ PrivacyOrder[sensed[w.event].privacy] \in Int
          /\ PrivacyOrder[w.privacy] \in Int /\ PrivacyOrder[ceiling] \in Int
      BY <3>2 DEF Labelled, Reading, PrivacyClasses, PrivacyOrder
    <3> QED BY <3>1, <3>2, <3>3 DEF Labelled
  <2> HIDE DEF d
  <2>3. WithinCeiling(d)
    BY <2>1, <2>2 DEF WithinCeiling
  <2> QED BY <2>2, <2>3 DEF d
<1> QED BY <1>1, Invariance, PTL

-----------------------------------------------------------------------------
(* The invariant of the client: what is in flight has the shape of its     *)
(* phase, and what was returned passed the validator of its kind.          *)
Kept ==
  \A e \in bridged :
    /\ e.event \in DOMAIN sensed
    /\ e.confidence \in Int /\ e.observedAt \in Int /\ e.expiresAt \in Int
    /\ e.privacy \in {"P2", "P3"} /\ e.lost \in Lost

ReturnedIsValid ==
  \/ returned = <<>>
  \/ \E kind \in Kinds, defect \in Defects, bytes \in 0 .. MaxBytes :
       /\ defect \notin Refused(kind)
       /\ returned = <<[kind |-> kind, defect |-> defect, bytes |-> bytes]>>

ClientInv ==
  call \in Requests /\ ReturnedIsValid /\ Kept /\ Len(sensed) <= MaxReadings

(* A request keeps its shape when the service learns of more.              *)
LEMMA RequestsGrow ==
  ASSUME call \in Requests, call' = call, bridged \subseteq bridged'
  PROVE  call' \in Requests'
BY DEF Requests

LEMMA ClientNext == SpacesInv /\ SpacesInv' /\ ClientInv /\ [Next]_vars => ClientInv'
<1> SUFFICES ASSUME SpacesInv, SpacesInv', ClientInv, [Next]_vars PROVE ClientInv'
  OBVIOUS
<1> USE DEF ClientInv
<1>1. sensed' \in Seq(Reading) /\ sensed \in Seq(Reading) /\ now \in Start .. End
  BY DEF SpacesInv
<1>2. ASSUME UNCHANGED <<sensed, bridged>>
      PROVE  Kept' /\ Len(sensed') <= MaxReadings /\ Requests' = Requests
  BY <1>2 DEF Kept, Requests
<1>3. ASSUME Throw PROVE ClientInv'
  BY <1>2, <1>3 DEF Throw, Requests, ReturnedIsValid
<1>4. ASSUME NEW kind \in Kinds, NEW credentials, Send(kind, credentials)
      PROVE  ClientInv'
  <2>1. call' \in [phase : {"headers"}, kind : Kinds, sentAt : Start .. End,
                   authorized : BOOLEAN]
    BY <1>1, <1>4 DEF Send
  <2>2. call' \in Requests'
    BY <2>1 DEF Requests
  <2> QED BY <1>2, <1>4, <2>2 DEF Send, ReturnedIsValid
<1>5. ASSUME NEW c \in Confidences, NEW p \in Labels, NEW ttl \in Ttls,
             NEW ahead \in 0 .. ClockSkew + 1, NEW calibrated \in BOOLEAN,
             NEW health \in {Unknown, Unit},
             Sense(c, p, ttl, ahead, calibrated, health)
      PROVE  ClientInv'
  <2>1. UNCHANGED <<now, bridged, call, returned>>
    BY <1>5 DEF Sense
  <2>2. PICK reading : sensed' = Append(sensed, reading)
    BY <1>5 DEF Sense
  <2>3. Len(sensed') = Len(sensed) + 1 /\ DOMAIN sensed \subseteq DOMAIN sensed'
    BY <1>1, <2>2
  <2>4. Len(sensed) < MaxReadings /\ Len(sensed) \in Nat
    BY <1>1, <1>5 DEF Sense
  <2>5. Kept' /\ Len(sensed') <= MaxReadings
    BY <2>1, <2>3, <2>4, SpacesAssumption DEF Kept
  <2> QED BY <2>1, <2>5, RequestsGrow DEF ReturnedIsValid
<1>6. ASSUME NEW i \in DOMAIN sensed, NEW lost \in Lost, Bridge(i, lost)
      PROVE  ClientInv'
  <2>1. UNCHANGED <<sensed, call, returned>> /\ bridged \subseteq bridged'
    BY <1>6 DEF Bridge
  <2>2. sensed[i] \in Reading
    BY <1>1
  <2>3. Kept'
    BY <1>6, <2>2 DEF Bridge, Kept, Reading, Label
  <2> QED BY <2>1, <2>3, RequestsGrow DEF ReturnedIsValid
<1>7. ASSUME NEW e \in bridged, DeliverEnvelope(e) PROVE ClientInv'
  BY <1>2, <1>7 DEF DeliverEnvelope, ReturnedIsValid
<1>8. ASSUME NEW credentials, ListSpacesResult(credentials) PROVE ClientInv'
  BY <1>4, <1>8 DEF ListSpacesResult, Kinds
<1>9. ASSUME NEW kind \in {"spaces", "entities"}, NEW credentials, NEW w,
             ListSpatial(kind, credentials, w)
      PROVE  ClientInv'
  BY <1>4, <1>9 DEF ListSpatial, Kinds
<1>10. CASE Abort \/ Disconnect \/ ErrorRead
  BY <1>3, <1>10 DEF Abort, Disconnect, ErrorRead
<1>11. ASSUME NEW items \in SUBSET bridged, NEW defect \in Defects,
              NEW phase \in {"stream", "text"}, Headers(items, defect, phase)
       PROVE  ClientInv'
  <2>1. CASE Throw
    BY <1>3, <2>1
  <2>2. CASE ~Throw
    <3>1. /\ UNCHANGED <<sensed, bridged, returned>> /\ call.phase = "headers"
          /\ \/ call' = [phase |-> "error", buffered |-> 0]
             \/ call' = [phase |-> phase, kind |-> call.kind, items |-> items,
                         defect |-> defect, buffered |-> 0]
      BY <1>11, <2>2 DEF Headers
    <3>2. call.kind \in Kinds
      BY <3>1 DEF Requests, Idle
    <3>3. 0 \in 0 .. MaxBytes /\ 0 \in 0 .. MaxBody
      BY SpacesAssumption
    <3>4. call' \in Requests
      BY <3>1, <3>2, <3>3 DEF Requests
    <3> QED BY <1>2, <3>1, <3>4 DEF ReturnedIsValid
  <2> QED BY <2>1, <2>2
<1>12. ASSUME NEW size \in ChunkSizes, ReadChunk(size) \/ ReadText(size)
       PROVE  ClientInv'
  <2>1. CASE Throw
    BY <1>3, <2>1
  <2>2. CASE ~Throw
    <3>1. /\ Buffer(size)
          /\ \/ call.phase = "stream" /\ Fits(size)
             \/ call.phase \in {"error", "text"} /\ call.buffered + size <= MaxBody
      BY <1>12, <2>2 DEF ReadChunk, ReadText
    <3>2. size \in Nat
      BY SpacesAssumption
    <3>3. call' \in Requests
      BY <3>1, <3>2, SpacesAssumption DEF Requests, Idle, Buffer, Fits
    <3> QED BY <1>2, <3>1, <3>3 DEF Buffer, ReturnedIsValid
  <2> QED BY <2>1, <2>2
<1>13. CASE Return
  <2>1. CASE Throw
    BY <1>3, <2>1
  <2>2. CASE ~Throw
    <3>1. /\ call.phase \in {"stream", "text"} /\ ~Unacceptable /\ call' = Idle
          /\ returned' = <<[kind |-> call.kind, defect |-> call.defect,
                            bytes |-> call.buffered]>>
          /\ UNCHANGED <<sensed, bridged>>
      BY <1>13, <2>2 DEF Return
    <3>2. /\ call.kind \in Kinds /\ call.defect \in Defects
          /\ call.defect \notin Refused(call.kind)
          /\ call.buffered \in 0 .. MaxBytes
      BY <3>1, SpacesAssumption DEF Requests, Idle, Unacceptable
    <3>3. ReturnedIsValid'
      BY <3>1, <3>2 DEF ReturnedIsValid
    <3> QED BY <1>2, <3>1, <3>3 DEF Requests
  <2> QED BY <2>1, <2>2
<1>14. CASE Tick
  BY <1>2, <1>14 DEF Tick, ReturnedIsValid
<1>15. CASE UNCHANGED vars
  BY <1>2, <1>15 DEF vars, ReturnedIsValid
<1> QED BY <1>5, <1>6, <1>7, <1>8, <1>9, <1>10, <1>11, <1>12, <1>13, <1>14, <1>15 DEF Next

(* The state is of the source's types: a stream is never kept beyond       *)
(* maxResponseBytes whatever the chunks, and no read returns more, nor a   *)
(* page with a raw field or an identified person                           *)
(* (readBoundedBody and the validators of cognitum-spaces.ts).              *)
THEOREM ReadsAreBounded == Spec => []TypeOK
<1>1. Init => ClientInv
  BY SpacesAssumption DEF Init, ClientInv, Requests, ReturnedIsValid, Kept
<1>2. SpacesInv /\ ClientInv => TypeOK
  <2> SUFFICES ASSUME SpacesInv, ClientInv PROVE TypeOK
    OBVIOUS
  <2>1. /\ returned \in Seq([kind : Kinds, defect : Defects, bytes : 0 .. MaxBytes])
        /\ \A i \in DOMAIN returned :
             /\ returned[i].defect \notin RefusedSemantics
             /\ returned[i].kind = "entities" => returned[i].defect # "identified"
    <3>1. CASE returned = <<>>
      BY <3>1
    <3>2. ASSUME NEW kind \in Kinds, NEW defect \in Defects, NEW bytes \in 0 .. MaxBytes,
                 defect \notin Refused(kind),
                 returned = <<[kind |-> kind, defect |-> defect, bytes |-> bytes]>>
          PROVE  /\ returned \in Seq([kind : Kinds, defect : Defects, bytes : 0 .. MaxBytes])
                 /\ \A i \in DOMAIN returned :
                      /\ returned[i].defect \notin RefusedSemantics
                      /\ returned[i].kind = "entities" => returned[i].defect # "identified"
      BY <3>2 DEF Refused
    <3> QED BY <3>1, <3>2 DEF ClientInv, ReturnedIsValid
  <2>2. /\ \A w \in world :
             /\ w.event \in DOMAIN sensed /\ w.privacy \in PrivacyClasses
             /\ w.admittedAt \in Start .. now /\ w.expiresAt \in Int
        /\ \A a \in acted : a.event \in DOMAIN sensed /\ a.at \in Start .. now
    BY DEF SpacesInv, InWindow, Labelled, FirstHand
  <2> QED BY <2>1, <2>2 DEF SpacesInv, ClientInv, Kept, TypeOK
<1> QED BY <1>1, <1>2, ClientNext, Invariance, PTL DEF Spec
=============================================================================
