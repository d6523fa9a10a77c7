--------------------------- MODULE CognitumSpaces ---------------------------
(***************************************************************************)
(* The round trip of an observation through Cognitum Spaces: a sensor's    *)
(* reading is admitted at the edge and bridged to the service; the client  *)
(* of cognitum-spaces.ts reads it back, and what comes back goes through   *)
(* the same admission.  src/packages/radio-moe/src.                        *)
(*                                                                         *)
(* The service is outside the repository: it keeps what is bridged to it,  *)
(* answers late, wrongly or never, in chunks of any size or with no stream *)
(* to read, and may have lost a field.  It labels what is sensitive P3 and *)
(* the rest P2.  An answer has at most one defect; the schema checks of    *)
(* the two validators are the sets of defects they refuse.                 *)
(***************************************************************************)
EXTENDS Observation

CONSTANTS
  Start, End,   \* bound of the instance: its clock
  TimeoutMs,    \* timeoutMs
  MaxBytes,     \* maxResponseBytes
  MaxBody,      \* bound of the instance: a body the client takes unmeasured
  ChunkSizes,
  Ttls,         \* validity windows of the readings
  Confidences,
  Labels,       \* privacy classes of the readings
  Floor,        \* minSensorHealth of the edge, or Unknown
  MaxReadings   \* bound of the instance

ASSUME SpacesAssumption ==
  /\ Start \in Nat /\ End \in Nat /\ Start <= End
  /\ Start > MaxTtl  \* the epoch is out of every window
  /\ TimeoutMs \in Nat \ {0} /\ MaxBytes \in Nat /\ MaxBody \in Nat
  /\ ChunkSizes \subseteq Nat \ {0} /\ Ttls \subseteq Int
  /\ Confidences \subseteq 0 .. Unit /\ Labels \subseteq PrivacyClasses
  /\ Floor \in {Unknown} \cup 0 .. Unit /\ MaxReadings \in Nat

VARIABLES
  now,
  sensed,     \* readings of the sensors, in the order they were made
  bridged,    \* what the service keeps
  call,       \* the request in flight
  returned,   \* what the last read returned, <<>> if it threw
  world,      \* admitted evidence
  acted       \* workflows that an observation made eligible

vars == <<now, sensed, bridged, call, returned, world, acted>>

Kinds == {"twins", "spaces", "entities"}

Lost == {"nothing", "confidence", "modelVersion", "observedAt", "expiresAt",
         "provenance", "sourceId"}

Defects == {"none", "status", "type", "length", "json", "boundary", "item",
            "cursor", "hierarchy", "identified", "raw", "structure"}

Idle == [phase |-> "idle"]

(* What a request in flight has: a fetch without headers, the body of an   *)
(* error, and a body that is read as a stream or as one text               *)
Requests ==
  {Idle}
  \cup [phase : {"headers"}, kind : Kinds, sentAt : Start .. End, authorized : BOOLEAN]
  \cup [phase : {"error"}, buffered : 0 .. MaxBody]
  \cup [phase : {"stream"}, kind : Kinds, items : SUBSET bridged, defect : Defects,
        buffered : 0 .. MaxBytes]
  \cup [phase : {"text"}, kind : Kinds, items : SUBSET bridged, defect : Defects,
        buffered : 0 .. MaxBody]

Reading == [confidence : Int, privacy : PrivacyClasses, issuedAt : Int,
            expiresAt : Int, at : Start .. End]

Init ==
  /\ now = Start /\ sensed = <<>> /\ bridged = {}
  /\ call = Idle /\ returned = <<>>
  /\ world = {} /\ acted = {}
-----------------------------------------------------------------------------
(* privacyOf                                                               *)
PrivacyRestricted(p) == "restricted"

PrivacyOf(p) == IF p = "P3" THEN "sensitive" ELSE "restricted"

Label(privacy) == IF privacy = "sensitive" THEN "P3" ELSE "P2"

(* spacesEnvelopeToObservation: of an envelope on the fabric               *)
EnvelopeToObservation(e) ==
  [event |-> e.event, source |-> TRUE, location |-> TRUE,
   confidence |-> IF e.lost = "confidence" THEN Unknown ELSE e.confidence,
   privacy |-> PrivacyOf(e.privacy), calibrated |-> e.lost # "modelVersion",
   issuedAt |-> IF e.lost = "observedAt" THEN 0 ELSE e.observedAt,
   expiresAt |-> IF e.lost = "expiresAt" THEN 0 ELSE e.expiresAt,
   health |-> Unknown,
   lineage |-> <<[derived |-> TRUE, provenance |-> e.lost # "provenance"]>>]

(* spatialResourceToObservation: the source, the model and the digest are  *)
(* in the provenance of a resource                                         *)
ResourceToObservation(r) ==
  [EnvelopeToObservation(r) EXCEPT !.source = r.lost # "sourceId"]

(* Admission, and the tier of what is admitted                             *)
Observe(observations) ==
  LET admitted == {o \in observations : Admissible(o, now, Floor)}
  IN  /\ world' = world \cup
           {[event |-> o.event, privacy |-> o.privacy, admittedAt |-> now,
             expiresAt |-> o.expiresAt] : o \in admitted}
      /\ acted' = acted \cup
           {[event |-> o.event, at |-> now] : o \in
              {o \in admitted : ConfidenceTier(o) = "authorized-workflow"}}

(* A sensor, whose clock may be ahead, reports one reading                 *)
Sense(confidence, privacy, ttl, ahead, calibrated, health) ==
  /\ Len(sensed) < MaxReadings
  /\ LET reading == [confidence |-> confidence, privacy |-> privacy,
                     issuedAt |-> now + ahead, expiresAt |-> now + ahead + ttl,
                     at |-> now]
     IN  /\ sensed' = Append(sensed, reading)
         /\ Observe({[event |-> Len(sensed'), source |-> TRUE, location |-> TRUE,
                      confidence |-> confidence, privacy |-> privacy,
                      calibrated |-> calibrated, health |-> health,
                      issuedAt |-> reading.issuedAt,
                      expiresAt |-> reading.expiresAt, lineage |-> <<>>]})
  /\ UNCHANGED <<now, bridged, call, returned>>

(* The service keeps a reading, with a field lost or none                  *)
Bridge(i, lost) ==
  /\ \A e \in bridged : e.event # i
  /\ bridged' = bridged \cup
       {[event |-> i, confidence |-> sensed[i].confidence,
         privacy |-> Label(sensed[i].privacy), observedAt |-> sensed[i].issuedAt,
         expiresAt |-> sensed[i].expiresAt, lost |-> lost]}
  /\ UNCHANGED <<now, sensed, call, returned, world, acted>>

(* An envelope of the MQTT fabric arrives, once more or for the first time *)
DeliverEnvelope(e) ==
  /\ Observe({EnvelopeToObservation(e)})
  /\ UNCHANGED <<now, sensed, bridged, call, returned>>
-----------------------------------------------------------------------------
(* authHeaders and the fetch of getJson: the key or the token is what the  *)
(* auth finds at the call, and both together are refused                   *)
Send(kind, credentials) ==
  /\ call = Idle
  /\ Cardinality(credentials) < 2
  /\ call' = [phase |-> "headers", kind |-> kind, sentAt |-> now,
              authorized |-> credentials # {}]
  /\ returned' = <<>>
  /\ UNCHANGED <<now, sensed, bridged, world, acted>>

ListSpacesResult(credentials) == Send("twins", credentials)

(* listSpatial: with an API key the caller names the workspace             *)
ListSpatial(kind, credentials, workspaceId) ==
  /\ "key" \in credentials => workspaceId
  /\ Send(kind, credentials)

Throw ==
  /\ call' = Idle /\ returned' = <<>>
  /\ UNCHANGED <<now, sensed, bridged, world, acted>>

(* The controller aborts a fetch whose headers have not come               *)
TimerDue == call.phase = "headers" /\ now >= call.sentAt + TimeoutMs

Abort == TimerDue /\ Throw

(* The connection breaks                                                   *)
Disconnect == call.phase # "idle" /\ Throw

(* The headers come and the timer is cleared: an answer that is not ok has *)
(* its body read before the error is thrown; of another the type and the   *)
(* declared length are looked at first                                     *)
NotOk(defect) == ~call.authorized \/ defect = "status"

Headers(items, defect, phase) ==
  /\ call.phase = "headers"
  /\ \/ /\ NotOk(defect)
        /\ call' = [phase |-> "error", buffered |-> 0]
        /\ UNCHANGED <<now, sensed, bridged, returned, world, acted>>
     \/ /\ ~NotOk(defect) /\ defect \in {"type", "length"}
        /\ Throw
     \/ /\ ~NotOk(defect) /\ defect \notin {"type", "length"}
        /\ call' = [phase |-> phase, kind |-> call.kind, items |-> items,
                    defect |-> defect, buffered |-> 0]
        /\ UNCHANGED <<now, sensed, bridged, returned, world, acted>>

Buffer(size) ==
  /\ call' = [call EXCEPT !.buffered = @ + size]
  /\ UNCHANGED <<now, sensed, bridged, returned, world, acted>>

(* readBoundedBody, one read of the stream; before it, a form that keeps   *)
(* the chunk and then looks at the total                                   *)
FitsOnceKept(size) == call.buffered <= MaxBytes

Fits(size) == call.buffered + size <= MaxBytes

ReadChunk(size) ==
  /\ call.phase = "stream"
  /\ IF Fits(size) THEN Buffer(size) ELSE Throw

(* text(): more of a body that nobody measures before it is all there      *)
ReadText(size) ==
  /\ call.phase \in {"error", "text"}
  /\ call.buffered + size <= MaxBody
  /\ Buffer(size)

(* The body of an error ends, and the error is thrown                      *)
ErrorRead == call.phase = "error" /\ Throw

(* assertBoundedSemantic, validateSpacesResult and validateSpatialResult   *)
RefusedSemantics == {"raw", "structure"}

Refused(kind) ==
  RefusedSemantics \cup {"json", "boundary", "item"}
    \cup (IF kind = "twins" THEN {} ELSE {"cursor", "hierarchy"})
    \cup (IF kind = "entities" THEN {"identified"} ELSE {})

(* A resource whose date does not parse makes its page unacceptable; a     *)
(* text is measured now that it is there                                   *)
Unacceptable ==
  \/ call.defect \in Refused(call.kind)
  \/ call.kind # "twins" /\ \E r \in call.items : r.lost = "observedAt"
  \/ call.phase = "text" /\ call.buffered > MaxBytes

(* The body ends: it is validated and returned; what the caller takes from *)
(* a spatial page goes through admission at the time it has come to be     *)
Return ==
  /\ call.phase \in {"stream", "text"}
  /\ IF Unacceptable
     THEN Throw
     ELSE /\ returned' = <<[kind |-> call.kind, defect |-> call.defect,
                            bytes |-> call.buffered]>>
          /\ call' = Idle
          /\ IF call.kind = "twins"
             THEN UNCHANGED <<world, acted>>
             ELSE Observe({ResourceToObservation(r) : r \in call.items})
          /\ UNCHANGED <<now, sensed, bridged>>
-----------------------------------------------------------------------------
(* Time passes; a timer that is due fires first                            *)
Tick ==
  /\ now < End /\ ~TimerDue /\ now' = now + 1
  /\ UNCHANGED <<sensed, bridged, call, returned, world, acted>>

Next ==
  \/ \E c \in Confidences, p \in Labels, ttl \in Ttls,
        ahead \in 0 .. ClockSkew + 1, calibrated \in BOOLEAN,
        health \in {Unknown, Unit} : Sense(c, p, ttl, ahead, calibrated, health)
  \/ \E i \in DOMAIN sensed, lost \in Lost : Bridge(i, lost)
  \/ \E e \in bridged : DeliverEnvelope(e)
  \/ \E credentials \in SUBSET {"key", "bearer"} : ListSpacesResult(credentials)
  \/ \E kind \in {"spaces", "entities"}, credentials \in SUBSET {"key", "bearer"},
        workspaceId \in BOOLEAN : ListSpatial(kind, credentials, workspaceId)
  \/ Abort
  \/ Disconnect
  \/ \E items \in SUBSET bridged, defect \in Defects, phase \in {"stream", "text"} :
        Headers(items, defect, phase)
  \/ \E size \in ChunkSizes : ReadChunk(size) \/ ReadText(size)
  \/ ErrorRead
  \/ Return
  \/ Tick

Spec == Init /\ [][Next]_vars
-----------------------------------------------------------------------------
(* The state is of the source's types.  A stream is never kept beyond      *)
(* maxResponseBytes however it is cut into chunks, and no read returns     *)
(* more, by the way of a text either, which like the body of an error is   *)
(* held whole first; nor does one return a page with a raw field or an     *)
(* identified person: readBoundedBody and the validators of                *)
(* cognitum-spaces.ts.                                                     *)
TypeOK ==
  /\ now \in Start .. End
  /\ sensed \in Seq(Reading) /\ Len(sensed) <= MaxReadings
  /\ \A e \in bridged :
       /\ e.event \in DOMAIN sensed
       /\ e.confidence \in Int /\ e.observedAt \in Int /\ e.expiresAt \in Int
       /\ e.privacy \in {"P2", "P3"} /\ e.lost \in Lost
  /\ call \in Requests
  /\ returned \in Seq([kind : Kinds, defect : Defects, bytes : 0 .. MaxBytes])
  /\ \A i \in DOMAIN returned :
       /\ returned[i].defect \notin RefusedSemantics
       /\ returned[i].kind = "entities" => returned[i].defect # "identified"
  /\ \A w \in world :
       /\ w.event \in DOMAIN sensed /\ w.privacy \in PrivacyClasses
       /\ w.admittedAt \in Start .. now /\ w.expiresAt \in Int
  /\ \A a \in acted : a.event \in DOMAIN sensed /\ a.at \in Start .. now

(* A recollection is not evidence of its own: whatever is admitted, by     *)
(* whatever way and after whatever delay it comes back, is admitted within *)
(* the window of the reading it recalls, up to the skew of the clocks at   *)
(* its beginning, and ends with it; and a workflow becomes eligible only   *)
(* at the moment a sensor reports with confidence High (admitObservation,  *)
(* confidenceTier and the two mappings to Observation of                   *)
(* cognitum-spaces.ts).                                                    *)
MemoryIsNotEvidence ==
  /\ \A w \in world :
       /\ sensed[w.event].issuedAt <= w.admittedAt + ClockSkew
       /\ w.admittedAt < sensed[w.event].expiresAt
       /\ w.expiresAt <= sensed[w.event].expiresAt
  /\ \A a \in acted :
       /\ a.at = sensed[a.event].at
       /\ sensed[a.event].confidence >= High

(* The label a sensor gave holds to the end: whenever a peer discloses     *)
(* what it holds, nothing refers, under a ceiling below that label, to the *)
(* reading or to what came back of it, and the receiver's guard agrees     *)
(* (privacyOf of cognitum-spaces.ts; discloseFinding and                   *)
(* assertWithinCeiling of disclosure.ts).                                  *)
LabelsHold ==
  \A ceiling \in PrivacyClasses :
    LET d == Disclosure(world, ceiling, TRUE)
    IN  /\ WithinCeiling(d)
        /\ \A r \in d.evidenceRefs :
             PrivacyOrder[sensed[r.event].privacy] <= PrivacyOrder[ceiling]
=============================================================================
