------------------------------ MODULE Failover ------------------------------
(***************************************************************************)
(* Replicated output and mixer takeover,                                   *)
(* src/packages/radio-moe/src/failover.ts.                                 *)
(*                                                                         *)
(* For one request a mixer signs a chain of output envelopes; shadows      *)
(* (DeterministicShadow) replicate the chain, each at its own pace, and    *)
(* an authority that is not in the repository moves a request to another   *)
(* mixer by signing a takeover grant for the next epoch.  Envelopes and    *)
(* grants travel over a network that loses, repeats, delays and reorders   *)
(* them.                                                                   *)
(*                                                                         *)
(* An envelope's hash covers its previousHash, so the hash of the last     *)
(* envelope of a chain stands for the whole chain: it is modelled by the   *)
(* chain itself.  An output is its eventId, its signer and its epoch; the  *)
(* payload and the replay checkpoint are covered by the hash and are not   *)
(* looked at.  A message outside its validity window is refused and        *)
(* changes nothing: it is a message the shadow does not take.              *)
(*                                                                         *)
(* Assumed of the configuration: every shadow is constructed for the first *)
(* epoch, with ShadowOptions.mixerEpoch 0, its default, and on one mixer   *)
(* for a domain.  A shadow that joins a later epoch has no history to      *)
(* agree on.                                                               *)
(***************************************************************************)
EXTENDS Integers, SequencesExt

CONSTANTS
  Shadows,        \* the replicas
  Mixers,         \* the identities that can sign output
  Domains,        \* one (requestId, routeEpoch, regime) each
  TextPrimary,    \* the domains whose regime is text-primary
  Primary,        \* the mixer a domain starts with
  Forking,        \* mixers that may sign two outputs at one position
  Events,         \* eventIds
  MaxOutputs,     \* MAX_OUTPUT_EVENTS
  MaxTakeovers    \* MAX_TAKEOVERS

ASSUME DomainAssumption ==
  /\ TextPrimary \subseteq Domains
  /\ Primary \in [Domains -> Mixers]
ASSUME BoundAssumption == MaxOutputs \in Nat /\ MaxTakeovers \in Nat

VARIABLES
  domain,      \* the domain each shadow was constructed for
  mixer,       \* activeMixerId and activeMixerKey
  epoch,       \* activeEpoch
  chain,       \* the outputs committed: nextSequence, lastEnvelopeHash, usedEventIds
  usedGrants,  \* usedGrantIds
  envelopes,   \* every output envelope a mixer has signed
  grants       \* every takeover grant the authority has signed

vars == <<domain, mixer, epoch, chain, usedGrants, envelopes, grants>>

Output == [event: Events, mixer: Mixers, epoch: Nat]
Envelope ==
  {v \in [domain: Domains, output: Output, previous: Seq(Output)] :
     Len(v.previous) < MaxOutputs}
Grant == [domain: Domains, from: Mixers, to: Mixers,
          epoch: 1..MaxTakeovers, last: Seq(Output)]

Init ==
  /\ domain \in [Shadows -> Domains]
  /\ mixer = [s \in Shadows |-> Primary[domain[s]]]
  /\ epoch = [s \in Shadows |-> 0]
  /\ chain = [s \in Shadows |-> <<>>]
  /\ usedGrants = [s \in Shadows |-> {}]
  /\ envelopes = {}
  /\ grants = {}
-----------------------------------------------------------------------------
(* Forms of the definitions below that carry a plausible defect.           *)

(* takeover without the exact cursor check *)
AnyCursor(s, g) == TRUE

(* replicate looks at the mixer, not at its epoch *)
FromMixerOfAnyEpoch(s, v) == v.output.mixer = mixer[s]

(* replicate checks the sequence number, not the chain *)
ExtendsByNumber(s, v) == Len(v.previous) = Len(chain[s])

(* text-primary may fail over at any time *)
AlwaysFailOver(s) == TRUE

(* createTakeoverGrant does not bound mixerEpoch *)
SignGrantUnbounded(s, m) ==
  /\ m # mixer[s]
  /\ \A g \in grants : g.domain = domain[s] => g.epoch # epoch[s] + 1
  /\ grants' = grants \cup
       {[domain |-> domain[s], from |-> mixer[s], to |-> m,
         epoch |-> epoch[s] + 1, last |-> chain[s]]}
  /\ UNCHANGED <<domain, mixer, epoch, chain, usedGrants, envelopes>>
-----------------------------------------------------------------------------
(* A mixer reads the cursor of a shadow it is active in and signs the next *)
(* output.  Unless it forks, it signs one output per position of an epoch, *)
(* with an eventId it chooses.                                             *)
SignedAt(m, d, e, n) ==
  \E v \in envelopes : /\ v.domain = d
                       /\ v.output.mixer = m
                       /\ v.output.epoch = e
                       /\ Len(v.previous) = n

Sign(s, event) ==
  LET m == mixer[s] d == domain[s] IN
  /\ epoch[s] <= MaxTakeovers
  /\ Len(chain[s]) < MaxOutputs
  /\ m \notin Forking => ~SignedAt(m, d, epoch[s], Len(chain[s]))
  /\ envelopes' = envelopes \cup
       {[domain |-> d,
         output |-> [event |-> event, mixer |-> m, epoch |-> epoch[s]],
         previous |-> chain[s]]}
  /\ UNCHANGED <<domain, mixer, epoch, chain, usedGrants, grants>>

(* DeterministicShadow.replicate *)
Committed(s, event) == \E i \in DOMAIN chain[s] : chain[s][i].event = event

FromActiveMixer(s, v) ==
  v.output.epoch = epoch[s] /\ v.output.mixer = mixer[s]

Extends(s, v) ==
  /\ Len(v.previous) = Len(chain[s])
  /\ v.previous = chain[s]

Replicate(s, v) ==
  /\ v.domain = domain[s]
  /\ FromActiveMixer(s, v)
  /\ ~Committed(s, v.output.event)
  /\ Extends(s, v)
  /\ chain' = [chain EXCEPT ![s] = Append(@, v.output)]
  /\ UNCHANGED <<domain, mixer, epoch, usedGrants, envelopes, grants>>

(* The authority moves a domain to another mixer, from the cursor of a     *)
(* shadow that it read; it signs one grant per epoch of a domain.          *)
SignGrant(s, m) ==
  /\ m # mixer[s]
  /\ epoch[s] + 1 <= MaxTakeovers
  /\ \A g \in grants : g.domain = domain[s] => g.epoch # epoch[s] + 1
  /\ grants' = grants \cup
       {[domain |-> domain[s], from |-> mixer[s], to |-> m,
         epoch |-> epoch[s] + 1, last |-> chain[s]]}
  /\ UNCHANGED <<domain, mixer, epoch, chain, usedGrants, envelopes>>

(* DeterministicShadow.takeover *)
MayFailOver(s) == domain[s] \in TextPrimary => chain[s] = <<>>

NextEpoch(s, g) == g.epoch = epoch[s] + 1

ExactCursor(s, g) ==
  /\ Len(g.last) = Len(chain[s])
  /\ g.last = chain[s]

TakeOver(s, g) ==
  /\ MayFailOver(s)
  /\ g.domain = domain[s]
  /\ g.to # g.from
  /\ g \notin usedGrants[s]
  /\ Cardinality(usedGrants[s]) < MaxTakeovers
  /\ g.from = mixer[s]
  /\ NextEpoch(s, g)
  /\ ExactCursor(s, g)
  /\ usedGrants' = [usedGrants EXCEPT ![s] = @ \cup {g}]
  /\ mixer' = [mixer EXCEPT ![s] = g.to]
  /\ epoch' = [epoch EXCEPT ![s] = g.epoch]
  /\ UNCHANGED <<domain, chain, envelopes, grants>>

Next ==
  \E s \in Shadows :
    \/ \E event \in Events : Sign(s, event)
    \/ \E m \in Mixers : SignGrant(s, m)
    \/ \E v \in envelopes : Replicate(s, v)
    \/ \E g \in grants : TakeOver(s, g)

Spec == Init /\ [][Next]_vars
-----------------------------------------------------------------------------
TypeOK ==
  /\ domain \in [Shadows -> Domains]
  /\ mixer \in [Shadows -> Mixers]
  /\ epoch \in [Shadows -> 0..MaxTakeovers]
  /\ chain \in [Shadows -> Seq(Output)]
  /\ \A s \in Shadows : Len(chain[s]) <= MaxOutputs
  /\ usedGrants \in [Shadows -> SUBSET grants]
  /\ envelopes \subseteq Envelope
  /\ grants \subseteq Grant

(* The positions of a shadow's outputs of the epochs it has left.          *)
Earlier(s) == {i \in DOMAIN chain[s] : chain[s][i].epoch < epoch[s]}

(* Two shadows of one request that are in the same epoch committed the     *)
(* same outputs in the epochs before it, also when a mixer of those epochs *)
(* signed two outputs for one position (failover.ts:241-247: a grant is    *)
(* taken from exactly the cursor it names).                                *)
TakeoverSealsHistory ==
  \A s, t \in Shadows :
    domain[s] = domain[t] /\ epoch[s] = epoch[t]
      => /\ Earlier(s) = Earlier(t)
         /\ \A i \in Earlier(s) : chain[s][i] = chain[t][i]

(* Under a mixer that signs one output per position, shadows of one        *)
(* request and one epoch never disagree: one of them only lags behind the  *)
(* other (failover.ts:194-204).                                            *)
ReplicasAgree ==
  \A s, t \in Shadows :
    domain[s] = domain[t] /\ epoch[s] = epoch[t] /\ mixer[s] \notin Forking
      => IsPrefix(chain[s], chain[t]) \/ IsPrefix(chain[t], chain[s])

(* No splicing: a shadow commits an output only in the history its mixer   *)
(* signed it for, also when the mixer signed several histories             *)
(* (failover.ts:200-204).                                                  *)
SignedHistory ==
  \A s \in Shadows : \A i \in DOMAIN chain[s] :
    \E v \in envelopes : /\ v.domain = domain[s]
                         /\ v.output = chain[s][i]
                         /\ v.previous = SubSeq(chain[s], 1, i - 1)

(* A takeover fences what it replaces: everything committed up to the      *)
(* cursor of a grant stays as it was, and no output an earlier epoch       *)
(* signed is committed after it, not even when the same mixer gets the     *)
(* request back (failover.ts:194-196, 239-247).                            *)
GrantIsFinal ==
  \A s \in Shadows : \A g \in usedGrants[s] :
    /\ IsPrefix(g.last, chain[s])
    /\ \A i \in DOMAIN chain[s] :
         i > Len(g.last) => chain[s][i].epoch >= g.epoch

(* A text-primary answer is spoken by one mixer from its first word to its *)
(* last, at every shadow, whatever grants are signed (failover.ts:226).    *)
OneVoice ==
  \A s \in Shadows :
    domain[s] \in TextPrimary =>
      \A i \in DOMAIN chain[s] : chain[s][i].mixer = mixer[s]
=============================================================================
