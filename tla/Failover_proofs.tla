--------------------------- MODULE Failover_proofs ---------------------------
(***************************************************************************)
(* Proofs about replicated output and mixer takeover, for any shadows,     *)
(* mixers, requests and events, any mixers that fork, and any bounds on    *)
(* outputs and takeovers.                                                  *)
(***************************************************************************)
EXTENDS Failover, TLAPS

-----------------------------------------------------------------------------
(* Sequences.                                                              *)

\* What precedes a position of a sequence, element by element.
LEMMA BeforeElements ==
  ASSUME NEW S, NEW c \in Seq(S), NEW i \in 1 .. Len(c)
  PROVE  /\ SubSeq(c, 1, i - 1) \in Seq(S)
         /\ Len(SubSeq(c, 1, i - 1)) = i - 1
         /\ \A j \in 1 .. i - 1 : SubSeq(c, 1, i - 1)[j] = c[j]
OBVIOUS

\* A prefix agrees with the sequence it begins, element by element.
LEMMA PrefixElements ==
  ASSUME NEW S, NEW a \in Seq(S), NEW b \in Seq(S)
  PROVE  IsPrefix(a, b) <=> /\ Len(a) <= Len(b)
                            /\ \A i \in 1 .. Len(a) : a[i] = b[i]
<1>1. ASSUME Len(a) <= Len(b)
      PROVE  /\ SubSeq(a, 1, Len(a)) = a
             /\ Len(SubSeq(b, 1, Len(a))) = Len(a)
             /\ \A i \in 1 .. Len(a) : SubSeq(b, 1, Len(a))[i] = b[i]
             /\ SubSeq(b, 1, Len(a)) \in Seq(S)
  BY <1>1
<1>2. ASSUME Len(a) <= Len(b), \A i \in 1 .. Len(a) : a[i] = b[i]
      PROVE  SubSeq(a, 1, Len(a)) = SubSeq(b, 1, Len(a))
  BY <1>1, <1>2
<1> QED
  BY <1>1, <1>2 DEF IsPrefix

\* Appending keeps what was there and what preceded it.
LEMMA AppendElements ==
  ASSUME NEW S, NEW c \in Seq(S), NEW x \in S
  PROVE  /\ Append(c, x) \in Seq(S)
         /\ Len(Append(c, x)) = Len(c) + 1
         /\ \A i \in 1 .. Len(c) :
              /\ Append(c, x)[i] = c[i]
              /\ SubSeq(Append(c, x), 1, i - 1) = SubSeq(c, 1, i - 1)
         /\ Append(c, x)[Len(c) + 1] = x
         /\ SubSeq(Append(c, x), 1, Len(c)) = c
OBVIOUS

-----------------------------------------------------------------------------
(* Type correctness.                                                       *)

\* Every envelope, grant and cursor stays in its range; in particular no
\* request has more outputs or takeovers than its bounds.
THEOREM TypeCorrectness == Spec => []TypeOK
<1>1. Init => TypeOK
  BY DomainAssumption, BoundAssumption DEF Init, TypeOK
<1>2. TypeOK /\ [Next]_vars => TypeOK'
  <2> SUFFICES ASSUME TypeOK, [Next]_vars
               PROVE  TypeOK'
    OBVIOUS
  <2> USE BoundAssumption
  <2>1. ASSUME NEW s \in Shadows, NEW event \in Events, Sign(s, event)
        PROVE  TypeOK'
    <3>1. /\ domain[s] \in Domains /\ mixer[s] \in Mixers /\ epoch[s] \in Nat
          /\ chain[s] \in Seq(Output) /\ Len(chain[s]) < MaxOutputs
      BY <2>1 DEF TypeOK, Sign
    <3>2. [domain |-> domain[s],
           output |-> [event |-> event, mixer |-> mixer[s], epoch |-> epoch[s]],
           previous |-> chain[s]] \in Envelope
      BY <3>1 DEF Envelope, Output
    <3> QED
      BY <2>1, <3>2 DEF TypeOK, Sign
  <2>2. ASSUME NEW s \in Shadows, NEW v \in envelopes, Replicate(s, v)
        PROVE  TypeOK'
    <3>1. /\ v.output \in Output /\ Len(v.previous) < MaxOutputs
          /\ chain[s] \in Seq(Output)
      BY DEF TypeOK, Envelope
    <3>2. /\ Append(chain[s], v.output) \in Seq(Output)
          /\ Len(Append(chain[s], v.output)) <= MaxOutputs
      BY <2>2, <3>1, AppendElements DEF Replicate, Extends
    <3> QED
      BY <2>2, <3>2 DEF TypeOK, Replicate
  <2>3. ASSUME NEW s \in Shadows, NEW m \in Mixers, SignGrant(s, m)
        PROVE  TypeOK'
    <3>1. /\ domain[s] \in Domains /\ mixer[s] \in Mixers
          /\ epoch[s] + 1 \in 1 .. MaxTakeovers /\ chain[s] \in Seq(Output)
      BY <2>3 DEF TypeOK, SignGrant
    <3> QED
      BY <2>3, <3>1 DEF TypeOK, SignGrant, Grant
  <2>4. ASSUME NEW s \in Shadows, NEW g \in grants, TakeOver(s, g)
        PROVE  TypeOK'
    <3>1. g.to \in Mixers /\ g.epoch \in 0 .. MaxTakeovers
      BY DEF TypeOK, Grant
    <3> QED
      BY <2>4, <3>1 DEF TypeOK, TakeOver
  <2>5. CASE UNCHANGED vars
    BY <2>5 DEF TypeOK, vars
  <2> QED
    BY <2>1, <2>2, <2>3, <2>4, <2>5 DEF Next
<1> QED
  BY <1>1, <1>2, PTL DEF Spec

-----------------------------------------------------------------------------
(* One voice.                                                              *)

\* A text-primary request is spoken by one mixer at each shadow: it can
\* only be moved while nothing was said.
THEOREM TextPrimaryVoice == Spec => []OneVoice
<1>1. Init => OneVoice
  BY DEF Init, OneVoice
<1>2. TypeOK /\ OneVoice /\ [Next]_vars => OneVoice'
  <2> SUFFICES ASSUME TypeOK, OneVoice, [Next]_vars
               PROVE  OneVoice'
    OBVIOUS
  <2>1. ASSUME NEW s \in Shadows, NEW v \in envelopes, Replicate(s, v)
        PROVE  OneVoice'
    <3>1. v.output \in Output /\ chain[s] \in Seq(Output)
      BY DEF TypeOK, Envelope
    <3>2. \A i \in DOMAIN Append(chain[s], v.output) :
            \/ i \in DOMAIN chain[s] /\ Append(chain[s], v.output)[i] = chain[s][i]
            \/ Append(chain[s], v.output)[i] = v.output
      BY <3>1
    <3>3. chain'[s] = Append(chain[s], v.output) /\ v.output.mixer = mixer[s]
      BY <2>1 DEF TypeOK, Replicate, FromActiveMixer
    <3>4. \A t \in Shadows \ {s} : chain'[t] = chain[t]
      BY <2>1 DEF TypeOK, Replicate
    <3> QED
      BY <2>1, <3>2, <3>3, <3>4 DEF OneVoice, Replicate
  <2>2. ASSUME NEW s \in Shadows, NEW g \in grants, TakeOver(s, g)
        PROVE  OneVoice'
    <3>1. \A t \in Shadows \ {s} : mixer'[t] = mixer[t]
      BY <2>2 DEF TypeOK, TakeOver
    <3>2. domain[s] \in TextPrimary => DOMAIN chain[s] = {}
      BY <2>2 DEF TypeOK, TakeOver, MayFailOver
    <3> QED
      BY <2>2, <3>1, <3>2 DEF OneVoice, TakeOver
  <2>3. ASSUME NEW s \in Shadows, NEW event \in Events, Sign(s, event)
        PROVE  OneVoice'
    BY <2>3 DEF OneVoice, Sign
  <2>4. ASSUME NEW s \in Shadows, NEW m \in Mixers, SignGrant(s, m)
        PROVE  OneVoice'
    BY <2>4 DEF OneVoice, SignGrant
  <2>5. CASE UNCHANGED vars
    BY <2>5 DEF OneVoice, vars
  <2> QED
    BY <2>1, <2>2, <2>3, <2>4, <2>5 DEF Next
<1> QED
  BY <1>1, <1>2, TypeCorrectness, PTL DEF Spec

-----------------------------------------------------------------------------
(* Replication and takeover.                                               *)

\* The authority signs one grant per epoch of a request.
OneGrantPerEpoch ==
  \A g, h \in grants : g.domain = h.domain /\ g.epoch = h.epoch => g = h

\* A grant hands over outputs of the epochs before it.
GrantsLookBack ==
  \A g \in grants : \A i \in 1 .. Len(g.last) : g.last[i].epoch < g.epoch

\* The grant that began the epoch a shadow is in: the shadow holds the
\* outputs handed over, and after them outputs of this epoch only.
BeganBy(s, g) ==
  /\ g.domain = domain[s] /\ g.epoch = epoch[s] /\ g.to = mixer[s]
  /\ Len(g.last) <= Len(chain[s])
  /\ \A i \in 1 .. Len(g.last) : chain[s][i] = g.last[i]
  /\ \A i \in 1 .. Len(chain[s]) : i > Len(g.last) => chain[s][i].epoch = epoch[s]

EpochsBegan ==
  \A s \in Shadows : IF epoch[s] = 0 THEN mixer[s] = Primary[domain[s]]
                                   ELSE \E g \in grants : BeganBy(s, g)

\* No output is of a later epoch than its shadow, and those of the current
\* epoch are the active mixer's.
OutputsOwned ==
  \A s \in Shadows : \A i \in 1 .. Len(chain[s]) :
    /\ chain[s][i].epoch <= epoch[s]
    /\ chain[s][i].epoch = epoch[s] => chain[s][i].mixer = mixer[s]

\* A mixer that does not fork signs one output per position of an epoch.
OneOutputPerPosition ==
  \A v, w \in envelopes :
    /\ v.domain = w.domain /\ v.output.mixer = w.output.mixer
    /\ v.output.epoch = w.output.epoch /\ Len(v.previous) = Len(w.previous)
    /\ v.output.mixer \notin Forking
    => v = w

HistoryInv ==
  /\ TypeOK
  /\ SignedHistory
  /\ OneGrantPerEpoch
  /\ GrantsLookBack
  /\ EpochsBegan
  /\ OutputsOwned
  /\ OneOutputPerPosition

\* The epoch of an output is a number.
LEMMA OutputEpoch == \A o \in Output : o.epoch \in Nat
BY DEF Output

\* The ranges of what a shadow holds.
LEMMA CursorRange ==
  ASSUME TypeOK, NEW s \in Shadows
  PROVE  /\ domain[s] \in Domains /\ mixer[s] \in Mixers /\ epoch[s] \in Nat
         /\ chain[s] \in Seq(Output) /\ Len(chain[s]) \in Nat
         /\ DOMAIN chain[s] = 1 .. Len(chain[s])
         /\ \A i \in 1 .. Len(chain[s]) : chain[s][i].epoch \in Nat
<1>1. chain[s] \in Seq(Output)
  BY DEF TypeOK
<1>2. /\ Len(chain[s]) \in Nat /\ DOMAIN chain[s] = 1 .. Len(chain[s])
      /\ \A i \in 1 .. Len(chain[s]) : chain[s][i] \in Output
  BY <1>1
<1>3. domain[s] \in Domains /\ mixer[s] \in Mixers /\ epoch[s] \in Nat
  BY BoundAssumption DEF TypeOK
<1> QED
  BY <1>1, <1>2, <1>3, OutputEpoch

\* The ranges of what an envelope holds.
LEMMA EnvelopeRange ==
  ASSUME TypeOK, NEW v \in envelopes
  PROVE  /\ v.output \in Output /\ v.output.epoch \in Nat
         /\ v.previous \in Seq(Output) /\ Len(v.previous) \in Nat
<1>1. /\ v.output \in Output
      /\ v.previous \in Seq(Output)
  BY DEF TypeOK, Envelope
<1> QED
  BY <1>1, OutputEpoch

\* The ranges of what a grant holds.
LEMMA GrantRange ==
  ASSUME TypeOK, NEW g \in grants
  PROVE  /\ g.epoch \in Nat \ {0} /\ g.last \in Seq(Output)
         /\ Len(g.last) \in Nat
         /\ \A i \in 1 .. Len(g.last) : g.last[i].epoch \in Nat
<1>1. g.epoch \in 1 .. MaxTakeovers /\ g.last \in Seq(Output)
  BY DEF TypeOK, Grant
<1>2. Len(g.last) \in Nat /\ \A i \in 1 .. Len(g.last) : g.last[i] \in Output
  BY <1>1
<1> QED
  BY <1>1, <1>2, OutputEpoch, BoundAssumption

\* Signing an output keeps the history sound.
LEMMA SignKeepsHistory ==
  ASSUME HistoryInv, NEW s \in Shadows, NEW event \in Events, Sign(s, event)
  PROVE  /\ SignedHistory' /\ OneGrantPerEpoch' /\ GrantsLookBack'
         /\ EpochsBegan' /\ OutputsOwned' /\ OneOutputPerPosition'
<1> DEFINE new == [domain |-> domain[s],
                   output |-> [event |-> event, mixer |-> mixer[s],
                               epoch |-> epoch[s]],
                   previous |-> chain[s]]
<1>1. SignedHistory'
  <2>1. chain' = chain /\ domain' = domain /\ envelopes \subseteq envelopes'
    BY DEF Sign
  <2> QED
    BY <2>1 DEF HistoryInv, SignedHistory
<1>2. OneGrantPerEpoch' /\ GrantsLookBack' /\ EpochsBegan' /\ OutputsOwned'
  BY DEF HistoryInv, OneGrantPerEpoch, GrantsLookBack, EpochsBegan, BeganBy,
         OutputsOwned, Sign
<1>3. OneOutputPerPosition'
  <2>1. envelopes' = envelopes \cup {new}
    BY DEF Sign
  <2>2. mixer[s] \notin Forking =>
          \A v \in envelopes : ~ /\ v.domain = domain[s]
                                 /\ v.output.mixer = mixer[s]
                                 /\ v.output.epoch = epoch[s]
                                 /\ Len(v.previous) = Len(chain[s])
    BY DEF Sign, SignedAt
  <2>3. /\ new.domain = domain[s] /\ new.output.mixer = mixer[s]
        /\ new.output.epoch = epoch[s] /\ new.previous = chain[s]
    OBVIOUS
  <2> HIDE DEF new
  <2> QED
    BY <2>1, <2>2, <2>3 DEF HistoryInv, OneOutputPerPosition
<1> QED
  BY <1>1, <1>2, <1>3

\* Signing a grant keeps the history sound.
LEMMA SignGrantKeepsHistory ==
  ASSUME HistoryInv, NEW s \in Shadows, NEW m \in Mixers, SignGrant(s, m)
  PROVE  /\ SignedHistory' /\ OneGrantPerEpoch' /\ GrantsLookBack'
         /\ EpochsBegan' /\ OutputsOwned' /\ OneOutputPerPosition'
<1> DEFINE new == [domain |-> domain[s], from |-> mixer[s], to |-> m,
                   epoch |-> epoch[s] + 1, last |-> chain[s]]
<1>1. grants' = grants \cup {new}
  BY DEF SignGrant
<1>2. new.domain = domain[s] /\ new.epoch = epoch[s] + 1 /\ new.last = chain[s]
  OBVIOUS
<1> HIDE DEF new
<1>3. SignedHistory' /\ OutputsOwned' /\ OneOutputPerPosition'
  BY DEF HistoryInv, SignedHistory, OutputsOwned, OneOutputPerPosition, SignGrant
<1>4. OneGrantPerEpoch'
  BY <1>1, <1>2 DEF HistoryInv, OneGrantPerEpoch, SignGrant
<1>5. GrantsLookBack'
  <2>1. \A i \in 1 .. Len(chain[s]) : chain[s][i].epoch < epoch[s] + 1
    BY CursorRange DEF HistoryInv, OutputsOwned
  <2> QED
    BY <1>1, <1>2, <2>1 DEF HistoryInv, GrantsLookBack
<1>6. EpochsBegan'
  BY <1>1 DEF HistoryInv, EpochsBegan, BeganBy, SignGrant
<1> QED
  BY <1>3, <1>4, <1>5, <1>6

\* Committing an output keeps the history sound.
LEMMA ReplicateKeepsHistory ==
  ASSUME HistoryInv, NEW s \in Shadows, NEW v \in envelopes, Replicate(s, v)
  PROVE  /\ SignedHistory' /\ OneGrantPerEpoch' /\ GrantsLookBack'
         /\ EpochsBegan' /\ OutputsOwned' /\ OneOutputPerPosition'
<1> DEFINE n == Len(chain[s])
<1>1. /\ chain'[s] \in Seq(Output) /\ Len(chain'[s]) = n + 1
      /\ \A i \in 1 .. n : /\ chain'[s][i] = chain[s][i]
                            /\ SubSeq(chain'[s], 1, i - 1) = SubSeq(chain[s], 1, i - 1)
      /\ chain'[s][n + 1] = v.output
      /\ SubSeq(chain'[s], 1, n) = chain[s]
      /\ n \in Nat
  <2>1. chain'[s] = Append(chain[s], v.output)
    BY DEF HistoryInv, TypeOK, Replicate
  <2>2. chain[s] \in Seq(Output) /\ v.output \in Output
    BY CursorRange, EnvelopeRange DEF HistoryInv
  <2> QED
    BY <2>1, <2>2, AppendElements
<1>2. \A t \in Shadows \ {s} : chain'[t] = chain[t]
  BY DEF HistoryInv, TypeOK, Replicate
<1>3. /\ v.domain = domain[s] /\ v.output.epoch = epoch[s]
      /\ v.output.mixer = mixer[s] /\ v.previous = chain[s]
  BY DEF Replicate, FromActiveMixer, Extends
<1>4. UNCHANGED <<domain, mixer, epoch, envelopes, grants>>
  BY DEF Replicate
<1>5. \A t \in Shadows : DOMAIN chain'[t] = 1 .. Len(chain'[t])
  BY <1>1, <1>2, CursorRange DEF HistoryInv
<1>10. \A t \in Shadows : /\ DOMAIN chain[t] = 1 .. Len(chain[t])
                          /\ Len(chain[t]) \in Nat /\ epoch[t] \in Nat
                          /\ \A i \in 1 .. Len(chain[t]) : chain[t][i].epoch \in Nat
  BY CursorRange DEF HistoryInv
<1>11. \A t \in Shadows : \A i \in 1 .. Len(chain[t]) :
         \E w \in envelopes : /\ w.domain = domain[t] /\ w.output = chain[t][i]
                              /\ w.previous = SubSeq(chain[t], 1, i - 1)
  BY <1>10 DEF HistoryInv, SignedHistory
<1>12. n = Len(chain[s])
  OBVIOUS
<1> HIDE DEF n
<1>6. SignedHistory'
  <2> SUFFICES ASSUME NEW t \in Shadows, NEW i \in 1 .. Len(chain'[t])
               PROVE  \E w \in envelopes :
                        /\ w.domain = domain[t] /\ w.output = chain'[t][i]
                        /\ w.previous = SubSeq(chain'[t], 1, i - 1)
    BY <1>4, <1>5 DEF SignedHistory
  <2>1. CASE t # s
    <3>1. chain'[t] = chain[t]
      BY <2>1, <1>2
    <3> QED
      BY <3>1, <1>11
  <2>2. CASE t = s /\ i \in 1 .. n
    BY <2>2, <1>1, <1>11, <1>12
  <2>3. CASE t = s /\ i = n + 1
    <3>1. (n + 1) - 1 = n
      BY <1>1
    <3> QED
      BY <2>3, <3>1, <1>1, <1>3
  <2> QED
    BY <1>1, <2>1, <2>2, <2>3
<1>7. EpochsBegan'
  <2>1. ASSUME NEW g \in grants, BeganBy(s, g)
        PROVE  BeganBy(s, g)'
    <3>1. Len(g.last) \in Nat /\ Len(g.last) <= n
      BY <2>1, <1>12, GrantRange DEF HistoryInv, BeganBy
    <3>2. \A i \in 1 .. n + 1 : i \in 1 .. n \/ i = n + 1
      BY <1>1
    <3>3. \A i \in 1 .. Len(g.last) : chain'[s][i] = g.last[i]
      BY <2>1, <3>1, <1>1, <1>12 DEF BeganBy
    <3>4. \A i \in 1 .. n + 1 : i > Len(g.last) => chain'[s][i].epoch = epoch[s]
      BY <2>1, <3>2, <1>1, <1>3, <1>12 DEF BeganBy
    <3> QED
      BY <2>1, <3>1, <3>3, <3>4, <1>1, <1>4 DEF BeganBy
  <2>2. ASSUME NEW t \in Shadows \ {s}, NEW g \in grants, BeganBy(t, g)
        PROVE  BeganBy(t, g)'
    BY <2>2, <1>2, <1>4 DEF BeganBy
  <2> QED
    BY <2>1, <2>2, <1>4 DEF HistoryInv, EpochsBegan
<1>8. OutputsOwned'
  <2>1. \A i \in 1 .. n + 1 : i \in 1 .. n \/ i = n + 1
    BY <1>1
  <2>2. \A i \in 1 .. n + 1 :
          /\ chain'[s][i].epoch <= epoch[s]
          /\ chain'[s][i].epoch = epoch[s] => chain'[s][i].mixer = mixer[s]
    <3>1. \A i \in 1 .. n : /\ chain'[s][i].epoch <= epoch[s]
                            /\ chain'[s][i].epoch = epoch[s]
                                 => chain'[s][i].mixer = mixer[s]
      BY <1>1, <1>12 DEF HistoryInv, OutputsOwned
    <3>2. /\ chain'[s][n + 1].epoch = epoch[s]
          /\ chain'[s][n + 1].mixer = mixer[s] /\ epoch[s] \in Nat
      BY <1>1, <1>3, <1>10
    <3> QED
      BY <2>1, <3>1, <3>2
  <2> QED
    BY <2>2, <1>1, <1>2, <1>4 DEF HistoryInv, OutputsOwned
<1>9. OneGrantPerEpoch' /\ GrantsLookBack' /\ OneOutputPerPosition'
  BY <1>4 DEF HistoryInv, OneGrantPerEpoch, GrantsLookBack, OneOutputPerPosition
<1> QED
  BY <1>6, <1>7, <1>8, <1>9

\* Taking over keeps the history sound.
LEMMA TakeOverKeepsHistory ==
  ASSUME HistoryInv, NEW s \in Shadows, NEW g \in grants, TakeOver(s, g)
  PROVE  /\ SignedHistory' /\ OneGrantPerEpoch' /\ GrantsLookBack'
         /\ EpochsBegan' /\ OutputsOwned' /\ OneOutputPerPosition'
<1>1. UNCHANGED <<domain, chain, envelopes, grants>>
  BY DEF TakeOver
<1>2. /\ mixer'[s] = g.to /\ epoch'[s] = g.epoch
      /\ \A t \in Shadows \ {s} : mixer'[t] = mixer[t] /\ epoch'[t] = epoch[t]
  BY DEF HistoryInv, TypeOK, TakeOver
<1>3. g.domain = domain[s] /\ g.epoch = epoch[s] + 1 /\ g.last = chain[s]
  BY DEF TakeOver, NextEpoch, ExactCursor
<1>4. EpochsBegan'
  <2>1. BeganBy(s, g)'
    BY <1>1, <1>2, <1>3, CursorRange DEF HistoryInv, BeganBy
  <2>2. ASSUME NEW t \in Shadows \ {s}, NEW h \in grants, BeganBy(t, h)
        PROVE  BeganBy(t, h)'
    BY <2>2, <1>1, <1>2 DEF BeganBy
  <2>3. epoch'[s] # 0
    BY <1>2, GrantRange DEF HistoryInv
  <2> QED
    BY <2>1, <2>2, <2>3, <1>1, <1>2 DEF HistoryInv, EpochsBegan
<1>5. OutputsOwned'
  <2>1. \A i \in 1 .. Len(chain[s]) : chain[s][i].epoch < g.epoch
    BY <1>3, CursorRange DEF HistoryInv, OutputsOwned
  <2>2. g.epoch \in Nat /\ \A i \in 1 .. Len(chain[s]) : chain[s][i].epoch \in Nat
    BY CursorRange, GrantRange DEF HistoryInv
  <2> QED
    BY <2>1, <2>2, <1>1, <1>2 DEF HistoryInv, OutputsOwned
<1>6. /\ SignedHistory' /\ OneGrantPerEpoch' /\ GrantsLookBack'
      /\ OneOutputPerPosition'
  BY <1>1 DEF HistoryInv, SignedHistory, OneGrantPerEpoch, GrantsLookBack,
              OneOutputPerPosition
<1> QED
  BY <1>4, <1>5, <1>6

\* The inductive invariant of replication and takeover.
THEOREM History == Spec => []HistoryInv
<1>1. Init => HistoryInv
  <2> SUFFICES ASSUME Init
               PROVE  HistoryInv
    OBVIOUS
  <2>1. TypeOK
    BY DomainAssumption, BoundAssumption DEF Init, TypeOK
  <2>2. /\ SignedHistory /\ OneGrantPerEpoch /\ GrantsLookBack
        /\ EpochsBegan /\ OutputsOwned /\ OneOutputPerPosition
    BY DEF Init, SignedHistory, OneGrantPerEpoch, GrantsLookBack, EpochsBegan,
           OutputsOwned, OneOutputPerPosition
  <2> QED
    BY <2>1, <2>2 DEF HistoryInv
<1>2. HistoryInv /\ TypeOK' /\ [Next]_vars => HistoryInv'
  <2> SUFFICES ASSUME HistoryInv, TypeOK', [Next]_vars
               PROVE  HistoryInv'
    OBVIOUS
  <2>1. CASE UNCHANGED vars
    BY <2>1 DEF vars, HistoryInv, SignedHistory, OneGrantPerEpoch,
       GrantsLookBack, EpochsBegan, BeganBy, OutputsOwned, OneOutputPerPosition
  <2>2. CASE Next
    BY <2>2, SignKeepsHistory, SignGrantKeepsHistory, ReplicateKeepsHistory,
       TakeOverKeepsHistory DEF Next, HistoryInv
  <2> QED
    BY <2>1, <2>2
<1> QED
  BY <1>1, <1>2, TypeCorrectness, PTL DEF Spec

\* The epoch of a shadow is the one its request began it with: two shadows
\* in one epoch of a request follow one mixer from one point.
LEMMA SameEpochSameStart ==
  ASSUME HistoryInv, NEW s \in Shadows, NEW t \in Shadows,
         domain[s] = domain[t], epoch[s] = epoch[t]
  PROVE  /\ mixer[s] = mixer[t]
         /\ \E n \in Nat :
              /\ n <= Len(chain[s]) /\ n <= Len(chain[t])
              /\ \A i \in 1 .. n : /\ chain[s][i] = chain[t][i]
                                  /\ chain[s][i].epoch < epoch[s]
              /\ \A i \in 1 .. Len(chain[s]) : i > n => chain[s][i].epoch = epoch[s]
              /\ \A i \in 1 .. Len(chain[t]) : i > n => chain[t][i].epoch = epoch[s]
<1>1. CASE epoch[s] = 0
  <2>1. mixer[s] = mixer[t]
    BY <1>1 DEF HistoryInv, EpochsBegan
  <2>2. ASSUME NEW u \in Shadows, epoch[u] = 0, NEW i \in 1 .. Len(chain[u])
        PROVE  chain[u][i].epoch = 0
    <3>1. chain[u][i].epoch <= 0 /\ chain[u][i].epoch \in Nat
      BY <2>2, CursorRange DEF HistoryInv, OutputsOwned
    <3> QED
      BY <3>1
  <2>3. 0 <= Len(chain[s]) /\ 0 <= Len(chain[t])
    BY CursorRange DEF HistoryInv
  <2>4. /\ \A i \in 1 .. Len(chain[s]) : chain[s][i].epoch = epoch[s]
        /\ \A i \in 1 .. Len(chain[t]) : chain[t][i].epoch = epoch[s]
    BY <1>1, <2>2
  <2>5. /\ 0 \in Nat
        /\ \A i \in 1 .. 0 : chain[s][i] = chain[t][i] /\ chain[s][i].epoch < epoch[s]
    OBVIOUS
  <2> QED
    BY <2>1, <2>3, <2>4, <2>5
<1>2. CASE epoch[s] # 0
  <2>1. PICK g \in grants : BeganBy(s, g)
    BY <1>2 DEF HistoryInv, EpochsBegan
  <2>2. PICK h \in grants : BeganBy(t, h)
    BY <1>2 DEF HistoryInv, EpochsBegan
  <2>3. g = h
    BY <2>1, <2>2 DEF HistoryInv, OneGrantPerEpoch, BeganBy
  <2>4. Len(g.last) \in Nat
    BY GrantRange DEF HistoryInv
  <2>5. \A i \in 1 .. Len(g.last) : /\ chain[s][i] = g.last[i] /\ chain[t][i] = g.last[i]
                                   /\ g.last[i].epoch < epoch[s]
    BY <2>1, <2>2, <2>3 DEF HistoryInv, GrantsLookBack, BeganBy
  <2> QED
    BY <2>1, <2>2, <2>3, <2>4, <2>5 DEF BeganBy
<1> QED
  BY <1>1, <1>2

\* Whatever earlier mixers forked, a takeover leaves the shadows that make
\* it with one history.
THEOREM SealedHistory == Spec => []TakeoverSealsHistory
<1>1. HistoryInv => TakeoverSealsHistory
  <2> SUFFICES ASSUME HistoryInv, NEW s \in Shadows, NEW t \in Shadows,
                      domain[s] = domain[t], epoch[s] = epoch[t]
               PROVE  /\ Earlier(s) = Earlier(t)
                      /\ \A i \in Earlier(s) : chain[s][i] = chain[t][i]
    BY DEF TakeoverSealsHistory
  <2>1. PICK n \in Nat :
          /\ n <= Len(chain[s]) /\ n <= Len(chain[t])
          /\ \A i \in 1 .. n : /\ chain[s][i] = chain[t][i]
                              /\ chain[s][i].epoch < epoch[s]
          /\ \A i \in 1 .. Len(chain[s]) : i > n => chain[s][i].epoch = epoch[s]
          /\ \A i \in 1 .. Len(chain[t]) : i > n => chain[t][i].epoch = epoch[s]
    BY SameEpochSameStart
  <2>2. /\ DOMAIN chain[s] = 1 .. Len(chain[s]) /\ DOMAIN chain[t] = 1 .. Len(chain[t])
        /\ Len(chain[s]) \in Nat /\ Len(chain[t]) \in Nat /\ epoch[s] \in Nat
    BY CursorRange DEF HistoryInv
  <2>3. Earlier(s) = 1 .. n
    <3>1. \A i \in 1 .. Len(chain[s]) : chain[s][i].epoch < epoch[s] <=> i \in 1 .. n
      BY <2>1, <2>2
    <3> QED
      BY <3>1, <2>1, <2>2 DEF Earlier
  <2>4. Earlier(t) = 1 .. n
    <3>1. \A i \in 1 .. Len(chain[t]) : chain[t][i].epoch < epoch[t] <=> i \in 1 .. n
      BY <2>1, <2>2
    <3> QED
      BY <3>1, <2>1, <2>2 DEF Earlier
  <2> QED
    BY <2>1, <2>3, <2>4
<1> QED
  BY <1>1, History, PTL

\* Shadows of one epoch of a mixer that does not fork only lag behind each
\* other.
THEOREM Agreement == Spec => []ReplicasAgree
<1>1. ASSUME HistoryInv, NEW s \in Shadows, NEW t \in Shadows,
             domain[s] = domain[t], epoch[s] = epoch[t], mixer[s] \notin Forking,
             Len(chain[s]) <= Len(chain[t])
      PROVE  IsPrefix(chain[s], chain[t])
  <2> DEFINE k == Len(chain[s])
  <2>1. PICK n \in Nat :
          /\ n <= Len(chain[s]) /\ n <= Len(chain[t])
          /\ \A i \in 1 .. n : /\ chain[s][i] = chain[t][i]
                              /\ chain[s][i].epoch < epoch[s]
          /\ \A i \in 1 .. Len(chain[s]) : i > n => chain[s][i].epoch = epoch[s]
          /\ \A i \in 1 .. Len(chain[t]) : i > n => chain[t][i].epoch = epoch[s]
    BY <1>1, SameEpochSameStart
  <2>2. /\ chain[s] \in Seq(Output) /\ chain[t] \in Seq(Output)
        /\ k \in Nat /\ Len(chain[t]) \in Nat
        /\ DOMAIN chain[s] = 1 .. k /\ DOMAIN chain[t] = 1 .. Len(chain[t])
    BY <1>1, CursorRange DEF HistoryInv
  <2>3. mixer[s] = mixer[t]
    BY <1>1, SameEpochSameStart
  <2>4. \A i \in 1 .. k : chain[s][i] = chain[t][i]
    <3>1. CASE k <= n
      BY <3>1, <2>1, <2>2
    <3>2. CASE k > n
      <4>1. k \in 1 .. Len(chain[s]) /\ k \in 1 .. Len(chain[t])
        BY <1>1, <2>2, <3>2
      <4>2. chain[s][k].epoch = epoch[s] /\ chain[t][k].epoch = epoch[s]
        BY <2>1, <3>2, <4>1
      <4>3. chain[s][k].mixer = mixer[s] /\ chain[t][k].mixer = mixer[s]
        BY <1>1, <2>3, <4>1, <4>2 DEF HistoryInv, OutputsOwned
      <4>4. PICK v \in envelopes : /\ v.domain = domain[s] /\ v.output = chain[s][k]
                                  /\ v.previous = SubSeq(chain[s], 1, k - 1)
        BY <1>1, <2>2, <4>1 DEF HistoryInv, SignedHistory
      <4>5. PICK w \in envelopes : /\ w.domain = domain[t] /\ w.output = chain[t][k]
                                  /\ w.previous = SubSeq(chain[t], 1, k - 1)
        BY <1>1, <2>2, <4>1 DEF HistoryInv, SignedHistory
      <4>6. /\ Len(v.previous) = k - 1 /\ Len(w.previous) = k - 1
            /\ \A j \in 1 .. k - 1 : /\ v.previous[j] = chain[s][j]
                                     /\ w.previous[j] = chain[t][j]
        BY <2>2, <4>1, <4>4, <4>5, BeforeElements
      <4>7. v = w
        BY <1>1, <4>2, <4>3, <4>4, <4>5, <4>6 DEF HistoryInv, OneOutputPerPosition
      <4>8. \A i \in 1 .. k : i \in 1 .. k - 1 \/ i = k
        BY <2>2
      <4> QED
        BY <4>4, <4>5, <4>6, <4>7, <4>8
    <3> QED
      BY <2>1, <2>2, <3>1, <3>2
  <2> QED
    BY <1>1, <2>2, <2>4, PrefixElements
<1>2. HistoryInv => ReplicasAgree
  <2> SUFFICES ASSUME HistoryInv, NEW s \in Shadows, NEW t \in Shadows,
                      domain[s] = domain[t], epoch[s] = epoch[t],
                      mixer[s] \notin Forking
               PROVE  IsPrefix(chain[s], chain[t]) \/ IsPrefix(chain[t], chain[s])
    BY DEF ReplicasAgree
  <2>1. mixer[t] = mixer[s]
    BY SameEpochSameStart
  <2>2. Len(chain[s]) \in Nat /\ Len(chain[t]) \in Nat
    BY CursorRange DEF HistoryInv
  <2>3. CASE Len(chain[s]) <= Len(chain[t])
    BY <2>3, <1>1
  <2>4. CASE Len(chain[t]) <= Len(chain[s])
    BY <2>1, <2>4, <1>1
  <2> QED
    BY <2>2, <2>3, <2>4
<1> QED
  BY <1>2, History, PTL

\* A shadow commits an output only in the history its mixer signed it for.
THEOREM NoSplicing == Spec => []SignedHistory
<1>1. HistoryInv => SignedHistory
  BY DEF HistoryInv
<1> QED
  BY <1>1, History, PTL

-----------------------------------------------------------------------------
(* Finality.                                                               *)

\* What GrantIsFinal says of one shadow and one grant it took, element by
\* element, and that no grant is of an epoch the shadow has yet to reach.
Sealed(s, g) ==
  /\ g.epoch <= epoch[s]
  /\ Len(g.last) <= Len(chain[s])
  /\ \A i \in 1 .. Len(g.last) : chain[s][i] = g.last[i]
  /\ \A i \in 1 .. Len(chain[s]) : i > Len(g.last) => chain[s][i].epoch >= g.epoch

AllSealed == \A s \in Shadows : \A g \in usedGrants[s] : Sealed(s, g)

\* Committing an output keeps every grant of the shadow final.
LEMMA ReplicateKeepsSealed ==
  ASSUME TypeOK, AllSealed, NEW s \in Shadows, NEW v \in envelopes, Replicate(s, v)
  PROVE  AllSealed'
<1>1. /\ chain'[s] = Append(chain[s], v.output) /\ v.output.epoch = epoch[s]
      /\ \A t \in Shadows \ {s} : chain'[t] = chain[t]
      /\ UNCHANGED <<epoch, usedGrants>>
  BY DEF TypeOK, Replicate, FromActiveMixer
<1>2. chain[s] \in Seq(Output) /\ v.output \in Output
  BY CursorRange, EnvelopeRange
<1>3. ASSUME NEW g \in usedGrants[s]
      PROVE  Sealed(s, g)'
  <2>1. g \in grants
    BY DEF TypeOK
  <2>2. Len(g.last) \in Nat /\ g.epoch \in Nat /\ epoch[s] \in Nat
    BY <2>1, GrantRange, CursorRange
  <2>3. Sealed(s, g)
    BY DEF AllSealed
  <2>4. /\ Len(chain'[s]) = Len(chain[s]) + 1 /\ Len(chain[s]) \in Nat
        /\ \A i \in 1 .. Len(chain[s]) : chain'[s][i] = chain[s][i]
        /\ chain'[s][Len(chain[s]) + 1] = v.output
    BY <1>1, <1>2, AppendElements
  <2> QED
    BY <1>1, <2>2, <2>3, <2>4 DEF Sealed
<1>4. ASSUME NEW t \in Shadows \ {s}, NEW g \in usedGrants[t]
      PROVE  Sealed(t, g)'
  BY <1>1 DEF AllSealed, Sealed
<1> QED
  BY <1>1, <1>3, <1>4 DEF AllSealed

\* A grant is taken from its own cursor, so it starts out final; the ones
\* taken before it stay so.
LEMMA TakeOverKeepsSealed ==
  ASSUME TypeOK, AllSealed, NEW s \in Shadows, NEW g \in grants, TakeOver(s, g)
  PROVE  AllSealed'
<1>1. /\ epoch'[s] = epoch[s] + 1 /\ g.epoch = epoch[s] + 1
      /\ usedGrants'[s] = usedGrants[s] \cup {g}
      /\ \A t \in Shadows \ {s} : epoch'[t] = epoch[t] /\ usedGrants'[t] = usedGrants[t]
      /\ UNCHANGED chain /\ g.last = chain[s]
  BY DEF TypeOK, TakeOver, NextEpoch, ExactCursor
<1>2. epoch[s] \in Nat /\ Len(chain[s]) \in Nat
  BY CursorRange
<1>3. Sealed(s, g)'
  BY <1>1, <1>2 DEF Sealed
<1>4. ASSUME NEW h \in usedGrants[s]
      PROVE  Sealed(s, h)'
  <2>1. h.epoch \in Nat
    BY GrantRange DEF TypeOK
  <2> QED
    BY <1>1, <1>2, <2>1 DEF AllSealed, Sealed
<1>5. ASSUME NEW t \in Shadows \ {s}, NEW h \in usedGrants[t]
      PROVE  Sealed(t, h)'
  BY <1>1 DEF AllSealed, Sealed
<1> QED
  BY <1>1, <1>3, <1>4, <1>5 DEF AllSealed

\* A takeover fences what it replaces: what the grant handed over stays,
\* and no output of an earlier epoch is committed after it.
THEOREM Finality == Spec => []GrantIsFinal
<1>1. Init => AllSealed
  BY DEF Init, AllSealed
<1>2. TypeOK /\ AllSealed /\ [Next]_vars => AllSealed'
  <2> SUFFICES ASSUME TypeOK, AllSealed, [Next]_vars
               PROVE  AllSealed'
    OBVIOUS
  <2>1. ASSUME NEW s \in Shadows, NEW event \in Events, Sign(s, event)
        PROVE  AllSealed'
    BY <2>1 DEF AllSealed, Sealed, Sign
  <2>2. ASSUME NEW s \in Shadows, NEW m \in Mixers, SignGrant(s, m)
        PROVE  AllSealed'
    BY <2>2 DEF AllSealed, Sealed, SignGrant
  <2>3. CASE UNCHANGED vars
    BY <2>3 DEF AllSealed, Sealed, vars
  <2> QED
    BY <2>1, <2>2, <2>3, ReplicateKeepsSealed, TakeOverKeepsSealed DEF Next
<1>3. TypeOK /\ AllSealed => GrantIsFinal
  <2> SUFFICES ASSUME TypeOK, AllSealed, NEW s \in Shadows, NEW g \in usedGrants[s]
               PROVE  /\ IsPrefix(g.last, chain[s])
                      /\ \A i \in DOMAIN chain[s] :
                           i > Len(g.last) => chain[s][i].epoch >= g.epoch
    BY DEF GrantIsFinal
  <2>1. g \in grants
    BY DEF TypeOK
  <2>2. g.last \in Seq(Output) /\ chain[s] \in Seq(Output)
    BY <2>1, GrantRange, CursorRange
  <2>3. Sealed(s, g)
    BY DEF AllSealed
  <2> QED
    BY <2>2, <2>3, PrefixElements DEF Sealed
<1> QED
  BY <1>1, <1>2, <1>3, TypeCorrectness, PTL DEF Spec
=============================================================================
