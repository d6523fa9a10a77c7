----------------------- MODULE PromotionLedger_proofs -----------------------
(***************************************************************************)
(* Proofs about PromotionLedger: what was acknowledged stays on the disk,  *)
(* for any number of handles on the file and any faults; and while one     *)
(* handle writes, nothing is acknowledged twice, because whoever opens the *)
(* file reads back all that was acknowledged.                              *)
(***************************************************************************)
EXTENDS PromotionLedger, SequenceTheorems, FunctionTheorems, FiniteSetTheorems, TLAPS

IsSequence(s) == s \in Seq({s[i] : i \in DOMAIN s})

(* The nonces in the first k pieces. *)
FirstNonces(pieces, k) == {pieces[i].nonce : i \in {j \in 1 .. k : IsLine(pieces[j])}}

FileTyped == IsSequence(file) /\ synced \in 0 .. Len(file)

CallsTyped ==
  /\ pc \in [Handles -> Where]
  /\ nonce \in [Handles -> AllNonces \cup {None}]
  /\ \A h \in Handles : pc[h] # "idle" => nonce[h] \in AllNonces
  /\ acked \in Seq(AllNonces)

(* A call that waits for its newline or its sync has its line in the file. *)
LineWritten ==
  \A h \in Handles :
    pc[h] \in {"newline", "sync"} => nonce[h] \in FirstNonces(file, Len(file))

AckedFirst == \A i \in 1 .. Len(acked) : acked[i] \in FirstNonces(file, synced)

LedgerInv == FileTyped /\ CallsTyped /\ LineWritten /\ AckedFirst
-----------------------------------------------------------------------------
(* Sequences and their prefixes.                                           *)
LEMMA SequenceOfAnything ==
  ASSUME NEW S, NEW s \in Seq(S)
  PROVE  IsSequence(s)
<1>1. DOMAIN s = 1 .. Len(s) /\ Len(s) \in Nat
  BY LenProperties
<1>2. s = [i \in 1 .. Len(s) |-> s[i]]
  BY <1>1, LenProperties
<1> QED BY <1>1, <1>2 DEF IsSequence

LEMMA Appended ==
  ASSUME NEW s, IsSequence(s), NEW x
  PROVE  /\ IsSequence(Append(s, x))
         /\ Len(Append(s, x)) = Len(s) + 1 /\ Len(s) \in Nat
         /\ \A i \in 1 .. Len(s) : Append(s, x)[i] = s[i]
         /\ Append(s, x)[Len(s) + 1] = x
<1> DEFINE T == {s[i] : i \in DOMAIN s} \cup {x}
<1>1. s \in Seq(T) /\ x \in T
  BY DEF IsSequence
<1> HIDE DEF T
<1>2. /\ Append(s, x) \in Seq(T) /\ Len(Append(s, x)) = Len(s) + 1 /\ Len(s) \in Nat
      /\ \A i \in 1 .. Len(s) : Append(s, x)[i] = s[i]
      /\ Append(s, x)[Len(s) + 1] = x
  BY <1>1, AppendProperties, LenProperties
<1>3. IsSequence(Append(s, x))
  BY <1>2, SequenceOfAnything
<1> QED BY <1>2, <1>3

LEMMA Cut ==
  ASSUME NEW s, IsSequence(s), NEW k \in 0 .. Len(s)
  PROVE  /\ IsSequence(SubSeq(s, 1, k)) /\ Len(SubSeq(s, 1, k)) = k
         /\ \A i \in 1 .. k : SubSeq(s, 1, k)[i] = s[i]
<1> DEFINE T == {s[i] : i \in DOMAIN s}
<1>1. s \in Seq(T) /\ Len(s) \in Nat /\ DOMAIN s = 1 .. Len(s)
  BY LenProperties DEF IsSequence
<1>2. \A i \in 1 .. k : s[i] \in T
  BY <1>1
<1> HIDE DEF T
<1>3. /\ SubSeq(s, 1, k) \in Seq(T)
      /\ Len(SubSeq(s, 1, k)) = IF 1 <= k THEN k - 1 + 1 ELSE 0
      /\ \A i \in 1 .. k - 1 + 1 : SubSeq(s, 1, k)[i] = s[1 + i - 1]
  BY <1>1, <1>2, SubSeqProperties
<1>4. IsSequence(SubSeq(s, 1, k))
  BY <1>3, SequenceOfAnything
<1> QED BY <1>1, <1>3, <1>4

(* Files that agree up to a piece have its nonces in common.               *)
LEMMA PrefixKeepsNonces ==
  ASSUME NEW f, NEW g, NEW j \in Nat, NEW k \in Nat, j <= k,
         \A i \in 1 .. j : g[i] = f[i]
  PROVE  FirstNonces(f, j) \subseteq FirstNonces(g, k)
BY DEF FirstNonces

LEMMA NoncesOfPrefix ==
  ASSUME NEW s, IsSequence(s), NEW k \in 0 .. Len(s)
  PROVE  NoncesOf(SubSeq(s, 1, k)) = FirstNonces(s, k)
<1>1. DOMAIN SubSeq(s, 1, k) = 1 .. k
  BY Cut, LenProperties DEF IsSequence
<1>2. \A i \in 1 .. k : SubSeq(s, 1, k)[i] = s[i]
  BY Cut
<1>3. {i \in DOMAIN SubSeq(s, 1, k) : IsLine(SubSeq(s, 1, k)[i])} = {j \in 1 .. k : IsLine(s[j])}
  BY <1>1, <1>2
<1> QED BY <1>2, <1>3 DEF NoncesOf, FirstNonces

LEMMA LineIsLine == ASSUME NEW n, NEW e PROVE IsLine(Line(n, e)) /\ Line(n, e).nonce = n
BY DEF Line, IsLine, Newline, Torn
-----------------------------------------------------------------------------
(* The invariant.                                                          *)
LEMMA LedgerInit == Init => LedgerInv
<1> SUFFICES ASSUME Init PROVE LedgerInv
  OBVIOUS
<1>1. FileTyped
  <2>1. IsSequence(<<>>) /\ Len(<<>>) = 0
    BY DEF IsSequence
  <2> QED BY <2>1 DEF Init, FileTyped
<1>2. CallsTyped /\ LineWritten /\ AckedFirst
  BY DEF Init, CallsTyped, LineWritten, AckedFirst, Where
<1> QED BY <1>1, <1>2 DEF LedgerInv

(* Whatever is put behind what is there, nothing that was there is lost.   *)
LEMMA AppendKeeps ==
  ASSUME LedgerInv, NEW x, file' = Append(file, x), UNCHANGED <<synced, acked>>
  PROVE  /\ FileTyped' /\ AckedFirst'
         /\ FirstNonces(file, Len(file)) \subseteq FirstNonces(file', Len(file'))
         /\ IsLine(x) => x.nonce \in FirstNonces(file', Len(file'))
<1>1. /\ IsSequence(file') /\ Len(file) \in Nat /\ Len(file') = Len(file) + 1
      /\ \A i \in 1 .. Len(file) : file'[i] = file[i]
      /\ file'[Len(file) + 1] = x
  BY Appended DEF LedgerInv, FileTyped
<1>2. FileTyped'
  BY <1>1 DEF LedgerInv, FileTyped
<1>3. /\ synced \in Nat /\ synced <= Len(file) /\ Len(file') \in Nat
      /\ \A i \in 1 .. synced : file'[i] = file[i]
  BY <1>1 DEF LedgerInv, FileTyped
<1>4. FirstNonces(file, synced) \subseteq FirstNonces(file', synced)
  BY <1>3 DEF FirstNonces
<1>5. FirstNonces(file, Len(file)) \subseteq FirstNonces(file', Len(file'))
  BY <1>1 DEF FirstNonces
<1>6. IsLine(x) => x.nonce \in FirstNonces(file', Len(file'))
  BY <1>1 DEF FirstNonces
<1> QED BY <1>2, <1>4, <1>5, <1>6 DEF LedgerInv, AckedFirst

(* Steps that leave the disk alone and begin or end a call.                *)
LEMMA CallKeeps ==
  ASSUME LedgerInv, UNCHANGED <<file, synced, acked>>, CallsTyped', LineWritten'
  PROVE  LedgerInv'
BY DEF LedgerInv, FileTyped, AckedFirst

LEMMA AbortKeeps ==
  ASSUME LedgerInv, NEW h \in Handles, Abort(h), UNCHANGED acked
  PROVE  CallsTyped'
BY DEF LedgerInv, CallsTyped, Abort, Where

LEMMA WriteLineKeeps ==
  ASSUME LedgerInv, NEW h \in Handles, WriteLine(h)
  PROVE  LedgerInv'
<1>1. CASE /\ file' = Append(file, Line(nonce[h], entries[h]))
           /\ pc' = [pc EXCEPT ![h] = "newline"] /\ UNCHANGED nonce
  <2>1. CallsTyped'
    BY <1>1 DEF LedgerInv, CallsTyped, WriteLine, Where
  <2>2. /\ FileTyped' /\ AckedFirst'
        /\ FirstNonces(file, Len(file)) \subseteq FirstNonces(file', Len(file'))
        /\ nonce[h] \in FirstNonces(file', Len(file'))
    BY <1>1, AppendKeeps, LineIsLine DEF WriteLine
  <2>3. LineWritten'
    BY <1>1, <2>2 DEF LedgerInv, LineWritten, CallsTyped
  <2> QED BY <2>1, <2>2, <2>3 DEF LedgerInv
<1>2. CASE Abort(h) /\ UNCHANGED file
  <2>1. CallsTyped'
    BY <1>2, AbortKeeps DEF WriteLine
  <2>2. LineWritten'
    BY <1>2 DEF LedgerInv, LineWritten, CallsTyped, Abort
  <2> QED BY <1>2, <2>1, <2>2, CallKeeps DEF WriteLine
<1>3. CASE Abort(h) /\ file' = Append(file, Torn)
  <2>1. CallsTyped'
    BY <1>3, AbortKeeps DEF WriteLine
  <2>2. /\ FileTyped' /\ AckedFirst'
        /\ FirstNonces(file, Len(file)) \subseteq FirstNonces(file', Len(file'))
    BY <1>3, AppendKeeps DEF WriteLine
  <2>3. LineWritten'
    BY <1>3, <2>2 DEF LedgerInv, LineWritten, CallsTyped, Abort
  <2> QED BY <2>1, <2>2, <2>3 DEF LedgerInv
<1> QED BY <1>1, <1>2, <1>3 DEF WriteLine

LEMMA WriteNewlineKeeps ==
  ASSUME LedgerInv, NEW h \in Handles, WriteNewline(h)
  PROVE  LedgerInv'
<1>1. CASE file' = Append(file, Newline) /\ pc' = [pc EXCEPT ![h] = "sync"] /\ UNCHANGED nonce
  <2>1. CallsTyped'
    BY <1>1 DEF LedgerInv, CallsTyped, WriteNewline, Where
  <2>2. /\ FileTyped' /\ AckedFirst'
        /\ FirstNonces(file, Len(file)) \subseteq FirstNonces(file', Len(file'))
    BY <1>1, AppendKeeps DEF WriteNewline
  <2>3. LineWritten'
    BY <1>1, <2>2 DEF LedgerInv, LineWritten, CallsTyped, WriteNewline
  <2> QED BY <2>1, <2>2, <2>3 DEF LedgerInv
<1>2. CASE Abort(h) /\ UNCHANGED file
  <2>1. CallsTyped'
    BY <1>2, AbortKeeps DEF WriteNewline
  <2>2. LineWritten'
    BY <1>2 DEF LedgerInv, LineWritten, CallsTyped, Abort
  <2> QED BY <1>2, <2>1, <2>2, CallKeeps DEF WriteNewline
<1> QED BY <1>1, <1>2 DEF WriteNewline

(* After the barrier the whole file is safe, the caller's line in it.      *)
LEMMA SyncKeeps ==
  ASSUME LedgerInv, NEW h \in Handles, Sync(h)
  PROVE  LedgerInv'
<1>1. /\ nonce[h] \in AllNonces /\ nonce[h] \in FirstNonces(file, Len(file))
      /\ file' = file /\ synced' = Len(file) /\ acked' = Append(acked, nonce[h])
  BY DEF LedgerInv, LineWritten, CallsTyped, Sync
<1>2. Len(file) \in Nat /\ synced \in Nat /\ synced <= Len(file)
  BY LenProperties DEF LedgerInv, FileTyped, IsSequence
<1>3. FileTyped'
  BY <1>1, <1>2 DEF LedgerInv, FileTyped
<1>4. acked \in Seq(AllNonces)
  BY DEF LedgerInv, CallsTyped
<1>5. /\ acked' \in Seq(AllNonces) /\ Len(acked') = Len(acked) + 1 /\ Len(acked) \in Nat
      /\ \A i \in 1 .. Len(acked) : acked'[i] = acked[i]
      /\ acked'[Len(acked) + 1] = nonce[h]
  BY <1>1, <1>4, AppendProperties, LenProperties
<1>6. CallsTyped'
  BY <1>5 DEF LedgerInv, CallsTyped, Sync, Where
<1>7. LineWritten'
  BY <1>1 DEF LedgerInv, LineWritten, CallsTyped, Sync
<1>8. FirstNonces(file, synced) \subseteq FirstNonces(file', synced')
  BY <1>1, <1>2, PrefixKeepsNonces
<1>9. AckedFirst'
  <2> SUFFICES ASSUME NEW i \in 1 .. Len(acked') PROVE acked'[i] \in FirstNonces(file', synced')
    BY DEF AckedFirst
  <2>1. CASE i = Len(acked) + 1
    BY <1>1, <1>5, <2>1
  <2>2. CASE i # Len(acked) + 1
    <3>1. i \in 1 .. Len(acked)
      BY <1>5, <2>2
    <3> QED BY <1>5, <1>8, <3>1 DEF LedgerInv, AckedFirst
  <2> QED BY <2>1, <2>2
<1> QED BY <1>3, <1>6, <1>7, <1>9 DEF LedgerInv

(* Every survivor holds the synced pieces.                                 *)
LEMMA CrashKeeps ==
  ASSUME LedgerInv, Crash
  PROVE  LedgerInv'
<1>1. IsSequence(file) /\ Len(file) \in Nat /\ synced \in Nat /\ synced <= Len(file)
  BY LenProperties DEF LedgerInv, FileTyped, IsSequence
<1>2. /\ IsSequence(file') /\ Len(file') \in Nat /\ synced <= Len(file')
      /\ \A i \in 1 .. synced : file'[i] = file[i]
  <2>1. CASE \E k \in synced .. Len(file) : file' = SubSeq(file, 1, k)
    <3>1. PICK k \in synced .. Len(file) : file' = SubSeq(file, 1, k)
      BY <2>1
    <3>2. k \in 0 .. Len(file)
      BY <1>1
    <3>3. IsSequence(file') /\ Len(file') = k /\ \A i \in 1 .. k : file'[i] = file[i]
      BY <1>1, <3>1, <3>2, Cut
    <3> QED BY <1>1, <3>2, <3>3
  <2>2. CASE \E k \in synced + 1 .. Len(file) : file' = Append(SubSeq(file, 1, k - 1), Torn)
    <3>1. PICK k \in synced + 1 .. Len(file) : file' = Append(SubSeq(file, 1, k - 1), Torn)
      BY <2>2
    <3> DEFINE rest == SubSeq(file, 1, k - 1)
    <3>2. k - 1 \in 0 .. Len(file)
      BY <1>1
    <3>3. IsSequence(rest) /\ Len(rest) = k - 1 /\ \A i \in 1 .. k - 1 : rest[i] = file[i]
      BY <1>1, <3>2, Cut
    <3> HIDE DEF rest
    <3>4. /\ IsSequence(Append(rest, Torn)) /\ Len(Append(rest, Torn)) = Len(rest) + 1
          /\ \A i \in 1 .. Len(rest) : Append(rest, Torn)[i] = rest[i]
      BY <3>3, Appended
    <3>5. file' = Append(rest, Torn)
      BY <3>1 DEF rest
    <3> QED BY <1>1, <3>2, <3>3, <3>4, <3>5
  <2> QED BY <2>1, <2>2 DEF Crash, Survivors
<1>3. FileTyped'
  BY <1>2 DEF Crash, FileTyped
<1>4. CallsTyped' /\ LineWritten'
  BY DEF LedgerInv, CallsTyped, LineWritten, Crash, Where
<1>5. FirstNonces(file, synced) \subseteq FirstNonces(file', synced')
  BY <1>1, <1>2, PrefixKeepsNonces DEF Crash
<1>6. AckedFirst'
  BY <1>5 DEF LedgerInv, AckedFirst, Crash
<1> QED BY <1>3, <1>4, <1>6 DEF LedgerInv

LEMMA LedgerNext == LedgerInv /\ [Next]_vars => LedgerInv'
<1> SUFFICES ASSUME LedgerInv, [Next]_vars PROVE LedgerInv'
  OBVIOUS
<1>1. ASSUME NEW h \in Handles, Open(h) PROVE LedgerInv'
  BY <1>1, CallKeeps DEF LedgerInv, CallsTyped, LineWritten, Open
<1>2. ASSUME NEW h \in Handles, NEW n \in AllNonces, Begin(h, n) PROVE LedgerInv'
  <2>1. CallsTyped' /\ LineWritten'
    BY <1>2 DEF LedgerInv, CallsTyped, LineWritten, Begin, Where
  <2> QED BY <1>2, <2>1, CallKeeps DEF Begin
<1>3. ASSUME NEW h \in Handles, SyncFails(h) PROVE LedgerInv'
  <2>1. CallsTyped'
    BY <1>3, AbortKeeps DEF SyncFails
  <2>2. LineWritten'
    BY <1>3 DEF LedgerInv, CallsTyped, LineWritten, SyncFails, Abort
  <2> QED BY <1>3, <2>1, <2>2, CallKeeps DEF SyncFails
<1>4. CASE UNCHANGED vars
  BY <1>4, CallKeeps DEF LedgerInv, CallsTyped, LineWritten, vars
<1> QED BY <1>1, <1>2, <1>3, <1>4, WriteLineKeeps, WriteNewlineKeeps, SyncKeeps, CrashKeeps DEF Next
-----------------------------------------------------------------------------
(* What record_promotion answered Ok for is on the disk for good, however  *)
(* many handles write, whatever fails and wherever the machine stops       *)
(* (crates/ledger/src/lib.rs:224-231).                                     *)
THEOREM AcknowledgedIsDurable == Spec => []AckedIsDurable
<1>1. LedgerInv => AckedIsDurable
  <2> SUFFICES ASSUME LedgerInv PROVE AckedIsDurable
    OBVIOUS
  <2>1. NoncesOf(SubSeq(file, 1, synced)) = FirstNonces(file, synced)
    BY NoncesOfPrefix DEF LedgerInv, FileTyped
  <2>2. DOMAIN acked = 1 .. Len(acked)
    BY LenProperties DEF LedgerInv, CallsTyped
  <2> QED BY <2>1, <2>2 DEF LedgerInv, AckedFirst, AckedIsDurable, Known
<1> QED BY <1>1, LedgerInit, LedgerNext, PTL DEF Spec
-----------------------------------------------------------------------------
(* What is read back.                                                      *)

UpTo(P, i) == {j \in P : j <= i}

(* The members of a finite set of numbers are ranked from 1 by how many    *)
(* there are up to each.                                                   *)
LEMMA Ranks ==
  ASSUME NEW n \in Nat, NEW P \in SUBSET (1 .. n)
  PROVE  /\ IsFiniteSet(P) /\ Cardinality(P) \in Nat
         /\ \A i \in P : Cardinality(UpTo(P, i)) \in 1 .. Cardinality(P)
         /\ \A i, j \in P :
              i < j => Cardinality(UpTo(P, i)) < Cardinality(UpTo(P, j))
         /\ \A k \in 1 .. Cardinality(P) : \E i \in P : Cardinality(UpTo(P, i)) = k
<1>1. IsFiniteSet(P) /\ Cardinality(P) \in Nat
  <2>1. IsFiniteSet(1 .. n)
    BY FS_Interval
  <2> QED BY <2>1, FS_Subset, FS_CardinalityType
<1>2. \A i \in P : /\ UpTo(P, i) \in SUBSET P /\ IsFiniteSet(UpTo(P, i))
                   /\ Cardinality(UpTo(P, i)) \in Nat
  <2> SUFFICES ASSUME NEW i \in P
               PROVE  /\ UpTo(P, i) \in SUBSET P /\ IsFiniteSet(UpTo(P, i))
                      /\ Cardinality(UpTo(P, i)) \in Nat
    OBVIOUS
  <2>1. UpTo(P, i) \in SUBSET P
    BY DEF UpTo
  <2> QED BY <1>1, <2>1, FS_Subset, FS_CardinalityType
<1>3. ASSUME NEW i \in P
      PROVE  Cardinality(UpTo(P, i)) \in 1 .. Cardinality(P)
  <2>1. Cardinality(UpTo(P, i)) <= Cardinality(P)
    BY <1>1, <1>2, FS_Subset
  <2>2. i \in UpTo(P, i)
    BY DEF UpTo
  <2>3. Cardinality(UpTo(P, i)) # 0
    BY <1>2, <2>2, FS_EmptySet
  <2> QED BY <1>1, <1>2, <2>1, <2>3
<1>4. ASSUME NEW i \in P, NEW j \in P, i < j
      PROVE  Cardinality(UpTo(P, i)) < Cardinality(UpTo(P, j))
  <2>1. /\ UpTo(P, i) \in SUBSET UpTo(P, j)
        /\ j \in UpTo(P, j) /\ j \notin UpTo(P, i)
    <3>1. i \in Int /\ j \in Int /\ \A x \in P : x \in Int
      OBVIOUS
    <3>2. /\ j <= j /\ ~(j <= i)
          /\ \A x \in P : x <= i => x <= j
      BY <1>4, <3>1
    <3> QED BY <3>2 DEF UpTo
  <2>2. /\ Cardinality(UpTo(P, i)) <= Cardinality(UpTo(P, j))
        /\ Cardinality(UpTo(P, i)) # Cardinality(UpTo(P, j))
    BY <1>2, <2>1, FS_Subset
  <2> QED BY <1>2, <2>2
<1>5. \A k \in 1 .. Cardinality(P) : \E i \in P : Cardinality(UpTo(P, i)) = k
  <2> DEFINE c == Cardinality(P)
             rank == [i \in P |-> Cardinality(UpTo(P, i))]
  <2>1. rank \in [P -> 1 .. c]
    BY <1>3
  <2>2. \A i, j \in P : rank[i] = rank[j] => i = j
    <3> SUFFICES ASSUME NEW i \in P, NEW j \in P, rank[i] = rank[j] PROVE i = j
      OBVIOUS
    <3>1. i \in Nat /\ j \in Nat /\ rank[i] \in Nat /\ rank[j] \in Nat
      BY <1>2
    <3>2. ~(i < j) /\ ~(j < i)
      BY <1>4, <3>1
    <3> QED BY <3>1, <3>2
  <2>3. rank \in Injection(P, 1 .. c)
    BY <2>1, <2>2 DEF Injection, IsInjective
  <2>4. IsFiniteSet(1 .. c) /\ Cardinality(1 .. c) = c
    BY <1>1, FS_Interval
  <2>5. rank \in Surjection(P, 1 .. c)
    BY <2>3, <2>4, FS_Injection
  <2>6. \A k \in 1 .. c : \E i \in P : rank[i] = k
    BY <2>5 DEF Surjection
  <2> QED BY <2>6
<1> QED BY <1>1, <1>3, <1>4, <1>5


LinePositions(s) == {i \in DOMAIN s : IsLine(s[i])}

(* LinesOf gives the lines of a file, every one and nothing else.          *)
LEMMA Selected ==
  ASSUME NEW S, NEW s \in Seq(S)
  PROVE  /\ LinesOf(s) \in Seq({x \in S : IsLine(x)})
         /\ \A i \in LinePositions(s) : \E k \in DOMAIN LinesOf(s) : LinesOf(s)[k] = s[i]
<1> DEFINE at == LinePositions(s)
           n == Len(s)
           c == Cardinality(at)
           pick(k) == CHOOSE i \in at : Cardinality(UpTo(at, i)) = k
<1>1. n \in Nat /\ at \in SUBSET (1 .. n)
  BY LenProperties DEF LinePositions
<1>2. LinesOf(s) = [k \in 1 .. c |-> s[pick(k)]]
  BY DEF LinesOf, LinePositions, UpTo
<1>3. \A i \in at : s[i] \in {x \in S : IsLine(x)}
  BY DEF LinePositions
<1> HIDE DEF at, n
<1>4. /\ c \in Nat
      /\ \A i \in at : Cardinality(UpTo(at, i)) \in 1 .. c
      /\ \A k \in 1 .. c : \E i \in at : Cardinality(UpTo(at, i)) = k
  BY <1>1, Ranks
<1>5. \A i, j \in at : i < j => Cardinality(UpTo(at, i)) < Cardinality(UpTo(at, j))
  BY <1>1, Ranks
<1>6. \A k \in 1 .. c : pick(k) \in at /\ Cardinality(UpTo(at, pick(k))) = k
  BY <1>4
<1>7. ASSUME NEW i \in at
      PROVE  Cardinality(UpTo(at, i)) \in 1 .. c /\ pick(Cardinality(UpTo(at, i))) = i
  <2> DEFINE r == Cardinality(UpTo(at, i))
  <2>1. r \in 1 .. c
    BY <1>4
  <2>2. pick(r) \in at /\ Cardinality(UpTo(at, pick(r))) = r
    BY <1>6, <2>1
  <2> DEFINE j == pick(r)
  <2> HIDE DEF j
  <2>4. j \in at /\ Cardinality(UpTo(at, j)) = r
    BY <2>2 DEF j
  <2>3. i \in Nat /\ j \in Nat /\ r \in Nat
    <3> HIDE DEF r, c
    <3> QED BY <1>1, <1>4, <2>1, <2>4
  <2> HIDE DEF r
  <2>5. ~(i < j) /\ ~(j < i)
    BY <1>5, <2>3, <2>4 DEF r
  <2>6. j = i
    BY <2>3, <2>5
  <2> QED BY <2>1, <2>6 DEF j, r
<1> HIDE DEF pick, c
<1>8. LinesOf(s) \in Seq({x \in S : IsLine(x)})
  BY <1>2, <1>3, <1>4, <1>6
<1>9. \A i \in at : \E k \in DOMAIN LinesOf(s) : LinesOf(s)[k] = s[i]
  BY <1>2, <1>7
<1> QED BY <1>8, <1>9 DEF at

Pieces == Lines(AllNonces) \cup {Newline, Torn}

(* Who opens a file knows the nonce of every line in it.                   *)
LEMMA ReadBack ==
  ASSUME NEW s \in Seq(Pieces)
  PROVE  /\ Nonces(LinesOf(s)) \in Seq(AllNonces)
         /\ NoncesOf(s) \subseteq Known(Nonces(LinesOf(s)))
<1> DEFINE lines == LinesOf(s)
<1>1. /\ lines \in Seq({x \in Pieces : IsLine(x)})
      /\ \A i \in LinePositions(s) : \E k \in DOMAIN lines : lines[k] = s[i]
  BY Selected
<1> HIDE DEF lines
<1>2. {x \in Pieces : IsLine(x)} \subseteq Lines(AllNonces)
  BY DEF Pieces, IsLine
<1>3. /\ Len(lines) \in Nat /\ DOMAIN lines = 1 .. Len(lines)
      /\ \A k \in DOMAIN lines : lines[k] \in Lines(AllNonces)
  BY <1>1, <1>2, LenProperties
<1>4. Nonces(lines) = [k \in 1 .. Len(lines) |-> lines[k].nonce]
  BY DEF Nonces, History
<1>5. Nonces(lines) \in Seq(AllNonces)
  BY <1>3, <1>4 DEF Lines
<1>6. Known(Nonces(lines)) = {lines[k].nonce : k \in DOMAIN lines}
  BY <1>3, <1>4 DEF Known
<1>7. NoncesOf(s) = {s[i].nonce : i \in LinePositions(s)}
  BY DEF NoncesOf, LinePositions
<1>8. NoncesOf(s) \subseteq Known(Nonces(lines))
  BY <1>1, <1>6, <1>7
<1> QED BY <1>5, <1>8 DEF lines
-----------------------------------------------------------------------------
(* Every piece, and what every handle has in memory, is of its type.       *)
MemoryTyped ==
  /\ file \in Seq(Pieces)
  /\ open \subseteq Handles
  /\ entries \in [Handles -> Seq(AllNonces)]

TypeInv == LedgerInv /\ MemoryTyped

LEMMA TypeInit == Init => TypeInv
BY LedgerInit DEF Init, TypeInv, MemoryTyped

LEMMA SurvivorsTyped ==
  ASSUME TypeInv, NEW f \in Survivors
  PROVE  f \in Seq(Pieces)
<1>1. Torn \in Pieces /\ file \in Seq(Pieces) /\ Len(file) \in Nat /\ synced \in 0 .. Len(file)
  BY LenProperties DEF TypeInv, MemoryTyped, LedgerInv, FileTyped, Pieces
<1>2. \A i \in 1 .. Len(file) : file[i] \in Pieces
  BY <1>1
<1>3. \A k \in 0 .. Len(file) : SubSeq(file, 1, k) \in Seq(Pieces)
  <2> SUFFICES ASSUME NEW k \in 0 .. Len(file) PROVE SubSeq(file, 1, k) \in Seq(Pieces)
    OBVIOUS
  <2>1. \A i \in 1 .. k : file[i] \in Pieces
    BY <1>1, <1>2
  <2> QED BY <1>1, <2>1, SubSeqProperties
<1>4. CASE \E k \in synced .. Len(file) : f = SubSeq(file, 1, k)
  BY <1>1, <1>3, <1>4
<1>5. CASE \E k \in synced + 1 .. Len(file) : f = Append(SubSeq(file, 1, k - 1), Torn)
  <2>1. PICK k \in synced + 1 .. Len(file) : f = Append(SubSeq(file, 1, k - 1), Torn)
    BY <1>5
  <2>2. SubSeq(file, 1, k - 1) \in Seq(Pieces)
    BY <1>1, <1>3
  <2> QED BY <1>1, <2>1, <2>2, AppendProperties
<1> QED BY <1>4, <1>5 DEF Survivors

LEMMA TypeNext == TypeInv /\ [Next]_vars => TypeInv'
<1> SUFFICES ASSUME TypeInv, [Next]_vars PROVE MemoryTyped'
  BY LedgerNext DEF TypeInv
<1>1. ASSUME NEW h \in Handles, Open(h) PROVE MemoryTyped'
  BY <1>1, ReadBack DEF Open, TypeInv, MemoryTyped
<1>2. ASSUME NEW h \in Handles, WriteLine(h) PROVE MemoryTyped'
  <2>1. Torn \in Pieces
    BY DEF Pieces
  <2>2. Line(nonce[h], entries[h]) \in Pieces
    BY <1>2 DEF WriteLine, TypeInv, LedgerInv, CallsTyped, MemoryTyped, Pieces, Lines, Line
  <2>3. \A x \in Pieces : Append(file, x) \in Seq(Pieces)
    BY AppendProperties DEF TypeInv, MemoryTyped
  <2>4. /\ UNCHANGED <<open, entries>>
        /\ \/ file' = Append(file, Line(nonce[h], entries[h]))
           \/ file' = file
           \/ file' = Append(file, Torn)
    BY <1>2 DEF WriteLine
  <2>5. file' \in Seq(Pieces)
    BY <2>1, <2>2, <2>3, <2>4 DEF TypeInv, MemoryTyped
  <2> QED BY <2>4, <2>5 DEF TypeInv, MemoryTyped
<1>3. ASSUME NEW h \in Handles, WriteNewline(h) PROVE MemoryTyped'
  <2>1. Newline \in Pieces
    BY DEF Pieces
  <2>2. Append(file, Newline) \in Seq(Pieces)
    BY <2>1, AppendProperties DEF TypeInv, MemoryTyped
  <2>3. UNCHANGED <<open, entries>> /\ (file' = Append(file, Newline) \/ file' = file)
    BY <1>3 DEF WriteNewline
  <2> QED BY <2>2, <2>3 DEF TypeInv, MemoryTyped
<1>4. ASSUME NEW h \in Handles, Sync(h) PROVE MemoryTyped'
  <2>1. nonce[h] \in AllNonces
    BY <1>4 DEF Sync, TypeInv, LedgerInv, CallsTyped
  <2> QED BY <1>4, <2>1, AppendProperties DEF Sync, TypeInv, MemoryTyped
<1>5. CASE Crash
  BY <1>5, SurvivorsTyped DEF Crash, TypeInv, MemoryTyped
<1>6. CASE UNCHANGED <<file, open, entries>>
  BY <1>6 DEF TypeInv, MemoryTyped
<1> QED BY <1>1, <1>2, <1>3, <1>4, <1>5, <1>6 DEF Next, SyncFails, Begin, vars

(* The file holds nothing but lines, newlines and torn lines, and memory   *)
(* nothing but nonces, whatever was read back from the file.               *)
THEOREM TypeCorrectness == Spec => []TypeOK
<1>1. TypeInv => TypeOK
  BY DEF TypeInv, LedgerInv, FileTyped, CallsTyped, MemoryTyped, TypeOK, Pieces
<1> QED BY <1>1, TypeInit, TypeNext, PTL DEF Spec
-----------------------------------------------------------------------------
(* A handle that is open knows all that was acknowledged, and a call is    *)
(* about a nonce its handle did not know.                                  *)
Remembers == \A h \in open : Known(acked) \subseteq Known(entries[h])

CallsAreNew ==
  \A h \in Handles : pc[h] # "idle" => h \in open /\ nonce[h] \notin Known(entries[h])

OnceInv == AckedOnce /\ Remembers /\ CallsAreNew

LEMMA KnownAppended ==
  ASSUME NEW S, NEW s \in Seq(S), NEW x \in S
  PROVE  Known(Append(s, x)) = Known(s) \cup {x}
<1>1. /\ Append(s, x) \in Seq(S) /\ Len(Append(s, x)) = Len(s) + 1 /\ Len(s) \in Nat
      /\ \A i \in 1 .. Len(s) : Append(s, x)[i] = s[i]
      /\ Append(s, x)[Len(s) + 1] = x
      /\ DOMAIN s = 1 .. Len(s) /\ DOMAIN Append(s, x) = 1 .. Len(s) + 1
  BY AppendProperties, LenProperties
<1> QED BY <1>1 DEF Known

LEMMA OnceNext ==
  ASSUME \A g, h \in Handles : g = h
  PROVE  TypeInv /\ OnceInv /\ [Next]_vars => OnceInv'
<1> SUFFICES ASSUME TypeInv, OnceInv, [Next]_vars PROVE OnceInv'
  OBVIOUS
<1>1. /\ acked \in Seq(AllNonces) /\ open \subseteq Handles
      /\ entries \in [Handles -> Seq(AllNonces)] /\ file \in Seq(Pieces)
      /\ pc \in [Handles -> Where] /\ nonce \in [Handles -> AllNonces \cup {None}]
  BY DEF TypeInv, MemoryTyped, LedgerInv, CallsTyped
<1>2. ASSUME NEW h \in Handles, Open(h) PROVE OnceInv'
  <2>1. Known(acked) \subseteq FirstNonces(file, synced)
    <3>1. DOMAIN acked = 1 .. Len(acked)
      BY <1>1, LenProperties
    <3> QED BY <3>1 DEF TypeInv, LedgerInv, AckedFirst, Known
  <2>2. FirstNonces(file, synced) \subseteq NoncesOf(file)
    <3>1. 1 .. synced \subseteq DOMAIN file
      BY <1>1, LenProperties DEF TypeInv, LedgerInv, FileTyped
    <3> QED BY <3>1 DEF FirstNonces, NoncesOf
  <2>3. entries'[h] = Nonces(LinesOf(file)) /\ NoncesOf(file) \subseteq Known(Nonces(LinesOf(file)))
    BY <1>1, <1>2, ReadBack DEF Open
  <2>4. Known(acked) \subseteq Known(entries'[h])
    BY <2>1, <2>2, <2>3
  <2> QED BY <1>1, <1>2, <2>4 DEF Open, OnceInv, AckedOnce, Remembers, CallsAreNew
<1>3. ASSUME NEW h \in Handles, NEW n \in AllNonces, Begin(h, n) PROVE OnceInv'
  BY <1>1, <1>3 DEF Begin, OnceInv, AckedOnce, Remembers, CallsAreNew
<1>4. ASSUME NEW h \in Handles, WriteLine(h) \/ WriteNewline(h) \/ SyncFails(h)
      PROVE  OnceInv'
  <2>1. /\ pc[h] # "idle" /\ UNCHANGED <<open, entries, acked>>
        /\ \/ UNCHANGED nonce /\ \E where \in Where : pc' = [pc EXCEPT ![h] = where]
           \/ Abort(h)
    BY <1>4 DEF WriteLine, WriteNewline, SyncFails, Where
  <2>2. CallsAreNew'
    BY <1>1, <2>1 DEF OnceInv, CallsAreNew, Abort
  <2> QED BY <2>1, <2>2 DEF OnceInv, AckedOnce, Remembers
<1>5. ASSUME NEW h \in Handles, Sync(h) PROVE OnceInv'
  <2> DEFINE x == nonce[h]
  <2>1. x \in AllNonces /\ x \notin Known(entries[h]) /\ h \in open
    BY <1>5 DEF Sync, TypeInv, LedgerInv, CallsTyped, OnceInv, CallsAreNew
  <2>2. x \notin Known(acked)
    BY <2>1 DEF OnceInv, Remembers
  <2>3. /\ acked' = Append(acked, x) /\ entries'[h] = Append(entries[h], x)
        /\ pc'[h] = "idle" /\ open' = open
    BY <1>1, <1>5 DEF Sync
  <2> HIDE DEF x
  <2>4. /\ Known(acked') = Known(acked) \cup {x}
        /\ Known(entries'[h]) = Known(entries[h]) \cup {x}
    BY <1>1, <2>1, <2>3, KnownAppended
  <2>5. AckedOnce'
    <3>1. /\ Len(acked) \in Nat /\ DOMAIN acked = 1 .. Len(acked)
          /\ DOMAIN acked' = 1 .. Len(acked) + 1
          /\ \A i \in 1 .. Len(acked) : acked'[i] = acked[i]
          /\ acked'[Len(acked) + 1] = x
      BY <1>1, <2>1, <2>3, AppendProperties, LenProperties
    <3>2. \A i \in 1 .. Len(acked) : acked[i] # x
      BY <2>2, <3>1 DEF Known
    <3>3. \A i, j \in 1 .. Len(acked) : acked[i] = acked[j] => i = j
      BY <3>1 DEF OnceInv, AckedOnce
    <3>4. \A i \in DOMAIN acked' : i \in 1 .. Len(acked) \/ i = Len(acked) + 1
      BY <3>1
    <3> QED BY <3>1, <3>2, <3>3, <3>4 DEF AckedOnce
  <2>6. Remembers'
    BY <1>1, <2>1, <2>3, <2>4 DEF OnceInv, Remembers
  <2>7. CallsAreNew'
    BY <2>3 DEF CallsAreNew
  <2> QED BY <2>5, <2>6, <2>7 DEF OnceInv
<1>6. CASE Crash
  BY <1>6 DEF Crash, OnceInv, AckedOnce, Remembers, CallsAreNew
<1>7. CASE UNCHANGED vars
  BY <1>7 DEF vars, OnceInv, AckedOnce, Remembers, CallsAreNew
<1> QED BY <1>2, <1>3, <1>4, <1>5, <1>6, <1>7 DEF Next

(* While one handle writes, no promotion is acknowledged twice, however    *)
(* often it is tried again after a failure, a crash or an open: what was   *)
(* acknowledged is in the file, open reads it back, and record_promotion   *)
(* refuses a nonce it knows (crates/ledger/src/lib.rs:157-178, 206-208).   *)
THEOREM ReplaysAreRefused ==
  ASSUME \A g, h \in Handles : g = h
  PROVE  Spec => []AckedOnce
<1>1. Init => TypeInv /\ OnceInv
  BY TypeInit DEF Init, OnceInv, AckedOnce, Remembers, CallsAreNew
<1>2. TypeInv /\ OnceInv /\ [Next]_vars => (TypeInv /\ OnceInv)'
  BY TypeNext, OnceNext
<1>3. TypeInv /\ OnceInv => AckedOnce
  BY DEF OnceInv
<1> QED BY <1>1, <1>2, <1>3, PTL DEF Spec
=============================================================================
