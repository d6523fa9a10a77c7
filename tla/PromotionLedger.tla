-------------------------- MODULE PromotionLedger --------------------------
(***************************************************************************)
(* The durable promotion ledger of crates/ledger at the level of single    *)
(* file operations: a record is a line, then a newline, then an fsync, and *)
(* the process or the machine may stop, or an operation fail, in between.  *)
(*                                                                         *)
(* The file is a sequence of pieces: whole lines, newlines and torn lines  *)
(* (a proper, non-empty prefix of one).  What fsync has not covered may be *)
(* lost from the end when the machine stops.                               *)
(***************************************************************************)
EXTENDS LedgerChain, FiniteSets

CONSTANTS
  AllNonces,
  Handles,        \* PromotionLedger values open on the file
  Faults,         \* the faults of this instance, a subset of FaultKinds
  MaxPieces,      \* bound: no record is begun once the file is as long
  None

FaultKinds ==
  {"crash",         \* the machine stops; unsynced pieces are lost from the end
   "tear",          \* ... and the first lost line may leave a prefix behind
   "shortWrite",    \* write_all of the line stops half-way
   "writeFails",    \* a write fails with nothing written
   "syncFails"}     \* sync_all fails

ASSUME LedgerAssumption ==
  /\ Faults \subseteq FaultKinds
  /\ MaxPieces \in Nat

VARIABLES
  file,       \* the pieces written, oldest first
  synced,     \* how many of them a crash cannot take
  open,       \* the handles that are open
  entries,    \* their entries in memory, the nonces only
  pc,         \* how far each handle is in record_promotion
  nonce       \* the nonce it records

\* Auxiliary variable: the nonces record_promotion returned Ok for.
VARIABLE acked

vars == <<file, synced, open, entries, pc, nonce, acked>>

Where == {"idle", "line", "newline", "sync"}

\* Pieces of the file that are no whole line.
Newline == [mark |-> "newline"]
Torn == [mark |-> "torn"]

IsLine(piece) == piece # Newline /\ piece # Torn

\* The whole lines of the file, whatever surrounds them.
LinesOf(pieces) ==
  LET at == {i \in DOMAIN pieces : IsLine(pieces[i])}
  IN [k \in 1 .. Cardinality(at) |->
        pieces[CHOOSE i \in at : Cardinality({j \in at : j <= i}) = k]]

NoncesOf(pieces) == {pieces[i].nonce : i \in {k \in DOMAIN pieces : IsLine(pieces[k])}}

\* Each line of text is one entry; a last line need not be terminated.
Parses(pieces) ==
  \A i \in DOMAIN pieces :
    /\ pieces[i] # Torn
    /\ IsLine(pieces[i]) /\ i < Len(pieces) => pieces[i + 1] = Newline

\* What PromotionLedger::open accepts.
Accepted(pieces) == Parses(pieces) /\ Openable(LinesOf(pieces))

Init ==
  /\ file = <<>>
  /\ synced = 0
  /\ open = {}
  /\ entries = [h \in Handles |-> <<>>]
  /\ pc = [h \in Handles |-> "idle"]
  /\ nonce = [h \in Handles |-> None]
  /\ acked = <<>>

-----------------------------------------------------------------------------
(* Mutated forms: plausible bugs, each of which some property must catch.  *)

BeginUnchecked(h, n) ==
  /\ h \in open /\ pc[h] = "idle"
  /\ Len(file) < MaxPieces
  /\ pc' = [pc EXCEPT ![h] = "line"]
  /\ nonce' = [nonce EXCEPT ![h] = n]
  /\ UNCHANGED <<file, synced, open, entries, acked>>

SyncSkipped(h) ==
  /\ pc[h] = "sync"
  /\ entries' = [entries EXCEPT ![h] = Append(@, nonce[h])]
  /\ acked' = Append(acked, nonce[h])
  /\ pc' = [pc EXCEPT ![h] = "idle"]
  /\ nonce' = [nonce EXCEPT ![h] = None]
  /\ UNCHANGED <<file, synced, open>>
-----------------------------------------------------------------------------
(* Operations.                                                             *)

\* A refused file is an error and gives no handle.  A handle opened again is
\* a new value in place of the old one.
Open(h) ==
  /\ pc[h] = "idle"
  /\ Accepted(file)
  /\ open' = open \cup {h}
  /\ entries' = [entries EXCEPT ![h] = Nonces(LinesOf(file))]
  /\ UNCHANGED <<file, synced, pc, nonce, acked>>

\* record_promotion begins; a nonce already known is refused (Replay).
Begin(h, n) ==
  /\ h \in open /\ pc[h] = "idle"
  /\ Len(file) < MaxPieces
  /\ n \notin Known(entries[h])
  /\ pc' = [pc EXCEPT ![h] = "line"]
  /\ nonce' = [nonce EXCEPT ![h] = n]
  /\ UNCHANGED <<file, synced, open, entries, acked>>

\* record_promotion returns an error and leaves memory as it was.
Abort(h) ==
  /\ pc' = [pc EXCEPT ![h] = "idle"]
  /\ nonce' = [nonce EXCEPT ![h] = None]

\* The line goes to the end of the file (O_APPEND), wherever that is.
WriteLine(h) ==
  /\ pc[h] = "line"
  /\ \/ /\ file' = Append(file, Line(nonce[h], entries[h]))
        /\ pc' = [pc EXCEPT ![h] = "newline"]
        /\ UNCHANGED nonce
     \/ "writeFails" \in Faults /\ Abort(h) /\ UNCHANGED file
     \/ "shortWrite" \in Faults /\ Abort(h) /\ file' = Append(file, Torn)
  /\ UNCHANGED <<synced, open, entries, acked>>

WriteNewline(h) ==
  /\ pc[h] = "newline"
  /\ \/ /\ file' = Append(file, Newline)
        /\ pc' = [pc EXCEPT ![h] = "sync"]
        /\ UNCHANGED nonce
     \/ "writeFails" \in Faults /\ Abort(h) /\ UNCHANGED file
  /\ UNCHANGED <<synced, open, entries, acked>>

\* The durability barrier, then memory advances and the caller hears Ok.
Sync(h) ==
  /\ pc[h] = "sync"
  /\ synced' = Len(file)
  /\ entries' = [entries EXCEPT ![h] = Append(@, nonce[h])]
  /\ acked' = Append(acked, nonce[h])
  /\ pc' = [pc EXCEPT ![h] = "idle"]
  /\ nonce' = [nonce EXCEPT ![h] = None]
  /\ UNCHANGED <<file, open>>

SyncFails(h) ==
  /\ "syncFails" \in Faults
  /\ pc[h] = "sync"
  /\ Abort(h)
  /\ UNCHANGED <<file, synced, open, entries, acked>>

\* What a stop of the machine may leave of the file.
Survivors ==
  LET cut(k) == SubSeq(file, 1, k) IN
  {cut(k) : k \in synced .. Len(file)}
    \cup (IF "tear" \in Faults
          THEN {Append(cut(k - 1), Torn) : k \in {i \in synced + 1 .. Len(file) : IsLine(file[i])}}
          ELSE {})

Crash ==
  /\ "crash" \in Faults
  /\ file' \in Survivors
  /\ synced' = Len(file')
  /\ open' = {}
  /\ entries' = [h \in Handles |-> <<>>]
  /\ pc' = [h \in Handles |-> "idle"]
  /\ nonce' = [h \in Handles |-> None]
  /\ UNCHANGED acked

Next ==
  \/ \E h \in Handles :
       \/ Open(h) \/ WriteLine(h) \/ WriteNewline(h) \/ Sync(h) \/ SyncFails(h)
       \/ \E n \in AllNonces : Begin(h, n)
  \/ Crash

Spec == Init /\ [][Next]_vars

-----------------------------------------------------------------------------
(* Properties.                                                             *)

TypeOK ==
  /\ file \in Seq(Lines(AllNonces) \cup {Newline, Torn})
  /\ synced \in 0 .. Len(file)
  /\ open \subseteq Handles
  /\ entries \in [Handles -> Seq(AllNonces)]
  /\ pc \in [Handles -> Where]
  /\ nonce \in [Handles -> AllNonces \cup {None}]
  /\ acked \in Seq(AllNonces)

\* What a caller was told is recorded is on the disk for good, whatever
\* writes fail and wherever the machine stops afterwards.
AckedIsDurable == Known(acked) \subseteq NoncesOf(SubSeq(file, 1, synced))

\* While one handle writes, no nonce is recorded twice, whether the promotion
\* that is tried again was recorded before a failure, a crash or an open.
AckedOnce == \A i, j \in DOMAIN acked : acked[i] = acked[j] => i = j
=============================================================================
