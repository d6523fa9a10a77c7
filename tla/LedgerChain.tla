---------------------------- MODULE LedgerChain ----------------------------
(***************************************************************************)
(* The signed, hash-linked records of the promotion ledger as values: what *)
(* a writer puts in a line and what reading the lines back accepts.        *)
(*                                                                         *)
(* A line holds its nonce and the hash of the line its writer believed to  *)
(* be the last.  That hash covers the line before it, and so the whole     *)
(* history: it is modelled by the history itself, `after`, the nonces the  *)
(* writer had in memory.  Signatures always verify here (one authority     *)
(* writes, nobody forges), so the links are all verify_chain can refuse.   *)
(***************************************************************************)
EXTENDS Integers, Sequences

\* A line for this nonce by a writer whose entries are those of `entries`.
Line(nonce, entries) == [nonce |-> nonce, after |-> entries]

Lines(AllNonces) == [nonce : AllNonces, after : Seq(AllNonces)]

\* The nonces of the first n lines, oldest first.
History(log, n) == [i \in 1 .. n |-> log[i].nonce]

Nonces(log) == History(log, Len(log))

\* The nonce index a handle builds from its entries.
Known(entries) == {entries[i] : i \in DOMAIN entries}

\* verify_chain: every line follows the line before it.
ChainVerifies(log) == \A i \in DOMAIN log : log[i].after = History(log, i - 1)

NoncesUnique(log) ==
  \A i, j \in DOMAIN log : log[i].nonce = log[j].nonce => i = j

\* What PromotionLedger::open accepts: an intact chain without replays.
Openable(log) == ChainVerifies(log) /\ NoncesUnique(log)

=============================================================================
