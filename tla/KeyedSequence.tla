---------------------------- MODULE KeyedSequence ----------------------------
(***************************************************************************)
(* Sequences of records ordered by their field key: what the in-order walk *)
(* of nivisor's red-black tree (src/nivisor/src/myrb.cpp) yields.          *)
(***************************************************************************)
EXTENDS Naturals, Sequences, FiniteSets

\* Slip: the comparison inverted.
InvertedInsert(s, e) ==
  LET p == Cardinality({i \in 1 .. Len(s) : s[i].key > e.key})
  IN SubSeq(s, 1, p) \o <<e>> \o SubSeq(s, p + 1, Len(s))

\* Where add(key, val) puts e: after the smaller keys, before everything else,
\* because add descends right only for a strictly greater key.
InsertByKey(s, e) ==
  LET p == Cardinality({i \in 1 .. Len(s) : s[i].key < e.key})
  IN SubSeq(s, 1, p) \o <<e>> \o SubSeq(s, p + 1, Len(s))
=============================================================================
