---------------------------- MODULE ThreadLists ----------------------------
(***************************************************************************)
(* Linked lists as sequences: the loops that keep, unlink or push back     *)
(* some elements, written without recursion and apart from SequencesExt,   *)
(* whose many definitions slow the proofs down.                            *)
(***************************************************************************)
EXTENDS Naturals, FiniteSets, Sequences, Functions

\* How many elements of the set of indices S are at most i.
Rank(S, i) == Cardinality({j \in S : j <= i})

\* The elements of s that are in K, in the order of s.
Filter(s, K) ==
    LET kept == {i \in DOMAIN s : s[i] \in K}
    IN  [n \in 1 .. Cardinality(kept) |->
           s[CHOOSE i \in kept : Rank(kept, i) = n]]

\* s after unlinking e; a node is on a list once.
Without(s, e) ==
    IF e \in Range(s)
    THEN LET i == CHOOSE i \in DOMAIN s : s[i] = e
         IN  [n \in 1 .. (Len(s) - 1) |-> s[IF n < i THEN n ELSE n + 1]]
    ELSE s

\* The elements of s, each pushed at the head in turn.
Backwards(s) == [i \in 1 .. Len(s) |-> s[(Len(s) - i) + 1]]
=============================================================================
