----------------------------- MODULE FileCounts -----------------------------
(***************************************************************************)
(* Facts about finite sets, for the proofs that count the files a program  *)
(* leaves: what a step that removes files, or adds one or two, does to the *)
(* number of them.  The sets the files come from may be infinite, so that  *)
(* the set stays finite is part of each fact.                              *)
(***************************************************************************)
EXTENDS Naturals, FiniteSets, FiniteSetTheorems, TLAPS

\* S has at most n members.
AtMost(S, n) == IsFiniteSet(S) /\ Cardinality(S) <= n

\* Two for each fault.
LEMMA TwoEach ==
  ASSUME NEW n \in Nat
  PROVE  /\ 2 * n \in Nat /\ 2 * (n + 1) = 2 * n + 2
         /\ \A m \in {n, n + 1} : /\ 2 * m \in Nat /\ 2 * n <= 2 * m
                                 /\ \A s \in Nat : s <= 2 * n => s <= 2 * m
  BY SMT

\* No file: the bound is zero.
LEMMA NoFiles == AtMost({}, 0)
  BY FS_EmptySet DEF AtMost

\* A step that adds no file keeps the bound, and so does a larger bound.
LEMMA FilesKept ==
  ASSUME NEW S, NEW T, NEW m \in Nat, NEW n \in Nat,
         AtMost(S, m), T \subseteq S, m <= n
  PROVE  AtMost(T, n)
<1>1. IsFiniteSet(T) /\ Cardinality(T) <= Cardinality(S)
  BY FS_Subset DEF AtMost
<1>2. Cardinality(S) \in Nat /\ Cardinality(T) \in Nat
  BY <1>1, FS_CardinalityType DEF AtMost
<1> QED
  BY <1>1, <1>2 DEF AtMost

\* A step that adds one file at most adds one to the bound.
LEMMA OneFileAdded ==
  ASSUME NEW S, NEW T, NEW x, NEW n \in Nat,
         AtMost(S, n), T \subseteq S \cup {x}
  PROVE  AtMost(T, n + 1)
<1>1. IsFiniteSet(S \cup {x}) /\ Cardinality(S \cup {x}) <= Cardinality(S) + 1
  <2>1. IsFiniteSet(S) /\ Cardinality(S) \in Nat
    BY FS_CardinalityType DEF AtMost
  <2>2. /\ IsFiniteSet(S \cup {x})
        /\ Cardinality(S \cup {x}) = IF x \in S THEN Cardinality(S) ELSE Cardinality(S) + 1
    BY <2>1, FS_AddElement
  <2> QED
    BY <2>1, <2>2
<1>2. Cardinality(S) \in Nat /\ Cardinality(S \cup {x}) \in Nat
  BY <1>1, FS_CardinalityType DEF AtMost
<1>3. AtMost(S \cup {x}, n + 1)
  BY <1>1, <1>2 DEF AtMost
<1> QED
  BY <1>3, FilesKept

\* A step that adds two files at most adds two to the bound.
LEMMA TwoFilesAdded ==
  ASSUME NEW S, NEW T, NEW x, NEW y, NEW n \in Nat,
         AtMost(S, n), T \subseteq S \cup {x, y}
  PROVE  AtMost(T, n + 2)
<1>1. AtMost(S \cup {x}, n + 1)
  BY OneFileAdded
<1>2. T \subseteq (S \cup {x}) \cup {y} /\ n + 1 \in Nat
  OBVIOUS
<1>3. AtMost(T, (n + 1) + 1)
  BY <1>1, <1>2, OneFileAdded
<1> QED
  BY <1>3

\* Files of two kinds: the bounds add up.
LEMMA FilesTogether ==
  ASSUME NEW S, NEW R, NEW T, NEW m \in Nat, NEW n \in Nat,
         AtMost(S, m), AtMost(R, n), T \subseteq S \cup R
  PROVE  AtMost(T, m + n)
<1>1. /\ IsFiniteSet(S \cup R) /\ IsFiniteSet(S \cap R)
      /\ Cardinality(S \cup R) = Cardinality(S) + Cardinality(R) - Cardinality(S \cap R)
  BY FS_Union, FS_Intersection DEF AtMost
<1>2. /\ Cardinality(S) \in Nat /\ Cardinality(R) \in Nat
      /\ Cardinality(S \cup R) \in Nat /\ Cardinality(S \cap R) \in Nat
  BY <1>1, FS_CardinalityType DEF AtMost
<1>3. AtMost(S \cup R, m + n)
  BY <1>1, <1>2 DEF AtMost
<1> QED
  BY <1>3, FilesKept
=============================================================================
