------------------------------ MODULE Selections ------------------------------
(***************************************************************************)
(* How often, and in which order, the elements of a set occur in a         *)
(* sequence: what the order properties of AudioService and of System are   *)
(* about.  SelectSeq would do, but it is recursive; positions are counted  *)
(* here, so that the properties can be proved as well as checked.          *)
(***************************************************************************)
EXTENDS Naturals, Sequences, FiniteSets

\* How many of the first n elements of s are in S, and how many of all.
CountTo(s, n, S) == Cardinality({i \in 1 .. n : s[i] \in S})
Count(s, S) == CountTo(s, Len(s), S)

\* The elements of s that are in S are those of t after the first k, one after the
\* other and none left out.
Continues(s, S, t, k) == \A i \in 1 .. Len(s) : s[i] \in S =>
  /\ k + CountTo(s, i, S) <= Len(t)
  /\ s[i] = t[k + CountTo(s, i, S)]

\* They are the first of t.
Follows(s, S, t) == Continues(s, S, t, 0)
===============================================================================
