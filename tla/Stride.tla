------------------------------- MODULE Stride -------------------------------
(***************************************************************************)
(* even_stride of readiness.rs: which of the len files of a repository,    *)
(* numbered from 0, are sampled when at most max may be.                   *)
(***************************************************************************)
EXTENDS Integers, Sequences

(* Mutant: an integer stride. *)
SteppedPick(i, len, max) == i * (len \div max)

(* The index of the i-th pick, i from 0. *)
Pick(i, len, max) == (i * len) \div max

EvenStride(len, max) ==
  IF len <= max
  THEN [k \in 1..len |-> k - 1]
  ELSE [k \in 1..max |-> Pick(k - 1, len, max)]

(* How many files there are from the k-th pick to the next, or to the end. *)
Stretch(s, len, k) == (IF k = Len(s) THEN len ELSE s[k + 1]) - s[k]

(* The picks are distinct files of the repository, in order, and spread    *)
(* over all of it: every stretch is as long as the others give or take one *)
(* file.                                                                   *)
IsSpread(s, len, max) ==
  /\ Len(s) = IF len <= max THEN len ELSE max
  /\ s # <<>> => s[1] = 0
  /\ \A k \in 1..Len(s) :
       /\ s[k] \in 0..(len - 1)
       /\ Stretch(s, len, k) >= 1
       /\ Stretch(s, len, k) * Len(s) < len + Len(s)
       /\ Stretch(s, len, k) * Len(s) > len - Len(s)
=============================================================================
