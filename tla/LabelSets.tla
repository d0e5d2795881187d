-------------------------------- MODULE LabelSets --------------------------------
(***************************************************************************)
(* Labels of rows and queries (labels/mod.rs).  A LabelSet is a sorted     *)
(* array without duplicates; two of them are compared by walking both.     *)
(***************************************************************************)
EXTENDS Integers, Sequences, SequencesExt

CONSTANT Null  \* an SQL NULL, for a value or an element of an array

\* sort_unstable and dedup: the labels of a set in their order.
ToLabelSet(S) ==
  CHOOSE s \in [1..Cardinality(S) -> S] : \A i, j \in DOMAIN s : i < j => s[i] < s[j]

\* overlaps: both arrays from the left, past the smaller label.
Overlaps(a, b) ==
  LET Walk[at \in (1..Len(a) + 1) \X (1..Len(b) + 1)] ==
        LET i == at[1]
            j == at[2]
        IN  /\ i <= Len(a) /\ j <= Len(b)
            /\ \/ a[i] = b[j]
               \/ a[i] < b[j] /\ Walk[<<i + 1, j>>]
               \/ a[i] > b[j] /\ Walk[<<i, j + 1>>]
  IN  Walk[<<1, 1>>]

\* The first place of c, from k on, whose label is not below x.
NextPlace(c, k, x) ==
  CHOOSE l \in k..Len(c) + 1 : (\A m \in k..(l - 1) : c[m] < x) /\ (l <= Len(c) => c[l] >= x)

\* contains_intersection: is what a and b share in c?  k follows the labels
\* found in c, which are never looked at twice.
ContainsIntersection(c, a, b) ==
  LET Walk[at \in (1..Len(a) + 1) \X (1..Len(b) + 1) \X (1..Len(c) + 1)] ==
        LET i == at[1]
            j == at[2]
            next == NextPlace(c, at[3], a[i])
        IN  (i <= Len(a) /\ j <= Len(b)) =>
              \/ a[i] < b[j] /\ Walk[<<i + 1, j, at[3]>>]
              \/ a[i] > b[j] /\ Walk[<<i, j + 1, at[3]>>]
              \/ /\ a[i] = b[j]
                 /\ next <= Len(c) /\ c[next] = a[i]
                 /\ Walk[<<i + 1, j + 1, next>>]
  IN  Walk[<<1, 1, 1>>]

--------------------------------------------------------------------------------
NonNull(array) == ToSet(array) \ {Null}

\* LabeledVector::from_datums: a NULL array is an empty one, NULL elements are
\* skipped.  An index without a label column stores none at all (Null).
RowLabels(datum, hasLabels) ==
  IF ~hasLabels THEN Null
  ELSE IF datum = Null THEN <<>> ELSE ToLabelSet(NonNull(datum))

\* from_scan_key_data: the labels to filter by, or Null for no filter.  keys is
\* the array of the one scan key; a query ordered by a NULL vector has none,
\* whatever its keys are.
QueryLabels(vec, keys) == IF vec = Null \/ keys = Null THEN Null ELSE ToLabelSet(NonNull(keys))

QueryVector(vec, dims) == IF vec = Null THEN [i \in 1..dims |-> 0] ELSE vec
================================================================================
