------------------------------ MODULE MCSbqStorage -------------------------------
(***************************************************************************)
(* Small instances of SbqStorage: three rows in two dimensions, labels 1   *)
(* and 2, options scaled down (at least 2 neighbors for at least 10).      *)
(***************************************************************************)
EXTENDS SbqStorage

CONSTANTS n1, n2, n3

Row(vec, labels) == [vec |-> vec, labels |-> labels]

Rows(r1, r2, r3) == [n \in Node |-> CASE n = n1 -> r1 [] n = n2 -> r2 [] n = n3 -> r3]

\* A dimension with and one without spread, duplicates and NULLs among the labels,
\* a row without a vector, an index built on no rows.
TwoRows ==
  [row |-> Rows(Row(<<0, 2>>, <<2, Null, 1, 2>>), Row(<<1, 2>>, Null), Row(<<5, 3>>, <<2>>)),
   there |-> {n1, n2}]
AllRows ==
  [row |-> Rows(Row(<<0, 0>>, <<1>>), Row(<<1, 3>>, <<Null>>), Row(<<5, 3>>, <<2, 1>>)),
   there |-> {n1, n2, n3}]
NoRows ==
  [row |-> Rows(Row(<<0, 1>>, <<1>>), Row(Null, <<2>>), Row(<<5, 1>>, <<2, 1>>)),
   there |-> {}]

Column(typmod, distance, labels) == [typmod |-> typmod, distance |-> distance, labels |-> labels]
Option(layout, neighbors, dims, bits) ==
  [layout |-> layout, neighbors |-> neighbors, dims |-> dims, bits |-> bits]

New(heapOf, columnOf, optionOf) ==
  [heap |-> heapOf, request |-> [column |-> columnOf, option |-> optionOf]]

MCFresh == {
  New(TwoRows, Column(2, "L2", TRUE), Option("default", -1, 0, 0)),
  New(AllRows, Column(2, "L2", FALSE), Option("memory_optimized", 2, 0, 3)),
  New(NoRows, Column(2, "L2", FALSE), Option("default", 2, 0, 0)),
  New(TwoRows, Column(2, "L2", FALSE), Option("plain", 2, 1, 0)),
  \* Refused.
  New(TwoRows, Column(-1, "L2", FALSE), Option("default", -1, 0, 0)),
  New(TwoRows, Column(2, "L2", FALSE), Option("default", -1, 3, 0)),
  New(TwoRows, Column(2, "L2", TRUE), Option("plain", -1, 0, 0))}

MCStats(bits) == [bits |-> bits, count |-> 2, mean |-> <<3>>,
                  m2 |-> IF bits > 1 THEN <<18>> ELSE <<>>]

V2(storage, bits, quantizer) ==
  [type |-> "MetaV2", meta |-> [storage |-> storage, distance |-> "L2", dims |-> 2, indexed |-> 1,
     bits |-> bits, neighbors |-> 2, root |-> n1, quantizer |-> quantizer]]
V1(pq) == [type |-> "MetaV1", meta |-> [dims |-> 2, neighbors |-> 2, root |-> n1, pq |-> pq]]

MCLegacy == {
  [heap |-> TwoRows, page0 |-> V2(2, 1, StatsPointer), means |-> [type |-> "SbqMeansV1", stats |-> MCStats(1)]],
  [heap |-> NoRows, page0 |-> V2(0, 1, NoPointer), means |-> NoPage],
  [heap |-> NoRows, page0 |-> V2(1, 1, StatsPointer), means |-> NoPage],
  [heap |-> NoRows, page0 |-> V1(FALSE), means |-> NoPage],
  [heap |-> NoRows, page0 |-> V1(TRUE), means |-> NoPage]}

\* With an array of labels, an empty one, a NULL to order by, and without a filter.
MCQueries == {[vec |-> <<1, 0>>, keys |-> <<2, 2>>], [vec |-> Null, keys |-> <<1>>],
              [vec |-> <<1, 0>>, keys |-> <<>>], [vec |-> <<1, 3>>, keys |-> Null]}

\* The comparisons of sorted arrays are those of sets.
Arrays == {ToLabelSet(S) : S \in {T \in SUBSET (1..4) : Cardinality(T) <= 3}}
ASSUME WalksAreSetOperations ==
  \A a, b \in Arrays :
    /\ Overlaps(a, b) <=> ToSet(a) \cap ToSet(b) # {}
    /\ \A c \in Arrays : ContainsIntersection(c, a, b) <=> ToSet(a) \cap ToSet(b) \subseteq ToSet(c)

\* At the limits of the dimensions, whatever is accepted can be fetched, and
\* whatever is refused is refused for one of the documented reasons.
Limits == {Column(d, i, l) : d \in {-1, 0, 1, 899, 900, 930, 931, 2000, 2001, 16000, 16001},
                             i \in {"L2", "InnerProduct"}, l \in BOOLEAN}
Settings == {Option(l, n, d, b) : l \in {"plain", "default", "columnar"}, n \in {-1, 1, 2},
                                  d \in {0, 1, 930, 931, 5000}, b \in {0, 1, 2, 32}}
ASSUME AcceptedIsUsable ==
  \A column \in Limits, option \in Settings :
    \A m \in Create(column, option) :
      /\ Fetch(StoredMeta(m)) = {m}
      /\ m.bits > 1 => m.indexed <= 930
      /\ m.storage = 0 => m.bits = 1 /\ m.indexed <= 2000 /\ ~m.labels
================================================================================
