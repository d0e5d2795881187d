-------------------------------- MODULE Quantizer --------------------------------
(***************************************************************************)
(* SbqQuantizer (sbq/quantize.rs): the mean and, with more than one bit    *)
(* per dimension, the spread of each dimension, trained in one pass over   *)
(* the table, and the codes of vectors by them.                            *)
(*                                                                         *)
(* Components of vectors are integers.  A mean is kept in units of         *)
(* 1/Scale and m2 in units of 1/Scale^2, Scale being a multiple of all     *)
(* products of neighboring counts, so that training is exact; rounding of  *)
(* floats is left out, division by zero and its NaN are not.  A code is    *)
(* the set of its positions that are 1, counted over all words.            *)
(***************************************************************************)
EXTENDS Integers, Sequences, FiniteSets

CONSTANTS
  Scale,
  WordBits  \* BITS_STORE_TYPE_SIZE

\* quantized_size_internal
QuantizedSize(dims, bits) ==
  LET all == dims * bits
  IN  IF all % WordBits = 0 THEN all \div WordBits ELSE all \div WordBits + 1

Zeros(dims) == [i \in 1..dims |-> 0]

NewQuantizer(bits) == [bits |-> bits, count |-> 0, mean |-> <<>>, m2 |-> <<>>]

\* start_training: m2 only if it will be used.
StartTraining(bits, dims) ==
  [bits |-> bits, count |-> 0, mean |-> Zeros(dims),
   m2 |-> IF bits > 1 THEN Zeros(dims) ELSE <<>>]

\* The spread by the distance from the old mean alone.
AddSampleOldMean(q, s) ==
  LET count == q.count + 1
      mean  == [i \in DOMAIN s |-> q.mean[i] + (Scale * s[i] - q.mean[i]) \div count]
  IN  [q EXCEPT !.count = count, !.mean = mean,
                !.m2 = IF q.bits > 1
                         THEN [i \in DOMAIN s |-> @[i] + (Scale * s[i] - q.mean[i]) * (Scale * s[i] - q.mean[i])]
                         ELSE @]

\* add_sample: Welford's update, by the distances from the old and the new mean.
AddSample(q, s) ==
  LET count == q.count + 1
      mean  == [i \in DOMAIN s |-> q.mean[i] + (Scale * s[i] - q.mean[i]) \div count]
  IN  [q EXCEPT !.count = count, !.mean = mean,
                !.m2 = IF q.bits > 1
                         THEN [i \in DOMAIN s |-> @[i] + (Scale * s[i] - q.mean[i]) * (Scale * s[i] - mean[i])]
                         ELSE @]

--------------------------------------------------------------------------------
(***************************************************************************)
(* Codes of more than one bit: z scores from -2 to 2 in bits + 1 ranges,   *)
(* range j of dimension i being j ones from its first position.  In        *)
(* IEEE arithmetic a z score is NaN without samples (0/0 in the variance)  *)
(* and for a value on the mean of a dimension without spread; NaN is not   *)
(* below 1 and becomes 0 ones.  A value off such a mean is infinitely far. *)
(***************************************************************************)

\* The range of a value when a variance of zero is taken for any other.
RangeAtLeastFlat(q, i, v, j) ==
  LET d     == (q.bits + 1) * (Scale * v - q.mean[i])
      bound == 4 * j - 2 * (q.bits + 1)
  IN  /\ q.count > 0
      /\ IF bound >= 0 THEN d >= 0 /\ d * d * q.count >= bound * bound * q.m2[i]
         ELSE d >= 0 \/ d * d * q.count <= bound * bound * q.m2[i]

\* floor(index) >= j, squared where the sides' signs allow it.
RangeAtLeast(q, i, v, j) ==
  LET d     == (q.bits + 1) * (Scale * v - q.mean[i])
      bound == 4 * j - 2 * (q.bits + 1)
  IN  /\ q.count > 0
      /\ IF q.m2[i] = 0 THEN d > 0
         ELSE IF bound >= 0 THEN d >= 0 /\ d * d * q.count >= bound * bound * q.m2[i]
         ELSE d >= 0 \/ d * d * q.count <= bound * bound * q.m2[i]

\* The number of ones that stand for value v of dimension i.
Level(q, i, v) ==
  IF q.bits = 1 THEN IF Scale * v > q.mean[i] THEN 1 ELSE 0
  ELSE Cardinality({j \in 1..q.bits : RangeAtLeast(q, i, v, j)})

\* Dimensions that start a position too late for their number of bits.
QuantizeShifted(q, vec) ==
  UNION {{(i - 1) * (q.bits - 1) + j : j \in 0..Level(q, i, vec[i]) - 1} : i \in DOMAIN vec}

\* quantize
Quantize(q, vec) ==
  UNION {{(i - 1) * q.bits + j : j \in 0..Level(q, i, vec[i]) - 1} : i \in DOMAIN vec}

\* distance_xor_optimized: ones of the exclusive or.
DistanceXor(a, b) == Cardinality((a \ b) \cup (b \ a))
================================================================================
