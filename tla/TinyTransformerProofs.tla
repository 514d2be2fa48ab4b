----------------------- MODULE TinyTransformerProofs -----------------------
(***************************************************************************)
(* What the model of src/model.rs answers, for every vocabulary, context   *)
(* and hash.                                                               *)
(***************************************************************************)
EXTENDS TinyTransformer, TLAPS

\* The peak is a token of the vocabulary.
LEMMA PeakInVocab ==
    ASSUME NEW m, NEW context, NEW hash \in Nat,
           context \in DOMAIN m.pinned => m.pinned[context] \in Nat
    PROVE  Peak(m, context, hash) \in VocabIds
  <1>1. \A n \in Nat : n % Vocab \in VocabIds
    BY VocabAssumption DEF VocabIds
  <1>2. hash % Vocab \in VocabIds /\ (hash % Vocab) + 7 \in Nat
    BY <1>1, VocabAssumption DEF VocabIds
  <1> QED
    BY <1>1, <1>2 DEF Peak

\* The logit of an id that is not masked falls with its distance to the peak.
LEMMA LogitOf ==
    ASSUME NEW m, NEW context, NEW hash \in Nat,
           Peak(m, context, hash) \in VocabIds, NEW i \in VocabIds
    PROVE  LET peak == Peak(m, context, hash)
               d    == IF i >= peak THEN i - peak ELSE peak - i
           IN  ForwardPass(m, context, hash)[i] =
                 IF IsMasked(m, context, i) THEN NegInfinity
                 ELSE 6 - (IF d <= 8 THEN d ELSE 8)
  <1> DEFINE peak == Peak(m, context, hash)
             d    == IF i >= peak THEN i - peak ELSE peak - i
  <1> HIDE DEF peak
  <1>0. peak \in VocabIds /\ peak \in Int /\ i \in Int
    BY DEF VocabIds, peak
  <1>1. Max({i - peak, peak - i}) = d
    BY <1>0 DEF Max
  <1>2. d \in Nat
    BY <1>0
  <1>3. Min({d, 8}) = IF d <= 8 THEN d ELSE 8
    <2> HIDE DEF d
    <2> QED BY <1>2 DEF Min
  <1>4. ForwardPass(m, context, hash)[i] =
          IF IsMasked(m, context, i) THEN NegInfinity
          ELSE 6 - Min({Max({i - peak, peak - i}), 8})
    BY DEF ForwardPass, peak
  <1>5. ForwardPass(m, context, hash)[i] =
          IF IsMasked(m, context, i) THEN NegInfinity
          ELSE 6 - (IF d <= 8 THEN d ELSE 8)
    <2> HIDE DEF d
    <2> QED BY <1>1, <1>3, <1>4
  <1> QED
    BY <1>5 DEF peak

\* The smallest element of a set of integers.
LEMMA SmallestIsMin ==
    ASSUME NEW S, NEW a \in S, \A i \in S : i \in Int /\ a <= i
    PROVE  Min(S) = a
  <1>1. \A x \in S : (\A y \in S : x <= y) => x = a
    OBVIOUS
  <1>2. \E x \in S : \A y \in S : x <= y
    OBVIOUS
  <1> QED
    BY <1>1, <1>2 DEF Min

\* The id with the only highest logit is the answer.
LEMMA OnlyMaximum ==
    ASSUME NEW logits, NEW i \in VocabIds,
           \A j \in VocabIds : logits[j] \in Int,
           \A j \in VocabIds : j /= i => logits[j] < logits[i]
    PROVE  Argmax(logits) = i
  <1>1. {k \in VocabIds : \A j \in VocabIds : logits[j] <= logits[k]} = {i}
    OBVIOUS
  <1>2. i \in Int /\ Min({i}) = i
    BY DEF Min, VocabIds
  <1> QED
    BY <1>1, <1>2 DEF Argmax

\* Forward peaks where it is meant to: unless it is the masked eos, the answer
\* is the pinned token or the one the hash selects, whatever the vocabulary and
\* wherever in it the peak lies (model.rs:178-203, the test
\* pinned_context_forces_token).
THEOREM PeakWins ==
    ASSUME NEW m, NEW context, NEW hash \in Nat,
           context \in DOMAIN m.pinned => m.pinned[context] \in Nat,
           ~IsMasked(m, context, Peak(m, context, hash))
    PROVE  Argmax(ForwardPass(m, context, hash)) = Peak(m, context, hash)
  <1> DEFINE peak   == Peak(m, context, hash)
             logits == ForwardPass(m, context, hash)
  <1>1. peak \in VocabIds
    BY PeakInVocab
  <1>2. ASSUME NEW j \in VocabIds
        PROVE  /\ logits[j] \in Int
               /\ j = peak => logits[j] = 6
               /\ j /= peak => logits[j] < 6
    <2> DEFINE d == IF j >= peak THEN j - peak ELSE peak - j
    <2>1. logits[j] = IF IsMasked(m, context, j) THEN NegInfinity
                      ELSE 6 - (IF d <= 8 THEN d ELSE 8)
      BY <1>1, LogitOf
    <2> HIDE DEF logits
    <2>2. d \in Nat /\ (d = 0 <=> j = peak)
      BY <1>1 DEF VocabIds
    <2> QED
      <3> HIDE DEF d, peak
      <3>1. ~IsMasked(m, context, peak)
        BY DEF peak
      <3> QED BY <2>1, <2>2, <3>1 DEF NegInfinity
  <1> QED
    <2> HIDE DEF logits, peak
    <2>1. Argmax(logits) = peak
      BY <1>1, <1>2, OnlyMaximum
    <2> QED BY <2>1 DEF logits, peak

\* After a context of fewer than four tokens the answer is never eos, if there
\* is another token at all: where the peak falls on eos its neighbour below
\* answers, or 1 above 0 (model.rs:197-201).
THEOREM ShortContextNeverEos ==
    ASSUME NEW m, NEW context, NEW hash \in Nat,
           context \in DOMAIN m.pinned => m.pinned[context] \in Nat,
           m.eos \in VocabIds, Vocab > 1, Len(context) < 4
    PROVE  Argmax(ForwardPass(m, context, hash)) \in VocabIds \ {m.eos}
  <1> DEFINE peak   == Peak(m, context, hash)
             logits == ForwardPass(m, context, hash)
             next   == IF m.eos = 0 THEN 1 ELSE m.eos - 1
  <1>1. peak \in VocabIds
    BY PeakInVocab
  <1>2. CASE peak /= m.eos
    <2>1. ~IsMasked(m, context, peak)
      BY <1>2 DEF IsMasked
    <2>2. Argmax(logits) = peak
      BY <2>1, PeakWins
    <2> QED BY <1>1, <1>2, <2>2
  <1>3. CASE peak = m.eos
    <2>1. next \in VocabIds /\ next /= m.eos /\ next \in Int
      BY VocabAssumption DEF VocabIds
    <2>2. ASSUME NEW j \in VocabIds
          PROVE  /\ logits[j] \in Int
                 /\ logits[j] <= 5
                 /\ logits[j] = 5 <=> j = m.eos - 1 \/ j = m.eos + 1
      <3> DEFINE d == IF j >= peak THEN j - peak ELSE peak - j
      <3>1. logits[j] = IF IsMasked(m, context, j) THEN NegInfinity
                        ELSE 6 - (IF d <= 8 THEN d ELSE 8)
        BY <1>1, LogitOf
      <3>2. IsMasked(m, context, j) <=> j = peak
        BY <1>3 DEF IsMasked
      <3> HIDE DEF logits
      <3>3. d \in Nat /\ (d = 0 <=> j = peak)
                      /\ (d = 1 <=> j = peak - 1 \/ j = peak + 1)
        BY <1>1 DEF VocabIds
      <3> QED
        <4> HIDE DEF d, peak
        <4> QED BY <1>3, <3>1, <3>2, <3>3 DEF NegInfinity
    <2>3. logits[next] = 5
      BY <2>1, <2>2
    <2>4. /\ next \in {i \in VocabIds : \A j \in VocabIds : logits[j] <= logits[i]}
          /\ \A i \in {k \in VocabIds : \A j \in VocabIds : logits[j] <= logits[k]} :
                i \in VocabIds /\ next <= i
      <3> HIDE DEF logits
      <3>1. \A j \in VocabIds : j \in Int /\ j >= 0
        BY DEF VocabIds
      <3> QED BY <2>1, <2>2, <2>3, <3>1
    <2>5. Argmax(logits) = next
      <3> HIDE DEF logits, next
      <3> DEFINE S == {i \in VocabIds : \A j \in VocabIds : logits[j] <= logits[i]}
      <3>1. next \in S /\ \A i \in S : i \in Int /\ next <= i
        BY <2>4 DEF VocabIds
      <3>2. Min(S) = next
        <4> HIDE DEF S
        <4> QED BY <3>1, SmallestIsMin
      <3> QED BY <3>2 DEF Argmax
    <2> QED BY <2>1, <2>5
  <1> QED BY <1>2, <1>3
=============================================================================
