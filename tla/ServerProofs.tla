---------------------------- MODULE ServerProofs ----------------------------
(***************************************************************************)
(* The server: its requests get the decoding of their own prompt, and its  *)
(* endpoints agree.  The tokeniser comes first, then the run of an engine  *)
(* over a single request, then the server.                                 *)
(***************************************************************************)
EXTENDS Server, EngineProofs, TinyTransformerProofs, WellFoundedInduction

-----------------------------------------------------------------------------
(* Prefixes of sequences                                                   *)

LEMMA Empties ==
    ASSUME NEW S, NEW q \in Seq(S), Len(q) = 0
    PROVE  q = <<>>
OBVIOUS

LEMMA WholePrefix ==
    ASSUME NEW S, NEW q \in Seq(S)
    PROVE  SubSeq(q, 1, Len(q)) = q /\ SubSeq(q, 1, 0) = <<>>
OBVIOUS

LEMMA JoinedLength ==
    ASSUME NEW S, NEW p \in Seq(S), NEW q \in Seq(S)
    PROVE  Len(p \o q) = Len(p) + Len(q)
OBVIOUS

LEMMA LongerPrefix ==
    ASSUME NEW S, NEW q \in Seq(S), NEW n \in Nat, n < Len(q)
    PROVE  /\ q[n + 1] \in S
           /\ SubSeq(q, 1, n) \in Seq(S) /\ Len(SubSeq(q, 1, n)) = n
           /\ Append(SubSeq(q, 1, n), q[n + 1]) = SubSeq(q, 1, n + 1)
           /\ n > 0 => SubSeq(q, 1, n)[1] = q[1]
<1>1. PICK L \in Nat : L = Len(q)
    OBVIOUS
<1>2. n + 1 \in 1 .. L
    BY <1>1
<1> DEFINE p == SubSeq(q, 1, n)
           r == SubSeq(q, 1, n + 1)
<1>3. /\ p \in Seq(S) /\ Len(p) = n /\ \A i \in 1 .. n : p[i] = q[i]
    BY <1>1, <1>2
<1>4. /\ r \in Seq(S) /\ Len(r) = n + 1 /\ \A i \in 1 .. n + 1 : r[i] = q[i]
    BY <1>1, <1>2
<1>5. q[n + 1] \in S
    BY <1>1, <1>2
<1> HIDE DEF p, r
<1>6. Append(p, q[n + 1]) = r
    <2> DEFINE a == Append(p, q[n + 1])
    <2>1. /\ a \in Seq(S) /\ Len(a) = n + 1 /\ a[n + 1] = q[n + 1]
          /\ \A i \in 1 .. n : a[i] = p[i]
        BY <1>3, <1>5
    <2> HIDE DEF a
    <2>2. \A i \in 1 .. n + 1 : a[i] = r[i]
        BY <1>3, <1>4, <2>1
    <2>3. a = r
        BY <1>4, <2>1, <2>2
    <2> QED
        BY <2>3 DEF a
<1> QED
    BY <1>3, <1>5, <1>6 DEF p, r


\* A longer sequence has the same prefixes.
LEMMA AppendPrefix ==
    ASSUME NEW S, NEW q \in Seq(S), NEW e \in S, NEW n \in 0 .. Len(q)
    PROVE  SubSeq(Append(q, e), 1, n) = SubSeq(q, 1, n)
<1>1. PICK L \in Nat : L = Len(q)
    OBVIOUS
<1> DEFINE longer == Append(q, e)
           p      == SubSeq(longer, 1, n)
           r      == SubSeq(q, 1, n)
<1>2. /\ longer \in Seq(S) /\ Len(longer) = L + 1
      /\ \A i \in 1 .. L : longer[i] = q[i]
    BY <1>1
<1> HIDE DEF longer
<1>3. /\ p \in Seq(S) /\ Len(p) = n /\ \A i \in 1 .. n : p[i] = longer[i]
    BY <1>1, <1>2
<1>4. /\ r \in Seq(S) /\ Len(r) = n /\ \A i \in 1 .. n : r[i] = q[i]
    BY <1>1
<1> HIDE DEF p, r
<1>5. p = r
    BY <1>1, <1>2, <1>3, <1>4
<1> QED
    BY <1>5 DEF p, r, longer
-----------------------------------------------------------------------------
(* Induction                                                               *)

\* A set of numbers that has 0, and with each number the next, has all.
LEMMA Induction ==
    ASSUME NEW S \in SUBSET Nat, 0 \in S, \A n \in S : n + 1 \in S
    PROVE  S = Nat
<1> DEFINE Less == {p \in Nat \X Nat : p[1] < p[2]}
           Rest == Nat \ S
<1>1. IsWellFoundedOn(Less, Nat)
    <2>1. OpToRel(<, Nat) = Less
        BY DEF OpToRel
    <2> QED
        BY <2>1, NatLessThanWellFounded
<1>2. ASSUME Rest /= {}
      PROVE  FALSE
    <2> HIDE DEF Less, Rest
    <2>1. Rest \subseteq Nat
        BY DEF Rest
    <2>2. PICK n \in Rest : \A m \in Rest : ~(<<m, n>> \in Less)
        BY <1>1, <1>2, <2>1, WFMin
    <2>3. n \in Nat /\ n \notin S
        BY <2>2 DEF Rest
    <2>4. n /= 0
        BY <2>3
    <2>5. n - 1 \in Nat /\ n - 1 < n /\ (n - 1) + 1 = n
        BY <2>3, <2>4
    <2>6. <<n - 1, n>> \in Less
        BY <2>3, <2>5 DEF Less
    <2>7. n - 1 \in S
        BY <2>2, <2>5, <2>6 DEF Rest
    <2> QED
        BY <2>3, <2>5, <2>7
<1> QED
    BY <1>2

\* The same up to a bound.
LEMMA InductionTo ==
    ASSUME NEW N \in Nat, NEW S, 0 \in S,
           \A n \in 0 .. N - 1 : n \in S => n + 1 \in S
    PROVE  0 .. N \subseteq S
<1> DEFINE T == {n \in Nat : n <= N => n \in S}
<1>1. 0 \in T /\ \A n \in T : n + 1 \in T
    OBVIOUS
<1>2. T \in SUBSET Nat
    OBVIOUS
<1> HIDE DEF T
<1>3. T = Nat
    BY <1>1, <1>2, Induction
<1> QED
    BY <1>3 DEF T

-----------------------------------------------------------------------------
(* The tokeniser: what its loops compute, one turn at a time               *)

\* from_utf8_lossy is in this state when it has read the bytes.
Read(bytes, state) ==
    \E fed :
        /\ fed = [n \in 0 .. Len(bytes) |-> fed[n]]
        /\ fed[0] = [text |-> <<>>, pending |-> <<>>]
        /\ \A n \in 1 .. Len(bytes) : fed[n] = Fed(fed[n - 1], bytes[n])
        /\ fed[Len(bytes)] = state

LEMMA ReadNothing == Read(<<>>, [text |-> <<>>, pending |-> <<>>])
<1> DEFINE fed == [n \in 0 .. 0 |-> [text |-> <<>>, pending |-> <<>>]]
<1>1. /\ fed = [n \in 0 .. 0 |-> fed[n]]
      /\ fed[0] = [text |-> <<>>, pending |-> <<>>]
      /\ Len(<<>>) = 0
    OBVIOUS
<1> HIDE DEF fed
<1> QED
    BY <1>1 DEF Read

LEMMA ReadOne ==
    ASSUME NEW B, NEW bytes \in Seq(B), NEW b \in B, NEW state, Read(bytes, state)
    PROVE  Read(Append(bytes, b), Fed(state, b))
<1>1. PICK fed :
        /\ fed = [n \in 0 .. Len(bytes) |-> fed[n]]
        /\ fed[0] = [text |-> <<>>, pending |-> <<>>]
        /\ \A n \in 1 .. Len(bytes) : fed[n] = Fed(fed[n - 1], bytes[n])
        /\ fed[Len(bytes)] = state
    BY DEF Read
<1>2. PICK L \in Nat : L = Len(bytes)
    OBVIOUS
<1> DEFINE next   == Fed(state, b)
           longer == Append(bytes, b)
           more   == [n \in 0 .. L + 1 |-> IF n <= L THEN fed[n] ELSE next]
<1>3. /\ Len(longer) = L + 1 /\ longer[L + 1] = b
      /\ \A n \in 1 .. L : longer[n] = bytes[n]
    BY <1>2
<1>4. /\ more = [n \in 0 .. L + 1 |-> more[n]]
      /\ more[0] = fed[0] /\ more[L + 1] = next /\ more[L] = fed[L]
      /\ \A n \in 1 .. L : more[n] = fed[n] /\ more[n - 1] = fed[n - 1]
    OBVIOUS
<1> HIDE DEF longer, more, next
<1>5. ASSUME NEW n \in 1 .. L + 1
      PROVE  more[n] = Fed(more[n - 1], longer[n])
    <2>1. CASE n \in 1 .. L
        BY <1>1, <1>2, <1>3, <1>4, <2>1
    <2>2. CASE n = L + 1
        <3>1. more[n - 1] = state
            BY <1>1, <1>2, <1>4, <2>2
        <3> QED
            BY <1>3, <1>4, <2>2, <3>1 DEF next
    <2> QED
        BY <2>1, <2>2
<1>6. Read(longer, next)
    BY <1>1, <1>3, <1>4, <1>5 DEF Read
<1> QED
    BY <1>6 DEF longer, next

LEMMA ReadAll ==
    ASSUME NEW B, NEW bytes \in Seq(B), NEW state, Read(bytes, state)
    PROVE  FromUtf8Lossy(bytes) = Flushed(state)
<1> DEFINE start == [text |-> <<>>, pending |-> <<>>]
           Reading(fed) ==
               fed = [n \in 0 .. Len(bytes) |->
                        IF n = 0 THEN start ELSE Fed(fed[n - 1], bytes[n])]
           run == CHOOSE fed : Reading(fed)
<1>1. FromUtf8Lossy(bytes) = Flushed(run[Len(bytes)])
    BY DEF FromUtf8Lossy
<1>2. PICK fed :
        /\ fed = [n \in 0 .. Len(bytes) |-> fed[n]]
        /\ fed[0] = start
        /\ \A n \in 1 .. Len(bytes) : fed[n] = Fed(fed[n - 1], bytes[n])
        /\ fed[Len(bytes)] = state
    BY DEF Read
<1>3. PICK L \in Nat : L = Len(bytes)
    OBVIOUS
<1> HIDE DEF start
<1>4. Reading(fed)
    <2>1. \A n \in 0 .. L :
            fed[n] = IF n = 0 THEN start ELSE Fed(fed[n - 1], bytes[n])
        <3>1. \A n \in 0 .. L : n /= 0 => n \in 1 .. L
            OBVIOUS
        <3> QED
            BY <1>2, <1>3, <3>1
    <2> QED
        BY <1>2, <1>3, <2>1
<1>5. Reading(run)
    BY <1>4
<1>6. \A n \in 0 .. L :
        run[n] = IF n = 0 THEN start ELSE Fed(run[n - 1], bytes[n])
    <2> HIDE DEF run
    <2> QED
        BY <1>3, <1>5
<1> HIDE DEF run, Reading
<1>7. 0 .. L \subseteq {n \in Nat : run[n] = fed[n]}
    <2> DEFINE S == {n \in Nat : run[n] = fed[n]}
    <2>1. 0 \in S
        BY <1>2, <1>6
    <2>2. ASSUME NEW n \in 0 .. L - 1, n \in S
          PROVE  n + 1 \in S
        <3>1. n + 1 \in 1 .. L /\ n + 1 \in 0 .. L /\ n + 1 /= 0 /\ (n + 1) - 1 = n
            OBVIOUS
        <3>2. fed[n + 1] = Fed(fed[n], bytes[n + 1])
            BY <1>2, <1>3, <3>1
        <3>3. run[n + 1] = Fed(run[n], bytes[n + 1])
            BY <1>6, <3>1
        <3> QED
            BY <2>2, <3>1, <3>2, <3>3
    <2> HIDE DEF S
    <2>3. 0 .. L \subseteq S
        BY <2>1, <2>2, InductionTo
    <2> QED
        BY <2>3 DEF S
<1> QED
    BY <1>1, <1>2, <1>3, <1>7

\* What one token adds.
With(bytes, t) == IF IsByteToken(t) THEN Append(bytes, t - 1) ELSE bytes

\* decode has collected these bytes when it has seen the tokens.
Kept(tokens, kept) ==
    \E sofar :
        /\ sofar = [n \in 0 .. Len(tokens) |-> sofar[n]]
        /\ sofar[0] = <<>>
        /\ \A n \in 1 .. Len(tokens) : sofar[n] = With(sofar[n - 1], tokens[n])
        /\ sofar[Len(tokens)] = kept

LEMMA KeptNothing == Kept(<<>>, <<>>)
<1> DEFINE sofar == [n \in 0 .. 0 |-> <<>>]
<1>1. /\ sofar = [n \in 0 .. 0 |-> sofar[n]]
      /\ sofar[0] = <<>>
      /\ Len(<<>>) = 0
    OBVIOUS
<1> HIDE DEF sofar
<1> QED
    BY <1>1 DEF Kept

LEMMA KeptOne ==
    ASSUME NEW B, NEW tokens \in Seq(B), NEW t \in B, NEW kept, Kept(tokens, kept)
    PROVE  Kept(Append(tokens, t), With(kept, t))
<1>1. PICK sofar :
        /\ sofar = [n \in 0 .. Len(tokens) |-> sofar[n]]
        /\ sofar[0] = <<>>
        /\ \A n \in 1 .. Len(tokens) : sofar[n] = With(sofar[n - 1], tokens[n])
        /\ sofar[Len(tokens)] = kept
    BY DEF Kept
<1>2. PICK L \in Nat : L = Len(tokens)
    OBVIOUS
<1> DEFINE next   == With(kept, t)
           longer == Append(tokens, t)
           more   == [n \in 0 .. L + 1 |-> IF n <= L THEN sofar[n] ELSE next]
<1>3. /\ Len(longer) = L + 1 /\ longer[L + 1] = t
      /\ \A n \in 1 .. L : longer[n] = tokens[n]
    BY <1>2
<1>4. /\ more = [n \in 0 .. L + 1 |-> more[n]]
      /\ more[0] = sofar[0] /\ more[L + 1] = next /\ more[L] = sofar[L]
      /\ \A n \in 1 .. L : more[n] = sofar[n] /\ more[n - 1] = sofar[n - 1]
    OBVIOUS
<1> HIDE DEF longer, more, next
<1>5. ASSUME NEW n \in 1 .. L + 1
      PROVE  more[n] = With(more[n - 1], longer[n])
    <2>1. CASE n \in 1 .. L
        BY <1>1, <1>2, <1>3, <1>4, <2>1
    <2>2. CASE n = L + 1
        <3>1. more[n - 1] = kept
            BY <1>1, <1>2, <1>4, <2>2
        <3> QED
            BY <1>3, <1>4, <2>2, <3>1 DEF next
    <2> QED
        BY <2>1, <2>2
<1>6. Kept(longer, next)
    BY <1>1, <1>3, <1>4, <1>5 DEF Kept
<1> QED
    BY <1>6 DEF longer, next

LEMMA KeptAll ==
    ASSUME NEW B, NEW tokens \in Seq(B), NEW kept, Kept(tokens, kept)
    PROVE  Decode(tokens) = FromUtf8Lossy(kept)
<1> DEFINE start == <<>>
           Reading(sofar) ==
               sofar = [n \in 0 .. Len(tokens) |->
                        IF n = 0 THEN start ELSE With(sofar[n - 1], tokens[n])]
           run == CHOOSE sofar : Reading(sofar)
<1>1. Decode(tokens) = FromUtf8Lossy(run[Len(tokens)])
    BY DEF Decode, With
<1>2. PICK sofar :
        /\ sofar = [n \in 0 .. Len(tokens) |-> sofar[n]]
        /\ sofar[0] = start
        /\ \A n \in 1 .. Len(tokens) : sofar[n] = With(sofar[n - 1], tokens[n])
        /\ sofar[Len(tokens)] = kept
    BY DEF Kept
<1>3. PICK L \in Nat : L = Len(tokens)
    OBVIOUS
<1> HIDE DEF start
<1>4. Reading(sofar)
    <2>1. \A n \in 0 .. L :
            sofar[n] = IF n = 0 THEN start ELSE With(sofar[n - 1], tokens[n])
        <3>1. \A n \in 0 .. L : n /= 0 => n \in 1 .. L
            OBVIOUS
        <3> QED
            BY <1>2, <1>3, <3>1
    <2> QED
        BY <1>2, <1>3, <2>1
<1>5. Reading(run)
    BY <1>4
<1>6. \A n \in 0 .. L :
        run[n] = IF n = 0 THEN start ELSE With(run[n - 1], tokens[n])
    <2> HIDE DEF run
    <2> QED
        BY <1>3, <1>5
<1> HIDE DEF run, Reading
<1>7. 0 .. L \subseteq {n \in Nat : run[n] = sofar[n]}
    <2> DEFINE S == {n \in Nat : run[n] = sofar[n]}
    <2>1. 0 \in S
        BY <1>2, <1>6
    <2>2. ASSUME NEW n \in 0 .. L - 1, n \in S
          PROVE  n + 1 \in S
        <3>1. n + 1 \in 1 .. L /\ n + 1 \in 0 .. L /\ n + 1 /= 0 /\ (n + 1) - 1 = n
            OBVIOUS
        <3>2. sofar[n + 1] = With(sofar[n], tokens[n + 1])
            BY <1>2, <1>3, <3>1
        <3>3. run[n + 1] = With(run[n], tokens[n + 1])
            BY <1>6, <3>1
        <3> QED
            BY <2>2, <3>1, <3>2, <3>3
    <2> HIDE DEF S
    <2>3. 0 .. L \subseteq S
        BY <2>1, <2>2, InductionTo
    <2> QED
        BY <2>3 DEF S
<1> QED
    BY <1>1, <1>2, <1>3, <1>7

\* FlattenSeq has put these together.
Joined(parts, whole) ==
    \E flat :
        /\ flat = [n \in 0 .. Len(parts) |-> flat[n]]
        /\ flat[0] = <<>>
        /\ \A n \in 1 .. Len(parts) :
            flat[n] = IF n = 1 THEN parts[n] ELSE flat[n - 1] \o parts[n]
        /\ flat[Len(parts)] = whole

LEMMA JoinedNothing == Joined(<<>>, <<>>)
<1> DEFINE flat == [n \in 0 .. 0 |-> <<>>]
<1>1. flat = [n \in 0 .. 0 |-> flat[n]] /\ flat[0] = <<>> /\ Len(<<>>) = 0
    OBVIOUS
<1> HIDE DEF flat
<1> QED
    BY <1>1 DEF Joined

LEMMA JoinedOne ==
    ASSUME NEW B, NEW parts \in Seq(Seq(B)), NEW part \in Seq(B), NEW whole,
           Joined(parts, whole)
    PROVE  Joined(Append(parts, part), whole \o part)
<1>1. PICK flat :
        /\ flat = [n \in 0 .. Len(parts) |-> flat[n]]
        /\ flat[0] = <<>>
        /\ \A n \in 1 .. Len(parts) :
            flat[n] = IF n = 1 THEN parts[n] ELSE flat[n - 1] \o parts[n]
        /\ flat[Len(parts)] = whole
    BY DEF Joined
<1>2. PICK L \in Nat : L = Len(parts)
    OBVIOUS
<1> DEFINE next   == whole \o part
           longer == Append(parts, part)
           more   == [n \in 0 .. L + 1 |-> IF n <= L THEN flat[n] ELSE next]
<1>3. /\ Len(longer) = L + 1 /\ longer[L + 1] = part
      /\ \A n \in 1 .. L : longer[n] = parts[n]
    BY <1>2
<1>4. /\ more = [n \in 0 .. L + 1 |-> more[n]]
      /\ more[0] = flat[0] /\ more[L + 1] = next /\ more[L] = flat[L]
      /\ \A n \in 1 .. L : more[n] = flat[n] /\ more[n - 1] = flat[n - 1]
    OBVIOUS
<1>5. L = 0 => next = part
    BY <1>1, <1>2
<1> HIDE DEF longer, more, next
<1>6. ASSUME NEW n \in 1 .. L + 1
      PROVE  more[n] = IF n = 1 THEN longer[n] ELSE more[n - 1] \o longer[n]
    <2>1. CASE n \in 1 .. L
        BY <1>1, <1>2, <1>3, <1>4, <2>1
    <2>2. CASE n = L + 1
        <3>1. more[n - 1] = whole
            BY <1>1, <1>2, <1>4, <2>2
        <3>2. CASE L = 0
            BY <1>3, <1>4, <1>5, <2>2, <3>2
        <3>3. CASE L /= 0
            <4>1. n /= 1 /\ longer[n] = part /\ more[n] = next
                BY <1>3, <1>4, <2>2, <3>3
            <4>2. next = more[n - 1] \o longer[n]
                BY <3>1, <4>1 DEF next
            <4> QED
                BY <4>1, <4>2
        <3> QED
            BY <3>2, <3>3
    <2> QED
        BY <2>1, <2>2
<1>7. Joined(longer, next)
    BY <1>1, <1>3, <1>4, <1>6 DEF Joined
<1> QED
    BY <1>7 DEF longer, next

LEMMA JoinedAll ==
    ASSUME NEW B, NEW parts \in Seq(Seq(B)), NEW whole, Joined(parts, whole)
    PROVE  FlattenSeq(parts) = whole
<1> DEFINE Flattening(flat) ==
               flat = [n \in 1 .. Len(parts) |->
                        IF n = 1 THEN parts[n] ELSE flat[n - 1] \o parts[n]]
           run == CHOOSE flat : Flattening(flat)
<1>1. FlattenSeq(parts) = IF Len(parts) = 0 THEN parts ELSE run[Len(parts)]
    BY DEF FlattenSeq
<1>2. PICK flat :
        /\ flat = [n \in 0 .. Len(parts) |-> flat[n]]
        /\ flat[0] = <<>>
        /\ \A n \in 1 .. Len(parts) :
            flat[n] = IF n = 1 THEN parts[n] ELSE flat[n - 1] \o parts[n]
        /\ flat[Len(parts)] = whole
    BY DEF Joined
<1>3. PICK L \in Nat : L = Len(parts)
    OBVIOUS
<1>4. CASE L = 0
    <2>1. Len(parts) = 0
        BY <1>3, <1>4
    <2>3. parts = <<>>
        BY <2>1, Empties
    <2>2. whole = <<>>
        BY <1>2, <2>1
    <2> HIDE DEF run
    <2> QED
        BY <1>1, <2>1, <2>2, <2>3
<1>5. CASE L /= 0
    <2> DEFINE tail == [n \in 1 .. L |-> flat[n]]
    <2>1. \A n \in 1 .. L :
            tail[n] = IF n = 1 THEN parts[n] ELSE tail[n - 1] \o parts[n]
        <3>1. \A n \in 1 .. L : n /= 1 => n - 1 \in 1 .. L
            OBVIOUS
        <3> QED
            BY <1>2, <1>3, <3>1
    <2>2. Flattening(tail)
        <3>1. tail = [n \in 1 .. L |-> tail[n]]
            OBVIOUS
        <3> HIDE DEF tail
        <3> QED
            BY <1>3, <2>1, <3>1
    <2>3. Flattening(run)
        BY <2>2
    <2>4. \A n \in 1 .. L :
            run[n] = IF n = 1 THEN parts[n] ELSE run[n - 1] \o parts[n]
        <3> HIDE DEF run
        <3> QED
            BY <1>3, <2>3
    <2> HIDE DEF run, Flattening, tail
    <2> DEFINE S == {n \in Nat : n = 0 \/ run[n] = flat[n]}
    <2>5. 0 \in S
        OBVIOUS
    <2>6. ASSUME NEW n \in 0 .. L - 1, n \in S
          PROVE  n + 1 \in S
        <3>1. n + 1 \in 1 .. L /\ (n + 1) - 1 = n /\ n + 1 \in Nat
            OBVIOUS
        <3>2. flat[n + 1] = IF n + 1 = 1 THEN parts[n + 1]
                                         ELSE flat[n] \o parts[n + 1]
            BY <1>2, <1>3, <3>1
        <3>3. run[n + 1] = IF n + 1 = 1 THEN parts[n + 1]
                                        ELSE run[n] \o parts[n + 1]
            BY <2>4, <3>1
        <3>4. n + 1 /= 1 => run[n] = flat[n]
            BY <2>6
        <3>5. run[n + 1] = flat[n + 1]
            BY <3>2, <3>3, <3>4
        <3> QED
            BY <3>1, <3>5
    <2> HIDE DEF S
    <2>7. 0 .. L \subseteq S
        BY <2>5, <2>6, InductionTo
    <2> QED
        BY <1>1, <1>2, <1>3, <1>5, <2>7 DEF S
<1> QED
    BY <1>4, <1>5

-----------------------------------------------------------------------------
(* Encoding, and decoding what was encoded                                 *)

\* What has been read of a text up to the n-th byte of its next character.
Reading(text, c, n) ==
    IF n < Len(c)
    THEN [text |-> text, pending |-> SubSeq(c, 1, n)]
    ELSE [text |-> Append(text, c), pending |-> <<>>]

\* A character is read as one, byte by byte.
LEMMA ReadCharacter ==
    ASSUME NEW bytes \in Seq(Byte), NEW text, NEW c, IsCharacter(c),
           Read(bytes, [text |-> text, pending |-> <<>>])
    PROVE  Read(bytes \o c, [text |-> Append(text, c), pending |-> <<>>])
<1>1. /\ c \in Seq(Byte) /\ c /= <<>>
      /\ c[1] \in DOMAIN Following
      /\ Len(c) = 1 + Following[c[1]]
      /\ \A i \in 2 .. Len(c) : c[i] \in Continuation
    BY DEF IsCharacter
<1>2. PICK L \in Nat : L = Len(c)
    BY <1>1
<1>3. L >= 1 /\ Following[c[1]] = L - 1
    BY <1>1, <1>2, TokeniserAssumption
<1> DEFINE S == {n \in Nat : n + 1 <= L =>
                    Read(bytes \o SubSeq(c, 1, n + 1), Reading(text, c, n + 1))}
<1>4. 0 \in S
    <2>1. SubSeq(c, 1, 1) = <<c[1]>> /\ c[1] \in Byte
        <3>1. 0 < Len(c) /\ 0 + 1 = 1
            BY <1>2, <1>3
        <3>2. c[1] \in Byte /\ Append(SubSeq(c, 1, 0), c[1]) = SubSeq(c, 1, 1)
            BY <1>1, <3>1, LongerPrefix
        <3>3. SubSeq(c, 1, 0) = <<>>
            BY <1>1, WholePrefix
        <3>4. Append(<<>>, c[1]) = <<c[1]>>
            OBVIOUS
        <3> QED
            BY <3>2, <3>3, <3>4
    <2>2. bytes \o <<c[1]>> = Append(bytes, c[1])
        BY <2>1
    <2>3. Fed([text |-> text, pending |-> <<>>], c[1]) = Reading(text, c, 1)
        <3>1. Fed([text |-> text, pending |-> <<>>], c[1]) = Closed(text, <<c[1]>>)
            BY <1>1 DEF Fed, Flushed, Started
        <3>2. Len(<<c[1]>>) = 1 /\ <<c[1]>>[1] = c[1]
            OBVIOUS
        <3>3. CASE L = 1
            <4>1. <<c[1]>> = c
                BY <1>1, <1>2, <2>1, <3>3, WholePrefix
            <4>2. Closed(text, <<c[1]>>)
                    = [text |-> Append(text, <<c[1]>>), pending |-> <<>>]
                BY <1>3, <3>2, <3>3 DEF Closed
            <4>3. Reading(text, c, 1) = [text |-> Append(text, c), pending |-> <<>>]
                BY <1>2, <3>3 DEF Reading
            <4> QED
                BY <3>1, <4>1, <4>2, <4>3
        <3>4. CASE L > 1
            BY <1>2, <1>3, <2>1, <3>1, <3>2, <3>4 DEF Closed, Reading
        <3> QED
            BY <1>3, <3>3, <3>4
    <2>4. Read(Append(bytes, c[1]), Reading(text, c, 1))
        BY <2>1, <2>3, ReadOne
    <2>5. 0 + 1 = 1
        OBVIOUS
    <2> QED
        BY <2>1, <2>2, <2>4, <2>5
<1>5. ASSUME NEW n \in S
      PROVE  n + 1 \in S
    <2>1. SUFFICES ASSUME n + 2 <= L
                   PROVE  Read(bytes \o SubSeq(c, 1, n + 2), Reading(text, c, n + 2))
        OBVIOUS
    <2> DEFINE before == SubSeq(c, 1, n + 1)
    <2>2. /\ n + 2 \in 2 .. L /\ n + 1 \in 1 .. L /\ n \in Nat
          /\ c[n + 2] \in Byte /\ c[n + 2] \in Continuation
        BY <1>1, <1>2, <2>1
    <2>3. /\ before \in Seq(Byte) /\ Len(before) = n + 1 /\ before[1] = c[1]
          /\ Append(before, c[n + 2]) = SubSeq(c, 1, n + 2)
          /\ before /= <<>>
        <3>1. n + 1 < Len(c) /\ n + 1 > 0 /\ n + 1 \in Nat /\ (n + 1) + 1 = n + 2
            BY <1>2, <2>2
        <3>2. /\ before \in Seq(Byte) /\ Len(before) = n + 1 /\ before[1] = c[1]
              /\ Append(before, c[n + 2]) = SubSeq(c, 1, n + 2)
            BY <1>1, <3>1, LongerPrefix
        <3> HIDE DEF before
        <3>3. before /= <<>>
            BY <2>2, <3>2
        <3> QED
            BY <3>2, <3>3
    <2>4. /\ bytes \o before \in Seq(Byte)
          /\ bytes \o SubSeq(c, 1, n + 2) = Append(bytes \o before, c[n + 2])
        BY <2>2, <2>3
    <2>5. Read(bytes \o before, [text |-> text, pending |-> before])
        BY <1>2, <2>1, <2>2 DEF Reading
    <2> HIDE DEF before
    <2> DEFINE after == Append(before, c[n + 2])
    <2>6. Fed([text |-> text, pending |-> before], c[n + 2]) = Closed(text, after)
        BY <2>2, <2>3 DEF Fed
    <2>7. Len(after) = n + 2 /\ after[1] = c[1]
        BY <2>2, <2>3
    <2>8. Closed(text, after) = Reading(text, c, n + 2)
        <3>1. CASE n + 2 = L
            <4>1. after = c
                BY <1>1, <1>2, <2>3, <3>1, WholePrefix
            <4>2. Closed(text, after) = [text |-> Append(text, after), pending |-> <<>>]
                BY <1>3, <2>7, <3>1 DEF Closed
            <4>3. Reading(text, c, n + 2)
                    = [text |-> Append(text, c), pending |-> <<>>]
                BY <1>2, <3>1 DEF Reading
            <4> QED
                BY <4>1, <4>2, <4>3
        <3>2. CASE n + 2 < L
            BY <1>2, <1>3, <2>3, <2>7, <3>2 DEF Closed, Reading
        <3> QED
            BY <2>2, <3>1, <3>2
    <2>9. Read(Append(bytes \o before, c[n + 2]), Reading(text, c, n + 2))
        BY <2>2, <2>4, <2>5, <2>6, <2>8, ReadOne
    <2> QED
        BY <2>4, <2>9
<1>6. S \in SUBSET Nat
    OBVIOUS
<1> HIDE DEF S
<1>7. S = Nat
    BY <1>4, <1>5, <1>6, Induction
<1>8. L - 1 \in S /\ (L - 1) + 1 = L
    BY <1>3, <1>7
<1>9. Read(bytes \o SubSeq(c, 1, L), Reading(text, c, L))
    BY <1>8 DEF S
<1>10. SubSeq(c, 1, L) = c
    BY <1>1, <1>2, WholePrefix
<1>11. Reading(text, c, L) = [text |-> Append(text, c), pending |-> <<>>]
    BY <1>2 DEF Reading
<1> QED
    BY <1>9, <1>10, <1>11

\* The bytes of a text are read as that text.
LEMMA ReadText ==
    ASSUME NEW text, IsText(text)
    PROVE  /\ FlattenSeq(text) \in Seq(Byte)
           /\ FromUtf8Lossy(FlattenSeq(text)) = text
<1>1. text \in Seq(Seq(Byte)) /\ \A i \in DOMAIN text : IsCharacter(text[i])
    BY DEF IsText
<1>2. PICK L \in Nat : L = Len(text)
    BY <1>1
<1> DEFINE S == {n \in Nat : n <= L =>
                    \E bytes \in Seq(Byte) :
                        /\ Joined(SubSeq(text, 1, n), bytes)
                        /\ Read(bytes, [text    |-> SubSeq(text, 1, n),
                                        pending |-> <<>>])}
<1>3. 0 \in S
    <2>1. SubSeq(text, 1, 0) = <<>> /\ <<>> \in Seq(Byte)
        BY <1>1
    <2> QED
        BY <2>1, JoinedNothing, ReadNothing
<1>4. ASSUME NEW n \in S
      PROVE  n + 1 \in S
    <2>1. SUFFICES ASSUME n + 1 <= L
                   PROVE  \E bytes \in Seq(Byte) :
                            /\ Joined(SubSeq(text, 1, n + 1), bytes)
                            /\ Read(bytes, [text    |-> SubSeq(text, 1, n + 1),
                                            pending |-> <<>>])
        OBVIOUS
    <2> DEFINE before == SubSeq(text, 1, n)
    <2>2. PICK bytes \in Seq(Byte) :
            Joined(before, bytes) /\ Read(bytes, [text |-> before, pending |-> <<>>])
        BY <2>1
    <2>3. n + 1 \in DOMAIN text /\ n \in Nat
        BY <1>1, <1>2, <2>1
    <2>4. /\ text[n + 1] \in Seq(Byte) /\ IsCharacter(text[n + 1])
          /\ before \in Seq(Seq(Byte))
          /\ Append(before, text[n + 1]) = SubSeq(text, 1, n + 1)
        <3>1. n < Len(text)
            BY <1>2, <2>1
        <3>2. text[n + 1] \in Seq(Byte) /\ IsCharacter(text[n + 1])
            BY <1>1, <2>3
        <3> QED
            BY <1>1, <2>3, <3>1, <3>2, LongerPrefix
    <2> HIDE DEF before
    <2>5. bytes \o text[n + 1] \in Seq(Byte)
        BY <2>4
    <2>7. Joined(Append(before, text[n + 1]), bytes \o text[n + 1])
        BY <2>2, <2>4, JoinedOne
    <2>6. Read(bytes \o text[n + 1], [text    |-> Append(before, text[n + 1]),
                                      pending |-> <<>>])
        BY <2>2, <2>4, ReadCharacter
    <2> QED
        BY <2>4, <2>5, <2>6, <2>7
<1>5. S \in SUBSET Nat
    OBVIOUS
<1> HIDE DEF S
<1>6. L \in S
    BY <1>3, <1>4, <1>5, Induction
<1>7. SubSeq(text, 1, L) = text
    BY <1>1, <1>2, WholePrefix
<1>8. PICK bytes \in Seq(Byte) :
        Joined(text, bytes) /\ Read(bytes, [text |-> text, pending |-> <<>>])
    <2>1. PICK bytes \in Seq(Byte) :
            /\ Joined(SubSeq(text, 1, L), bytes)
            /\ Read(bytes, [text |-> SubSeq(text, 1, L), pending |-> <<>>])
        BY <1>6 DEF S
    <2> QED
        BY <1>7, <2>1
<1>9. FlattenSeq(text) = bytes
    BY <1>1, <1>8, JoinedAll
<1> QED
    BY <1>8, <1>9, ReadAll DEF Flushed

\* Decoding gives an encoded text back.
LEMMA RoundTrip ==
    ASSUME NEW text, IsText(text)
    PROVE  Decode(Encode(text)) = text
<1> DEFINE bytes  == FlattenSeq(text)
           tokens == Encode(text)
<1>1. bytes \in Seq(Byte) /\ FromUtf8Lossy(bytes) = text
    BY ReadText
<1>2. tokens = [i \in DOMAIN bytes |-> bytes[i] + 1]
    BY DEF Encode
<1> HIDE DEF bytes, tokens
<1>3. PICK L \in Nat : L = Len(bytes) /\ DOMAIN bytes = 1 .. L
    BY <1>1
<1>4. \A i \in 1 .. L : bytes[i] \in Nat /\ tokens[i] = bytes[i] + 1
                        /\ IsByteToken(tokens[i]) /\ tokens[i] - 1 = bytes[i]
    <2>1. \A i \in 1 .. L : bytes[i] \in Byte /\ tokens[i] = bytes[i] + 1
        BY <1>1, <1>2, <1>3
    <2> QED
        BY <2>1, TokeniserAssumption DEF Byte, IsByteToken
<1>5. tokens \in Seq(Nat) /\ Len(tokens) = L
    BY <1>2, <1>3, <1>4
<1> DEFINE S == {n \in Nat : n <= L =>
                    Kept(SubSeq(tokens, 1, n), SubSeq(bytes, 1, n))}
<1>6. 0 \in S
    <2>1. SubSeq(tokens, 1, 0) = <<>> /\ SubSeq(bytes, 1, 0) = <<>>
        BY <1>1, <1>5
    <2> QED
        BY <2>1, KeptNothing
<1>7. ASSUME NEW n \in S
      PROVE  n + 1 \in S
    <2>1. SUFFICES ASSUME n + 1 <= L
                   PROVE  Kept(SubSeq(tokens, 1, n + 1), SubSeq(bytes, 1, n + 1))
        OBVIOUS
    <2>2. Kept(SubSeq(tokens, 1, n), SubSeq(bytes, 1, n))
        BY <2>1
    <2>3. n + 1 \in 1 .. L /\ n \in Nat
        BY <2>1
    <2>4. /\ SubSeq(tokens, 1, n) \in Seq(Nat) /\ tokens[n + 1] \in Nat
          /\ Append(SubSeq(tokens, 1, n), tokens[n + 1]) = SubSeq(tokens, 1, n + 1)
        BY <1>5, <2>3
    <2>5. Append(SubSeq(bytes, 1, n), bytes[n + 1]) = SubSeq(bytes, 1, n + 1)
        BY <1>1, <1>3, <2>3
    <2>6. With(SubSeq(bytes, 1, n), tokens[n + 1])
            = Append(SubSeq(bytes, 1, n), bytes[n + 1])
        BY <1>4, <2>3 DEF With
    <2> QED
        BY <2>2, <2>4, <2>5, <2>6, KeptOne
<1>8. S \in SUBSET Nat
    OBVIOUS
<1> HIDE DEF S
<1>9. L \in S
    BY <1>6, <1>7, <1>8, Induction
<1>10. Kept(tokens, bytes)
    <2>1. SubSeq(tokens, 1, L) = tokens /\ SubSeq(bytes, 1, L) = bytes
        BY <1>1, <1>3, <1>5, WholePrefix
    <2>2. Kept(SubSeq(tokens, 1, L), SubSeq(bytes, 1, L))
        BY <1>9 DEF S
    <2> QED
        BY <2>1, <2>2
<1>11. Decode(tokens) = text
    BY <1>1, <1>5, <1>10, KeptAll
<1> QED
    BY <1>11 DEF tokens

\* What the events of a stream put together is what decode makes of the tokens,
\* unless one of them is a replacement character.
LEMMA EventsAddUp ==
    ASSUME NEW tokens \in Seq(Nat),
           NEW events, events = [i \in DOMAIN tokens |-> DecodeOne(tokens[i])],
           <<Replacement>> \notin Range(events)
    PROVE  FlattenSeq(events) = Decode(tokens)
<1>1. PICK L \in Nat : L = Len(tokens) /\ DOMAIN tokens = 1 .. L
    OBVIOUS
<1>2. ASSUME NEW i \in 1 .. L
      PROVE  /\ events[i] = DecodeOne(tokens[i])
             /\ tokens[i] \in Nat
             /\ IsByteToken(tokens[i]) =>
                    /\ tokens[i] - 1 \in Byte
                    /\ tokens[i] - 1 \in DOMAIN Following
                    /\ Following[tokens[i] - 1] = 0
                    /\ events[i] = << <<tokens[i] - 1>> >>
             /\ ~IsByteToken(tokens[i]) => events[i] = <<>>
    <2>1. events[i] = DecodeOne(tokens[i]) /\ tokens[i] \in Nat
        BY <1>1
    <2>2. events[i] /= <<Replacement>>
        <3>1. i \in DOMAIN events
            BY <1>1
        <3> QED
            BY <3>1 DEF Range
    <2>3. CASE IsByteToken(tokens[i])
        <3> DEFINE b     == tokens[i] - 1
                   start == [text |-> <<>>, pending |-> <<>>]
        <3>1. b \in Byte
            BY <2>3, TokeniserAssumption DEF IsByteToken, Byte
        <3> HIDE DEF b
        <3>2. events[i] = FromUtf8Lossy(<<b>>)
            BY <2>1, <2>3 DEF DecodeOne, b
        <3>3. Read(Append(<<>>, b), Fed(start, b))
            <4>1. <<>> \in Seq(Byte)
                OBVIOUS
            <4> QED
                BY <3>1, <4>1, ReadNothing, ReadOne
        <3>4. Append(<<>>, b) = <<b>> /\ <<b>> \in Seq(Byte)
            BY <3>1
        <3>5. events[i] = Flushed(Fed(start, b))
            BY <3>2, <3>3, <3>4, ReadAll
        <3>6. Fed(start, b) = Started(<<>>, b)
            BY DEF Fed, Flushed
        <3>7. b \in DOMAIN Following
            <4>1. b \notin DOMAIN Following => events[i] = <<Replacement>>
                BY <3>5, <3>6 DEF Started, Flushed
            <4> QED
                BY <2>2, <4>1
        <3>8. Len(<<b>>) = 1 /\ <<b>>[1] = b /\ <<b>> /= <<>>
            OBVIOUS
        <3>9. Following[b] = 0
            <4> SUFFICES ASSUME Following[b] /= 0
                         PROVE  FALSE
                OBVIOUS
            <4>1. Following[b] \in Nat
                BY <3>7, TokeniserAssumption
            <4>2. Len(<<b>>) /= 1 + Following[b]
                BY <3>8, <4>1
            <4>3. Started(<<>>, b) = [text |-> <<>>, pending |-> <<b>>]
                BY <3>7, <4>2 DEF Started, Closed
            <4>4. Flushed([text |-> <<>>, pending |-> <<b>>])
                    = Append(<<>>, Replacement)
                <5>1. <<b>> /= <<>>
                    BY <3>8
                <5> QED
                    BY <5>1, Zenon DEF Flushed
            <4>5. events[i] = Append(<<>>, Replacement)
                BY <3>5, <3>6, <4>3, <4>4
            <4>6. Append(<<>>, Replacement) = <<Replacement>>
                OBVIOUS
            <4> QED
                BY <2>2, <4>5, <4>6
        <3>10. events[i] = Append(<<>>, <<b>>)
            BY <3>5, <3>6, <3>7, <3>8, <3>9 DEF Started, Closed, Flushed
        <3> QED
            <4>1. Append(<<>>, <<b>>) = << <<b>> >>
                OBVIOUS
            <4> QED
                BY <2>1, <2>3, <3>1, <3>7, <3>9, <3>10, <4>1 DEF b
    <2>4. CASE ~IsByteToken(tokens[i])
        BY <2>1, <2>4 DEF DecodeOne
    <2> QED
        BY <2>1, <2>3, <2>4
<1>3. events \in Seq(Seq(Seq(Byte))) /\ Len(events) = L
    <2>1. \A i \in 1 .. L : events[i] \in Seq(Seq(Byte))
        <3>1. ASSUME NEW i \in 1 .. L
              PROVE  events[i] \in Seq(Seq(Byte))
            <4>1. <<>> \in Seq(Seq(Byte))
                OBVIOUS
            <4>2. ASSUME NEW b \in Byte
                  PROVE  << <<b>> >> \in Seq(Seq(Byte))
                OBVIOUS
            <4> QED
                BY <1>2, <4>1, <4>2
        <3> QED
            BY <3>1
    <2> QED
        BY <1>1, <2>1
<1> DEFINE Sofar(n) ==
             \E bytes \in Seq(Byte), text \in Seq(Seq(Byte)) :
                /\ Kept(SubSeq(tokens, 1, n), bytes)
                /\ Read(bytes, [text |-> text, pending |-> <<>>])
                /\ Joined(SubSeq(events, 1, n), text)
           S == {n \in Nat : n <= L => Sofar(n)}
<1>4. 0 \in S
    <2>1. /\ SubSeq(tokens, 1, 0) = <<>> /\ SubSeq(events, 1, 0) = <<>>
          /\ <<>> \in Seq(Byte) /\ <<>> \in Seq(Seq(Byte))
        BY <1>3, WholePrefix
    <2> QED
        BY <2>1, KeptNothing, ReadNothing, JoinedNothing
<1>5. ASSUME NEW n \in S
      PROVE  n + 1 \in S
    <2> HIDE DEF Sofar
    <2>1. SUFFICES ASSUME n + 1 <= L
                   PROVE  Sofar(n + 1)
        OBVIOUS
    <2>10. n <= L /\ Sofar(n)
        BY <2>1
    <2>2. PICK bytes \in Seq(Byte), text \in Seq(Seq(Byte)) :
            /\ Kept(SubSeq(tokens, 1, n), bytes)
            /\ Read(bytes, [text |-> text, pending |-> <<>>])
            /\ Joined(SubSeq(events, 1, n), text)
        BY <2>10 DEF Sofar
    <2>3. n + 1 \in 1 .. L /\ n \in Nat /\ n < Len(tokens) /\ n < Len(events)
        BY <1>1, <1>3, <2>1
    <2>4. /\ SubSeq(tokens, 1, n) \in Seq(Nat) /\ tokens[n + 1] \in Nat
          /\ Append(SubSeq(tokens, 1, n), tokens[n + 1]) = SubSeq(tokens, 1, n + 1)
        BY <2>3, LongerPrefix
    <2>5. /\ SubSeq(events, 1, n) \in Seq(Seq(Seq(Byte)))
          /\ events[n + 1] \in Seq(Seq(Byte))
          /\ Append(SubSeq(events, 1, n), events[n + 1]) = SubSeq(events, 1, n + 1)
        BY <1>3, <2>3, LongerPrefix
    <2> DEFINE b     == tokens[n + 1] - 1
               state == [text |-> text, pending |-> <<>>]
    <2>6. Kept(SubSeq(tokens, 1, n + 1), With(bytes, tokens[n + 1]))
        BY <2>2, <2>4, KeptOne
    <2>7. Joined(SubSeq(events, 1, n + 1), text \o events[n + 1])
        BY <2>2, <2>5, JoinedOne
    <2>8. CASE IsByteToken(tokens[n + 1])
        <3>1. /\ b \in Byte /\ b \in DOMAIN Following /\ Following[b] = 0
              /\ events[n + 1] = << <<b>> >>
              /\ With(bytes, tokens[n + 1]) = Append(bytes, b)
            BY <1>2, <2>3, <2>8 DEF With
        <3> HIDE DEF b
        <3>2. text \o << <<b>> >> = Append(text, <<b>>)
              /\ Append(text, <<b>>) \in Seq(Seq(Byte))
              /\ Append(bytes, b) \in Seq(Byte)
            BY <3>1
        <3>3. Fed(state, b) = Closed(text, <<b>>)
            BY <3>1 DEF Fed, Flushed, Started
        <3>4. Closed(text, <<b>>) = [text |-> Append(text, <<b>>), pending |-> <<>>]
            <4>1. Len(<<b>>) = 1 /\ <<b>>[1] = b
                OBVIOUS
            <4> QED
                BY <3>1, <4>1 DEF Closed
        <3>5. Read(Append(bytes, b), Fed(state, b))
            BY <2>2, <3>1, ReadOne
        <3> QED
            BY <2>6, <2>7, <3>1, <3>2, <3>3, <3>4, <3>5 DEF Sofar
    <2>9. CASE ~IsByteToken(tokens[n + 1])
        <3>1. events[n + 1] = <<>> /\ With(bytes, tokens[n + 1]) = bytes
            BY <1>2, <2>3, <2>9 DEF With
        <3>2. text \o <<>> = text
            OBVIOUS
        <3> QED
            BY <2>2, <2>6, <2>7, <3>1, <3>2 DEF Sofar
    <2> QED
        BY <2>8, <2>9
<1>6. S \in SUBSET Nat
    OBVIOUS
<1> HIDE DEF S
<1>7. L \in S
    BY <1>4, <1>5, <1>6, Induction
<1>8. PICK bytes \in Seq(Byte), text \in Seq(Seq(Byte)) :
        /\ Kept(tokens, bytes)
        /\ Read(bytes, [text |-> text, pending |-> <<>>])
        /\ Joined(events, text)
    <2>1. PICK bytes \in Seq(Byte), text \in Seq(Seq(Byte)) :
            /\ Kept(SubSeq(tokens, 1, L), bytes)
            /\ Read(bytes, [text |-> text, pending |-> <<>>])
            /\ Joined(SubSeq(events, 1, L), text)
        BY <1>7 DEF S
    <2>2. SubSeq(tokens, 1, L) = tokens /\ SubSeq(events, 1, L) = events
        BY <1>1, <1>3, WholePrefix
    <2> QED
        BY <2>1, <2>2
<1>9. FlattenSeq(events) = text
    BY <1>3, <1>8, JoinedAll
<1>10. Decode(tokens) = FromUtf8Lossy(bytes)
    BY <1>8, KeptAll
<1>11. FromUtf8Lossy(bytes) = text
    <2>1. FromUtf8Lossy(bytes) = Flushed([text |-> text, pending |-> <<>>])
        BY <1>8, ReadAll
    <2> QED
        BY <2>1 DEF Flushed
<1> QED
    BY <1>9, <1>10, <1>11

-----------------------------------------------------------------------------
(* Greedy texts                                                            *)

\* The text is the model's, token by token, and nothing follows an eos.
IsGreedy(m, prompt, text) ==
    /\ text \in Seq(Token)
    /\ \A i \in DOMAIN text :
        /\ prompt \o SubSeq(text, 1, i - 1) \in DOMAIN m
        /\ m[prompt \o SubSeq(text, 1, i - 1)] = text[i]
    /\ \A i \in 1 .. Len(text) - 1 : text[i] /= Eos

\* A longer memory of the model changes nothing about a text.
LEMMA GreedyKept ==
    ASSUME NEW m, NEW n, DOMAIN m \subseteq DOMAIN n,
           \A c \in DOMAIN m : n[c] = m[c],
           NEW prompt, NEW text, IsGreedy(m, prompt, text)
    PROVE  IsGreedy(n, prompt, text)
BY DEF IsGreedy

\* No text at all is greedy.
LEMMA GreedyNothing ==
    ASSUME NEW m, NEW prompt
    PROVE  IsGreedy(m, prompt, <<>>)
BY DEF IsGreedy

\* The model's answer to an open text makes a longer one.
LEMMA GreedyLonger ==
    ASSUME NEW m, NEW prompt, NEW text, IsGreedy(m, prompt, text),
           ~EndsInEos(text), NEW token \in Token,
           prompt \o text \in DOMAIN m, m[prompt \o text] = token
    PROVE  IsGreedy(m, prompt, Append(text, token))
<1> DEFINE longer == Append(text, token)
<1>1. text \in Seq(Token)
    BY DEF IsGreedy
<1>2. PICK L \in Nat : L = Len(text)
    BY <1>1
<1>3. /\ longer \in Seq(Token) /\ Len(longer) = L + 1 /\ longer[L + 1] = token
      /\ \A i \in 1 .. L : longer[i] = text[i]
    BY <1>1, <1>2
<1>4. SubSeq(longer, 1, L) = text
    BY <1>1, <1>2, AppendPrefix
<1>5. ASSUME NEW i \in 1 .. L
      PROVE  SubSeq(longer, 1, i - 1) = SubSeq(text, 1, i - 1)
    BY <1>1, <1>2, <1>5, AppendPrefix
<1> HIDE DEF longer
<1>6. ASSUME NEW i \in DOMAIN longer
      PROVE  /\ prompt \o SubSeq(longer, 1, i - 1) \in DOMAIN m
             /\ m[prompt \o SubSeq(longer, 1, i - 1)] = longer[i]
    <2>1. CASE i = L + 1
        <3>1. i - 1 = L
            BY <1>2, <2>1
        <3> QED
            BY <1>3, <1>4, <2>1, <3>1
    <2>2. CASE i \in 1 .. L
        <3>1. i \in DOMAIN text
            BY <1>1, <1>2, <2>2
        <3> QED
            BY <1>3, <1>5, <2>2, <3>1 DEF IsGreedy
    <2> QED
        BY <1>2, <1>3, <2>1, <2>2
<1>7. \A i \in 1 .. Len(longer) - 1 : longer[i] /= Eos
    <2>1. ASSUME NEW i \in 1 .. L
          PROVE  text[i] /= Eos
        <3>1. CASE i = L
            <4>1. text /= <<>>
                BY <1>1, <1>2, <2>1, <3>1
            <4> QED
                BY <1>2, <3>1, <4>1 DEF EndsInEos
        <3>2. CASE i /= L
            BY <1>2, <3>2 DEF IsGreedy
        <3> QED
            BY <3>1, <3>2
    <2>2. \A i \in 1 .. Len(longer) - 1 : i \in 1 .. L
        BY <1>2, <1>3
    <2> QED
        BY <1>3, <2>1, <2>2
<1> QED
    BY <1>3, <1>6, <1>7 DEF IsGreedy, longer

-----------------------------------------------------------------------------
(* An engine with a single request                                         *)

LEMMA OneId == /\ SeqIds = {1} /\ Token = VocabIds /\ Eos = EosToken
               /\ MaxBatchSize > 0 /\ MaxIterations \in Nat
BY ServerAssumption, EngineAssumption

CacheSlots == NumBlocks * BlockSize

LEMMA CacheSlotsNat == CacheSlots \in Nat
BY NumBlocksAssumption, BlockSizeAssumption DEF CacheSlots

\* What the caller has is greedy, and no more than was asked for.
TextIsGreedy ==
    \A s \in DOMAIN requests :
        /\ requests[s].max_new_tokens \in MaxNews
        /\ IsGreedy(model, requests[s].prompt, Text[s])
        /\ Len(Text[s]) <= requests[s].max_new_tokens

\* A token had a slot in the cache.
OutputHadRoom == \A s \in DOMAIN seqs : OutputLen(s) > 0 => TotalLen(s) <= CacheSlots

\* A sequence the plan lists as retired is.
ListedIsRetired == plan.finished /= <<>> => Retired /= {}

\* The iteration under way has handed out its token.
Turn == IF phase = "collecting" \/ (pc = "forward" /\ pos > 1) THEN 1 ELSE 0

\* Alone in its engine, a request gets a token in each iteration, as long as it
\* is open and the cache has a slot for it.
TokenEachIteration ==
    \A s \in DOMAIN seqs :
        /\ OutputLen(s) <= guard + Turn
        /\ ~IsComplete(s) /\ TotalLen(s) < CacheSlots => OutputLen(s) = guard + Turn

\* The loop's counter.
LoopBound ==
    /\ phase = "submitting" => guard = 0
    /\ phase \in {"running", "collecting"} => guard <= MaxIterations
    /\ phase = "returned" =>
        /\ guard <= MaxIterations + 1
        /\ ~HasWork \/ guard = MaxIterations + 1

LoneInv ==
    /\ EngineInv
    /\ TextIsGreedy
    /\ OutputHadRoom
    /\ ListedIsRetired
    /\ TokenEachIteration
    /\ LoopBound

\* Every engine starts so.
LEMMA NewlyBuiltIsLone == NewlyBuilt => LoneInv
<1> SUFFICES ASSUME NewlyBuilt
             PROVE  LoneInv
    OBVIOUS
<1>1. EngineInv
    BY NewlyBuiltIsSound
<1>2. /\ seqs = <<>> /\ requests = <<>> /\ guard = 0 /\ phase = "submitting"
      /\ DOMAIN seqs = {} /\ DOMAIN requests = {} /\ plan.finished = <<>>
    BY DEF NewlyBuilt, Init, EmptyPlan
<1> QED
    BY <1>1, <1>2 DEF LoneInv, TextIsGreedy, OutputHadRoom, ListedIsRetired,
        TokenEachIteration, LoopBound

\* Greedy decoding keeps a text greedy.
LEMMA TextIsGreedyStep ==
    ASSUME EngineInv, TextIsGreedy, [EngineNext]_allVars
    PROVE  TextIsGreedy'
<1>1. DOMAIN Text = DOMAIN requests /\ \A s \in DOMAIN requests : Text[s] \in Seq(Token)
    BY TextFacts DEF EngineInv
<1>2. [Greedy!Next]_(Greedy!vars)
    BY EngineStepMaps
<1>3. \A c \in DOMAIN model : model[c] \in Token
    BY DEF EngineInv, EngineTypeOK
<1>4. ASSUME UNCHANGED <<requests, model, Text>>
      PROVE  TextIsGreedy'
    BY <1>4 DEF TextIsGreedy
<1>5. ASSUME NEW s \in SeqIds, NEW prompt \in Prompts, NEW max \in MaxNews,
             Greedy!Submit(s, prompt, max)
      PROVE  TextIsGreedy'
    <2>1. /\ DOMAIN requests' = DOMAIN requests \cup {s}
          /\ model' = model
          /\ s \notin DOMAIN requests
          /\ \A t \in DOMAIN requests : requests'[t] = requests[t] /\ Text'[t] = Text[t]
          /\ requests'[s] = [prompt |-> prompt, max_new_tokens |-> max]
          /\ Text'[s] = <<>>
        BY <1>5 DEF Greedy!Submit
    <2>2. \A t \in DOMAIN requests' :
            /\ requests'[t].max_new_tokens \in MaxNews
            /\ IsGreedy(model', requests'[t].prompt, Text'[t])
        BY <2>1, GreedyNothing DEF TextIsGreedy
    <2>3. 0 <= max
        BY SchedulerAssumption
    <2>4. \A t \in DOMAIN requests' : Len(Text'[t]) <= requests'[t].max_new_tokens
        BY <2>1, <2>3 DEF TextIsGreedy
    <2> QED
        BY <2>2, <2>4 DEF TextIsGreedy
<1>6. CASE Greedy!Ask
    <2>1. /\ DOMAIN model \subseteq DOMAIN model'
          /\ \A c \in DOMAIN model : model'[c] = model[c]
          /\ requests' = requests /\ Text' = Text
        BY <1>6 DEF Greedy!Ask
    <2>2. ASSUME NEW t \in DOMAIN requests
          PROVE  /\ IsGreedy(model', requests[t].prompt, Text[t])
                 /\ Len(Text[t]) <= requests[t].max_new_tokens
        BY <2>1, GreedyKept DEF TextIsGreedy
    <2> QED
        BY <2>1, <2>2 DEF TextIsGreedy
<1>7. ASSUME NEW S \in SUBSET DOMAIN requests, Greedy!Decode(S)
      PROVE  TextIsGreedy'
    <2>1. /\ requests' = requests /\ model' = model
          /\ \A t \in DOMAIN requests :
                Text'[t] = IF t \in S THEN Append(Text[t], model[Greedy!Context(t)])
                                      ELSE Text[t]
          /\ \A t \in S : Greedy!Open(t) /\ Greedy!Context(t) \in DOMAIN model
        BY <1>1, <1>7 DEF Greedy!Decode
    <2>2. ASSUME NEW t \in S
          PROVE  IsGreedy(model, requests[t].prompt, Append(Text[t], model[Greedy!Context(t)]))
        <3>1. ~EndsInEos(Text[t]) /\ Greedy!Context(t) = requests[t].prompt \o Text[t]
            BY <2>1 DEF Greedy!Open, Greedy!Ended, Greedy!Context, EndsInEos
        <3>2. IsGreedy(model, requests[t].prompt, Text[t])
            BY DEF TextIsGreedy
        <3>3. model[Greedy!Context(t)] \in Token
            BY <1>3, <2>1
        <3> QED
            BY <2>1, <3>1, <3>2, <3>3, GreedyLonger
    <2>3. ASSUME NEW t \in DOMAIN requests
          PROVE  IsGreedy(model, requests[t].prompt, Text'[t])
        BY <2>1, <2>2 DEF TextIsGreedy
    <2>4. ASSUME NEW t \in DOMAIN requests
          PROVE  Len(Text'[t]) <= requests[t].max_new_tokens
        <3>1. CASE t \in S
            <4>1. Len(Text[t]) < requests[t].max_new_tokens
                BY <2>1, <3>1 DEF Greedy!Open
            <4>2. Len(Text'[t]) = Len(Text[t]) + 1 /\ Len(Text[t]) \in Nat
                <5>1. model[Greedy!Context(t)] \in Token /\ Text[t] \in Seq(Token)
                    BY <1>1, <1>3, <2>1, <3>1
                <5>2. Len(Append(Text[t], model[Greedy!Context(t)])) = Len(Text[t]) + 1
                    BY <5>1
                <5>3. t \in DOMAIN requests
                    BY <3>1
                <5>4. Text'[t] = Append(Text[t], model[Greedy!Context(t)])
                    BY <2>1, <3>1, <5>3
                <5>5. Len(Text[t]) \in Nat
                    BY <5>1
                <5> QED
                    BY <5>2, <5>4, <5>5
            <4>3. requests[t].max_new_tokens \in Nat
                BY SchedulerAssumption DEF TextIsGreedy
            <4> QED
                BY <4>1, <4>2, <4>3
        <3>2. CASE t \notin S
            BY <2>1, <3>2 DEF TextIsGreedy
        <3> QED
            BY <3>1, <3>2
    <2> QED
        BY <2>1, <2>3, <2>4 DEF TextIsGreedy
<1>8. CASE Greedy!Finish
    BY <1>4, <1>8 DEF Greedy!Finish
<1>9. CASE UNCHANGED Greedy!vars
    BY <1>4, <1>9 DEF Greedy!vars
<1> QED
    BY <1>2, <1>5, <1>6, <1>7, <1>8, <1>9 DEF Greedy!Next

\* A token is pushed into a slot of the cache.
LEMMA OutputHadRoomStep ==
    ASSUME EngineInv, OutputHadRoom, [EngineNext]_allVars
    PROVE  OutputHadRoom'
<1>1. IInv
    BY DEF EngineInv, ProgressInv
<1>2. ASSUME NEW s \in SeqIds, NEW prompt \in Prompts, NEW max \in MaxNews,
             EngineSubmit(s, prompt, max)
      PROVE  OutputHadRoom'
    <2>1. /\ DOMAIN seqs' = DOMAIN seqs \cup {s}
          /\ seqs'[s].output = <<>>
          /\ \A t \in DOMAIN seqs : seqs'[t] = seqs[t]
        BY <1>2 DEF EngineSubmit, Submit, NewSequence
    <2>2. ~(OutputLen(s)' > 0)
        BY <2>1 DEF OutputLen
    <2>3. \A t \in DOMAIN seqs : OutputLen(t)' > 0 => TotalLen(t)' <= CacheSlots
        BY <2>1 DEF OutputHadRoom, OutputLen, TotalLen
    <2> QED
        BY <2>1, <2>2, <2>3 DEF OutputHadRoom
<1>3. ASSUME NEW token \in Token, StepForward(token)
      PROVE  OutputHadRoom'
    <2>8. PICK s : s = plan.decode_batch[pos]
        OBVIOUS
    <2>1. /\ pc = "forward" /\ pos \in DOMAIN plan.decode_batch
          /\ s \in DOMAIN seqs
          /\ DOMAIN seqs' = DOMAIN seqs
          /\ \A t \in DOMAIN seqs : t /= s => seqs'[t] = seqs[t]
          /\ seqs'[s].prompt = seqs[s].prompt
          /\ seqs'[s].output = Append(seqs[s].output, token)
        BY <1>3, <2>8, ForwardFacts
    <2>2. s \in Reserved
        BY <1>1, <2>1, <2>8 DEF Reserved, IInv, TypeOK
    <2>3. TotalLen(s) < CacheSlots /\ TotalLen(s) \in Nat
        BY <1>1, <2>1, <2>2, ReservedRoom, RequestNumbers DEF CacheSlots
    <2>4. TotalLen(s)' = TotalLen(s) + 1
        <3>1. seqs[s].output \in Seq(Token) /\ Len(seqs[s].prompt) \in Nat
            BY <1>1, <2>1, SeqParts, RequestNumbers DEF IInv
        <3>2. Len(Append(seqs[s].output, token)) = Len(seqs[s].output) + 1
              /\ Len(seqs[s].output) \in Nat
            BY <3>1
        <3>3. PICK p \in Nat, o \in Nat :
                p = Len(seqs[s].prompt) /\ o = Len(seqs[s].output)
            BY <3>1, <3>2
        <3>4. TotalLen(s)' = p + (o + 1) /\ TotalLen(s) = p + o
            BY <2>1, <3>2, <3>3 DEF TotalLen
        <3> QED
            BY <3>4
    <2>5. TotalLen(s)' <= CacheSlots
        BY <2>3, <2>4, CacheSlotsNat
    <2>6. \A t \in DOMAIN seqs : t /= s /\ OutputLen(t)' > 0 => TotalLen(t)' <= CacheSlots
        BY <2>1 DEF OutputHadRoom, OutputLen, TotalLen
    <2>7. \A t \in DOMAIN seqs' : OutputLen(t)' > 0 => TotalLen(t)' <= CacheSlots
        BY <2>1, <2>5, <2>6
    <2> QED
        BY <2>7 DEF OutputHadRoom
<1>4. CASE \/ RunToCompletion \/ StepStart \/ StepSchedule \/ StepReturns
           \/ CollectNext \/ IterationEnds \/ RunReturns \/ UNCHANGED allVars
    <2>1. /\ DOMAIN seqs' = DOMAIN seqs
          /\ \A s \in DOMAIN seqs : /\ seqs'[s].prompt = seqs[s].prompt
                                    /\ seqs'[s].output = seqs[s].output
        BY <1>1, <1>4, SeqsStay
    <2> QED
        BY <2>1 DEF OutputHadRoom, OutputLen, TotalLen
<1> QED
    BY <1>2, <1>3, <1>4 DEF EngineNext, EngineStep

\* What a step retires stays retired.
LEMMA ListedIsRetiredStep ==
    ASSUME EngineInv, ListedIsRetired, [EngineNext]_allVars
    PROVE  ListedIsRetired'
<1>1. IInv
    BY DEF EngineInv, ProgressInv
<1>2. ASSUME NEW s \in SeqIds, NEW prompt \in Prompts, NEW max \in MaxNews,
             EngineSubmit(s, prompt, max)
      PROVE  ListedIsRetired'
    <2>1. /\ plan' = plan /\ DOMAIN seqs \subseteq DOMAIN seqs'
          /\ \A t \in DOMAIN seqs : seqs'[t] = seqs[t]
        BY <1>2 DEF EngineSubmit, Submit
    <2>2. Retired \subseteq Retired'
        BY <2>1 DEF Retired, IsFinished, Submitted
    <2> QED
        BY <2>1, <2>2 DEF ListedIsRetired
<1>3. CASE StepStart
    <2>1. plan'.finished = <<>>
        BY <1>3 DEF StepStart, StartSchedule, EmptyPlan
    <2> QED
        BY <2>1 DEF ListedIsRetired
<1>4. CASE StepSchedule
    <2>1. Schedule
        BY <1>4 DEF StepSchedule
    <2>2. \/ /\ Retired' = Retired
             /\ plan'.finished = plan.finished \/ plan'.finished = <<>>
          \/ Retired' /= {}
        BY <1>1, <2>1, ScheduleRetires
    <2> QED
        BY <2>2 DEF ListedIsRetired
<1>5. ASSUME NEW token \in Token, StepForward(token)
      PROVE  ListedIsRetired'
    <2>1. PICK s : s = plan.decode_batch[pos]
        OBVIOUS
    <2>2. /\ DOMAIN seqs' = DOMAIN seqs
          /\ \A t \in DOMAIN seqs : seqs'[t].state = seqs[t].state
        BY <1>5, <2>1, ForwardFacts
    <2>3. plan' = plan
        BY <1>5 DEF StepForward, PushToken
    <2> QED
        BY <2>2, <2>3, RetiredStay DEF ListedIsRetired
<1>6. CASE StepReturns
    <2>1. plan'.finished = <<>>
        BY <1>6 DEF StepReturns, EndStep, EmptyPlan
    <2> QED
        BY <2>1 DEF ListedIsRetired
<1>7. CASE RunToCompletion \/ CollectNext \/ IterationEnds \/ RunReturns
           \/ UNCHANGED allVars
    <2>1. plan' = plan /\ seqs' = seqs
        BY <1>7 DEF RunToCompletion, CollectNext, IterationEnds, RunReturns, allVars, vars
    <2> QED
        BY <2>1 DEF ListedIsRetired, Retired, IsFinished, Submitted
<1> QED
    BY <1>2, <1>3, <1>4, <1>5, <1>6, <1>7 DEF EngineNext, EngineStep

\* The loop ends in one of two ways.
LEMMA LoopBoundStep ==
    ASSUME EngineInv, LoopBound, [EngineNext]_allVars
    PROVE  LoopBound'
<1>1. guard \in Nat /\ MaxIterations \in Nat
    BY EngineAssumption DEF EngineInv, EngineTypeOK
<1>2. ASSUME NEW s \in SeqIds, NEW prompt \in Prompts, NEW max \in MaxNews,
             EngineSubmit(s, prompt, max)
      PROVE  LoopBound'
    BY <1>2 DEF EngineSubmit, LoopBound
<1>3. CASE RunToCompletion
    BY <1>1, <1>3 DEF RunToCompletion, LoopBound
<1>4. CASE StepStart \/ StepSchedule
    BY <1>4 DEF StepStart, StepSchedule, LoopBound, engineVars
<1>5. ASSUME NEW token \in Token, StepForward(token)
      PROVE  LoopBound'
    BY <1>5 DEF StepForward, LoopBound
<1>6. CASE StepReturns \/ CollectNext
    BY <1>6 DEF StepReturns, CollectNext, LoopBound
<1>7. CASE IterationEnds
    <2>1. PICK k \in Nat : k = guard
        BY <1>1
    <2>2. /\ guard' = k + 1 /\ k <= MaxIterations
          /\ phase' = IF k + 1 > MaxIterations THEN "returned" ELSE "running"
        BY <1>7, <2>1 DEF IterationEnds, NextGuard, LoopBound
    <2> QED
        BY <1>1, <2>2 DEF LoopBound
<1>8. CASE RunReturns
    <2>1. /\ guard' = guard /\ phase' = "returned" /\ guard <= MaxIterations
          /\ ~HasWork /\ HasWork' = HasWork
        BY <1>8 DEF RunReturns, LoopBound, HasWork, vars
    <2> QED
        BY <1>1, <2>1 DEF LoopBound
<1>9. CASE UNCHANGED allVars
    BY <1>9 DEF allVars, engineVars, vars, LoopBound, HasWork
<1> QED
    BY <1>2, <1>3, <1>4, <1>5, <1>6, <1>7, <1>8, <1>9 DEF EngineNext, EngineStep

\* The only request is decoded in each iteration in which it can be.
LEMMA LoneBatch ==
    ASSUME EngineInv, ListedIsRetired, pc = "forward", NEW s \in DOMAIN seqs
    PROVE  /\ Len(plan.decode_batch) \in 0 .. 1
           /\ ~IsComplete(s) /\ TotalLen(s) < CacheSlots => Len(plan.decode_batch) = 1
<1>1. IInv /\ StepWorks /\ TypeOK /\ FinishedAreComplete
    BY DEF EngineInv, ProgressInv, IInv
<1>2. plan.decode_batch \in Seq(SeqIds) /\ IsInjective(plan.decode_batch)
    BY <1>1 DEF IInv, TypeOK, StepPlan, DecodeBatchIsRunning
<1>3. PICK L \in Nat : L = Len(plan.decode_batch) /\ DOMAIN plan.decode_batch = 1 .. L
    BY <1>2
<1>4. L <= 1
    <2>1. ASSUME L >= 2
          PROVE  FALSE
        <3>1. 1 \in 1 .. L /\ 2 \in 1 .. L
            BY <2>1
        <3>2. plan.decode_batch[1] = 1 /\ plan.decode_batch[2] = 1
            BY <1>2, <1>3, <3>1, OneId
        <3> QED
            BY <1>2, <1>3, <3>1, <3>2 DEF IsInjective
    <2> QED
        BY <2>1
<1>5. DOMAIN seqs = {1} /\ s = 1
    BY <1>1, OneId DEF TypeOK
<1>6. ASSUME ~IsComplete(s), TotalLen(s) < CacheSlots, L = 0
      PROVE  FALSE
    <2>1. plan.decode_batch = <<>>
        BY <1>2, <1>3, <1>6, Empties
    <2>2. seqs[s].state /= "Finished"
        BY <1>1, <1>6 DEF FinishedAreComplete
    <2>3. Retired = {}
        BY <1>5, <2>2 DEF Retired, IsFinished
    <2>4. plan.finished = <<>>
        BY <2>3 DEF ListedIsRetired
    <2>5. NoneHopeless
        <3>1. TotalLen(s) \in Nat /\ CacheSlots \in Nat
            BY <1>1, RequestNumbers, CacheSlotsNat
        <3>2. ~Hopeless(s)
            BY <1>6, <3>1 DEF Hopeless, CacheSlots
        <3> QED
            BY <1>5, <3>2 DEF NoneHopeless
    <2>6. HasWork
        <3>1. seqs[s].state \in {"Waiting", "Preempted", "Running"}
            BY <1>1, <2>2 DEF TypeOK, Sequence, SeqState
        <3>2. s \in Range(waiting) \/ s \in Range(running)
            BY <1>1, <3>1 DEF IInv, NoRequestLost, InQueue, InBatch
        <3> QED
            BY <1>1, <3>2 DEF HasWork, Range, TypeOK
    <2> QED
        BY <1>1, <2>1, <2>4, <2>5, <2>6, OneId DEF StepWorks, CanWork, Progress
<1>7. ~IsComplete(s) /\ TotalLen(s) < CacheSlots => L /= 0
    BY <1>6
<1>8. L \in 0 .. 1 /\ (L /= 0 => L = 1)
    BY <1>4
<1> QED
    BY <1>3, <1>7, <1>8

\* How far an iteration has come changes with the forward pass and its end.
LEMMA TurnStays ==
    ASSUME EngineInv, EngineInv',
           \/ \E s \in SeqIds, prompt \in Prompts, max \in MaxNews :
                EngineSubmit(s, prompt, max)
           \/ RunToCompletion \/ StepStart \/ StepSchedule
           \/ CollectNext \/ RunReturns \/ UNCHANGED allVars
    PROVE  Turn' = Turn
<1>1. ASSUME NEW s \in SeqIds, NEW prompt \in Prompts, NEW max \in MaxNews,
             EngineSubmit(s, prompt, max)
      PROVE  Turn' = Turn
    BY <1>1 DEF EngineSubmit, Submit, Turn
<1>2. CASE RunToCompletion \/ RunReturns
    <2>1. /\ phase /= "collecting" /\ phase' /= "collecting"
          /\ pc = "idle" /\ pc' = "idle"
        BY <1>2 DEF RunToCompletion, RunReturns, vars, EngineInv, PhaseFits
    <2> QED
        BY <2>1 DEF Turn
<1>3. CASE StepStart
    BY <1>3 DEF StepStart, StartSchedule, Turn
<1>4. CASE StepSchedule
    <2>1. phase = "running" /\ phase' = "running" /\ Schedule
        BY <1>4 DEF StepSchedule, engineVars
    <2>2. pc /= "forward" /\ (pc' = "forward" => pos' = 1)
        BY <2>1 DEF Schedule, StartSchedule, AdmitFront, AdmitFails, AdmitStops,
            PreemptVictim, PreemptStops, CommitNext, CommitStops, RetireNext,
            KeepNext, RetireStops
    <2> QED
        BY <2>1, <2>2 DEF Turn
<1>5. CASE CollectNext \/ UNCHANGED allVars
    <2>1. UNCHANGED <<phase, pc, pos>>
        BY <1>5 DEF CollectNext, allVars, engineVars, vars
    <2> QED
        BY <2>1 DEF Turn
<1> QED
    BY <1>1, <1>2, <1>3, <1>4, <1>5

\* Where text, limit and count stay, so does their relation.
LEMMA TokensStay ==
    ASSUME TokenEachIteration, guard' = guard, Turn' = Turn,
           DOMAIN seqs' = DOMAIN seqs,
           \A s \in DOMAIN seqs :
                /\ seqs'[s].prompt = seqs[s].prompt
                /\ seqs'[s].output = seqs[s].output
                /\ seqs'[s].max_new_tokens = seqs[s].max_new_tokens
    PROVE  TokenEachIteration'
BY DEF TokenEachIteration, OutputLen, TotalLen, IsComplete

LEMMA TokenEachIterationStep ==
    ASSUME LoneInv, EngineInv', [EngineNext]_allVars
    PROVE  TokenEachIteration'
<1>1. /\ EngineInv /\ IInv /\ TokenEachIteration /\ ListedIsRetired /\ LoopBound
      /\ PhaseFits /\ guard \in Nat
    BY DEF LoneInv, EngineInv, ProgressInv, EngineTypeOK
<1>2. ASSUME NEW s \in SeqIds, NEW prompt \in Prompts, NEW max \in MaxNews,
             EngineSubmit(s, prompt, max)
      PROVE  TokenEachIteration'
    <2>1. /\ DOMAIN seqs' = DOMAIN seqs \cup {s}
          /\ seqs'[s].output = <<>> /\ s \notin DOMAIN seqs
          /\ \A t \in DOMAIN seqs : seqs'[t] = seqs[t]
          /\ guard = 0 /\ guard' = 0
        BY <1>1, <1>2 DEF EngineSubmit, Submit, NewSequence, LoopBound
    <2>2. Turn' = Turn
        BY <1>1, <1>2, TurnStays
    <2>3. pc = "idle" /\ phase = "submitting"
        BY <1>2 DEF EngineSubmit, Submit
    <2>4. Turn = 0
        BY <2>3 DEF Turn
    <2>5. OutputLen(s)' = 0
        BY <2>1 DEF OutputLen
    <2>6. ASSUME NEW t \in DOMAIN seqs
          PROVE  /\ OutputLen(t)' <= guard' + Turn'
                 /\ ~IsComplete(t)' /\ TotalLen(t)' < CacheSlots =>
                        OutputLen(t)' = guard' + Turn'
        BY <1>1, <2>1, <2>2 DEF TokenEachIteration, OutputLen, TotalLen, IsComplete
    <2>7. OutputLen(s)' = guard' + Turn'
        BY <2>1, <2>2, <2>4, <2>5
    <2>8. OutputLen(s)' <= guard' + Turn'
        BY <2>1, <2>2, <2>4, <2>5
    <2> QED
        BY <2>1, <2>6, <2>7, <2>8 DEF TokenEachIteration
<1>3. CASE RunToCompletion
    <2>1. guard' = guard
        BY <1>1, <1>3 DEF RunToCompletion, LoopBound
    <2>2. Turn' = Turn
        BY <1>1, <1>3, TurnStays
    <2> QED
        BY <1>1, <1>3, <2>1, <2>2, SeqsStay, TokensStay
<1>4. CASE StepStart \/ StepSchedule \/ CollectNext \/ RunReturns \/ UNCHANGED allVars
    <2>1. guard' = guard
        BY <1>4 DEF StepStart, StepSchedule, CollectNext, RunReturns, allVars, engineVars
    <2>2. Turn' = Turn
        BY <1>1, <1>4, TurnStays
    <2> QED
        BY <1>1, <1>4, <2>1, <2>2, SeqsStay, TokensStay
<1>5. ASSUME NEW token \in Token, StepForward(token)
      PROVE  TokenEachIteration'
    <2>1. PICK s : s = plan.decode_batch[pos]
        OBVIOUS
    <2>2. /\ pc = "forward" /\ pos \in DOMAIN plan.decode_batch
          /\ s \in DOMAIN seqs /\ s \in SeqIds /\ ~IsComplete(s)
          /\ DOMAIN seqs' = DOMAIN seqs
          /\ seqs'[s].output = Append(seqs[s].output, token)
        BY <1>1, <1>5, <2>1, ForwardFacts
    <2>3. DOMAIN seqs = {s}
        BY <1>1, <2>2, OneId DEF IInv, TypeOK
    <2>4. pos = 1
        <3>1. plan.decode_batch \in Seq(SeqIds) /\ Len(plan.decode_batch) \in 0 .. 1
            BY <1>1, <2>2, LoneBatch DEF IInv, TypeOK, StepPlan
        <3> QED
            BY <2>2, <3>1
    <2>5. /\ phase = "running" /\ phase' = "running" /\ guard' = guard
          /\ pc' = "forward" /\ pos' = 2
        BY <1>5, <2>2, <2>4 DEF StepForward, PushToken
    <2>6. Turn = 0 /\ Turn' = 1
        BY <2>2, <2>4, <2>5 DEF Turn
    <2>7. TotalLen(s) < CacheSlots
        <3>1. s \in Reserved
            BY <1>1, <2>1, <2>2 DEF Reserved, IInv, TypeOK
        <3> QED
            BY <1>1, <3>1, ReservedRoom DEF CacheSlots
    <2>8. OutputLen(s) = guard
        <3>1. OutputLen(s) = guard + Turn
            BY <1>1, <2>2, <2>7 DEF TokenEachIteration
        <3> QED
            BY <1>1, <2>6, <3>1
    <2>9. OutputLen(s)' = guard + 1
        <3>1. seqs[s].output \in Seq(Token)
            BY <1>1, <2>2, SeqParts DEF IInv
        <3>2. Len(Append(seqs[s].output, token)) = Len(seqs[s].output) + 1
            BY <3>1
        <3> QED
            BY <2>2, <2>8, <3>2 DEF OutputLen
    <2>10. OutputLen(s)' = guard' + Turn' /\ OutputLen(s)' <= guard' + Turn'
        BY <1>1, <2>5, <2>6, <2>9
    <2> QED
        BY <2>2, <2>3, <2>10 DEF TokenEachIteration
<1>6. CASE StepReturns
    <2>1. /\ pc = "forward" /\ pos > Len(plan.decode_batch)
          /\ phase = "running" /\ phase' = "collecting" /\ guard' = guard
        BY <1>6 DEF StepReturns, EndStep
    <2>2. Turn' = 1 /\ Turn \in {0, 1}
        BY <2>1 DEF Turn
    <2>3. ASSUME NEW s \in DOMAIN seqs
          PROVE  /\ OutputLen(s)' <= guard' + Turn'
                 /\ ~IsComplete(s)' /\ TotalLen(s)' < CacheSlots =>
                        OutputLen(s)' = guard' + Turn'
        <3>1. /\ OutputLen(s)' = OutputLen(s) /\ TotalLen(s)' = TotalLen(s)
              /\ IsComplete(s)' = IsComplete(s)
            BY <1>1, <1>6, SeqsStay DEF OutputLen, TotalLen, IsComplete
        <3>2. OutputLen(s) \in Nat
            BY <1>1, RequestNumbers
        <3>3. /\ OutputLen(s) <= guard + Turn
              /\ ~IsComplete(s) /\ TotalLen(s) < CacheSlots =>
                    OutputLen(s) = guard + Turn
            BY <1>1 DEF TokenEachIteration
        <3>4. OutputLen(s)' <= guard' + Turn'
            BY <1>1, <2>1, <2>2, <3>1, <3>2, <3>3
        <3>5. ASSUME ~IsComplete(s), TotalLen(s) < CacheSlots
              PROVE  Turn = 1
            <4>1. Len(plan.decode_batch) = 1
                BY <1>1, <2>1, <3>5, LoneBatch
            <4> QED
                BY <2>1, <4>1 DEF Turn
        <3> QED
            BY <2>1, <2>2, <3>1, <3>3, <3>4, <3>5
    <2> QED
        <3>1. DOMAIN seqs' = DOMAIN seqs
            BY <1>1, <1>6, SeqsStay
        <3> QED
            BY <2>3, <3>1 DEF TokenEachIteration
<1>7. CASE IterationEnds
    <2>1. /\ phase = "collecting" /\ phase' /= "collecting"
          /\ guard' = guard + 1 /\ pc = "idle" /\ pc' = "idle"
        BY <1>1, <1>7 DEF IterationEnds, NextGuard, PhaseFits, vars
    <2>2. Turn = 1 /\ Turn' = 0
        BY <2>1 DEF Turn
    <2>3. guard' + Turn' = guard + Turn
        BY <1>1, <2>1, <2>2
    <2>4. /\ DOMAIN seqs' = DOMAIN seqs
          /\ \A s \in DOMAIN seqs :
                /\ OutputLen(s)' = OutputLen(s) /\ TotalLen(s)' = TotalLen(s)
                /\ IsComplete(s)' = IsComplete(s)
        BY <1>1, <1>7, SeqsStay DEF OutputLen, TotalLen, IsComplete
    <2> QED
        BY <1>1, <2>3, <2>4 DEF TokenEachIteration
<1> QED
    BY <1>2, <1>3, <1>4, <1>5, <1>6, <1>7 DEF EngineNext, EngineStep

\* All of it together.
LEMMA LoneStep == LoneInv /\ [EngineNext]_allVars => LoneInv'
<1> SUFFICES ASSUME LoneInv, [EngineNext]_allVars
             PROVE  LoneInv'
    OBVIOUS
<1>1. EngineInv'
    BY EngineNextPreserves DEF LoneInv
<1>2. TextIsGreedy' /\ OutputHadRoom' /\ ListedIsRetired' /\ LoopBound'
    BY TextIsGreedyStep, OutputHadRoomStep, ListedIsRetiredStep, LoopBoundStep
    DEF LoneInv
<1>3. TokenEachIteration'
    BY <1>1, TokenEachIterationStep
<1> QED
    BY <1>1, <1>2, <1>3 DEF LoneInv

\* Where a text may end, and where it has to.
IsCut(prompt, max, text) ==
    /\ Len(text) <= max
    /\ Len(text) <= MaxIterations + 1
    /\ Len(text) > 0 => Len(prompt) + Len(text) <= CacheSlots
    /\ \/ Len(text) = max
       \/ Len(text) = MaxIterations + 1
       \/ Len(prompt) + Len(text) >= CacheSlots
       \/ EndsInEos(text)

\* What run_one returns is the text of the only request.
LEMMA TokensAreText ==
    ASSUME LoneInv, 1 \in DOMAIN requests
    PROVE  Tokens = Text[1]
<1>1. /\ DOMAIN outputs \subseteq {1}
      /\ outputs \in [DOMAIN outputs -> Seq(Token)]
    BY OneId DEF LoneInv, EngineInv, EngineTypeOK, TypeOK
<1>2. CASE 1 \in DOMAIN outputs
    <2>1. DOMAIN outputs = {1} /\ outputs /= <<>>
        <3>1. DOMAIN outputs = {1}
            BY <1>1, <1>2
        <3>2. DOMAIN <<>> = {}
            OBVIOUS
        <3>3. outputs /= <<>>
            BY <1>2, <3>2
        <3> QED
            BY <3>1, <3>3
    <2>2. Min({1}) = 1
        BY SmallestIsMin
    <2> QED
        BY <1>2, <2>1, <2>2 DEF Tokens, Text
<1>3. CASE 1 \notin DOMAIN outputs
    <2>1. DOMAIN outputs = {}
        BY <1>1, <1>3
    <2>2. outputs = <<>>
        BY <1>1, <2>1
    <2> QED
        BY <1>3, <2>2 DEF Tokens, Text
<1> QED
    BY <1>2, <1>3

\* When the loop returns the text is cut where it has to be.
LEMMA ReturnedIsCut ==
    ASSUME LoneInv, phase = "returned", 1 \in DOMAIN requests
    PROVE  /\ IsGreedy(model, requests[1].prompt, Tokens)
           /\ IsCut(requests[1].prompt, requests[1].max_new_tokens, Tokens)
<1>1. /\ EngineInv /\ IInv /\ PhaseFits /\ TypeOK /\ 1 \in DOMAIN seqs
      /\ DOMAIN seqs = {1} /\ guard \in Nat /\ emitted \in Seq(SeqIds \X Token)
    BY OneId DEF LoneInv, EngineInv, EngineTypeOK, ProgressInv, IInv, TypeOK
<1>2. Tokens = Text[1]
    BY TokensAreText
<1>3. /\ requests[1].max_new_tokens \in Nat
      /\ IsGreedy(model, requests[1].prompt, Tokens)
      /\ Len(Tokens) <= requests[1].max_new_tokens
    BY <1>2, SchedulerAssumption DEF LoneInv, TextIsGreedy
<1>4. pc = "idle" /\ emitted = <<>>
    BY <1>1 DEF PhaseFits
<1>5. seqs[1].output = Tokens /\ OutputLen(1) = Len(Tokens)
    <2>1. ~Awaited(1)
        <3>1. DOMAIN emitted = {}
            BY <1>4
        <3> QED
            BY <3>1 DEF Awaited
    <2> QED
        BY <1>1, <1>2, <2>1 DEF EngineInv, TextFollowsOutput, OutputLen
<1>6. seqs[1].prompt = requests[1].prompt
      /\ TotalLen(1) = Len(requests[1].prompt) + Len(Tokens)
    BY <1>1, <1>5 DEF EngineInv, LimitsAsSubmitted, TotalLen
<1>7. IsComplete(1) => EndsInEos(Tokens) \/ Len(Tokens) = requests[1].max_new_tokens
    <2>1. ASSUME IsComplete(1), ~EndsInEos(Tokens)
          PROVE  Len(Tokens) = requests[1].max_new_tokens
        <3>1. seqs[1].max_new_tokens = requests[1].max_new_tokens
            BY <1>1, <1>5, <2>1 DEF EngineInv, LimitsAsSubmitted
        <3>2. Len(Tokens) >= requests[1].max_new_tokens
            BY <1>5, <2>1, <3>1 DEF IsComplete
        <3>3. Len(Tokens) \in Nat
            BY <1>1, <1>5, RequestNumbers
        <3> QED
            BY <1>3, <3>2, <3>3
    <2> QED
        BY <2>1
<1>8. ~HasWork => IsComplete(1)
    <2>1. ASSUME ~HasWork
          PROVE  IsComplete(1)
        <3>1. Range(waiting) = {} /\ Range(running) = {}
            BY <2>1 DEF HasWork, Range
        <3>2. seqs[1].state \in {"Waiting", "Preempted", "Running", "Finished"}
            BY <1>1 DEF TypeOK, Sequence, SeqState
        <3>3. seqs[1].state = "Finished"
            BY <1>1, <3>1, <3>2 DEF IInv, NoRequestLost, InQueue, InBatch
        <3> QED
            BY <1>1, <3>3 DEF EngineInv, FinishedAreComplete
    <2> QED
        BY <2>1
<1>9. /\ Len(Tokens) <= guard
      /\ ~IsComplete(1) /\ TotalLen(1) < CacheSlots => Len(Tokens) = guard
    <2>1. Turn = 0
        BY <1>4 DEF Turn
    <2>2. /\ OutputLen(1) <= guard + Turn
          /\ ~IsComplete(1) /\ TotalLen(1) < CacheSlots => OutputLen(1) = guard + Turn
        BY <1>1 DEF LoneInv, TokenEachIteration
    <2> QED
        BY <1>1, <1>5, <2>1, <2>2
<1>10. guard <= MaxIterations + 1 /\ (~HasWork \/ guard = MaxIterations + 1)
    BY DEF LoneInv, LoopBound
<1>11. Len(Tokens) \in Nat /\ Len(requests[1].prompt) \in Nat
       /\ TotalLen(1) \in Nat /\ CacheSlots \in Nat /\ MaxIterations \in Nat
    BY <1>1, <1>5, <1>6, RequestNumbers, CacheSlotsNat, OneId
<1>12. Len(Tokens) <= MaxIterations + 1
    BY <1>1, <1>9, <1>10, <1>11
<1>13. Len(Tokens) > 0 => Len(requests[1].prompt) + Len(Tokens) <= CacheSlots
    BY <1>1, <1>5, <1>6 DEF LoneInv, OutputHadRoom
<1>14. \/ Len(Tokens) = requests[1].max_new_tokens
       \/ Len(Tokens) = MaxIterations + 1
       \/ Len(requests[1].prompt) + Len(Tokens) >= CacheSlots
       \/ EndsInEos(Tokens)
    <2>1. CASE IsComplete(1)
        BY <1>7, <2>1
    <2>2. CASE ~IsComplete(1) /\ TotalLen(1) < CacheSlots
        BY <1>8, <1>9, <1>10, <2>2
    <2>3. CASE ~(TotalLen(1) < CacheSlots)
        BY <1>6, <1>11, <2>3
    <2> QED
        BY <2>1, <2>2, <2>3
<1> QED
    BY <1>3, <1>12, <1>13, <1>14 DEF IsCut

-----------------------------------------------------------------------------
(* What the service promises                                               *)

LEMMA ServiceEnded ==
    ASSUME NEW text
    PROVE  Service!Ended(text) <=> EndsInEos(text)
BY DEF Service!Ended, Service!Last, EndsInEos

\* The one decoding of a prompt that is as long as it may be.
LEMMA DecodingIs ==
    ASSUME NEW prompt, NEW text, NEW limit \in Nat,
           IsGreedy(model, prompt, text), Len(text) <= limit,
           Len(text) = limit \/ EndsInEos(text)
    PROVE  Service!Decoding(prompt, limit) = text
<1> DEFINE Extended(prefix) ==
               IF Service!Ended(prefix) \/ prompt \o prefix \notin DOMAIN model
               THEN prefix
               ELSE Append(prefix, model[prompt \o prefix])
           Extending(run) ==
               run = [n \in 0 .. limit |->
                        IF n = 0 THEN <<>> ELSE Extended(run[n - 1])]
           run    == CHOOSE f : Extending(f)
           prefix == [n \in 0 .. limit |->
                        IF n <= Len(text) THEN SubSeq(text, 1, n) ELSE text]
<1>1. Service!Decoding(prompt, limit) = run[limit]
    BY DEF Service!Decoding
<1>2. text \in Seq(Token)
    BY DEF IsGreedy
<1>3. PICK L \in Nat : L = Len(text) /\ DOMAIN text = 1 .. L
    BY <1>2
<1>4. /\ prefix = [n \in 0 .. limit |-> prefix[n]]
      /\ \A n \in 0 .. limit : n <= L => prefix[n] = SubSeq(text, 1, n)
      /\ \A n \in 0 .. limit : n >= L => prefix[n] = text
      /\ prefix[0] = <<>>
    <2>1. SubSeq(text, 1, L) = text /\ SubSeq(text, 1, 0) = <<>>
        BY <1>2, <1>3, WholePrefix
    <2>2. \A n \in 0 .. limit :
            prefix[n] = IF n <= L THEN SubSeq(text, 1, n) ELSE text
        BY <1>3
    <2>3. \A n \in 0 .. limit : n >= L => prefix[n] = text
        <3>1. \A n \in 0 .. limit : n >= L => n = L \/ ~(n <= L)
            OBVIOUS
        <3> QED
            BY <2>1, <2>2, <3>1
    <2>4. 0 \in 0 .. limit /\ 0 <= L
        OBVIOUS
    <2> QED
        BY <2>1, <2>2, <2>3, <2>4
<1> HIDE DEF prefix
<1>5. ASSUME NEW n \in 0 .. limit - 1, n < L
      PROVE  Extended(prefix[n]) = prefix[n + 1]
    <2>1. /\ n \in Nat /\ n + 1 \in 1 .. L /\ n \in 0 .. limit /\ n + 1 \in 0 .. limit
          /\ n <= L /\ n + 1 <= L /\ (n + 1) - 1 = n
        BY <1>3, <1>5
    <2>2. PICK p : p = SubSeq(text, 1, n)
        OBVIOUS
    <2>3. /\ p \in Seq(Token) /\ Len(p) = n
          /\ n > 0 => p[n] = text[n]
        BY <1>2, <1>3, <2>1, <2>2
    <2>4. Append(p, text[n + 1]) = SubSeq(text, 1, n + 1)
        BY <1>2, <1>3, <1>5, <2>1, <2>2, LongerPrefix
    <2>5. prompt \o p \in DOMAIN model /\ model[prompt \o p] = text[n + 1]
        BY <1>3, <2>1, <2>2 DEF IsGreedy
    <2>6. ~EndsInEos(p)
        <3>1. CASE n = 0
            <4>1. p = <<>>
                BY <2>3, <3>1, Empties
            <4> QED
                BY <4>1 DEF EndsInEos
        <3>2. CASE n /= 0
            <4>1. n \in 1 .. L - 1 /\ n > 0
                BY <1>5, <2>1, <3>2
            <4>2. text[n] /= Eos
                BY <1>3, <4>1 DEF IsGreedy
            <4> QED
                BY <2>3, <4>1, <4>2 DEF EndsInEos
        <3> QED
            BY <3>1, <3>2
    <2>7. Extended(p) = Append(p, text[n + 1])
        BY <2>5, <2>6, ServiceEnded
    <2> HIDE DEF Extended
    <2>8. prefix[n] = p /\ prefix[n + 1] = SubSeq(text, 1, n + 1)
        BY <1>4, <2>1, <2>2
    <2> QED
        BY <2>4, <2>7, <2>8
<1>6. ASSUME NEW n \in 0 .. limit - 1, ~(n < L)
      PROVE  Extended(prefix[n]) = prefix[n + 1]
    <2>1. n \in 0 .. limit /\ n + 1 \in 0 .. limit /\ n >= L /\ n + 1 >= L /\ L /= limit
        BY <1>6
    <2>2. prefix[n] = text /\ prefix[n + 1] = text
        BY <1>4, <2>1
    <2>3. Service!Ended(text)
        BY <1>3, <2>1, ServiceEnded
    <2> QED
        BY <2>2, <2>3
<1>7. \A n \in 0 .. limit - 1 : Extended(prefix[n]) = prefix[n + 1]
    BY <1>5, <1>6
<1> HIDE DEF Extended
<1>8. Extending(prefix)
    <2>1. \A n \in 0 .. limit :
            prefix[n] = IF n = 0 THEN <<>> ELSE Extended(prefix[n - 1])
        <3>1. ASSUME NEW n \in 0 .. limit, n /= 0
              PROVE  prefix[n] = Extended(prefix[n - 1])
            <4>1. n - 1 \in 0 .. limit - 1 /\ (n - 1) + 1 = n
                BY <3>1
            <4> QED
                BY <1>7, <4>1
        <3> QED
            BY <1>4, <3>1
    <2> QED
        BY <1>4, <2>1
<1>9. Extending(run)
    BY <1>8
<1>10. \A n \in 0 .. limit :
        run[n] = IF n = 0 THEN <<>> ELSE Extended(run[n - 1])
    <2> HIDE DEF run
    <2> QED
        BY <1>9
<1> HIDE DEF run, Extending
<1>11. 0 .. limit \subseteq {n \in Nat : run[n] = prefix[n]}
    <2> DEFINE S == {n \in Nat : run[n] = prefix[n]}
    <2>1. 0 \in S
        BY <1>4, <1>10
    <2>2. ASSUME NEW n \in 0 .. limit - 1, n \in S
          PROVE  n + 1 \in S
        <3>1. n + 1 \in Nat /\ n + 1 \in 0 .. limit /\ n + 1 /= 0 /\ (n + 1) - 1 = n
            OBVIOUS
        <3>2. run[n + 1] = Extended(run[n])
            BY <1>10, <3>1
        <3>3. run[n] = prefix[n]
            BY <2>2
        <3>4. Extended(prefix[n]) = prefix[n + 1]
            BY <1>7
        <3> QED
            BY <3>1, <3>2, <3>3, <3>4
    <2> HIDE DEF S
    <2>3. 0 .. limit \subseteq S
        BY <2>1, <2>2, InductionTo
    <2> QED
        BY <2>3 DEF S
<1>12. prefix[limit] = text
    <2>1. limit \in 0 .. limit /\ limit >= L
        BY <1>3
    <2> QED
        BY <1>4, <2>1
<1>13. run[limit] = prefix[limit]
    <2>1. limit \in 0 .. limit
        OBVIOUS
    <2> QED
        BY <1>11, <2>1
<1> QED
    BY <1>1, <1>12, <1>13

\* The limit is the smallest of the three.
LEMMA LimitIs ==
    ASSUME NEW prompt \in Seq(Token), NEW max \in Nat
    PROVE  LET room == IF Len(prompt) <= CacheSlots THEN CacheSlots - Len(prompt) ELSE 0
               two  == IF max <= MaxIterations + 1 THEN max ELSE MaxIterations + 1
           IN  Service!Limit(prompt, max) = IF room <= two THEN room ELSE two
<1>1. PICK P \in Nat : P = Len(prompt)
    OBVIOUS
<1>2. PICK C \in Nat : C = CacheSlots
    BY CacheSlotsNat
<1>3. PICK I \in Nat : I = MaxIterations + 1
    BY OneId
<1> DEFINE room == IF P <= C THEN C - P ELSE 0
           two  == IF max <= I THEN max ELSE I
           S    == {max, I, room}
           T    == {0, C - P}
<1>4. Service!Max(T) = room
    <2>1. room \in T /\ \A y \in T : y <= room
        OBVIOUS
    <2>2. \A x \in T : (\A y \in T : y <= x) => x = room
        OBVIOUS
    <2> HIDE DEF room, T
    <2> QED
        BY <2>1, <2>2 DEF Service!Max
<1>5. Service!Limit(prompt, max) = Service!Min(S)
    BY <1>1, <1>2, <1>3, <1>4 DEF Service!Limit, CacheSlots
<1>6. Service!Min(S) = IF room <= two THEN room ELSE two
    <2> DEFINE least == IF room <= two THEN room ELSE two
    <2>1. least \in S /\ \A y \in S : least <= y
        OBVIOUS
    <2>2. \A x \in S : (\A y \in S : x <= y) => x = least
        OBVIOUS
    <2> HIDE DEF least, S, room, two
    <2>3. Service!Min(S) = least
        BY <2>1, <2>2 DEF Service!Min
    <2> QED
        BY <2>3 DEF least
<1> QED
    BY <1>1, <1>2, <1>3, <1>5, <1>6

\* A text that is cut where it has to be is within the limit, and ends there or
\* by eos.
LEMMA CutAtLimit ==
    ASSUME NEW prompt \in Seq(Token), NEW max \in Nat, NEW text \in Seq(Token),
           IsCut(prompt, max, text)
    PROVE  /\ Service!Limit(prompt, max) \in Nat
           /\ Len(text) <= Service!Limit(prompt, max)
           /\ Len(text) = Service!Limit(prompt, max) \/ EndsInEos(text)
<1>1. PICK P \in Nat, C \in Nat, I \in Nat, L \in Nat :
        P = Len(prompt) /\ C = CacheSlots /\ I = MaxIterations + 1 /\ L = Len(text)
    BY CacheSlotsNat, OneId
<1>2. PICK limit : limit = Service!Limit(prompt, max)
    OBVIOUS
<1>3. limit = LET room == IF P <= C THEN C - P ELSE 0
                  two  == IF max <= I THEN max ELSE I
              IN  IF room <= two THEN room ELSE two
    BY <1>1, <1>2, LimitIs
<1>4. /\ L <= max /\ L <= I
      /\ L > 0 => P + L <= C
      /\ L = max \/ L = I \/ P + L >= C \/ EndsInEos(text)
    BY <1>1 DEF IsCut
<1>5. /\ limit \in Nat /\ L <= limit
      /\ L = max \/ L = I \/ P + L >= C => L = limit
    BY <1>3, <1>4
<1> QED
    BY <1>1, <1>2, <1>4, <1>5

\* So it is the answer the service promises.
LEMMA CutIsDecoding ==
    ASSUME NEW prompt \in Seq(Token), NEW max \in Nat, NEW text,
           IsGreedy(model, prompt, text), IsCut(prompt, max, text)
    PROVE  LET limit == Service!Limit(prompt, max)
           IN  /\ Service!Decoding(prompt, limit) = text
               /\ Len(text) = limit \/ Service!Ended(text)
<1>1. text \in Seq(Token)
    BY DEF IsGreedy
<1> QED
    BY <1>1, CutAtLimit, DecodingIs, ServiceEnded

-----------------------------------------------------------------------------
(* The server                                                              *)

\* What an answer is made of.
Entry == {[request |-> asked,
           prompt  |-> Encode(asked.text),
           tokens  |-> tokens,
           body    |-> Body(asked, tokens)] : asked \in Request, tokens \in Seq(Token)}

\* The engine works for the request in service.
RequestTaken ==
    /\ request \in Request \cup {NoRequest}
    /\ request /= NoRequest /\ phase /= "submitting" => 1 \in DOMAIN requests
    /\ request /= NoRequest /\ 1 \in DOMAIN requests =>
        requests[1] = [prompt         |-> Encode(request.text),
                       max_new_tokens |-> request.max_tokens]

\* What is known of the model came from the one that is served.
ModelServed ==
    \A context \in DOMAIN model :
        model[context] \in AnswersTo(ServedModel, context, Hashes)

\* An answer was cut where it had to be, and is what the model still says.
HistoryAnswered ==
    /\ history \in Seq(Entry)
    /\ \A i \in DOMAIN history :
        /\ IsGreedy(model, history[i].prompt, history[i].tokens)
        /\ IsCut(history[i].prompt, history[i].request.max_tokens, history[i].tokens)

ServerInv == LoneInv /\ RequestTaken /\ ModelServed /\ HistoryAnswered

LEMMA RequestFacts ==
    ASSUME NEW asked \in Request
    PROVE  /\ asked.kind \in Kinds /\ asked.text \in Texts
           /\ asked.max_tokens \in MaxNews /\ asked.max_tokens \in Nat
           /\ IsText(asked.text)
           /\ Encode(asked.text) \in Prompts /\ Encode(asked.text) \in Seq(Token)
<1>1. /\ asked.kind \in Kinds /\ asked.text \in Texts /\ asked.max_tokens \in MaxNews
    BY DEF Request
<1>2. asked.max_tokens \in Nat
    BY <1>1, SchedulerAssumption
<1>3. IsText(asked.text) /\ Encode(asked.text) \in Prompts
    BY <1>1, ServerAssumption
<1>4. Encode(asked.text) \in Seq(Token)
    BY <1>3, SchedulerAssumption
<1> QED
    BY <1>1, <1>2, <1>3, <1>4

LEMMA EntryFacts ==
    ASSUME NEW e \in Entry
    PROVE  /\ e.request \in Request
           /\ e.prompt = Encode(e.request.text)
           /\ e.tokens \in Seq(Token)
           /\ e.body = Body(e.request, e.tokens)
<1>1. PICK asked \in Request, tokens \in Seq(Token) :
        e = [request |-> asked, prompt |-> Encode(asked.text),
             tokens |-> tokens, body |-> Body(asked, tokens)]
    BY DEF Entry
<1> QED
    BY <1>1

LEMMA ServerInitEstablishes == ServerInit => ServerInv
<1> SUFFICES ASSUME ServerInit
             PROVE  ServerInv
    OBVIOUS
<1>1. /\ EngineInit /\ request = NoRequest /\ history = <<>> /\ model = <<>>
      /\ DOMAIN model = {} /\ DOMAIN history = {}
    BY DEF ServerInit, EngineInit
<1>2. NewlyBuilt
    BY <1>1 DEF NewlyBuilt, EngineInit
<1>3. LoneInv
    BY <1>2, NewlyBuiltIsLone
<1>4. history \in Seq(Entry)
    BY <1>1
<1> QED
    BY <1>1, <1>3, <1>4 DEF ServerInv, RequestTaken, ModelServed, HistoryAnswered

\* A request gets an engine that is as good as new.
LEMMA HandleStep ==
    ASSUME ServerInv,
           NEW kind \in Kinds, NEW text \in Texts, NEW max \in MaxNews,
           Handle(kind, text, max)
    PROVE  ServerInv' /\ UNCHANGED <<model, history>>
<1>1. UNCHANGED <<model, history>> /\ requests' = <<>> /\ phase' = "submitting"
    BY DEF Handle, NewEngine, SharedModel
<1>2. NewlyBuilt'
    <2>1. Init'
        BY DEF Handle, NewEngine, Init
    <2>2. \A context \in DOMAIN model' :
            context \in Seq(Token) /\ model'[context] \in Token
        BY <1>1 DEF ServerInv, LoneInv, EngineInv, EngineTypeOK
    <2>3. /\ requests' = <<>> /\ emitted' = <<>> /\ outputs' = <<>>
          /\ guard' = 0 /\ phase' = "submitting"
        BY DEF Handle, NewEngine
    <2> QED
        BY <2>1, <2>2, <2>3 DEF NewlyBuilt
<1>3. NewlyBuilt' => LoneInv'
    BY NewlyBuiltIsLone, PTL
<1>4. RequestTaken'
    <2>1. request' = [kind |-> kind, text |-> text, max_tokens |-> max]
        BY DEF Handle
    <2>2. request' \in Request
        BY <2>1 DEF Request
    <2>3. DOMAIN requests' = {}
        BY <1>1
    <2> QED
        BY <1>1, <2>2, <2>3 DEF RequestTaken
<1>5. ModelServed' /\ HistoryAnswered'
    BY <1>1 DEF ServerInv, ModelServed, HistoryAnswered
<1> QED
    BY <1>1, <1>2, <1>3, <1>4, <1>5 DEF ServerInv

\* The handler hands its prompt to the engine.
LEMMA SubmitPromptStep ==
    ASSUME ServerInv, SubmitPrompt
    PROVE  ServerInv' /\ UNCHANGED <<model, history>>
<1>1. /\ request \in Request /\ request' = request /\ history' = history
      /\ EngineSubmit(1, Encode(request.text), request.max_tokens)
    BY DEF SubmitPrompt, serverVars, ServerInv, RequestTaken
<1>2. EngineNext
    <2>1. 1 \in SeqIds /\ Encode(request.text) \in Prompts /\ request.max_tokens \in MaxNews
        BY <1>1, RequestFacts, OneId
    <2> QED
        BY <1>1, <2>1 DEF EngineNext
<1>3. LoneInv'
    BY <1>2, LoneStep DEF ServerInv
<1>4. model' = model /\ phase' = "submitting"
      /\ requests'[1] = [prompt         |-> Encode(request.text),
                         max_new_tokens |-> request.max_tokens]
    BY <1>1 DEF EngineSubmit
<1>5. RequestTaken'
    BY <1>1, <1>4 DEF RequestTaken
<1>6. ModelServed' /\ HistoryAnswered'
    BY <1>1, <1>4 DEF ServerInv, ModelServed, HistoryAnswered
<1> QED
    BY <1>1, <1>3, <1>4, <1>6, <1>5 DEF ServerInv

\* The model is asked the same question only once.
LEMMA RunOneAsks ==
    ASSUME ServerInv, RunOne
    PROVE  /\ [EngineNext]_allVars
           /\ requests' = requests
           /\ DOMAIN model \subseteq DOMAIN model'
           /\ \A c \in DOMAIN model : model'[c] = model[c]
           /\ ModelServed'
<1>1. ASSUME NEW token \in Token, StepForward(token),
             token \in AnswersTo(ServedModel, NextContext, Hashes)
      PROVE  /\ EngineNext
             /\ requests' = requests
             /\ DOMAIN model \subseteq DOMAIN model'
             /\ \A c \in DOMAIN model : model'[c] = model[c]
             /\ ModelServed'
    <2>1. PICK context : context = NextContext
        OBVIOUS
    <2>2. /\ requests' = requests
          /\ context \in DOMAIN model => token = model[context]
          /\ model' = [c \in DOMAIN model \cup {context} |->
                            IF c = context THEN token ELSE model[c]]
        BY <1>1, <2>1 DEF StepForward
    <2>3. EngineNext
        BY <1>1 DEF EngineNext, EngineStep
    <2>4. ModelServed'
        BY <1>1, <2>1, <2>2 DEF ServerInv, ModelServed
    <2> QED
        BY <2>2, <2>3, <2>4
<1>2. CASE RunToCompletion \/ StepStart \/ StepSchedule \/ StepReturns
           \/ CollectNext \/ IterationEnds \/ RunReturns
    <2>1. UNCHANGED <<requests, model>>
        BY <1>2 DEF RunToCompletion, StepStart, StepSchedule, StepReturns,
            CollectNext, IterationEnds, RunReturns, engineVars
    <2>2. EngineNext
        BY <1>2 DEF EngineNext, EngineStep
    <2> QED
        BY <2>1, <2>2 DEF ServerInv, ModelServed
<1> QED
    BY <1>1, <1>2 DEF RunOne

LEMMA RunOneStep ==
    ASSUME ServerInv, RunOne
    PROVE  ServerInv'
<1>1. /\ [EngineNext]_allVars /\ requests' = requests
      /\ DOMAIN model \subseteq DOMAIN model'
      /\ \A c \in DOMAIN model : model'[c] = model[c]
      /\ ModelServed'
    BY RunOneAsks
<1>2. /\ request' = request /\ history' = history
      /\ request /= NoRequest /\ Submitted(1)
    BY DEF RunOne, serverVars
<1>3. LoneInv'
    BY <1>1, LoneStep DEF ServerInv
<1>4. RequestTaken'
    <2>1. 1 \in DOMAIN requests
        BY <1>2 DEF Submitted, ServerInv, LoneInv, EngineInv, EngineTypeOK
    <2> QED
        BY <1>1, <1>2, <2>1 DEF ServerInv, RequestTaken
<1>5. HistoryAnswered'
    BY <1>1, <1>2, GreedyKept DEF ServerInv, HistoryAnswered, IsCut, EndsInEos
<1> QED
    BY <1>1, <1>3, <1>4, <1>5 DEF ServerInv

\* What a handler answers.
LEMMA AnswerFacts ==
    ASSUME ServerInv, request /= NoRequest, phase = "returned"
    PROVE  /\ request \in Request
           /\ requests[1].prompt = Encode(request.text)
           /\ IsGreedy(model, Encode(request.text), Tokens)
           /\ IsCut(Encode(request.text), request.max_tokens, Tokens)
           /\ [request |-> request, prompt |-> requests[1].prompt,
               tokens |-> Tokens, body |-> Body(request, Tokens)] \in Entry
<1>1. /\ request \in Request /\ 1 \in DOMAIN requests
      /\ requests[1] = [prompt         |-> Encode(request.text),
                        max_new_tokens |-> request.max_tokens]
    BY DEF ServerInv, RequestTaken
<1>2. /\ IsGreedy(model, requests[1].prompt, Tokens)
      /\ IsCut(requests[1].prompt, requests[1].max_new_tokens, Tokens)
    BY <1>1, ReturnedIsCut DEF ServerInv
<1>3. /\ requests[1].prompt = Encode(request.text)
      /\ requests[1].max_new_tokens = request.max_tokens
    BY <1>1
<1>4. Tokens \in Seq(Token)
    BY <1>2 DEF IsGreedy
<1>5. [request |-> request, prompt |-> requests[1].prompt,
       tokens |-> Tokens, body |-> Body(request, Tokens)] \in Entry
    BY <1>1, <1>3, <1>4 DEF Entry
<1> QED
    BY <1>1, <1>2, <1>3, <1>5

LEMMA RespondStep ==
    ASSUME ServerInv, Respond
    PROVE  ServerInv'
<1> DEFINE e == [request |-> request, prompt |-> requests[1].prompt,
                 tokens |-> Tokens, body |-> Body(request, Tokens)]
<1>1. PICK entry : entry = e
    OBVIOUS
<1>2. /\ history' = Append(history, entry) /\ request' = NoRequest
      /\ request /= NoRequest /\ phase = "returned" /\ UNCHANGED allVars
    BY <1>1 DEF Respond
<1>3. /\ entry \in Entry
      /\ IsGreedy(model, entry.prompt, entry.tokens)
      /\ IsCut(entry.prompt, entry.request.max_tokens, entry.tokens)
    <2>1. /\ requests[1].prompt = Encode(request.text)
          /\ IsGreedy(model, Encode(request.text), Tokens)
          /\ IsCut(Encode(request.text), request.max_tokens, Tokens)
          /\ e \in Entry
        BY <1>2, AnswerFacts
    <2>2. /\ entry.prompt = Encode(request.text) /\ entry.tokens = Tokens
          /\ entry.request = request
        BY <1>1, <2>1
    <2> QED
        BY <1>1, <2>1, <2>2
<1>4. LoneInv'
    BY <1>2, LoneStep DEF ServerInv
<1>5. model' = model
    BY <1>2 DEF allVars, engineVars
<1>6. RequestTaken' /\ ModelServed'
    BY <1>2, <1>5 DEF ServerInv, RequestTaken, ModelServed
<1>7. HistoryAnswered'
    <2>1. history \in Seq(Entry)
        BY DEF ServerInv, HistoryAnswered
    <2>2. PICK N \in Nat : N = Len(history) /\ DOMAIN history = 1 .. N
        BY <2>1
    <2>3. PICK longer : longer = Append(history, entry)
        OBVIOUS
    <2>4. /\ longer \in Seq(Entry) /\ DOMAIN longer = 1 .. N + 1
          /\ longer[N + 1] = entry /\ \A i \in 1 .. N : longer[i] = history[i]
        BY <1>3, <2>1, <2>2, <2>3
    <2>5. \A i \in 1 .. N + 1 : i = N + 1 \/ i \in 1 .. N
        OBVIOUS
    <2>6. \A i \in DOMAIN longer :
            /\ IsGreedy(model, longer[i].prompt, longer[i].tokens)
            /\ IsCut(longer[i].prompt, longer[i].request.max_tokens, longer[i].tokens)
        BY <1>3, <2>2, <2>4, <2>5 DEF ServerInv, HistoryAnswered
    <2> QED
        BY <1>2, <1>5, <2>3, <2>4, <2>6 DEF HistoryAnswered, IsCut, EndsInEos
<1> QED
    BY <1>4, <1>6, <1>7 DEF ServerInv

LEMMA ServerNextPreserves ==
    ServerInv /\ [ServerNext]_<<allVars, serverVars>> => ServerInv'
<1> SUFFICES ASSUME ServerInv, [ServerNext]_<<allVars, serverVars>>
             PROVE  ServerInv'
    OBVIOUS
<1>1. ASSUME NEW kind \in Kinds, NEW text \in Texts, NEW max \in MaxNews,
             Handle(kind, text, max)
      PROVE  ServerInv'
    BY <1>1, HandleStep
<1>2. CASE SubmitPrompt
    BY <1>2, SubmitPromptStep
<1>3. CASE RunOne
    BY <1>3, RunOneStep
<1>4. CASE Respond
    BY <1>4, RespondStep
<1>5. CASE UNCHANGED <<allVars, serverVars>>
    <2>1. UNCHANGED allVars /\ UNCHANGED <<request, history, model, phase, requests>>
        BY <1>5 DEF allVars, serverVars, engineVars
    <2>2. LoneInv'
        BY <2>1, LoneStep DEF ServerInv
    <2> QED
        BY <2>1, <2>2 DEF ServerInv, RequestTaken, ModelServed, HistoryAnswered
<1> QED
    BY <1>1, <1>2, <1>3, <1>4, <1>5 DEF ServerNext, HandlerStep

\* The invariant holds in every reachable state of the server.
THEOREM ServerInvariant == ServerSpec => []ServerInv
    BY ServerInitEstablishes, ServerNextPreserves, PTL DEF ServerSpec

-----------------------------------------------------------------------------
(* What holds of every server                                              *)

\* The handlers' state is well typed (server.rs:74-90, 116-144).
THEOREM ServerTypeCorrect == ServerSpec => []ServerTypeOK
<1>1. ServerInv => ServerTypeOK
    <2> SUFFICES ASSUME ServerInv
                 PROVE  ServerTypeOK
        OBVIOUS
    <2>1. EngineTypeOK /\ request \in Request \cup {NoRequest}
        BY DEF ServerInv, LoneInv, EngineInv, RequestTaken
    <2>2. ASSUME NEW i \in DOMAIN history
          PROVE  /\ history[i].request \in Request
                 /\ history[i].prompt \in Prompts
                 /\ history[i].tokens \in Seq(Token)
        <3>1. history[i] \in Entry
            BY DEF ServerInv, HistoryAnswered
        <3> QED
            BY <3>1, EntryFacts, RequestFacts
    <2> QED
        BY <2>1, <2>2 DEF ServerTypeOK
<1> QED
    BY <1>1, ServerInvariant, PTL

\* The prompt the engine sees decodes to the text the client sent, whatever
\* characters it is made of (tokeniser.rs:3-8, 19-37).
THEOREM PromptsRoundTrip == ServerSpec => []PromptRoundTrips
<1>1. ServerInv => PromptRoundTrips
    <2> SUFFICES ASSUME ServerInv, NEW i \in DOMAIN history
                 PROVE  Decode(history[i].prompt) = history[i].request.text
        BY DEF PromptRoundTrips
    <2>1. history[i] \in Entry
        BY DEF ServerInv, HistoryAnswered
    <2>2. /\ history[i].prompt = Encode(history[i].request.text)
          /\ IsText(history[i].request.text)
        BY <2>1, EntryFacts, RequestFacts
    <2> QED
        BY <2>2, RoundTrip
<1> QED
    BY <1>1, ServerInvariant, PTL

\* A prompt that leaves room in its cache is answered, and not with eos as long
\* as the context is short (model.rs:197-201).
THEOREM ShortPromptsAreAnswered == ServerSpec => []ShortPromptsGoOn
<1>1. ServerInv => ShortPromptsGoOn
    <2> SUFFICES ASSUME ServerInv, NEW i \in DOMAIN history
                 PROVE  /\ \A k \in DOMAIN history[i].tokens :
                            Len(history[i].prompt) + k <= 4 => history[i].tokens[k] /= Eos
                        /\ /\ history[i].tokens = <<>>
                           /\ history[i].request.max_tokens > 0
                           => Len(history[i].prompt) >= NumBlocks * BlockSize
        BY DEF ShortPromptsGoOn
    <2>1. history[i] \in Entry
        BY DEF ServerInv, HistoryAnswered
    <2>2. PICK prompt, tokens, max :
            /\ prompt = history[i].prompt /\ tokens = history[i].tokens
            /\ max = history[i].request.max_tokens
        OBVIOUS
    <2>3. /\ IsGreedy(model, prompt, tokens)
          /\ IsCut(prompt, max, tokens)
        BY <2>2 DEF ServerInv, HistoryAnswered
    <2>4. /\ prompt \in Seq(Token) /\ tokens \in Seq(Token) /\ max \in Nat
        BY <2>1, <2>2, EntryFacts, RequestFacts
    <2>5. PICK P \in Nat, L \in Nat :
            P = Len(prompt) /\ L = Len(tokens) /\ DOMAIN tokens = 1 .. L
        BY <2>4
    <2>6. ASSUME NEW k \in DOMAIN tokens, P + k <= 4
          PROVE  tokens[k] /= Eos
        <3>1. PICK context : context = prompt \o SubSeq(tokens, 1, k - 1)
            OBVIOUS
        <3>2. context \in DOMAIN model /\ model[context] = tokens[k]
            BY <2>3, <3>1 DEF IsGreedy
        <3>3. Len(context) < 4
            <4>1. PICK p : p = SubSeq(tokens, 1, k - 1)
                OBVIOUS
            <4>2. p \in Seq(Token) /\ Len(p) = k - 1
                BY <2>4, <2>5, <4>1
            <4>3. Len(prompt \o p) = P + (k - 1)
                BY <2>4, <2>5, <4>2, JoinedLength
            <4> QED
                BY <2>5, <2>6, <3>1, <4>1, <4>3
        <3>4. PICK hash \in Nat :
                model[context] = Argmax(ForwardPass(ServedModel, context, hash))
            <4>1. model[context] \in AnswersTo(ServedModel, context, Hashes)
                BY <3>2 DEF ServerInv, ModelServed
            <4> QED
                BY <4>1, ServerAssumption DEF AnswersTo
        <3>5. ServedModel.eos = Eos /\ context \notin DOMAIN ServedModel.pinned
            BY OneId DEF ServedModel, WithEos, New
        <3>6. ServedModel.eos \in VocabIds /\ Vocab > 1
            BY <3>5, ServerAssumption, EngineAssumption
        <3>7. Argmax(ForwardPass(ServedModel, context, hash)) \in VocabIds \ {ServedModel.eos}
            BY <3>3, <3>5, <3>6, ShortContextNeverEos
        <3> QED
            BY <3>2, <3>4, <3>5, <3>7
    <2>7. ASSUME tokens = <<>>, max > 0
          PROVE  P >= CacheSlots
        <3>1. ~EndsInEos(tokens) /\ L = 0
            BY <2>5, <2>7 DEF EndsInEos
        <3>2. L = max \/ L = MaxIterations + 1 \/ P + L >= CacheSlots
            BY <2>3, <2>5, <3>1 DEF IsCut
        <3> QED
            BY <2>4, <2>5, <2>7, <3>1, <3>2, OneId, CacheSlotsNat
    <2> QED
        BY <2>2, <2>5, <2>6, <2>7 DEF CacheSlots
<1> QED
    BY <1>1, ServerInvariant, PTL

\* The decoding of a prompt is the only answer to it.
LEMMA SameQuestionSameTokens ==
    ASSUME ServerInv, NEW i \in DOMAIN history, NEW j \in DOMAIN history,
           SameQuestion(i, j)
    PROVE  history[i].tokens = history[j].tokens
<1>1. history[i] \in Entry /\ history[j] \in Entry
    BY DEF ServerInv, HistoryAnswered
<1>2. /\ history[i].prompt = history[j].prompt
      /\ history[i].request.max_tokens = history[j].request.max_tokens
    BY <1>1, EntryFacts DEF SameQuestion
<1>3. history[i].prompt \in Seq(Token) /\ history[i].request.max_tokens \in Nat
    BY <1>1, EntryFacts, RequestFacts
<1>4. ASSUME NEW k \in DOMAIN history,
             history[k].prompt = history[i].prompt,
             history[k].request.max_tokens = history[i].request.max_tokens
      PROVE  Service!Decoding(history[i].prompt,
                 Service!Limit(history[i].prompt, history[i].request.max_tokens))
             = history[k].tokens
    BY <1>3, <1>4, CutIsDecoding DEF ServerInv, HistoryAnswered
<1> QED
    BY <1>2, <1>4

\* The same question has the same answer from every endpoint: as text, as a
\* count, or in events that add up to the text (server.rs:93-100, 150-165,
\* 182-193).
THEOREM EndpointsAgree == ServerSpec => []AnswersAgree
<1>1. ServerInv => AnswersAgree
    <2> SUFFICES ASSUME ServerInv,
                        NEW i \in DOMAIN history, NEW j \in DOMAIN history,
                        SameQuestion(i, j)
                 PROVE  LET here == history[i].body  there == history[j].body
                        IN  /\ ~Streamed(i) /\ ~Streamed(j) => here.text = there.text
                            /\ Streamed(i) /\ Streamed(j) => here.events = there.events
                            /\ Streamed(i) /\ history[j].request.kind = "generate" =>
                                Len(here.events) = there.completion_tokens
                            /\ /\ Streamed(i) /\ ~Streamed(j)
                               /\ <<Replacement>> \notin Range(here.events)
                               => FlattenSeq(here.events) = there.text
        BY DEF AnswersAgree
    <2>1. history[i] \in Entry /\ history[j] \in Entry
        BY DEF ServerInv, HistoryAnswered
    <2>2. PICK tokens \in Seq(Token) :
            tokens = history[i].tokens /\ tokens = history[j].tokens
        BY <2>1, EntryFacts, SameQuestionSameTokens
    <2>3. ASSUME NEW k \in {i, j}
          PROVE  /\ history[k].request.kind \in Kinds
                 /\ history[k].body = Body(history[k].request, tokens)
        BY <2>1, <2>2, EntryFacts, RequestFacts
    <2> DEFINE events == [n \in DOMAIN tokens |-> DecodeOne(tokens[n])]
    <2>4. ASSUME NEW k \in {i, j}
          PROVE  /\ Streamed(k) => history[k].body.events = events
                 /\ ~Streamed(k) => history[k].body.text = Decode(tokens)
                 /\ history[k].request.kind = "generate" =>
                        history[k].body.completion_tokens = Len(tokens)
        <3>1. CASE history[k].request.kind = "generate"
            BY <2>3, <3>1 DEF Body, Streamed
        <3>2. CASE history[k].request.kind = "completion"
            BY <2>3, <3>2 DEF Body, Streamed
        <3>3. CASE history[k].request.kind = "stream"
            <4>1. Body(history[k].request, tokens) = [events |-> events]
                BY <3>3 DEF Body
            <4> HIDE DEF events
            <4>2. history[k].body.events = events
                BY <2>3, <4>1
            <4> QED
                BY <3>3, <4>2 DEF Streamed
        <3> QED
            BY <2>3, <3>1, <3>2, <3>3 DEF Kinds
    <2>5. Len(events) = Len(tokens)
        <3>1. PICK L \in Nat : L = Len(tokens) /\ DOMAIN tokens = 1 .. L
            OBVIOUS
        <3>2. DOMAIN events = 1 .. L
            BY <3>1
        <3> HIDE DEF events
        <3>3. events \in Seq({events[n] : n \in 1 .. L})
            <4>1. events = [n \in 1 .. L |-> events[n]]
                BY <3>1 DEF events
            <4> QED
                BY <4>1
        <3>4. DOMAIN events = 1 .. Len(events) /\ Len(events) \in Nat
            BY <3>3
        <3>5. Len(events) = L
            BY <3>1, <3>2, <3>4
        <3> QED
            BY <3>1, <3>5
    <2>6. <<Replacement>> \notin Range(events) => FlattenSeq(events) = Decode(tokens)
        <3>1. tokens \in Seq(Nat)
            <4>1. Token \subseteq Nat
                BY ServerAssumption, VocabAssumption DEF VocabIds
            <4>2. PICK L \in Nat : L = Len(tokens) /\ DOMAIN tokens = 1 .. L
                OBVIOUS
            <4>3. tokens = [n \in 1 .. L |-> tokens[n]] /\ \A n \in 1 .. L : tokens[n] \in Nat
                BY <4>1, <4>2
            <4> QED
                BY <4>3
        <3> QED
            BY <3>1, EventsAddUp
    <2> HIDE DEF events
    <2> QED
        BY <2>4, <2>5, <2>6
<1> QED
    BY <1>1, ServerInvariant, PTL

-----------------------------------------------------------------------------
(* The server implements the service                                       *)

\* What the service shows of an answer.
Shown(e) == [prompt |-> e.prompt, max |-> e.request.max_tokens, tokens |-> e.tokens]

LEMMA ShownAppend ==
    ASSUME NEW S, NEW h \in Seq(S), NEW e \in S
    PROVE  LET longer == Append(h, e)
           IN  [i \in DOMAIN longer |-> Shown(longer[i])]
               = Append([i \in DOMAIN h |-> Shown(h[i])], Shown(e))
<1> DEFINE longer == Append(h, e)
           shown  == [i \in DOMAIN h |-> Shown(h[i])]
           T      == {Shown(x) : x \in S}
<1>1. PICK L \in Nat : L = Len(h) /\ DOMAIN h = 1 .. L
    OBVIOUS
<1>2. /\ DOMAIN longer = 1 .. L + 1 /\ longer[L + 1] = e
      /\ \A i \in 1 .. L : longer[i] = h[i] /\ h[i] \in S
    BY <1>1
<1>3. /\ shown = [i \in 1 .. L |-> Shown(h[i])] /\ Shown(e) \in T
      /\ \A i \in 1 .. L : Shown(h[i]) \in T
    BY <1>1, <1>2
<1> HIDE DEF longer, shown, T
<1>4. shown \in Seq(T) /\ DOMAIN shown = 1 .. L
    BY <1>3
<1>5. Len(shown) = L
    BY <1>4
<1>6. PICK more : more = Append(shown, Shown(e))
    OBVIOUS
<1>7. /\ more \in Seq(T) /\ Len(more) = L + 1 /\ more[L + 1] = Shown(e)
      /\ \A i \in 1 .. L : more[i] = shown[i]
    BY <1>3, <1>4, <1>5, <1>6
<1>8. DOMAIN more = 1 .. L + 1 /\ more = [i \in 1 .. L + 1 |-> more[i]]
    BY <1>7
<1>9. \A i \in 1 .. L + 1 : more[i] = Shown(longer[i])
    <2>1. \A i \in 1 .. L + 1 : i = L + 1 \/ i \in 1 .. L
        OBVIOUS
    <2> QED
        BY <1>2, <1>3, <1>7, <2>1
<1>10. [i \in DOMAIN longer |-> Shown(longer[i])] = more
    BY <1>2, <1>8, <1>9
<1> QED
    BY <1>6, <1>10 DEF longer, shown

\* A new server has answered nothing.
LEMMA ServiceInitMaps == ServerInit => Service!Init
<1> SUFFICES ASSUME ServerInit
             PROVE  Service!Init
    OBVIOUS
<1>1. model = <<>> /\ history = <<>> /\ DOMAIN history = {}
    BY DEF ServerInit, EngineInit
<1>2. [i \in DOMAIN history |-> Shown(history[i])] = <<>>
    BY <1>1
<1> QED
    BY <1>1, <1>2 DEF Service!Init, Shown

\* Every step of the server is one of the service, or none.
LEMMA ServiceStepMaps ==
    ServerInv /\ [ServerNext]_<<allVars, serverVars>> => [Service!Next]_(Service!vars)
<1> SUFFICES ASSUME ServerInv, [ServerNext]_<<allVars, serverVars>>
             PROVE  [Service!Next]_(Service!vars)
    OBVIOUS
<1>1. ASSUME UNCHANGED <<model, history>>
      PROVE  UNCHANGED Service!vars
    BY <1>1 DEF Service!vars
<1>2. ASSUME NEW kind \in Kinds, NEW text \in Texts, NEW max \in MaxNews,
             Handle(kind, text, max)
      PROVE  UNCHANGED Service!vars
    BY <1>1, <1>2, HandleStep
<1>3. CASE SubmitPrompt
    BY <1>1, <1>3, SubmitPromptStep
<1>4. CASE RunOne
    <2>1. /\ DOMAIN model \subseteq DOMAIN model'
          /\ \A c \in DOMAIN model : model'[c] = model[c]
        BY <1>4, RunOneAsks
    <2>2. \A c \in DOMAIN model' : model'[c] \in Token
        <3>1. ServerInv'
            BY <1>4, RunOneStep
        <3> QED
            BY <3>1 DEF ServerInv, LoneInv, EngineInv, EngineTypeOK
    <2>3. history' = history
        BY <1>4 DEF RunOne, serverVars
    <2> QED
        BY <2>1, <2>2, <2>3 DEF Service!Next, Service!Ask
<1>5. CASE Respond
    <2> DEFINE e == [request |-> request, prompt |-> requests[1].prompt,
                     tokens |-> Tokens, body |-> Body(request, Tokens)]
    <2>1. /\ request /= NoRequest /\ phase = "returned"
          /\ history' = Append(history, e)
          /\ model' = model
        BY <1>5 DEF Respond, allVars, engineVars
    <2>2. PICK prompt, max : prompt = Encode(request.text) /\ max = request.max_tokens
        OBVIOUS
    <2>3. /\ request \in Request /\ e \in Entry
          /\ requests[1].prompt = prompt
          /\ IsGreedy(model, prompt, Tokens)
          /\ IsCut(prompt, max, Tokens)
        BY <2>1, <2>2, AnswerFacts
    <2>4. /\ prompt \in Prompts /\ max \in MaxNews
          /\ prompt \in Seq(Token) /\ max \in Nat
        BY <2>2, <2>3, RequestFacts
    <2>5. LET limit == Service!Limit(prompt, max)
          IN  /\ Service!Decoding(prompt, limit) = Tokens
              /\ Len(Tokens) = limit \/ Service!Ended(Tokens)
        BY <2>3, <2>4, CutIsDecoding
    <2>6. Shown(e) = [prompt |-> prompt, max |-> max, tokens |-> Tokens]
        BY <2>2, <2>3 DEF Shown
    <2> HIDE DEF e
    <2>7. [i \in DOMAIN history' |-> Shown(history'[i])]
          = Append([i \in DOMAIN history |-> Shown(history[i])], Shown(e))
        BY <2>1, <2>3, ShownAppend DEF ServerInv, HistoryAnswered
    <2>8. Service!Answer(prompt, max)
        BY <2>1, <2>5, <2>6, <2>7 DEF Service!Answer, Shown
    <2> QED
        BY <2>4, <2>8 DEF Service!Next
<1>6. CASE UNCHANGED <<allVars, serverVars>>
    <2>1. UNCHANGED <<model, history>>
        BY <1>6 DEF allVars, serverVars, engineVars
    <2> QED
        BY <1>1, <2>1
<1> QED
    BY <1>2, <1>3, <1>4, <1>5, <1>6 DEF ServerNext, HandlerStep

\* Every answer is the greedy decoding of its own prompt, as long as the limit,
\* the cache and the loop allow and no longer, whatever was served before it
\* (server.rs:93-100, 176-179).
THEOREM ServerImplementsService == ServerSpec => ImplementsCompletionService
<1>1. ServerInit => Service!Init
    BY ServiceInitMaps
<1>2. ServerInv /\ [ServerNext]_<<allVars, serverVars>> => [Service!Next]_(Service!vars)
    BY ServiceStepMaps
<1> QED
    BY <1>1, <1>2, ServerInvariant, PTL
    DEF ServerSpec, ImplementsCompletionService, Service!Spec
=============================================================================
