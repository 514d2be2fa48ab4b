------------------------- MODULE SpeculativeProofs -------------------------
(***************************************************************************)
(* One call of the speculative decoder, for every vocabulary, lookahead,   *)
(* prompt and limit, for every pair of models and every outcome of the     *)
(* acceptance test: where its tokens come from, where its text ends, and   *)
(* that it implements GreedyDecode while the two models agree.             *)
(***************************************************************************)
EXTENDS Speculative, SequenceTheorems, FiniteSetTheorems, TLAPS

-----------------------------------------------------------------------------
(* Prefixes of sequences, and what a model has answered                    *)

\* A prefix of a sequence.
LEMMA Prefixes ==
    ASSUME NEW S, NEW q \in Seq(S), NEW n \in 0 .. Len(q)
    PROVE  /\ SubSeq(q, 1, n) \in Seq(S)
           /\ Len(SubSeq(q, 1, n)) = n
           /\ \A i \in 1 .. n : SubSeq(q, 1, n)[i] = q[i]
<1>1. \A i \in 1 .. n : q[i] \in S
    <2>1. Len(q) \in Nat /\ \A i \in 1 .. Len(q) : q[i] \in S
        BY LenProperties
    <2> QED
        BY <2>1
<1>2. n \in Nat
    BY LenProperties
<1>3. /\ SubSeq(q, 1, n) \in Seq(S)
      /\ Len(SubSeq(q, 1, n)) = IF 1 <= n THEN n - 1 + 1 ELSE 0
      /\ \A i \in 1 .. n - 1 + 1 : SubSeq(q, 1, n)[i] = q[1 + i - 1]
    BY <1>1, <1>2, SubSeqProperties
<1>4. n - 1 + 1 = n /\ \A i \in 1 .. n : 1 + i - 1 = i
    BY <1>2
<1>5. (IF 1 <= n THEN n - 1 + 1 ELSE 0) = n
    BY <1>2
<1> QED
    BY <1>3, <1>4, <1>5

\* A prefix of a prefix is a prefix.
LEMMA PrefixOfPrefix ==
    ASSUME NEW S, NEW q \in Seq(S), NEW n \in 0 .. Len(q), NEW k \in 0 .. n
    PROVE  SubSeq(SubSeq(q, 1, n), 1, k) = SubSeq(q, 1, k)
<1> DEFINE p == SubSeq(q, 1, n)
<1>1. p \in Seq(S) /\ Len(p) = n /\ \A i \in 1 .. n : p[i] = q[i]
    BY Prefixes
<1>2. n \in Nat /\ k \in Nat /\ k \in 0 .. Len(q) /\ k \in 0 .. Len(p)
    BY <1>1, LenProperties
<1> HIDE DEF p
<1>3. /\ SubSeq(q, 1, k) \in Seq(S) /\ Len(SubSeq(q, 1, k)) = k
      /\ \A i \in 1 .. k : SubSeq(q, 1, k)[i] = q[i]
    BY <1>2, Prefixes
<1>4. /\ SubSeq(p, 1, k) \in Seq(S) /\ Len(SubSeq(p, 1, k)) = k
      /\ \A i \in 1 .. k : SubSeq(p, 1, k)[i] = p[i]
    BY <1>1, <1>2, Prefixes
<1>5. \A i \in 1 .. k : SubSeq(p, 1, k)[i] = SubSeq(q, 1, k)[i]
    BY <1>1, <1>2, <1>3, <1>4
<1>6. SubSeq(p, 1, k) = SubSeq(q, 1, k)
    BY <1>3, <1>4, <1>5, SeqEqual
<1> QED
    BY <1>6 DEF p

\* The next prefix has the next element at its end.
LEMMA PrefixExtended ==
    ASSUME NEW S, NEW q \in Seq(S), NEW n \in 0 .. Len(q), n < Len(q)
    PROVE  SubSeq(q, 1, n + 1) = Append(SubSeq(q, 1, n), q[n + 1])
<1>1. n \in Nat /\ n + 1 \in 0 .. Len(q) /\ n + 1 \in 1 .. Len(q)
      /\ q[n + 1] \in S
    BY LenProperties
<1> DEFINE a == SubSeq(q, 1, n)
           b == SubSeq(q, 1, n + 1)
<1>2. /\ a \in Seq(S) /\ Len(a) = n /\ \A i \in 1 .. n : a[i] = q[i]
    BY Prefixes
<1>3. /\ b \in Seq(S) /\ Len(b) = n + 1
      /\ \A i \in 1 .. n + 1 : b[i] = q[i]
    BY <1>1, Prefixes
<1> HIDE DEF a, b
<1>4. /\ Append(a, q[n + 1]) \in Seq(S)
      /\ Len(Append(a, q[n + 1])) = n + 1
      /\ \A i \in 1 .. n : Append(a, q[n + 1])[i] = a[i]
      /\ Append(a, q[n + 1])[n + 1] = q[n + 1]
    BY <1>1, <1>2, AppendProperties
<1>5. \A i \in 1 .. n + 1 : Append(a, q[n + 1])[i] = b[i]
    BY <1>1, <1>2, <1>3, <1>4
<1>6. b = Append(a, q[n + 1])
    BY <1>3, <1>4, <1>5, SeqEqual
<1> QED
    BY <1>6 DEF a, b

\* An appended element is behind every prefix.
LEMMA PrefixOfAppend ==
    ASSUME NEW S, NEW q \in Seq(S), NEW e \in S
    PROVE  /\ \A n \in 0 .. Len(q) :
                SubSeq(Append(q, e), 1, n) = SubSeq(q, 1, n)
           /\ SubSeq(Append(q, e), 1, Len(q)) = q
<1> DEFINE r == Append(q, e)
<1>1. /\ r \in Seq(S) /\ Len(r) = Len(q) + 1
      /\ \A i \in 1 .. Len(q) : r[i] = q[i]
      /\ Len(q) \in Nat
    BY AppendProperties, LenProperties
<1> HIDE DEF r
<1>2. ASSUME NEW n \in 0 .. Len(q)
      PROVE  SubSeq(r, 1, n) = SubSeq(q, 1, n)
    <2>1. n \in Nat /\ n \in 0 .. Len(r)
        BY <1>1
    <2>2. /\ SubSeq(q, 1, n) \in Seq(S) /\ Len(SubSeq(q, 1, n)) = n
          /\ \A i \in 1 .. n : SubSeq(q, 1, n)[i] = q[i]
        BY Prefixes
    <2>3. /\ SubSeq(r, 1, n) \in Seq(S) /\ Len(SubSeq(r, 1, n)) = n
          /\ \A i \in 1 .. n : SubSeq(r, 1, n)[i] = r[i]
        BY <1>1, <2>1, Prefixes
    <2>4. \A i \in 1 .. n : SubSeq(r, 1, n)[i] = SubSeq(q, 1, n)[i]
        BY <1>1, <2>1, <2>2, <2>3
    <2> QED
        BY <2>2, <2>3, <2>4, SeqEqual
<1>3. SubSeq(r, 1, Len(q)) = q
    <2>1. SubSeq(q, 1, Len(q)) = q
        BY SubSeqFull
    <2>2. Len(q) \in 0 .. Len(q)
        BY <1>1
    <2> QED
        BY <1>2, <2>1, <2>2
<1> QED
    BY <1>2, <1>3 DEF r

\* A concatenation grows by its last part.
LEMMA ConcatAppend ==
    ASSUME NEW S, NEW u \in Seq(S), NEW v \in Seq(S), NEW e \in S
    PROVE  u \o Append(v, e) = Append(u \o v, e)
<1>1. /\ <<e>> \in Seq(S)
      /\ u \o v \in Seq(S)
      /\ Append(v, e) = v \o <<e>>
    BY AppendIsConcat, ConcatProperties, LenProperties
<1>2. Append(u \o v, e) = (u \o v) \o <<e>>
    BY <1>1, AppendIsConcat
<1> QED
    BY <1>1, <1>2, ConcatAssociative

\* A model that has learned an answer still has its old ones.
LEMMA LearnedFacts ==
    ASSUME NEW model, NEW context, NEW token, Answers(model, context, token)
    PROVE  /\ DOMAIN Learned(model, context, token) = DOMAIN model \cup {context}
           /\ IsChoice(Learned(model, context, token), context, token)
           /\ \A c \in DOMAIN model :
                Learned(model, context, token)[c] = model[c]
           /\ \A c, t : IsChoice(model, c, t) =>
                IsChoice(Learned(model, context, token), c, t)
BY DEF Answers, Learned, IsChoice

-----------------------------------------------------------------------------
(* The inductive invariant                                                 *)

\* The text the running round started from.
Base == SubSeq(generated, 1, Len(generated) - taken)

\* The run is the draft model's own continuation of that text.
Drafted == phase \in {"draft", "verify", "collect"} =>
    \A i \in 1 .. Len(run) :
        IsChoice(draft, (prompt \o Base) \o SubSeq(run, 1, i - 1), run[i])

\* The target was asked at the position of every accepted token.
Verified == phase \in {"verify", "collect"} =>
    \A i \in 1 .. accepted :
        (prompt \o Base) \o SubSeq(run, 1, i - 1) \in DOMAIN target

\* What the locals of generate and step hold at each point of the two.
Shape ==
    /\ phase = "ready" => /\ generated = <<>>
                          /\ total_accepted = 0
                          /\ total_drafted = 0
    /\ phase \in {"ready", "round", "draft", "verify"} => taken = 0
    /\ phase \in {"draft", "verify"} => Len(generated) < max_new
    /\ phase = "draft" => out = <<>> /\ accepted = 0 /\ Len(run) < Lookahead
    /\ phase = "verify" => out = SubSeq(run, 1, accepted)
    /\ phase = "collect" => /\ taken <= Len(generated)
                            /\ generated = Base \o SubSeq(out, 1, taken)
    /\ phase = "ended" => generated /= <<>> /\ generated[Len(generated)] = Eos

IInv ==
    /\ TypeOK
    /\ Shape
    /\ Drafted
    /\ Verified
    /\ EveryTokenFitsItsPrefix
    /\ RoundEndsWithTarget
    /\ CutExactly

-----------------------------------------------------------------------------
(* The types of every step                                                 *)

\* The contexts and the answers of a model are of their types.
Answered(model) == \A context \in DOMAIN model :
    context \in Seq(Token) /\ model[context] \in Token

\* A model that answers a context with a token stays well typed.
LEMMA LearnedType ==
    ASSUME NEW model, NEW context \in Seq(Token), NEW token \in Token,
           Answers(model, context, token), Answered(model)
    PROVE  Answered(Learned(model, context, token))
BY LearnedFacts DEF Answered, Learned

\* What TypeOK says of the two models.
LEMMA TypeParts ==
    TypeOK <=>
        /\ prompt \in Seq(Token)
        /\ max_new \in Nat
        /\ Answered(draft) /\ Answered(target)
        /\ generated \in Seq(Token)
        /\ run \in Seq(Token) /\ Len(run) <= Lookahead
        /\ out \in Seq(Token)
        /\ accepted \in 0 .. Len(run)
        /\ taken \in 0 .. Len(out)
        /\ total_accepted \in Nat
        /\ total_drafted \in Nat
        /\ phase \in {"ready", "round", "draft", "verify", "collect", "ended",
                     "returned"}
BY DEF TypeOK, Answered

\* The contexts the models are handed.
LEMMA Contexts ==
    ASSUME TypeOK
    PROVE  /\ Context \in Seq(Token)
           /\ DraftContext \in Seq(Token)
           /\ VerifyContext \in Seq(Token)
           /\ Len(generated) \in Nat /\ Len(run) \in Nat /\ Len(out) \in Nat
BY ConcatProperties, LenProperties
   DEF TypeOK, Context, DraftContext, VerifyContext

\* No step leaves the types.
LEMMA TypeStep ==
    ASSUME SpeculativeAssumption, TypeOK, Shape, [Next]_vars
    PROVE  TypeOK'
<1> USE DEF call, models, totals, Answered
<1>t. /\ prompt \in Seq(Token)
      /\ max_new \in Nat
      /\ Answered(draft) /\ Answered(target)
      /\ generated \in Seq(Token)
      /\ run \in Seq(Token) /\ Len(run) <= Lookahead
      /\ out \in Seq(Token)
      /\ accepted \in 0 .. Len(run)
      /\ taken \in 0 .. Len(out)
      /\ total_accepted \in Nat
      /\ total_drafted \in Nat
      /\ phase \in {"ready", "round", "draft", "verify", "collect", "ended",
                   "returned"}
    BY TypeParts
<1>n. Len(generated) \in Nat /\ Len(run) \in Nat /\ Len(out) \in Nat
    BY Contexts
<1>1. ASSUME NEW p \in Prompts, NEW max \in MaxNews, Generate(p, max)
      PROVE  TypeOK'
    BY <1>1, <1>t DEF Generate, TypeOK, SpeculativeAssumption
<1>2. CASE StartRound
    <2>1. /\ run' = <<>> /\ out' = <<>> /\ accepted' = 0 /\ phase' = "draft"
          /\ UNCHANGED <<call, models, generated, taken, totals>>
          /\ taken = 0
        BY <1>2 DEF StartRound, Shape
    <2>2. run' \in Seq(Token) /\ Len(run') = 0 /\ out' \in Seq(Token) /\ Len(out') = 0
        BY <2>1, EmptySeq
    <2>3. Lookahead \in Nat
        BY DEF SpeculativeAssumption
    <2> QED
        BY <1>t, <2>1, <2>2, <2>3 DEF TypeOK
<1>3. CASE Return
    BY <1>3, <1>t DEF Return, TypeOK
<1>4. ASSUME NEW token \in Token, DraftNext(token)
      PROVE  TypeOK'
    <2>1. Answered(draft') /\ target' = target
        BY <1>4, <1>t, Contexts, LearnedType DEF DraftNext, AskDraft
    <2>2. run' \in Seq(Token) /\ Len(run') = Len(run) + 1
        BY <1>4, <1>t, AppendProperties DEF DraftNext
    <2>3. Len(run) < Lookahead /\ accepted = 0 /\ Lookahead \in Nat
        BY <1>4 DEF DraftNext, Shape, SpeculativeAssumption
    <2>4. Len(run') <= Lookahead /\ accepted' \in 0 .. Len(run')
        BY <1>4, <1>n, <2>2, <2>3 DEF DraftNext
    <2>5. phase' \in {"verify", "draft"}
        BY <1>4 DEF DraftNext
    <2>6. UNCHANGED <<call, generated, out, accepted, taken, totals>>
        BY <1>4 DEF DraftNext
    <2> QED
        BY <1>t, <2>1, <2>2, <2>4, <2>5, <2>6 DEF TypeOK
<1>c. ASSUME Counted, accepted' \in Nat, run' = run
      PROVE  total_accepted' \in Nat /\ total_drafted' \in Nat
    <2>1. PICK k \in Nat : k = accepted'
        BY <1>c
    <2>2. /\ total_accepted' = total_accepted + k
          /\ total_drafted' = total_drafted + Len(run)
        BY <1>c, <2>1 DEF Counted
    <2> QED
        BY <1>n, <1>t, <2>2
<1>a. ASSUME NEW answer \in Token, AskTarget(VerifyContext, answer)
      PROVE  Answered(target') /\ draft' = draft
    BY <1>a, <1>t, Contexts, LearnedType DEF AskTarget
<1>o. ASSUME NEW tok \in Token, out' = Append(out, tok), UNCHANGED taken
      PROVE  out' \in Seq(Token) /\ taken' \in 0 .. Len(out')
    <2>1. out' \in Seq(Token) /\ Len(out') = Len(out) + 1
        BY <1>o, <1>t, AppendProperties
    <2> QED
        BY <1>o, <1>t, <1>n, <2>1
<1>5. ASSUME NEW answer \in Token, Accept(answer)
      PROVE  TypeOK'
    <2>1. Answered(target') /\ draft' = draft
        BY <1>5, <1>a DEF Accept
    <2>2. accepted < Len(run) /\ accepted + 1 \in 1 .. Len(run)
        BY <1>5, <1>n, <1>t DEF Accept
    <2>3. run[accepted + 1] \in Token
        BY <1>t, <2>2, LenProperties
    <2>4. out' \in Seq(Token) /\ taken' \in 0 .. Len(out')
        BY <1>5, <1>o, <2>3 DEF Accept
    <2>5. /\ UNCHANGED <<call, generated, run, taken>>
          /\ accepted' = accepted + 1
        BY <1>5 DEF Accept
    <2>6. accepted' \in 0 .. Len(run') /\ accepted' \in Nat
        BY <1>n, <1>t, <2>2, <2>5
    <2>7. \/ phase' = "collect" /\ Counted
          \/ UNCHANGED <<phase, totals>>
        BY <1>5 DEF Accept
    <2>8. /\ total_accepted' \in Nat /\ total_drafted' \in Nat
          /\ phase' \in {"collect", phase}
        BY <1>c, <1>t, <2>5, <2>6, <2>7
    <2> QED
        BY <1>t, <2>1, <2>4, <2>5, <2>6, <2>8 DEF TypeOK
<1>6. ASSUME NEW answer \in Token, Reject(answer) \/ Bonus(answer)
      PROVE  TypeOK'
    <2>1. /\ AskTarget(VerifyContext, answer)
          /\ out' = Append(out, answer)
          /\ phase' = "collect"
          /\ UNCHANGED <<call, generated, run, accepted, taken>>
          /\ Counted
        BY <1>6 DEF Reject, Bonus, Resampled
    <2>2. Answered(target') /\ draft' = draft
        BY <1>a, <2>1
    <2>3. out' \in Seq(Token) /\ taken' \in 0 .. Len(out')
        BY <1>o, <2>1
    <2>4. total_accepted' \in Nat /\ total_drafted' \in Nat
        BY <1>c, <1>t, <2>1
    <2> QED
        BY <1>t, <2>1, <2>2, <2>3, <2>4 DEF TypeOK
<1>7. CASE TakeNext
    <2>1. /\ taken < Len(out)
          /\ generated' = Append(generated, out[taken + 1])
          /\ taken' = taken + 1
          /\ phase' \in {"ended", "collect"}
          /\ UNCHANGED <<call, models, run, out, accepted, totals>>
        BY <1>7 DEF TakeNext, Wanted
    <2>2. taken' \in 0 .. Len(out) /\ taken + 1 \in 1 .. Len(out)
        BY <1>n, <1>t, <2>1
    <2>3. out[taken + 1] \in Token
        BY <1>t, <2>2, LenProperties
    <2>4. generated' \in Seq(Token)
        BY <1>t, <2>1, <2>3, AppendProperties
    <2> QED
        BY <1>t, <2>1, <2>2, <2>4 DEF TypeOK
<1>8. CASE RoundEnds
    BY <1>8, <1>n, <1>t DEF RoundEnds, TypeOK
<1>9. CASE UNCHANGED vars
    BY <1>9, <1>t DEF vars, TypeOK
<1> QED
    BY <1>1, <1>2, <1>3, <1>4, <1>5, <1>6, <1>7, <1>8, <1>9 DEF Next, Step

-----------------------------------------------------------------------------
(* One lemma for each action                                               *)

\* No model takes an answer back.
Remembered ==
    /\ \A c, t : IsChoice(draft, c, t) => IsChoice(draft, c, t)'
    /\ \A c, t : IsChoice(target, c, t) => IsChoice(target, c, t)'
    /\ DOMAIN target \subseteq DOMAIN target'

\* Being asked or not, a model keeps the answers it gave.
LEMMA ModelsRemember ==
    /\ UNCHANGED models => Remembered
    /\ \A c, t : AskDraft(c, t) => Remembered
    /\ \A c, t : AskTarget(c, t) => Remembered
<1>1. ASSUME NEW c, NEW t, AskDraft(c, t)
      PROVE  Remembered
    <2>1. /\ Answers(draft, c, t) /\ draft' = Learned(draft, c, t)
          /\ target' = target
        BY <1>1 DEF AskDraft
    <2>2. \A d, u : IsChoice(draft, d, u) => IsChoice(Learned(draft, c, t), d, u)
        BY <2>1, LearnedFacts
    <2>3. \A d, u : IsChoice(draft, d, u) => IsChoice(draft, d, u)'
        BY <2>1, <2>2 DEF IsChoice
    <2> QED
        BY <2>1, <2>3 DEF Remembered, IsChoice
<1>2. ASSUME NEW c, NEW t, AskTarget(c, t)
      PROVE  Remembered
    <2>1. /\ Answers(target, c, t) /\ target' = Learned(target, c, t)
          /\ draft' = draft
        BY <1>2 DEF AskTarget
    <2>2. /\ \A d, u : IsChoice(target, d, u) => IsChoice(Learned(target, c, t), d, u)
          /\ DOMAIN Learned(target, c, t) = DOMAIN target \cup {c}
        BY <2>1, LearnedFacts
    <2>3. \A d, u : IsChoice(target, d, u) => IsChoice(target, d, u)'
        BY <2>1, <2>2 DEF IsChoice
    <2>4. DOMAIN target \subseteq DOMAIN target'
        BY <2>1, <2>2
    <2> QED
        BY <2>1, <2>3, <2>4 DEF Remembered, IsChoice
<1>3. UNCHANGED models => Remembered
    BY DEF models, Remembered, IsChoice
<1> QED
    BY <1>1, <1>2, <1>3

\* A step that does not touch the text keeps what is known of it.
LEMMA TextKept ==
    ASSUME Remembered, UNCHANGED <<prompt, generated>>
    PROVE  /\ EveryTokenFitsItsPrefix => EveryTokenFitsItsPrefix'
           /\ Drafted /\ phase \in {"draft", "verify", "collect"}
              /\ UNCHANGED <<run, taken>> => Drafted'
<1>1. EveryTokenFitsItsPrefix => EveryTokenFitsItsPrefix'
    <2> SUFFICES ASSUME EveryTokenFitsItsPrefix
                 PROVE  EveryTokenFitsItsPrefix'
        OBVIOUS
    <2>1. \A i \in DOMAIN generated :
            LET prefix == prompt \o SubSeq(generated, 1, i - 1)
            IN  \/ IsChoice(target, prefix, generated[i])'
                \/ IsChoice(draft, prefix, generated[i])'
        BY DEF EveryTokenFitsItsPrefix, Remembered, IsChoice
    <2> QED
        BY <2>1 DEF EveryTokenFitsItsPrefix, IsChoice
<1>2. ASSUME Drafted, phase \in {"draft", "verify", "collect"},
             UNCHANGED <<run, taken>>
      PROVE  Drafted'
    <2>1. \A i \in 1 .. Len(run) :
            IsChoice(draft, (prompt \o Base) \o SubSeq(run, 1, i - 1), run[i])
        BY <1>2 DEF Drafted
    <2>2. Base' = Base
        BY <1>2 DEF Base
    <2> QED
        BY <1>2, <2>1, <2>2 DEF Drafted, Remembered, IsChoice
<1> QED
    BY <1>1, <1>2

\* generate is called.
LEMMA GenerateStep ==
    ASSUME SpeculativeAssumption, IInv, TypeOK',
           NEW p \in Prompts, NEW max \in MaxNews, Generate(p, max)
    PROVE  IInv'
<1>1. /\ phase = "ready" /\ phase' = "round"
      /\ generated' = generated /\ generated = <<>> /\ Len(generated) = 0
      /\ taken' = taken /\ taken = 0
      /\ UNCHANGED totals /\ total_accepted = 0 /\ total_drafted = 0
      /\ max_new' \in Nat
    BY DEF Generate, IInv, Shape, TypeOK
<1>2. Shape' /\ Drafted' /\ Verified' /\ RoundEndsWithTarget'
    BY <1>1 DEF Shape, Drafted, Verified, RoundEndsWithTarget
<1>3. EveryTokenFitsItsPrefix'
    BY <1>1 DEF EveryTokenFitsItsPrefix
<1>4. CutExactly'
    BY <1>1 DEF CutExactly
<1> QED
    BY <1>2, <1>3, <1>4 DEF IInv

\* The head of generate's loop calls step (speculative.rs:183-184).
LEMMA StartRoundStep ==
    ASSUME SpeculativeAssumption, IInv, TypeOK', StartRound
    PROVE  IInv'
<1>1. /\ phase = "round" /\ phase' = "draft"
      /\ Len(generated) < max_new
      /\ run' = <<>> /\ out' = <<>> /\ accepted' = 0
      /\ UNCHANGED <<call, models, generated, taken, totals>>
      /\ taken = 0
    BY DEF StartRound, IInv, Shape
<1>2. Shape'
    BY <1>1 DEF Shape, call, SpeculativeAssumption
<1>3. Drafted' /\ Verified' /\ RoundEndsWithTarget'
    BY <1>1 DEF Drafted, Verified, RoundEndsWithTarget
<1>4. EveryTokenFitsItsPrefix'
    BY <1>1, TextKept, ModelsRemember DEF IInv, call
<1>5. CutExactly'
    BY <1>1 DEF IInv, CutExactly, call
<1> QED
    BY <1>2, <1>3, <1>4, <1>5 DEF IInv

\* generate returns (speculative.rs:183, 193-208).
LEMMA ReturnStep ==
    ASSUME SpeculativeAssumption, IInv, TypeOK', Return
    PROVE  IInv'
<1>1. /\ (phase = "round" /\ Len(generated) >= max_new) \/ phase = "ended"
      /\ phase' = "returned"
      /\ UNCHANGED <<call, models, generated, run, out, accepted, taken, totals>>
    BY DEF Return
<1>2. Shape' /\ Drafted' /\ Verified' /\ RoundEndsWithTarget'
    BY <1>1 DEF Shape, Drafted, Verified, RoundEndsWithTarget
<1>3. EveryTokenFitsItsPrefix'
    BY <1>1, TextKept, ModelsRemember DEF IInv, call
<1>4. CutExactly'
    <2>1. Len(generated) \in Nat /\ max_new \in Nat
        BY Contexts DEF IInv, TypeOK
    <2>2. Len(generated) <= max_new
          /\ \A i \in 1 .. Len(generated) - 1 : generated[i] /= Eos
        BY DEF IInv, CutExactly
    <2>3. \/ Len(generated) = max_new
          \/ generated /= <<>> /\ generated[Len(generated)] = Eos
        BY <1>1, <2>1, <2>2 DEF IInv, Shape
    <2> QED
        BY <1>1, <2>2, <2>3 DEF CutExactly, call
<1> QED
    BY <1>2, <1>3, <1>4 DEF IInv

\* The context a round starts from, as long as nothing of it is taken.
LEMMA BaseIsText ==
    ASSUME TypeOK, taken = 0
    PROVE  Base = generated
<1>1. Len(generated) \in Nat /\ Len(generated) - 0 = Len(generated)
    BY Contexts
<1> QED
    BY <1>1, SubSeqFull DEF TypeOK, Base

\* draft_run pushes a token (speculative.rs:86-94).
LEMMA DraftNextStep ==
    ASSUME SpeculativeAssumption, IInv, TypeOK',
           NEW token \in Token, DraftNext(token)
    PROVE  IInv'
<1>1. /\ phase = "draft" /\ phase' \in {"verify", "draft"}
      /\ phase' = "draft" => Len(run') /= Lookahead
      /\ AskDraft(DraftContext, token)
      /\ run' = Append(run, token)
      /\ UNCHANGED <<call, generated, out, accepted, taken, totals>>
      /\ taken = 0 /\ out = <<>> /\ accepted = 0
      /\ Len(run) < Lookahead /\ Len(generated) < max_new
    BY DEF DraftNext, DraftEnds, IInv, Shape
<1>2. /\ run \in Seq(Token) /\ Len(run) \in Nat /\ run' \in Seq(Token)
      /\ Len(run') = Len(run) + 1
      /\ \A i \in 1 .. Len(run) : run'[i] = run[i]
      /\ run'[Len(run) + 1] = token
      /\ Lookahead \in Nat
    BY <1>1, Contexts, AppendProperties DEF IInv, TypeOK, SpeculativeAssumption
<1>3. Remembered
    BY <1>1, ModelsRemember
<1>4. Shape'
    <2>1. SubSeq(run', 1, 0) = <<>>
        BY SubSeqEmpty
    <2>2. phase' = "draft" => Len(run') < Lookahead
        BY <1>1, <1>2
    <2> QED
        BY <1>1, <2>1, <2>2 DEF Shape, call
<1>5. Drafted'
    <2>1. /\ Base = generated /\ Base' = Base
        BY <1>1, BaseIsText DEF IInv, Base
    <2>2. DraftContext = (prompt \o Base) \o run
        BY <2>1 DEF DraftContext, Context
    <2>4. IsChoice(draft', (prompt \o Base) \o run, token)
        <3>1. IsChoice(draft', DraftContext, token)
            BY <1>1, LearnedFacts DEF AskDraft
        <3> QED
            BY <2>2, <3>1
    <2>5. ASSUME NEW i \in 1 .. Len(run) + 1
          PROVE  IsChoice(draft', (prompt \o Base) \o SubSeq(run', 1, i - 1), run'[i])
        <3>1. CASE i = Len(run) + 1
            <4>1. i - 1 = Len(run) /\ SubSeq(run', 1, Len(run)) = run
                BY <1>1, <1>2, <3>1, PrefixOfAppend
            <4> QED
                BY <1>2, <2>4, <3>1, <4>1
        <3>2. CASE i \in 1 .. Len(run)
            <4>1. i - 1 \in 0 .. Len(run)
                BY <1>2, <3>2
            <4>2. SubSeq(run', 1, i - 1) = SubSeq(run, 1, i - 1)
                BY <1>1, <1>2, <4>1, PrefixOfAppend
            <4>3. IsChoice(draft, (prompt \o Base) \o SubSeq(run, 1, i - 1), run[i])
                BY <1>1, <3>2 DEF IInv, Drafted
            <4> QED
                BY <1>2, <1>3, <3>2, <4>2, <4>3 DEF Remembered, IsChoice
        <3> QED
            BY <1>2, <3>1, <3>2
    <2> QED
        BY <1>1, <1>2, <2>1, <2>5 DEF Drafted, IsChoice, call
<1>6. Verified' /\ RoundEndsWithTarget'
    <2>1. 1 .. 0 = {}
        OBVIOUS
    <2> QED
        BY <1>1, <2>1 DEF Verified, RoundEndsWithTarget
<1>7. EveryTokenFitsItsPrefix'
    BY <1>1, <1>3, TextKept DEF IInv, call
<1>8. CutExactly'
    BY <1>1 DEF IInv, CutExactly, call
<1> QED
    BY <1>4, <1>5, <1>6, <1>7, <1>8 DEF IInv

\* When a round is verified nothing of it has been taken.
LEMMA CollectStarts ==
    ASSUME TypeOK, taken = 0, UNCHANGED <<generated, taken>>, TypeOK'
    PROVE  /\ taken' <= Len(generated')
           /\ generated' = Base' \o SubSeq(out, 1, taken)'
           /\ Base' = Base /\ Base = generated
           /\ SubSeq(generated, 1, Len(generated) - taken)' = generated
<1>1. Base = generated /\ Base' = Base /\ Len(generated) \in Nat
    BY BaseIsText, Contexts DEF Base
<1>2. SubSeq(out, 1, taken)' = <<>>
    BY SubSeqEmpty
<1>3. generated \o <<>> = generated
    BY ConcatEmptySeq DEF TypeOK
<1> QED
    BY <1>1, <1>2, <1>3 DEF Base

\* The prefix a proposal is verified at has been asked of the target.
LEMMA VerifiedGrows ==
    ASSUME IInv, phase = "verify", NEW answer, AskTarget(VerifyContext, answer),
           UNCHANGED <<prompt, generated, taken, run>>
    PROVE  /\ VerifyContext = (prompt \o Base) \o SubSeq(run, 1, accepted)
           /\ IsChoice(target', VerifyContext, answer)
           /\ \A i \in 1 .. accepted + 1 :
                (prompt \o Base') \o SubSeq(run, 1, i - 1) \in DOMAIN target'
<1>1. taken = 0 /\ Base = generated /\ out = SubSeq(run, 1, accepted)
      /\ accepted \in Nat
    BY BaseIsText DEF IInv, Shape, TypeOK
<1>2. VerifyContext = (prompt \o Base) \o SubSeq(run, 1, accepted)
    BY <1>1 DEF VerifyContext, Context
<1>3. IsChoice(target', VerifyContext, answer)
    BY LearnedFacts DEF AskTarget
<1>4. Remembered /\ Base' = Base
    BY ModelsRemember DEF Base
<1>5. ASSUME NEW i \in 1 .. accepted + 1
      PROVE  (prompt \o Base) \o SubSeq(run, 1, i - 1) \in DOMAIN target'
    <2>1. CASE i = accepted + 1
        <3>1. i - 1 = accepted
            BY <1>1, <2>1
        <3> QED
            BY <1>2, <1>3, <3>1 DEF IsChoice
    <2>2. CASE i \in 1 .. accepted
        BY <1>4, <2>2 DEF Remembered, IInv, Verified
    <2> QED
        BY <1>1, <2>1, <2>2
<1> QED
    BY <1>2, <1>3, <1>4, <1>5

\* A proposal is accepted (speculative.rs:136-148).
LEMMA AcceptStep ==
    ASSUME SpeculativeAssumption, IInv, TypeOK',
           NEW answer \in Token, Accept(answer)
    PROVE  IInv'
<1>1. /\ phase = "verify"
      /\ accepted < Len(run)
      /\ AskTarget(VerifyContext, answer)
      /\ out' = Append(out, run[accepted + 1])
      /\ accepted' = accepted + 1
      /\ \/ phase' = "collect" /\ Counted /\ run[accepted + 1] = Eos
         \/ UNCHANGED <<phase, totals>>
      /\ UNCHANGED <<call, generated, run, taken>>
    BY DEF Accept
<1>2. /\ taken = 0 /\ out = SubSeq(run, 1, accepted)
      /\ Len(generated) < max_new
      /\ accepted \in 0 .. Len(run) /\ run \in Seq(Token)
      /\ Len(run) \in Nat /\ accepted + 1 \in 0 .. Len(run)
    BY <1>1, Contexts DEF IInv, Shape, TypeOK
<1>3. out' = SubSeq(run, 1, accepted + 1)
    BY <1>1, <1>2, PrefixExtended
<1>4. Len(out') = accepted + 1 /\ out'[accepted + 1] = run[accepted + 1]
    BY <1>2, <1>3, Prefixes
<1>5. Remembered /\ phase' \in {"verify", "collect"}
    BY <1>1, ModelsRemember
<1>6. Shape'
    <2>1. taken' <= Len(generated') /\ generated' = Base' \o SubSeq(out, 1, taken)'
        BY <1>1, <1>2, CollectStarts DEF IInv
    <2> QED
        BY <1>1, <1>2, <1>3, <1>5, <2>1 DEF Shape, call
<1>7. Drafted'
    BY <1>1, <1>5, TextKept DEF IInv, call
<1>8. Verified'
    <2>1. \A i \in 1 .. accepted + 1 :
            (prompt \o Base') \o SubSeq(run, 1, i - 1) \in DOMAIN target'
        BY <1>1, VerifiedGrows DEF call
    <2> QED
        BY <1>1, <2>1 DEF Verified, call
<1>9. EveryTokenFitsItsPrefix'
    BY <1>1, <1>5, TextKept DEF IInv, call
<1>10. RoundEndsWithTarget'
    <2>1. ASSUME phase' = "collect"
          PROVE  /\ out' = SubSeq(run', 1, accepted')
                 /\ accepted' > 0
                 /\ out'[accepted'] = Eos
        <3>1. run[accepted + 1] = Eos
            BY <1>1, <2>1
        <3>2. accepted + 1 > 0
            BY <1>2
        <3> QED
            BY <1>1, <1>3, <1>4, <3>1, <3>2
    <2> QED
        BY <2>1 DEF RoundEndsWithTarget
<1>11. CutExactly'
    BY <1>1, <1>5 DEF IInv, CutExactly, call
<1> QED
    BY <1>6, <1>7, <1>8, <1>9, <1>10, <1>11 DEF IInv

\* A proposal is rejected, or the whole run was accepted: the target's own
\* token ends the round (speculative.rs:149-171).
LEMMA TargetEndsStep ==
    ASSUME SpeculativeAssumption, IInv, TypeOK',
           NEW answer \in Token, Reject(answer) \/ Bonus(answer)
    PROVE  IInv'
<1>1. /\ phase = "verify" /\ phase' = "collect"
      /\ AskTarget(VerifyContext, answer)
      /\ out' = Append(out, answer)
      /\ UNCHANGED <<call, generated, run, accepted, taken>>
      /\ Counted
    BY DEF Reject, Bonus, Resampled
<1>2. /\ taken = 0 /\ out = SubSeq(run, 1, accepted)
      /\ accepted \in 0 .. Len(run) /\ accepted \in Nat
      /\ run \in Seq(Token) /\ out \in Seq(Token)
    BY <1>1 DEF IInv, Shape, TypeOK
<1>3. Len(out) = accepted
    BY <1>2, Prefixes
<1>4. /\ Len(out') = accepted + 1
      /\ out'[accepted + 1] = answer
      /\ SubSeq(out', 1, accepted) = SubSeq(run, 1, accepted)
    <2>1. Len(out') = Len(out) + 1 /\ out'[Len(out) + 1] = answer
        BY <1>1, <1>2, AppendProperties
    <2>2. SubSeq(out', 1, Len(out)) = out
        BY <1>1, <1>2, PrefixOfAppend
    <2> QED
        BY <1>2, <1>3, <2>1, <2>2
<1>5. Remembered
    BY <1>1, ModelsRemember
<1>6. /\ taken' <= Len(generated') /\ generated' = Base' \o SubSeq(out, 1, taken)'
      /\ Base = generated
      /\ SubSeq(generated, 1, Len(generated) - taken)' = generated
    BY <1>1, <1>2, CollectStarts DEF IInv
<1>7. Shape'
    BY <1>1, <1>6 DEF Shape
<1>8. Drafted'
    BY <1>1, <1>5, TextKept DEF IInv, call
<1>9. /\ VerifyContext = (prompt \o Base) \o SubSeq(run, 1, accepted)
      /\ IsChoice(target', VerifyContext, answer)
      /\ \A i \in 1 .. accepted + 1 :
            (prompt \o Base') \o SubSeq(run, 1, i - 1) \in DOMAIN target'
    BY <1>1, VerifiedGrows DEF call
<1>10. Verified'
    <2>1. \A i \in 1 .. accepted : i \in 1 .. accepted + 1
        BY <1>2
    <2> QED
        BY <1>1, <1>9, <2>1 DEF Verified, call
<1>11. EveryTokenFitsItsPrefix'
    BY <1>1, <1>5, TextKept DEF IInv, call
<1>12. RoundEndsWithTarget'
    BY <1>1, <1>4, <1>6, <1>9 DEF RoundEndsWithTarget, IsChoice, call
<1>13. CutExactly'
    BY <1>1 DEF IInv, CutExactly, call
<1> QED
    BY <1>7, <1>8, <1>10, <1>11, <1>12, <1>13 DEF IInv

\* What is left of step's tokens: the accepted part of the run, then the
\* target's own token.
LEMMA OutParts ==
    ASSUME TypeOK, phase = "collect", RoundEndsWithTarget, Drafted,
           NEW n \in 0 .. Len(out), n < Len(out)
    PROVE  /\ n < accepted =>
                /\ n + 1 \in 1 .. accepted
                /\ SubSeq(out, 1, n) = SubSeq(run, 1, n)
                /\ IsChoice(draft, (prompt \o Base) \o SubSeq(run, 1, n), out[n + 1])
           /\ n >= accepted =>
                IsChoice(target, (prompt \o Base) \o SubSeq(out, 1, n), out[n + 1])
<1>1. /\ n \in Nat /\ accepted \in Nat /\ accepted \in 0 .. Len(run)
      /\ Len(run) \in Nat /\ Len(out) \in Nat
      /\ run \in Seq(Token) /\ out \in Seq(Token)
    BY Contexts DEF TypeOK
<1> DEFINE kept == SubSeq(run, 1, accepted)
<1>2. /\ kept \in Seq(Token) /\ Len(kept) = accepted
      /\ \A i \in 1 .. accepted : kept[i] = run[i]
    BY <1>1, Prefixes
<1>3. \/ out = kept
      \/ /\ Len(out) = accepted + 1
         /\ SubSeq(out, 1, accepted) = kept
         /\ IsChoice(target, (prompt \o Base) \o kept, out[accepted + 1])
    BY DEF RoundEndsWithTarget, Base
<1>4. SubSeq(out, 1, accepted) = kept /\ accepted \in 0 .. Len(out)
    <2>1. CASE out = kept
        BY <1>1, <1>2, <2>1, SubSeqFull
    <2>2. CASE Len(out) = accepted + 1 /\ SubSeq(out, 1, accepted) = kept
        BY <1>1, <2>2
    <2> QED
        BY <1>3, <2>1, <2>2
<1>5. ASSUME n < accepted
      PROVE  /\ n + 1 \in 1 .. accepted
             /\ SubSeq(out, 1, n) = SubSeq(run, 1, n)
             /\ IsChoice(draft, (prompt \o Base) \o SubSeq(run, 1, n), out[n + 1])
    <2>1. /\ n + 1 \in 1 .. accepted /\ n + 1 \in 1 .. Len(run)
          /\ n \in 0 .. accepted /\ (n + 1) - 1 = n
        BY <1>1, <1>5
    <2>2. SubSeq(SubSeq(out, 1, accepted), 1, n) = SubSeq(out, 1, n)
        BY <1>1, <1>4, <2>1, PrefixOfPrefix
    <2>3. SubSeq(SubSeq(run, 1, accepted), 1, n) = SubSeq(run, 1, n)
        BY <1>1, <2>1, PrefixOfPrefix
    <2>4. SubSeq(out, 1, n) = SubSeq(run, 1, n)
        BY <1>4, <2>2, <2>3
    <2>5. out[n + 1] = run[n + 1]
        <3>1. SubSeq(out, 1, accepted)[n + 1] = out[n + 1]
            BY <1>1, <1>4, <2>1, Prefixes
        <3> QED
            BY <1>2, <1>4, <2>1, <3>1
    <2>6. IsChoice(draft, (prompt \o Base) \o SubSeq(run, 1, (n + 1) - 1), run[n + 1])
        BY <2>1 DEF Drafted
    <2> QED
        BY <2>1, <2>4, <2>5, <2>6
<1>6. ASSUME n >= accepted
      PROVE  IsChoice(target, (prompt \o Base) \o SubSeq(out, 1, n), out[n + 1])
    <2>1. out /= kept
        BY <1>1, <1>2, <1>6
    <2>2. Len(out) = accepted + 1 /\ n = accepted
        BY <1>1, <1>3, <1>6, <2>1
    <2> QED
        BY <1>3, <1>4, <2>1, <2>2
<1> QED
    BY <1>5, <1>6

\* The next token of step's, behind what is taken already.
LEMMA TakenFacts ==
    ASSUME IInv, TakeNext
    PROVE  /\ out[taken + 1] \in Token
           /\ taken \in 0 .. Len(out) /\ taken < Len(out)
           /\ taken \in Nat /\ Len(generated) \in Nat /\ taken <= Len(generated)
           /\ Base \in Seq(Token) /\ SubSeq(out, 1, taken) \in Seq(Token)
           /\ generated = Base \o SubSeq(out, 1, taken)
           /\ prompt \o generated = (prompt \o Base) \o SubSeq(out, 1, taken)
           /\ Base' = Base
<1>1. /\ taken \in 0 .. Len(out) /\ taken < Len(out)
      /\ out \in Seq(Token) /\ generated \in Seq(Token) /\ prompt \in Seq(Token)
      /\ Len(generated) \in Nat /\ Len(out) \in Nat
      /\ taken <= Len(generated)
      /\ generated = Base \o SubSeq(out, 1, taken)
      /\ generated' = Append(generated, out[taken + 1])
      /\ taken' = taken + 1
    BY Contexts DEF TakeNext, Wanted, IInv, TypeOK, Shape
<1>2. taken \in Nat /\ taken + 1 \in 1 .. Len(out)
      /\ Len(generated) - taken \in 0 .. Len(generated)
    BY <1>1
<1>3. out[taken + 1] \in Token
    BY <1>1, <1>2, LenProperties
<1>4. Base \in Seq(Token) /\ SubSeq(out, 1, taken) \in Seq(Token)
    BY <1>1, <1>2, Prefixes DEF Base
<1>5. prompt \o generated = (prompt \o Base) \o SubSeq(out, 1, taken)
    <2>1. prompt \in Seq(Token)
        BY <1>1
    <2>2. (prompt \o Base) \o SubSeq(out, 1, taken)
            = prompt \o (Base \o SubSeq(out, 1, taken))
        BY <1>4, <2>1, ConcatAssociative, SMTT(20)
    <2>3. generated = Base \o SubSeq(out, 1, taken)
        BY <1>1
    <2> QED
        BY <2>2, <2>3
<1>6. Base' = Base
    <2>1. Len(generated') = Len(generated) + 1
        BY <1>1, <1>3, AppendProperties
    <2>2. Len(generated') - taken' = Len(generated) - taken
        BY <1>1, <1>2, <2>1
    <2>3. SubSeq(Append(generated, out[taken + 1]), 1, Len(generated) - taken)
            = SubSeq(generated, 1, Len(generated) - taken)
        BY <1>1, <1>2, <1>3, PrefixOfAppend
    <2> QED
        BY <1>1, <2>2, <2>3 DEF Base
<1> QED
    BY <1>1, <1>2, <1>3, <1>4, <1>5, <1>6

\* generate's inner loop appends a token (speculative.rs:187-193).
LEMMA TakeNextStep ==
    ASSUME SpeculativeAssumption, IInv, TypeOK', TakeNext
    PROVE  IInv'
<1> DEFINE tok == out[taken + 1]
           l   == Len(generated)
<1>1. /\ phase = "collect" /\ l < max_new
      /\ generated' = Append(generated, tok)
      /\ taken' = taken + 1
      /\ phase' = IF tok = Eos THEN "ended" ELSE "collect"
      /\ UNCHANGED <<call, models, run, out, accepted, totals>>
    BY DEF TakeNext, Wanted
<1>2. /\ tok \in Token /\ l \in Nat
      /\ taken \in 0 .. Len(out) /\ taken < Len(out)
      /\ taken \in Nat /\ taken <= l
      /\ Base \in Seq(Token) /\ SubSeq(out, 1, taken) \in Seq(Token)
      /\ generated = Base \o SubSeq(out, 1, taken)
      /\ prompt \o generated = (prompt \o Base) \o SubSeq(out, 1, taken)
      /\ Base' = Base
      /\ generated \in Seq(Token) /\ out \in Seq(Token) /\ max_new \in Nat
    BY TakenFacts DEF IInv, TypeOK
<1> HIDE DEF tok
<1>3. /\ Len(generated') = l + 1
      /\ \A i \in 1 .. l : generated'[i] = generated[i]
      /\ generated'[l + 1] = tok
      /\ generated' /= <<>>
    <2>1. generated \in Seq(Token) /\ tok \in Token
        BY <1>2
    <2> QED
        BY <1>1, <2>1, AppendProperties
<1>4. Shape'
    <2>1. taken' <= Len(generated')
        BY <1>1, <1>2, <1>3
    <2>2. generated' = Base' \o SubSeq(out, 1, taken')
        <3>1. SubSeq(out, 1, taken + 1) = Append(SubSeq(out, 1, taken), tok)
            BY <1>2, PrefixExtended DEF tok
        <3>2. Base \o Append(SubSeq(out, 1, taken), tok)
                = Append(Base \o SubSeq(out, 1, taken), tok)
            BY <1>2, ConcatAppend, SMTT(20)
        <3> QED
            BY <1>1, <1>2, <3>1, <3>2
    <2> QED
        BY <1>1, <1>3, <2>1, <2>2 DEF Shape
<1>5. Remembered
    BY <1>1, ModelsRemember
<1>6. Drafted' /\ Verified'
    BY <1>1, <1>2 DEF IInv, Drafted, Verified, IsChoice, call, models
<1>7. EveryTokenFitsItsPrefix'
    <2>1. \/ IsChoice(target, prompt \o generated, tok)
          \/ IsChoice(draft, prompt \o generated, tok)
        <3>1. CASE taken < accepted
            <4>1. /\ SubSeq(out, 1, taken) = SubSeq(run, 1, taken)
                  /\ IsChoice(draft, (prompt \o Base) \o SubSeq(run, 1, taken), tok)
                BY <1>1, <1>2, <3>1, OutParts DEF IInv, tok
            <4> QED
                BY <1>2, <4>1
        <3>2. CASE taken >= accepted
            <4>1. IsChoice(target, (prompt \o Base) \o SubSeq(out, 1, taken), tok)
                BY <1>1, <1>2, <3>2, OutParts DEF IInv, tok
            <4> QED
                BY <1>2, <4>1
        <3>3. accepted \in Nat
            BY DEF IInv, TypeOK
        <3> QED
            BY <1>2, <3>1, <3>2, <3>3
    <2>2. ASSUME NEW i \in 1 .. l + 1
          PROVE  LET prefix == prompt \o SubSeq(generated', 1, i - 1)
                 IN  \/ IsChoice(target, prefix, generated'[i])
                     \/ IsChoice(draft, prefix, generated'[i])
        <3>1. CASE i = l + 1
            <4>1. i - 1 = l /\ SubSeq(generated', 1, l) = generated
                BY <1>1, <1>2, <3>1, PrefixOfAppend
            <4> QED
                BY <1>3, <2>1, <3>1, <4>1
        <3>2. CASE i \in 1 .. l
            <4>1. i - 1 \in 0 .. l /\ i \in DOMAIN generated
                BY <1>2, <3>2, LenProperties
            <4>2. SubSeq(generated', 1, i - 1) = SubSeq(generated, 1, i - 1)
                BY <1>1, <1>2, <4>1, PrefixOfAppend
            <4> QED
                BY <1>3, <3>2, <4>1, <4>2 DEF IInv, EveryTokenFitsItsPrefix
        <3> QED
            BY <1>2, <3>1, <3>2
    <2>3. DOMAIN generated' = 1 .. l + 1
        BY <1>3, LenProperties DEF TypeOK
    <2> QED
        BY <1>1, <2>2, <2>3 DEF EveryTokenFitsItsPrefix, IsChoice, call, models
<1>8. RoundEndsWithTarget'
    <2>1. SubSeq(generated, 1, Len(generated) - taken)'
            = SubSeq(generated, 1, Len(generated) - taken)
        BY <1>2 DEF Base
    <2> QED
        BY <1>1, <2>1 DEF IInv, RoundEndsWithTarget, IsChoice, call, models
<1>9. CutExactly'
    <2>1. Len(generated') <= max_new'
        BY <1>1, <1>2, <1>3 DEF call
    <2>2. ASSUME NEW i \in 1 .. Len(generated') - 1
          PROVE  generated'[i] /= Eos
        <3>1. i \in 1 .. l
            BY <1>2, <1>3
        <3>2. CASE i = l
            <4>1. l \in Nat /\ l /= 0 /\ Len(<<>>) = 0
                BY <1>2, <3>1
            <4>2. generated /= <<>>
                BY <4>1
            <4> QED
                BY <1>1, <1>3, <3>1, <3>2, <4>2 DEF IInv, CutExactly
        <3>3. CASE i \in 1 .. l - 1
            BY <1>3, <3>1, <3>3 DEF IInv, CutExactly
        <3> QED
            BY <1>2, <3>1, <3>2, <3>3
    <2> QED
        BY <1>1, <1>3, <2>1, <2>2 DEF CutExactly
<1> QED
    BY <1>4, <1>6, <1>7, <1>8, <1>9 DEF IInv

\* generate's inner loop is through, or cut by max_new (speculative.rs:187-190).
LEMMA RoundEndsStep ==
    ASSUME SpeculativeAssumption, IInv, TypeOK', RoundEnds
    PROVE  IInv'
<1>1. /\ phase = "collect" /\ phase' = "round" /\ taken' = 0
      /\ UNCHANGED <<call, models, generated, run, out, accepted, totals>>
    BY DEF RoundEnds
<1>2. Shape' /\ Drafted' /\ Verified' /\ RoundEndsWithTarget'
    BY <1>1 DEF Shape, Drafted, Verified, RoundEndsWithTarget
<1>3. EveryTokenFitsItsPrefix'
    BY <1>1, TextKept, ModelsRemember DEF IInv, call
<1>4. CutExactly'
    BY <1>1 DEF IInv, CutExactly, call
<1> QED
    BY <1>2, <1>3, <1>4 DEF IInv

\* The initial state.
LEMMA InitHolds ==
    ASSUME SpeculativeAssumption, Init
    PROVE  IInv
<1>1. /\ prompt = <<>> /\ max_new = 0 /\ draft = <<>> /\ target = <<>>
      /\ generated = <<>> /\ run = <<>> /\ out = <<>> /\ accepted = 0
      /\ taken = 0 /\ total_accepted = 0 /\ total_drafted = 0
      /\ phase = "ready"
      /\ <<>> \in Seq(Token) /\ Len(<<>>) = 0
      /\ Lookahead \in Nat
    BY EmptySeq DEF Init, SpeculativeAssumption
<1>2. TypeOK
    BY <1>1 DEF TypeOK
<1>3. Shape /\ Drafted /\ Verified /\ RoundEndsWithTarget
    BY <1>1 DEF Shape, Drafted, Verified, RoundEndsWithTarget
<1>4. EveryTokenFitsItsPrefix /\ CutExactly
    BY <1>1 DEF EveryTokenFitsItsPrefix, CutExactly
<1> QED
    BY <1>2, <1>3, <1>4 DEF IInv

\* Every step.
LEMMA NextKeeps ==
    ASSUME SpeculativeAssumption, IInv, [Next]_vars
    PROVE  IInv'
<1>1. TypeOK'
    BY TypeStep DEF IInv
<1>2. CASE UNCHANGED vars
    BY <1>1, <1>2
    DEF vars, call, models, totals, IInv, Shape, Drafted, Verified, Base,
        EveryTokenFitsItsPrefix, RoundEndsWithTarget, CutExactly, IsChoice
<1> QED
    BY <1>1, <1>2, GenerateStep, StartRoundStep, ReturnStep, DraftNextStep,
       AcceptStep, TargetEndsStep, TakeNextStep, RoundEndsStep
    DEF Next, Step

\* The inductive invariant holds throughout.
THEOREM Invariant == Spec => []IInv
BY SpeculativeAssumption, InitHolds, NextKeeps, PTL DEF Spec

-----------------------------------------------------------------------------
\* The decoder's state is of its types (speculative.rs:34-44, 178-181).
THEOREM TypeCorrect == Spec => []TypeOK
BY Invariant, PTL DEF IInv

\* No token is verified, resampled or appended in a context other than its
\* own (speculative.rs:129, 139, 165, 191-192).
THEOREM TokensFit == Spec => []EveryTokenFitsItsPrefix
BY Invariant, PTL DEF IInv

\* A round ends with a token of the target, or at eos, and never keeps a
\* rejected proposal (speculative.rs:136-171).
THEOREM RoundsEnd == Spec => []RoundEndsWithTarget
BY Invariant, PTL DEF IInv

\* The text ends exactly at eos or at max_new, wherever in a round that falls
\* (speculative.rs:183, 188-200).
THEOREM TextIsCut == Spec => []CutExactly
BY Invariant, PTL DEF IInv

-----------------------------------------------------------------------------
(* What was asked of the models, and what was counted                      *)

\* Every context the target was asked about is shorter than n.
Behind(n) == \A c \in DOMAIN target : Len(c) < n

\* The target has not been asked yet about anything as long as what comes next,
\* and a round that is followed by another one ended with its token.
Fresh ==
    /\ phase = "ready" => DOMAIN target = {}
    /\ phase \in {"draft", "verify", "collect"} =>
        Behind(Len(prompt) + (Len(generated) - taken) + Len(out))
    /\ phase = "round" /\ Len(generated) < max_new =>
        /\ Behind(Len(prompt) + Len(generated))
        /\ ~(out /= <<>> /\ Len(out) = accepted)

\* The rounds counted so far: while one is verified, not yet this one.
CountedRounds ==
    IF phase = "verify"
    THEN Cardinality(DOMAIN target) - total_accepted - accepted
    ELSE Rounds

\* The drafted tokens that no total has yet.
Uncounted == IF phase \in {"draft", "verify"} THEN Len(run) ELSE 0

Paid ==
    /\ IsFiniteSet(DOMAIN draft) /\ IsFiniteSet(DOMAIN target)
    /\ phase = "verify" => Len(run) > 0
    /\ Cardinality(DOMAIN draft) <= total_drafted + Uncounted
    /\ total_accepted <= total_drafted
    /\ CountedRounds <= total_drafted
    /\ total_drafted <= Lookahead * CountedRounds

\* The numbers of the counts.
LEMMA Numbers ==
    ASSUME SpeculativeAssumption, TypeOK, Paid
    PROVE  /\ Cardinality(DOMAIN draft) \in Nat
           /\ Cardinality(DOMAIN target) \in Nat
           /\ total_accepted \in Nat /\ total_drafted \in Nat /\ accepted \in Nat
           /\ Len(run) \in Nat /\ Len(out) \in Nat /\ Len(generated) \in Nat
           /\ Len(prompt) \in Nat
           /\ taken \in Nat /\ max_new \in Nat /\ Lookahead \in Nat
           /\ accepted <= Len(run) /\ Len(run) <= Lookahead
<1>1. Cardinality(DOMAIN draft) \in Nat /\ Cardinality(DOMAIN target) \in Nat
    BY FS_CardinalityType DEF Paid
<1>2. Len(prompt) \in Nat
    BY LenProperties DEF TypeOK
<1> QED
    BY <1>1, <1>2, Contexts DEF TypeOK, SpeculativeAssumption

\* A question about a new context adds one to the questions of a model.
LEMMA Asked ==
    ASSUME NEW model, NEW c, NEW t, Answers(model, c, t),
           IsFiniteSet(DOMAIN model)
    PROVE  /\ IsFiniteSet(DOMAIN Learned(model, c, t))
           /\ Cardinality(DOMAIN Learned(model, c, t))
                = IF c \in DOMAIN model THEN Cardinality(DOMAIN model)
                  ELSE Cardinality(DOMAIN model) + 1
<1>1. DOMAIN Learned(model, c, t) = DOMAIN model \cup {c}
    BY LearnedFacts
<1> QED
    BY <1>1, FS_AddElement

\* One more round, which drafted at least one token and at most l.
LEMMA OneMoreRound ==
    ASSUME NEW l \in Nat, NEW r \in Int, NEW d \in Nat, NEW n \in 1 .. l,
           r <= d, d <= l * r
    PROVE  r + 1 <= d + n /\ d + n <= l * (r + 1)
<1>1. l * (r + 1) = l * r + l /\ l * r \in Int
    OBVIOUS
<1> QED
    BY <1>1

\* A round that is followed by another one ended with a token of the target:
\* after an accepted eos the text would have ended.
LEMMA RoundGoesOn ==
    ASSUME IInv, phase = "collect", taken = Len(out)
    PROVE  Len(out) = accepted + 1
<1>1. /\ taken \in Nat /\ taken <= Len(generated)
      /\ Len(out) \in Nat /\ Len(generated) \in Nat /\ accepted \in 0 .. Len(run)
      /\ Len(run) \in Nat
      /\ out \in Seq(Token) /\ run \in Seq(Token) /\ generated \in Seq(Token)
      /\ generated = Base \o SubSeq(out, 1, taken)
    BY Contexts DEF IInv, TypeOK, Shape
<1>2. Base \in Seq(Token) /\ Len(Base) = Len(generated) - taken
    <2>1. Len(generated) - taken \in 0 .. Len(generated)
        BY <1>1
    <2> QED
        BY <1>1, <2>1, Prefixes DEF Base
<1>3. generated = Base \o out
    BY <1>1, SubSeqFull
<1>4. ASSUME out = SubSeq(run, 1, accepted), accepted > 0, out[accepted] = Eos
      PROVE  FALSE
    <2>1. Len(out) = accepted /\ accepted \in 1 .. Len(out)
        BY <1>1, <1>4, Prefixes
    <2>2. Len(generated) = Len(Base) + accepted
        <3>1. Len(Base) = Len(generated) - accepted
            BY <1>2, <2>1
        <3>2. accepted \in Nat /\ Len(generated) \in Nat
            BY <1>1
        <3> QED
            BY <3>1, <3>2
    <2>3. generated[Len(generated)] = out[accepted]
        <3>1. \A i \in 1 .. Len(Base) + Len(out) : (Base \o out)[i] =
                IF i <= Len(Base) THEN Base[i] ELSE out[i - Len(Base)]
            <4>1. Base \in Seq(Token) /\ out \in Seq(Token)
                BY <1>1, <1>2
            <4> QED
                BY <4>1, ConcatProperties
        <3>2. /\ Len(Base) + accepted \in 1 .. Len(Base) + Len(out)
              /\ ~(Len(Base) + accepted <= Len(Base))
              /\ (Len(Base) + accepted) - Len(Base) = accepted
            BY <1>1, <1>2, <2>1
        <3> QED
            BY <1>3, <2>2, <3>1, <3>2
    <2>4. generated /= <<>>
        <3>1. Len(generated) /= 0 /\ Len(<<>>) = 0
            BY <1>1, <1>2, <1>4, <2>2
        <3> QED
            BY <3>1
    <2> QED
        BY <1>4, <2>3, <2>4 DEF IInv, CutExactly
<1> QED
    BY <1>4 DEF IInv, RoundEndsWithTarget

\* The target is asked about a context that is new to it, and one shorter than
\* what it may be asked next.
LEMMA AskedAhead ==
    ASSUME SpeculativeAssumption, IInv, Fresh, Paid, phase = "verify",
           NEW answer \in Token, NEW tok \in Token,
           AskTarget(VerifyContext, answer), out' = Append(out, tok),
           UNCHANGED <<prompt, generated, taken>>
    PROVE  /\ IsFiniteSet(DOMAIN target')
           /\ Cardinality(DOMAIN target') = Cardinality(DOMAIN target) + 1
           /\ draft' = draft
           /\ Len(out') = Len(out) + 1
           /\ Behind(Len(prompt) + (Len(generated) - taken) + Len(out))'
<1> DEFINE n == Len(prompt) + (Len(generated) - taken) + Len(out)
<1>1. /\ taken = 0 /\ prompt \in Seq(Token) /\ generated \in Seq(Token)
      /\ out \in Seq(Token)
      /\ Len(prompt) \in Nat /\ Len(generated) \in Nat /\ Len(out) \in Nat
    BY Numbers DEF IInv, Shape, TypeOK
<1>2. Len(VerifyContext) = n /\ n \in Nat
    <2>1. Context \in Seq(Token) /\ Len(Context) = Len(prompt) + Len(generated)
        BY <1>1, ConcatProperties DEF Context
    <2>2. Len(VerifyContext) = Len(Context) + Len(out)
        BY <1>1, <2>1, ConcatProperties DEF VerifyContext
    <2> QED
        BY <1>1, <2>1, <2>2
<1>3. Behind(n)
    BY DEF Fresh
<1>4. VerifyContext \notin DOMAIN target
    BY <1>2, <1>3 DEF Behind
<1>5. Len(out') = Len(out) + 1
    BY <1>1, AppendProperties
<1>6. DOMAIN target' = DOMAIN target \cup {VerifyContext}
    BY LearnedFacts DEF AskTarget
<1>7. \A c \in DOMAIN target : Len(c) \in Nat
    BY LenProperties DEF IInv, TypeOK
<1>8. Behind(Len(prompt) + (Len(generated) - taken) + Len(out))'
    <2>1. Len(prompt') + (Len(generated') - taken') + Len(out') = n + 1
        BY <1>1, <1>5
    <2> HIDE DEF n
    <2>2. \A c \in DOMAIN target' : Len(c) < n + 1
        BY <1>2, <1>3, <1>6, <1>7 DEF Behind
    <2> QED
        BY <2>1, <2>2 DEF Behind
<1> QED
    BY <1>4, <1>5, <1>8, Asked DEF AskTarget, Paid

\* A verified round is counted.
LEMMA RoundCounted ==
    ASSUME SpeculativeAssumption, IInv, Paid, TypeOK', phase = "verify",
           phase' = "collect", Counted, UNCHANGED <<run, draft>>,
           IsFiniteSet(DOMAIN target'), accepted' <= Len(run),
           Rounds' = CountedRounds + 1
    PROVE  Paid'
<1>1. /\ total_accepted \in Nat /\ total_drafted \in Nat /\ accepted \in Nat
      /\ Lookahead \in Nat /\ Len(run) \in 1 .. Lookahead
      /\ Cardinality(DOMAIN target) \in Nat /\ Cardinality(DOMAIN draft) \in Nat
    BY Numbers DEF IInv, Paid
<1>2. PICK k \in Nat : k = accepted'
    BY DEF TypeOK
<1>3. /\ total_accepted' = total_accepted + k
      /\ total_drafted' = total_drafted + Len(run)
      /\ k <= Len(run)
    BY <1>2 DEF Counted
<1>4. PICK r \in Int : r = CountedRounds
    BY <1>1 DEF CountedRounds
<1>5. /\ Cardinality(DOMAIN draft) <= total_drafted + Len(run)
      /\ total_accepted <= total_drafted
      /\ r <= total_drafted /\ total_drafted <= Lookahead * r
    BY <1>4 DEF Paid, Uncounted
<1>6. /\ r + 1 <= total_drafted + Len(run)
      /\ total_drafted + Len(run) <= Lookahead * (r + 1)
    BY <1>1, <1>5, OneMoreRound
<1>7. CountedRounds' = r + 1 /\ Uncounted' = 0
    BY <1>4 DEF CountedRounds, Uncounted
<1>8. total_accepted' <= total_drafted'
    BY <1>1, <1>3, <1>5
<1>9. Cardinality(DOMAIN draft') <= total_drafted' + Uncounted'
    BY <1>1, <1>3, <1>5, <1>7
<1>10. CountedRounds' <= total_drafted' /\ total_drafted' <= Lookahead * CountedRounds'
    BY <1>3, <1>6, <1>7
<1> QED
    BY <1>8, <1>9, <1>10 DEF Paid

\* The steps that count nothing and ask nothing of the target.
LEMMA NothingCounted ==
    ASSUME Paid, UNCHANGED <<models, totals>>, phase \notin {"draft", "verify"},
           phase' \notin {"draft", "verify"}, UNCHANGED <<out, accepted>>
    PROVE  Paid'
BY DEF Paid, models, totals, CountedRounds, Rounds, Uncounted

\* No step disturbs the counts.
LEMMA PaidStep ==
    ASSUME SpeculativeAssumption, IInv, TypeOK', Fresh, Paid, [Next]_vars
    PROVE  Fresh' /\ Paid'
<1>n. /\ Cardinality(DOMAIN draft) \in Nat /\ Cardinality(DOMAIN target) \in Nat
      /\ total_accepted \in Nat /\ total_drafted \in Nat /\ accepted \in Nat
      /\ Len(run) \in Nat /\ Len(out) \in Nat /\ Len(generated) \in Nat
      /\ Len(prompt) \in Nat
      /\ taken \in Nat /\ max_new \in Nat /\ Lookahead \in Nat
      /\ accepted <= Len(run) /\ Len(run) <= Lookahead
    BY Numbers DEF IInv
<1>1. ASSUME NEW p \in Prompts, NEW max \in MaxNews, Generate(p, max)
      PROVE  Fresh' /\ Paid'
    <2>1. Paid'
        BY <1>1, NothingCounted DEF Generate
    <2>2. DOMAIN target = {} /\ target' = target /\ phase' = "round"
          /\ UNCHANGED <<out, accepted, totals>> /\ total_accepted = 0
          /\ total_drafted = 0 /\ phase = "ready"
        BY <1>1 DEF Generate, Fresh, models, IInv, Shape
    <2>3. ~(out /= <<>> /\ Len(out) = accepted)
        <3>1. Cardinality(DOMAIN target) = 0
            BY <2>2, FS_EmptySet
        <3>2. Rounds <= 0
            BY <2>2 DEF Paid, CountedRounds
        <3> QED
            BY <2>2, <3>1, <3>2 DEF Rounds
    <2> QED
        BY <2>1, <2>2, <2>3 DEF Fresh, Behind
<1>2. CASE StartRound
    <2>1. /\ phase = "round" /\ phase' = "draft" /\ Len(generated) < max_new
          /\ run' = <<>> /\ out' = <<>> /\ accepted' = 0
          /\ UNCHANGED <<call, models, generated, taken, totals>> /\ taken = 0
          /\ Len(<<>>) = 0
        BY <1>2 DEF StartRound, IInv, Shape
    <2>2. Behind(Len(prompt) + Len(generated))
          /\ ~(out /= <<>> /\ Len(out) = accepted)
        BY <2>1 DEF Fresh
    <2>3. Len(prompt') + (Len(generated') - taken') + Len(out')
            = Len(prompt) + Len(generated)
        BY <1>n, <2>1 DEF call
    <2>4. Fresh'
        BY <2>1, <2>2, <2>3 DEF Fresh, Behind, models
    <2>5. Rounds' = Rounds
        BY <2>1, <2>2 DEF Rounds, models, totals
    <2> QED
        BY <2>1, <2>4, <2>5 DEF Paid, CountedRounds, Uncounted, models, totals
<1>3. CASE Return
    <2>1. Paid'
        BY <1>3, NothingCounted DEF Return
    <2> QED
        BY <1>3, <2>1 DEF Return, Fresh
<1>4. ASSUME NEW token \in Token, DraftNext(token)
      PROVE  Fresh' /\ Paid'
    <2>1. /\ phase = "draft" /\ phase' \in {"verify", "draft"}
          /\ AskDraft(DraftContext, token)
          /\ run' = Append(run, token)
          /\ UNCHANGED <<call, generated, out, accepted, taken, totals>>
          /\ out = <<>> /\ accepted = 0
        BY <1>4 DEF DraftNext, IInv, Shape
    <2>2. target' = target /\ IsFiniteSet(DOMAIN draft')
          /\ Cardinality(DOMAIN draft') <= Cardinality(DOMAIN draft) + 1
        BY <1>n, <2>1, Asked DEF AskDraft, Paid
    <2>3. Len(run') = Len(run) + 1
        BY <2>1, AppendProperties DEF IInv, TypeOK
    <2>4. Fresh'
        BY <2>1, <2>2 DEF Fresh, Behind, call
    <2>5. CountedRounds' = CountedRounds
        BY <1>n, <2>1, <2>2 DEF CountedRounds, Rounds, totals
    <2>6. Cardinality(DOMAIN draft') <= total_drafted + Len(run')
        <3>1. Cardinality(DOMAIN draft) <= total_drafted + Len(run)
            BY <2>1 DEF Paid, Uncounted
        <3>2. Cardinality(DOMAIN draft') \in Nat
            BY <2>2, FS_CardinalityType
        <3> QED
            BY <1>n, <2>2, <2>3, <3>1, <3>2
    <2> QED
        BY <1>n, <2>1, <2>2, <2>3, <2>4, <2>5, <2>6 DEF Paid, Uncounted, totals
<1>5. ASSUME NEW answer \in Token, Accept(answer)
      PROVE  Fresh' /\ Paid'
    <2>1. /\ phase = "verify" /\ accepted < Len(run)
          /\ AskTarget(VerifyContext, answer)
          /\ out' = Append(out, run[accepted + 1])
          /\ accepted' = accepted + 1
          /\ UNCHANGED <<call, generated, run, taken>>
          /\ \/ phase' = "collect" /\ Counted
             \/ UNCHANGED <<phase, totals>>
        BY <1>5 DEF Accept
    <2>2. run[accepted + 1] \in Token
        <3>1. accepted + 1 \in 1 .. Len(run)
            BY <1>n, <2>1
        <3> QED
            BY <3>1, LenProperties DEF IInv, TypeOK
    <2>3. /\ IsFiniteSet(DOMAIN target')
          /\ Cardinality(DOMAIN target') = Cardinality(DOMAIN target) + 1
          /\ draft' = draft
          /\ Len(out') = Len(out) + 1
          /\ Behind(Len(prompt) + (Len(generated) - taken) + Len(out))'
        BY <2>1, <2>2, AskedAhead DEF call
    <2>4. Fresh'
        BY <2>1, <2>3 DEF Fresh
    <2>5. Len(out') = accepted' /\ out' /= <<>>
        <3>1. Len(out) = accepted
            BY <2>1, Prefixes DEF IInv, Shape, TypeOK
        <3>2. Len(out') /= 0 /\ Len(<<>>) = 0
            BY <1>n, <2>3
        <3> QED
            BY <2>1, <2>3, <3>1, <3>2
    <2>6. CASE UNCHANGED <<phase, totals>>
        <3>1. CountedRounds' = CountedRounds
            <4>1. /\ phase' = "verify" /\ total_accepted' = total_accepted
                  /\ accepted' = accepted + 1
                BY <2>1, <2>6 DEF totals
            <4>2. CountedRounds'
                    = Cardinality(DOMAIN target') - total_accepted' - accepted'
                BY <4>1 DEF CountedRounds
            <4>3. CountedRounds = Cardinality(DOMAIN target) - total_accepted - accepted
                BY <2>1 DEF CountedRounds
            <4>4. (Cardinality(DOMAIN target) + 1) - total_accepted - (accepted + 1)
                    = Cardinality(DOMAIN target) - total_accepted - accepted
                BY <1>n
            <4> QED
                BY <2>3, <4>1, <4>2, <4>3, <4>4
        <3> QED
            BY <2>1, <2>3, <2>4, <2>6, <3>1 DEF Paid, Uncounted, totals
    <2>7. CASE phase' = "collect" /\ Counted
        <3>1. Rounds' = CountedRounds + 1
            <4>1. total_accepted' = total_accepted + (accepted + 1)
                BY <2>1, <2>7 DEF Counted
            <4>2. Rounds' = Cardinality(DOMAIN target) + 1
                                - (total_accepted + (accepted + 1)) + 1
                BY <1>n, <2>3, <2>5, <4>1 DEF Rounds
            <4> QED
                BY <1>n, <2>1, <4>2 DEF CountedRounds
        <3>2. accepted' <= Len(run)
            BY <1>n, <2>1
        <3> QED
            BY <2>1, <2>3, <2>4, <2>7, <3>1, <3>2, RoundCounted
    <2> QED
        BY <2>1, <2>6, <2>7
<1>6. ASSUME NEW answer \in Token, Reject(answer) \/ Bonus(answer)
      PROVE  Fresh' /\ Paid'
    <2>1. /\ phase = "verify" /\ phase' = "collect"
          /\ AskTarget(VerifyContext, answer)
          /\ out' = Append(out, answer)
          /\ UNCHANGED <<call, generated, run, accepted, taken>>
          /\ Counted
        BY <1>6 DEF Reject, Bonus, Resampled
    <2>2. /\ IsFiniteSet(DOMAIN target')
          /\ Cardinality(DOMAIN target') = Cardinality(DOMAIN target) + 1
          /\ draft' = draft
          /\ Len(out') = Len(out) + 1
          /\ Behind(Len(prompt) + (Len(generated) - taken) + Len(out))'
        BY <2>1, AskedAhead DEF call
    <2>3. Fresh'
        BY <2>1, <2>2 DEF Fresh
    <2>4. Len(out') /= accepted'
        <3>1. Len(out) = accepted
            BY <2>1, Prefixes DEF IInv, Shape, TypeOK
        <3> QED
            BY <1>n, <2>1, <2>2, <3>1
    <2>5. Rounds' = CountedRounds + 1
        BY <1>n, <2>1, <2>2, <2>4 DEF Rounds, CountedRounds, Counted
    <2> QED
        BY <1>n, <2>1, <2>2, <2>3, <2>5, RoundCounted
<1>7. CASE TakeNext
    <2>1. /\ phase = "collect" /\ phase' \in {"ended", "collect"}
          /\ UNCHANGED <<call, models, run, out, accepted, totals>>
          /\ Base' = Base
        BY <1>7, TakenFacts DEF TakeNext
    <2>2. Len(generated') - taken' = Len(generated) - taken
        <3>1. generated' = Append(generated, out[taken + 1]) /\ taken' = taken + 1
              /\ out[taken + 1] \in Token
            BY <1>7, TakenFacts DEF TakeNext
        <3>2. Len(generated') = Len(generated) + 1
            BY <3>1, AppendProperties DEF IInv, TypeOK
        <3> QED
            BY <1>n, <3>1, <3>2
    <2>3. Fresh'
        BY <2>1, <2>2 DEF Fresh, Behind, call, models
    <2> QED
        BY <2>1, <2>3, NothingCounted
<1>8. CASE RoundEnds
    <2>1. /\ phase = "collect" /\ phase' = "round" /\ taken' = 0
          /\ taken >= Len(out) \/ Len(generated) >= max_new
          /\ UNCHANGED <<call, models, generated, run, out, accepted, totals>>
        BY <1>8, <1>n DEF RoundEnds, Wanted
    <2>2. ASSUME Len(generated) < max_new
          PROVE  /\ Behind(Len(prompt) + Len(generated))
                 /\ Len(out) /= accepted
        <3>1. taken = Len(out)
            BY <1>n, <2>1, <2>2 DEF IInv, TypeOK
        <3>2. Len(prompt) + (Len(generated) - taken) + Len(out)
                = Len(prompt) + Len(generated)
            BY <1>n, <3>1
        <3>3. Len(out) = accepted + 1
            BY <2>1, <3>1, RoundGoesOn
        <3>4. Len(out) /= accepted
            BY <1>n, <3>3
        <3> QED
            BY <2>1, <3>2, <3>4 DEF Fresh
    <2>3. Fresh'
        BY <2>1, <2>2 DEF Fresh, Behind, call, models
    <2> QED
        BY <2>1, <2>3, NothingCounted
<1>9. CASE UNCHANGED vars
    BY <1>9 DEF vars, call, models, totals, Fresh, Behind, Paid, CountedRounds,
                Rounds, Uncounted
<1> QED
    BY <1>1, <1>2, <1>3, <1>4, <1>5, <1>6, <1>7, <1>8, <1>9 DEF Next, Step

\* The totals of generate count what was asked of the two models, in the round
\* that is cut too (speculative.rs:129-171, 185-186, 203-207).
THEOREM DraftsPaid == Spec => []DraftsArePaidFor
<1>1. Init => Fresh /\ Paid
    <2>1. ASSUME Init
          PROVE  /\ DOMAIN draft = {} /\ DOMAIN target = {} /\ out = <<>>
                 /\ total_accepted = 0 /\ total_drafted = 0 /\ phase = "ready"
        BY <2>1 DEF Init
    <2>2. Lookahead * 0 = 0
        BY SpeculativeAssumption DEF SpeculativeAssumption
    <2> QED
        BY <2>1, <2>2, FS_EmptySet
        DEF Fresh, Paid, CountedRounds, Rounds, Uncounted
<1>2. IInv /\ IInv' /\ Fresh /\ Paid /\ [Next]_vars => Fresh' /\ Paid'
    BY SpeculativeAssumption, PaidStep DEF IInv
<1>3. IInv /\ Paid => DraftsArePaidFor
    <2> SUFFICES ASSUME IInv, Paid, phase \notin {"draft", "verify"}
                 PROVE  /\ Cardinality(DOMAIN draft) <= total_drafted
                        /\ CountedRounds = Rounds
        BY DEF Paid, DraftsArePaidFor
    <2>1. total_drafted \in Nat /\ Uncounted = 0
        BY DEF IInv, TypeOK, Uncounted
    <2> QED
        BY <2>1 DEF Paid, CountedRounds
<1> QED
    BY <1>1, <1>2, <1>3, Invariant, PTL DEF Spec

-----------------------------------------------------------------------------
(* Refinement of greedy decoding                                           *)


\* A call has one request, and its only text is the result so far.
LEMMA CalledFacts ==
    ASSUME phase /= "ready"
    PROVE  /\ DOMAIN Called = {1} /\ DOMAIN Text = {1}
           /\ Called[1] = [prompt |-> prompt, max_new_tokens |-> max_new]
           /\ Text[1] = generated
           /\ Greedy!Context(1) = Context
           /\ Greedy!Open(1) <=>
                /\ Len(generated) < max_new
                /\ generated /= <<>> => generated[Len(generated)] /= Eos
<1>1. /\ DOMAIN Called = {1} /\ DOMAIN Text = {1}
      /\ Called[1] = [prompt |-> prompt, max_new_tokens |-> max_new]
      /\ Text[1] = generated
    BY DEF Called, Text
<1> QED
    BY <1>1 DEF Greedy!Context, Context, Greedy!Open, Greedy!Ended

\* A function on {1} is a sequence of one element.
LEMMA OneElement ==
    ASSUME NEW f, DOMAIN f = {1}, f = [i \in DOMAIN f |-> f[i]]
    PROVE  f = <<f[1]>>
<1>1. <<f[1]>> = [i \in {1} |-> f[1]]
    OBVIOUS
<1> QED
    BY <1>1

\* Calling generate is the submission of its one request.
LEMMA SubmitMaps ==
    ASSUME IInv, NEW p \in Prompts, NEW max \in MaxNews, Generate(p, max)
    PROVE  Greedy!Submit(1, p, max)
<1>1. /\ phase = "ready" /\ phase' = "round" /\ prompt' = p /\ max_new' = max
      /\ generated = <<>> /\ generated' = <<>> /\ target' = target
    BY DEF Generate, IInv, Shape, models
<1>2. /\ Called = <<>> /\ Text = <<>> /\ DOMAIN <<>> = {}
      /\ Called' = <<[prompt |-> p, max_new_tokens |-> max]>>
      /\ Text' = << <<>> >>
    BY <1>1 DEF Called, Text
<1>3. [t \in {1} |-> [prompt |-> p, max_new_tokens |-> max]]
        = <<[prompt |-> p, max_new_tokens |-> max]>>
    OBVIOUS
<1>4. [t \in {1} |-> <<>>] = << <<>> >>
    OBVIOUS
<1>5. DOMAIN Called \cup {1} = {1} /\ 1 \notin DOMAIN Called
    BY <1>2
<1>6. Called' = [t \in DOMAIN Called \cup {1} |->
                    IF t = 1 THEN [prompt |-> p, max_new_tokens |-> max]
                             ELSE Called[t]]
    BY <1>2, <1>3, <1>5
<1>7. Text' = [t \in DOMAIN Called \cup {1} |-> IF t = 1 THEN <<>> ELSE Text[t]]
    BY <1>2, <1>4, <1>5
<1> QED
    BY <1>1, <1>5, <1>6, <1>7 DEF Greedy!Submit

\* Models are asked, and the caller sees nothing of it.
LEMMA AskMaps ==
    ASSUME IInv, TypeOK', phase \notin {"ready", "returned"},
           phase' \notin {"ready", "returned"}, Remembered,
           UNCHANGED <<call, generated>>
    PROVE  Greedy!Ask
<1>1. Called' = Called /\ Text' = Text
    BY DEF Called, Text, call
<1>2. \A c \in DOMAIN target : target'[c] = target[c]
    BY DEF Remembered, IsChoice
<1>3. \A c \in DOMAIN target' : target'[c] \in Token
    BY DEF TypeOK
<1>4. DOMAIN target \subseteq DOMAIN target'
    BY DEF Remembered
<1> QED
    BY <1>1, <1>2, <1>3, <1>4 DEF Greedy!Ask

\* Taking a token hands the request its next greedy token: the target's own, or
\* the draft's at a context the target was asked about, where the two agree.
LEMMA DecodeMaps ==
    ASSUME IInv, ModelsAgree', TakeNext
    PROVE  Greedy!Decode({1})
<1> DEFINE tok == out[taken + 1]
<1>1. /\ phase = "collect" /\ phase' \in {"collect", "ended"}
      /\ Len(generated) < max_new
      /\ generated' = Append(generated, tok)
      /\ UNCHANGED <<call, models>>
    BY DEF TakeNext, Wanted
<1>2. /\ taken \in 0 .. Len(out) /\ taken < Len(out) /\ taken \in Nat
      /\ Context = (prompt \o Base) \o SubSeq(out, 1, taken)
      /\ accepted \in Nat
    <2>1. accepted \in Nat
        BY DEF IInv, TypeOK
    <2> QED
        BY <2>1, TakenFacts DEF Context
<1>3. Greedy!Open(1)
    BY <1>1, CalledFacts DEF IInv, CutExactly
<1>4. IsChoice(target, Context, tok)
    <2>1. CASE taken < accepted
        <3>1. /\ taken + 1 \in 1 .. accepted
              /\ SubSeq(out, 1, taken) = SubSeq(run, 1, taken)
              /\ IsChoice(draft, (prompt \o Base) \o SubSeq(run, 1, taken), tok)
            BY <1>1, <1>2, <2>1, OutParts DEF IInv
        <3>2. (prompt \o Base) \o SubSeq(run, 1, (taken + 1) - 1) \in DOMAIN target
            BY <1>1, <3>1 DEF IInv, Verified
        <3>3. (taken + 1) - 1 = taken
            BY <1>2
        <3>4. Context \in DOMAIN target /\ IsChoice(draft, Context, tok)
            BY <1>2, <3>1, <3>2, <3>3
        <3>5. ModelsAgree
            BY <1>1 DEF ModelsAgree, models
        <3> QED
            BY <3>4, <3>5 DEF ModelsAgree, IsChoice
    <2>2. CASE taken >= accepted
        BY <1>1, <1>2, <2>2, OutParts DEF IInv
    <2> QED
        BY <1>2, <2>1, <2>2
<1>5. Greedy!Context(1) \in DOMAIN target /\ target[Greedy!Context(1)] = tok
    BY <1>1, <1>4, CalledFacts DEF IsChoice
<1>6. Text' = [s \in DOMAIN Text |-> IF s \in {1}
                    THEN Append(Text[s], target[Greedy!Context(s)]) ELSE Text[s]]
    <2>1. Text' = <<Append(generated, tok)>>
        BY <1>1 DEF Text
    <2>2. DOMAIN Text = {1} /\ Text[1] = generated
        BY <1>1, CalledFacts
    <2> DEFINE f == [s \in DOMAIN Text |-> IF s \in {1}
                        THEN Append(Text[s], target[Greedy!Context(s)]) ELSE Text[s]]
    <2>3. DOMAIN f = {1} /\ f[1] = Append(generated, tok)
        BY <1>5, <2>2
    <2>4. f = [i \in DOMAIN f |-> f[i]]
        OBVIOUS
    <2> HIDE DEF f
    <2>5. f = <<Append(generated, tok)>>
        BY <2>3, <2>4, OneElement
    <2> QED
        BY <2>1, <2>5 DEF f
<1>7. UNCHANGED <<Called, target>> /\ UNCHANGED (phase = "returned")
    BY <1>1 DEF Called, call, models
<1> QED
    BY <1>3, <1>5, <1>6, <1>7 DEF Greedy!Decode

\* generate returns when its request is closed.
LEMMA FinishMaps ==
    ASSUME IInv, Return
    PROVE  Greedy!Finish
<1>1. /\ (phase = "round" /\ Len(generated) >= max_new) \/ phase = "ended"
      /\ phase' = "returned"
      /\ UNCHANGED <<call, models, generated>>
    BY DEF Return
<1>2. ~Greedy!Open(1) /\ DOMAIN Called = {1}
    <2>1. Len(generated) \in Nat /\ max_new \in Nat
        BY Contexts DEF IInv, TypeOK
    <2> QED
        BY <1>1, <2>1, CalledFacts DEF IInv, Shape
<1>3. UNCHANGED <<Called, Text, target>>
    BY <1>1 DEF Called, Text, call, models
<1> QED
    BY <1>1, <1>2, <1>3 DEF Greedy!Finish

\* Every step is a step of greedy decoding, or the caller sees none.
LEMMA StepMaps ==
    ASSUME IInv, TypeOK', [Next]_vars, ModelsAgree'
    PROVE  [Greedy!Next]_(Greedy!vars)
<1>1. ASSUME UNCHANGED <<call, generated, target>>, phase /= "ready",
             phase' /= "ready", phase /= "returned", phase' /= "returned"
      PROVE  UNCHANGED Greedy!vars
    BY <1>1 DEF Greedy!vars, Called, Text, call
<1>2. ASSUME NEW p \in Prompts, NEW max \in MaxNews, Generate(p, max)
      PROVE  Greedy!Next
    BY <1>2, SubmitMaps DEF Greedy!Next
<1>3. CASE StartRound
    BY <1>1, <1>3 DEF StartRound, models
<1>4. CASE Return
    BY <1>4, FinishMaps DEF Greedy!Next
<1>5. ASSUME NEW token \in Token, DraftNext(token)
      PROVE  UNCHANGED Greedy!vars
    BY <1>1, <1>5 DEF DraftNext, AskDraft
<1>6. ASSUME NEW answer \in Token,
             Accept(answer) \/ Reject(answer) \/ Bonus(answer)
      PROVE  Greedy!Next
    <2>1. /\ AskTarget(VerifyContext, answer)
          /\ UNCHANGED <<call, generated>>
          /\ phase = "verify" /\ phase' \in {"verify", "collect"}
        BY <1>6 DEF Accept, Reject, Bonus
    <2>2. Remembered
        BY <2>1, ModelsRemember
    <2> QED
        BY <2>1, <2>2, AskMaps DEF Greedy!Next
<1>7. CASE TakeNext
    <2>1. {1} \in SUBSET DOMAIN Called
        <3>1. phase = "collect"
            BY <1>7 DEF TakeNext
        <3> QED
            BY <3>1, CalledFacts
    <2> QED
        BY <1>7, <2>1, DecodeMaps DEF Greedy!Next
<1>8. CASE RoundEnds
    BY <1>1, <1>8 DEF RoundEnds, models
<1>9. CASE UNCHANGED vars
    BY <1>9 DEF vars, models, call, Greedy!vars, Called, Text
<1> QED
    BY <1>2, <1>3, <1>4, <1>5, <1>6, <1>7, <1>8, <1>9 DEF Next, Step

\* As long as the two models have given the same answers, generate decodes the
\* prompt greedily with the target (speculative.rs:238-260).
THEOREM Implements == Spec => ImplementsTargetDecode
<1>1. Init => Greedy!Init
    BY DEF Init, Greedy!Init, Called, Text
<1>2. IInv /\ IInv' /\ [Next]_vars =>
        [ModelsAgree' => [Greedy!Next]_(Greedy!vars)]_vars
    BY StepMaps DEF IInv
<1> QED
    BY <1>1, <1>2, Invariant, PTL DEF Spec, ImplementsTargetDecode
=============================================================================
