---------------------------- MODULE Speculative ----------------------------
(***************************************************************************)
(* The speculative decoder of src/speculative.rs: one call of generate().  *)
(* Each round drafts a run greedily with the draft model, verifies it with *)
(* the target model one position at a time, and appends what survives.     *)
(*                                                                         *)
(* A model is any pure function from contexts to their argmax: `draft` and *)
(* `target` are the parts of the two functions asked for so far.  Whether  *)
(* a proposal passes the acceptance test depends on two probabilities and  *)
(* a hash; every outcome is possible on every context (equal models accept *)
(* unless the draw rounds to 1.0), and no context is verified twice.       *)
(* Faults are as in KVCache.                                               *)
(***************************************************************************)
EXTENDS Integers, Sequences, FiniteSets

CONSTANTS
    Token,
    Eos,            \* target.eos_token()
    DraftEos,       \* draft.eos_token(); the constructor compares vocabularies
                    \* only
    Lookahead,
    Prompts,        \* the prompts generate is called with
    MaxNews         \* the values of max_new it is called with

ASSUME SpeculativeAssumption ==
    /\ Eos \in Token
    /\ DraftEos \in Token
    /\ Lookahead \in Nat \ {0}
    /\ Prompts \subseteq Seq(Token)
    /\ MaxNews \subseteq Nat

VARIABLES
    prompt, max_new,    \* the arguments of generate
    draft, target,      \* partial functions: contexts to tokens
    generated,          \* generate's result; its ctx is prompt \o generated
    run,                \* the tokens of draft_run
    out,                \* step's tokens
    accepted,           \* step's count
    taken,              \* tokens of out that generate's inner loop has passed
    total_accepted, total_drafted,
    phase               \* "ready", "round" (the loop's head), "draft",
                        \* "verify", "collect", "ended" (eos), "returned"

models == <<draft, target>>
call == <<prompt, max_new>>
totals == <<total_accepted, total_drafted>>
vars == <<call, models, generated, run, out, accepted, taken, totals, phase>>

\* The context generate hands to step.
Context == prompt \o generated

\* The context draft_run hands to the draft model.
DraftContext == Context \o run

\* Fault: an accepted token does not extend the context of verification.
VerifyContextStale == Context

\* The context step hands to the target model, until its last token.
VerifyContext == Context \o out

\* A model answers the same context with the same token.
Answers(model, context, token) ==
    context \in DOMAIN model => token = model[context]

Learned(model, context, token) ==
    [c \in DOMAIN model \cup {context} |-> IF c = context THEN token ELSE model[c]]

AskDraft(context, token) ==
    /\ Answers(draft, context, token)
    /\ draft' = Learned(draft, context, token)
    /\ UNCHANGED target

AskTarget(context, token) ==
    /\ Answers(target, context, token)
    /\ target' = Learned(target, context, token)
    /\ UNCHANGED draft

-----------------------------------------------------------------------------
Init ==
    /\ prompt = <<>>
    /\ max_new = 0
    /\ draft = <<>>
    /\ target = <<>>
    /\ generated = <<>>
    /\ run = <<>>
    /\ out = <<>>
    /\ accepted = 0
    /\ taken = 0
    /\ total_accepted = 0
    /\ total_drafted = 0
    /\ phase = "ready"

Generate(p, max) ==
    /\ phase = "ready"
    /\ prompt' = p
    /\ max_new' = max
    /\ phase' = "round"
    /\ UNCHANGED <<models, generated, run, out, accepted, taken, totals>>

\* The head of generate's loop: step, or return; eos returns at once.
StartRound ==
    /\ phase = "round"
    /\ Len(generated) < max_new
    /\ run' = <<>>
    /\ out' = <<>>
    /\ accepted' = 0
    /\ phase' = "draft"
    /\ UNCHANGED <<call, models, generated, taken, totals>>

Return ==
    /\ \/ phase = "round" /\ Len(generated) >= max_new
       \/ phase = "ended"
    /\ phase' = "returned"
    /\ UNCHANGED <<call, models, generated, run, out, accepted, taken, totals>>

-----------------------------------------------------------------------------
(* step *)

\* Fault: one token too many is drafted.
DraftEndsLate(token, length) == length > Lookahead \/ token = DraftEos

DraftEnds(token, length) == length = Lookahead \/ token = DraftEos

DraftNext(token) ==
    /\ phase = "draft"
    /\ AskDraft(DraftContext, token)
    /\ run' = Append(run, token)
    /\ phase' = IF DraftEnds(token, Len(run')) THEN "verify" ELSE "draft"
    /\ UNCHANGED <<call, generated, out, accepted, taken, totals>>

\* Fault: of the drafted tokens only the accepted ones are counted.
CountedAccepted ==
    /\ total_accepted' = total_accepted + accepted'
    /\ total_drafted' = total_drafted + accepted'

\* step returns and generate adds up its counts.
Counted ==
    /\ total_accepted' = total_accepted + accepted'
    /\ total_drafted' = total_drafted + Len(run)

\* `answer` is the target's argmax at this position, whether it is the
\* proposal or not.
Accept(answer) ==
    LET tok == run[accepted + 1]
    IN  /\ phase = "verify"
        /\ accepted < Len(run)
        /\ AskTarget(VerifyContext, answer)
        /\ out' = Append(out, tok)
        /\ accepted' = accepted + 1
        /\ IF tok = Eos
           THEN phase' = "collect" /\ Counted
           ELSE UNCHANGED <<phase, totals>>
        /\ UNCHANGED <<call, generated, run, taken>>

\* Fault: the draft's token is kept although it was rejected.
ResampledFromDraft(answer) == run[accepted + 1]

\* What a rejected proposal is replaced with.
Resampled(answer) == answer

\* Fault: a rejection throws the whole round away.
RejectReturnsNothing(answer) ==
    /\ phase = "verify"
    /\ accepted < Len(run)
    /\ AskTarget(VerifyContext, answer)
    /\ out' = <<>>
    /\ accepted' = 0
    /\ phase' = "collect"
    /\ UNCHANGED <<call, generated, run, taken, totals>>

Reject(answer) ==
    /\ phase = "verify"
    /\ accepted < Len(run)
    /\ AskTarget(VerifyContext, answer)
    /\ out' = Append(out, Resampled(answer))
    /\ phase' = "collect"
    /\ UNCHANGED <<call, generated, run, accepted, taken>>
    /\ Counted

Bonus(answer) ==
    /\ phase = "verify"
    /\ accepted = Len(run)
    /\ AskTarget(VerifyContext, answer)
    /\ out' = Append(out, answer)
    /\ phase' = "collect"
    /\ UNCHANGED <<call, generated, run, accepted, taken>>
    /\ Counted

-----------------------------------------------------------------------------
(* generate's inner loop *)

\* Fault: the limit is looked at between rounds only.
WantedToEnd == taken < Len(out)

Wanted == taken < Len(out) /\ Len(generated) < max_new

TakeNext ==
    LET tok == out[taken + 1]
    IN  /\ phase = "collect"
        /\ Wanted
        /\ generated' = Append(generated, tok)
        /\ taken' = taken + 1
        /\ phase' = IF tok = Eos THEN "ended" ELSE "collect"
        /\ UNCHANGED <<call, models, run, out, accepted, totals>>

RoundEnds ==
    /\ phase = "collect"
    /\ ~Wanted
    /\ taken' = 0
    /\ phase' = "round"
    /\ UNCHANGED <<call, models, generated, run, out, accepted, totals>>

-----------------------------------------------------------------------------
Step ==
    \/ StartRound
    \/ Return
    \/ \E token \in Token : DraftNext(token)
    \/ \E answer \in Token : Accept(answer) \/ Reject(answer) \/ Bonus(answer)
    \/ TakeNext
    \/ RoundEnds

Next ==
    \/ \E p \in Prompts, max \in MaxNews : Generate(p, max)
    \/ Step

Spec == Init /\ [][Next]_vars

\* generate is synchronous code: once called it runs until it returns.
FairSpec == Spec /\ WF_vars(Step)

-----------------------------------------------------------------------------
(* Properties *)

\* Types of the decoder's state (speculative.rs:34-44, 178-181).
TypeOK ==
    /\ prompt \in Seq(Token)
    /\ max_new \in Nat
    /\ \A model \in {draft, target} : \A context \in DOMAIN model :
        context \in Seq(Token) /\ model[context] \in Token
    /\ generated \in Seq(Token)
    /\ run \in Seq(Token) /\ Len(run) <= Lookahead
    /\ out \in Seq(Token)
    /\ accepted \in 0 .. Len(run)
    /\ taken \in 0 .. Len(out)
    /\ total_accepted \in Nat
    /\ total_drafted \in Nat
    /\ phase \in {"ready", "round", "draft", "verify", "collect", "ended",
                 "returned"}

IsChoice(model, context, token) ==
    context \in DOMAIN model /\ token = model[context]

\* Every token of the text is what one of the two models predicts for exactly
\* the text before it, however the rounds that produced it were cut: no token
\* is verified, resampled or appended in a context other than its own
\* (speculative.rs:129, 139, 165, 191-192).
EveryTokenFitsItsPrefix ==
    \A i \in DOMAIN generated :
        LET prefix == prompt \o SubSeq(generated, 1, i - 1)
        IN  \/ IsChoice(target, prefix, generated[i])
            \/ IsChoice(draft, prefix, generated[i])

\* What step returns is the accepted part of the draft followed by the
\* target's own token, which is missing only where the text has ended: a
\* rejected proposal never gets out (speculative.rs:111-113, 136-171).
RoundEndsWithTarget ==
    phase = "collect" =>
        LET context == prompt \o SubSeq(generated, 1, Len(generated) - taken)
            kept    == SubSeq(run, 1, accepted)
        IN  \/ /\ out = kept
               /\ accepted > 0
               /\ out[accepted] = Eos
            \/ /\ Len(out) = accepted + 1
               /\ SubSeq(out, 1, accepted) = kept
               /\ IsChoice(target, context \o kept, out[accepted + 1])

\* The text is cut exactly where it has to be, wherever in a round that falls:
\* never beyond max_new, never beyond eos, and it is returned only then
\* (speculative.rs:183, 188-200).
CutExactly ==
    /\ Len(generated) <= max_new
    /\ \A i \in 1 .. Len(generated) - 1 : generated[i] /= Eos
    /\ phase \notin {"ended", "returned"} =>
        (generated /= <<>> => generated[Len(generated)] /= Eos)
    /\ phase = "returned" =>
        \/ Len(generated) = max_new
        \/ generated /= <<>> /\ generated[Len(generated)] = Eos

\* The rounds that step has ended: the target is asked once for each accepted
\* proposal, and once more in a round unless an accepted eos ends it.
Rounds ==
    Cardinality(DOMAIN target) - total_accepted
        + IF out /= <<>> /\ Len(out) = accepted THEN 1 ELSE 0

\* The two totals count what was really asked of the models, in every round
\* and in the one that max_new or eos cuts: each context the draft was asked
\* about is a drafted token, no more is accepted than was drafted, and a round
\* drafts between one token and Lookahead of them (speculative.rs:129-171,
\* 185-186, 203-207).
DraftsArePaidFor ==
    phase \notin {"draft", "verify"} =>
        /\ Cardinality(DOMAIN draft) <= total_drafted
        /\ total_accepted <= total_drafted
        /\ Rounds <= total_drafted
        /\ total_drafted <= Lookahead * Rounds

\* generate returns, whatever is accepted: a round always adds a token
\* (speculative.rs:36-37, 183).
GenerateReturns == phase = "round" ~> phase = "returned"

\* The caller's one request, and the text it has got so far.
Called == IF phase = "ready" THEN <<>>
          ELSE <<[prompt |-> prompt, max_new_tokens |-> max_new]>>

Text == IF phase = "ready" THEN <<>> ELSE <<generated>>

Greedy == INSTANCE GreedyDecode WITH
    RequestIds <- {1},
    requests   <- Called,
    text       <- Text,
    model      <- target,
    done       <- phase = "returned"

\* The two models have given the same answers so far.
ModelsAgree == \A c \in DOMAIN draft \cap DOMAIN target : draft[c] = target[c]

\* Speculation is exact as long as the two models agree on the contexts both
\* were asked about, whatever the acceptance test decides and wherever rounds
\* are cut: every step of generate is then a step of the target's own greedy
\* decoding of the prompt, and it returns only at its end ("speculation must
\* be exact", speculative.rs:238-260).
ImplementsTargetDecode ==
    /\ Greedy!Init
    /\ [][ModelsAgree' => [Greedy!Next]_(Greedy!vars)]_vars

-----------------------------------------------------------------------------
\* "The output is provably identical to plain target decoding" (README.md:60):
\* every token is the target's greedy choice, whatever the draft.
IdenticalToTarget ==
    \A i \in DOMAIN generated :
        IsChoice(target, prompt \o SubSeq(generated, 1, i - 1), generated[i])
=============================================================================
