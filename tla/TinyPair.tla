------------------------------ MODULE TinyPair ------------------------------
(***************************************************************************)
(* Speculative decoding over the pair of models the repository has for it, *)
(* as the benchmark's run_speculative pairs them: a target built by        *)
(* TinyTransformer::new and a draft built by TinyTransformer::draft with   *)
(* the same eos.  Both hash a context alike, and the draft predicts        *)
(* something else where 4 divides the hash.                                *)
(***************************************************************************)
EXTENDS Speculative, TinyTransformer

CONSTANT Hashes     \* bound: the hashes of contexts that are tried

TargetModel == WithEos(New, Eos)

DraftModel == WithEos(Draft, Eos)

\* Each context has one hash, from which both models answer.
OneHashPerContext ==
    \A c \in DOMAIN draft' \cup DOMAIN target' : \E hash \in Hashes :
        /\ c \in DOMAIN draft' =>
            draft'[c] = Argmax(ForwardPass(DraftModel, c, hash))
        /\ c \in DOMAIN target' =>
            target'[c] = Argmax(ForwardPass(TargetModel, c, hash))

PairSpec == Init /\ [][Next /\ OneHashPerContext]_vars
=============================================================================
