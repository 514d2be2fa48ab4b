------------------------------ MODULE MCServer ------------------------------
(***************************************************************************)
(* Values of the server's constants for model checking: four bytes, one of *)
(* each class.  Byte 0 is ASCII, 1 starts a character of two bytes, 2      *)
(* continues one, 3 occurs in no text.  The vocabulary has eos and one id  *)
(* more than these.                                                        *)
(***************************************************************************)
EXTENDS Server

MCFollowing == 0 :> 0 @@ 1 :> 1
MCContinuation == {2}

MCToken == 0 .. Vocab - 1

A == <<0>>
E == <<1, 2>>

\* Prompts of 3, 5 and 7 tokens.  In a cache of 6 slots, with limits up to 3 and
\* a loop of 2 iterations, the loop or eos cuts the first, the second outgrows
\* the cache, and the third never fits.
MCTexts == {<<A, E>>, <<E, A, E>>, <<E, E, E, A>>}

MCPrompts == {Encode(text) : text \in MCTexts}
=============================================================================
