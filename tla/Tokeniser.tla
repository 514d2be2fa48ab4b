----------------------------- MODULE Tokeniser -----------------------------
(***************************************************************************)
(* The byte-level tokeniser of src/tokeniser.rs.  A byte is a number, a    *)
(* character the sequence of the bytes that encode it, and a text a        *)
(* sequence of characters.  What UTF-8 says of a byte is a parameter: a    *)
(* byte may start a character with some number of bytes to follow,         *)
(* continue one, or do neither.  Faults are as in KVCache.                 *)
(***************************************************************************)
EXTENDS Integers, SequencesExt

CONSTANTS
    NumBytes,       \* byte values, 256 in the code
    Following,      \* partial function: how many bytes follow a first byte
    Continuation,   \* the bytes that may follow
    Replacement     \* U+FFFD, which stands for what is not UTF-8

Byte == 0 .. NumBytes - 1

ASSUME TokeniserAssumption ==
    /\ NumBytes \in Nat
    /\ DOMAIN Following \subseteq Byte
    /\ \A b \in DOMAIN Following : Following[b] \in Nat
    /\ Continuation \subseteq Byte \ DOMAIN Following

EosToken == 0

\* A character is a first byte and the bytes that follow it.
IsCharacter(bytes) ==
    /\ bytes \in Seq(Byte)
    /\ bytes /= <<>>
    /\ bytes[1] \in DOMAIN Following
    /\ Len(bytes) = 1 + Following[bytes[1]]
    /\ \A i \in 2 .. Len(bytes) : bytes[i] \in Continuation

\* A String is UTF-8 throughout.
IsText(text) ==
    /\ text \in Seq(Seq(Byte))
    /\ \A i \in DOMAIN text : IsCharacter(text[i])

-----------------------------------------------------------------------------
(* String::from_utf8_lossy, fed one byte at a time: the text so far, and   *)
(* the bytes of a character that is not complete yet.                      *)

Closed(text, bytes) ==
    IF Len(bytes) = 1 + Following[bytes[1]]
    THEN [text |-> Append(text, bytes), pending |-> <<>>]
    ELSE [text |-> text, pending |-> bytes]

\* An incomplete character is replaced as a whole.
Flushed(state) ==
    IF state.pending = <<>> THEN state.text ELSE Append(state.text, Replacement)

Started(text, b) ==
    IF b \in DOMAIN Following
    THEN Closed(text, <<b>>)
    ELSE [text |-> Append(text, Replacement), pending |-> <<>>]

Fed(state, b) ==
    IF state.pending /= <<>> /\ b \in Continuation
    THEN Closed(state.text, Append(state.pending, b))
    ELSE Started(Flushed(state), b)

FromUtf8Lossy(bytes) ==
    LET fed[n \in 0 .. Len(bytes)] ==
            IF n = 0
            THEN [text |-> <<>>, pending |-> <<>>]
            ELSE Fed(fed[n - 1], bytes[n])
    IN  Flushed(fed[Len(bytes)])

-----------------------------------------------------------------------------
\* Fault: the bytes are not moved out of the way of eos.
EncodeUnshifted(text) == FlattenSeq(text)

Encode(text) ==
    LET bytes == FlattenSeq(text)
    IN  [i \in DOMAIN bytes |-> bytes[i] + 1]

IsByteToken(t) == t \in 1 .. NumBytes

\* Eos and ids out of the range of bytes are left out.
Decode(tokens) ==
    LET bytes[n \in 0 .. Len(tokens)] ==
            IF n = 0
            THEN <<>>
            ELSE IF IsByteToken(tokens[n])
                 THEN Append(bytes[n - 1], tokens[n] - 1)
                 ELSE bytes[n - 1]
    IN  FromUtf8Lossy(bytes[Len(tokens)])

\* Fault: eos is taken for the first byte.
DecodeOneWithEos(t) ==
    IF t \in 0 .. NumBytes THEN FromUtf8Lossy(<<Max({0, t - 1})>>) ELSE <<>>

DecodeOne(t) == IF IsByteToken(t) THEN FromUtf8Lossy(<<t - 1>>) ELSE <<>>
=============================================================================
