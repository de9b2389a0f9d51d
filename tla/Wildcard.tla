------------------------------ MODULE Wildcard ------------------------------
(***************************************************************************)
(* wildcard_match of src/src/kmod.rs, and what it is to mean.  Patterns    *)
(* and inputs are sequences of characters.                                 *)
(***************************************************************************)
EXTENDS Integers, Sequences

\* Mistake: a star stands for at least one character.
MatchFromSome(pattern, input, i, rest) ==
    [j \in 1 .. Len(input) + 1 |->
        IF i > Len(pattern) THEN j > Len(input)
        ELSE IF pattern[i] = "*"
             THEN \E k \in j + 1 .. Len(input) + 1 : rest[k]
             ELSE /\ j <= Len(input)
                  /\ pattern[i] \in {"?", input[j]}
                  /\ rest[j + 1]]

\* Whether the pattern from its i-th character on matches the input from its
\* j-th on, where rest says so of the pattern from its next character on.
MatchFrom(pattern, input, i, rest) ==
    [j \in 1 .. Len(input) + 1 |->
        IF i > Len(pattern) THEN j > Len(input)
        ELSE IF pattern[i] = "*"
             THEN i = Len(pattern) \/ \E k \in j .. Len(input) + 1 : rest[k]
             ELSE /\ j <= Len(input)
                  /\ pattern[i] \in {"?", input[j]}
                  /\ rest[j + 1]]

WildcardMatch(pattern, input) ==
    LET match[i \in 1 .. Len(pattern) + 1] == MatchFrom(pattern, input, i, match[i + 1])
    IN  match[1][1]

\* The piece that the i-th character of the pattern stands for: any piece for a
\* star, one character for a question mark, and that very one for any other.
Piece(pattern, input, cut, i) ==
    \/ pattern[i] = "*" /\ cut[i - 1] <= cut[i]
    \/ cut[i] = cut[i - 1] + 1 /\ pattern[i] \in {"?", input[cut[i]]}

\* A pattern matches an input that falls into one piece for each character of
\* the pattern.
Matches(pattern, input) ==
    \E cut \in [0 .. Len(pattern) -> 0 .. Len(input)] :
        /\ cut[0] = 0 /\ cut[Len(pattern)] = Len(input)
        /\ \A i \in 1 .. Len(pattern) : Piece(pattern, input, cut, i)
=============================================================================
