---------------------------- MODULE MCLifecycle -----------------------------
(***************************************************************************)
(* The driver of the interfaces, a module with two dependencies of which   *)
(* one needs the other, and what the kernel asks for by an alias.          *)
(***************************************************************************)
EXTENDS Lifecycle

CONSTANTS net, masq, nat, track

MCModules == {net, masq, nat, track}
MCNeeds == [m \in MCModules |->
               CASE m = masq -> {nat, track}
                 [] m = nat -> {track}
                 [] OTHER -> {}]
MCRequired == <<net, masq, nat>>

\* From the special to the general, so that many lines have their turn.
MCAliases == {<<"e", "m">>}
MCAliasLines ==
    <<[pattern |-> <<>>, module |-> net],
      [pattern |-> <<"m", "*", "m", "?">>, module |-> track],
      [pattern |-> <<"e", "m", "*">>, module |-> masq],
      [pattern |-> <<"*", "e", "*", "*", "m">>, module |-> track],
      [pattern |-> <<"*">>, module |-> nat]>>

\* All names of up to four characters, for every edge of wildcard_match: empty
\* patterns and inputs, a star at either end, a star for nothing, two stars, and
\* a star that takes too much or too little at first.
MCStrings == UNION {[1 .. n -> {"e", "m"}] : n \in 0 .. 4}
=============================================================================
