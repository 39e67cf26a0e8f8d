---------------------------- MODULE MCDocuments -----------------------------
(***************************************************************************)
(* Documents on a small instance: names of one or two characters, Int up   *)
(* to 7, LargestInt up to 31, doubles of four bits up to 480.  Texts from  *)
(* elsewhere are made of the tokens below; layer lists have one code point *)
(* of each length in UTF-8 and those at the ends of the ranges.            *)
(***************************************************************************)
EXTENDS Documents

nameT == <<116>>
nameA == <<97>>
nameB == <<98>>

MCTokens ==
    {Punctuation(c) : c \in {"{", "}", "[", "]", ":", ",", "comment", "error"}}
        \cup {StringToken(name) : name \in {nameT, nameA, <<>>}}
        \cup {Null,
              [type |-> "number", negative |-> FALSE, digits |-> <<7>>]}

MCKeptPoints ==
    {1, 34, 92, 127, 128, 2047, 2048, 55295, 65533, 65536, 131072, 262143}
MCOtherPoints == {57344, 65281, 65532, 65534, 262144, 1114111}
MCLists ==
    {<<nameA, <<97, c>>, <<c, 98>>, nameB>> : c \in MCKeptPoints \cup MCOtherPoints}

MCNumbers ==
    [negative : BOOLEAN,
     digits : {<<>>} \cup {<<a>> : a \in 0..9} \cup ((0..9) \X (0..9))
              \cup ({1, 3, 4, 6} \X (0..9) \X {0, 1, 5})]
        \ {[negative |-> FALSE, digits |-> <<>>]}

MCFields ==
    <<[name |-> nameT, as |-> "list"], [name |-> nameA, as |-> "policy"],
      [name |-> nameB, as |-> "int"], [name |-> <<99>>, as |-> "int64"],
      [name |-> <<100>>, as |-> "size"], [name |-> <<101>>, as |-> "bool"]>>

MCReserved == {<<Star>>, <<112>>}
MCAllown == {<<Star>>}
MCDisabled == {<<98, Star>>, <<Star, 99>>}
MCEnabled == {}
MCPolicies == {nameA}
=============================================================================
