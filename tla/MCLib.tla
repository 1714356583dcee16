------------------------------- MODULE MCLib -------------------------------
(* Values for TLC: every string of up to three characters out of two;      *)
(* directives with every flag, width and precision that makes a difference;*)
(* names of up to three bytes, and calls with names that collide.          *)
EXTENDS Lib

MCStrings == SeqOf({1, 2}, 3)

\* A width of 0 is only given by an argument: in the format it is a flag.
Fields == [star : BOOLEAN, v : {2, 5}]
          \cup {[star |-> FALSE, v |-> -1], [star |-> TRUE, v |-> -4], [star |-> TRUE, v |-> 0]}

MCDirectives ==
    [flags : SUBSET {"-", "+", " ", "#", "0"}, width : Fields, prec : Fields,
     conv : {"d", "u", "o", "x", "b", "p"}, arg : {0, 1, 9, 16, 31}]
    \cup [flags : {{}, {"-"}}, width : Fields, prec : Fields, conv : {"s"}, arg : {<<>>, <<12, 13, 14>>}]
    \cup [flags : {{}, {"-"}}, width : Fields, prec : Fields, conv : {"c"}, arg : {<<12>>}]

\* Units of UTF-16 with their code in GBK: two characters, one of which
\* begins with the mark of deleted entries, and a letter whose capital has none.
MCCodePage == {<<21834, 45217>>, <<28617, 58785>>, <<224, 43172>>}
Byte == {97, 65, 98, 46, 32, 43, 126, 49, 176, 161, 229, 168, 164}

N(b) == <<"create", b>>
R(b) == <<"remove", b>>
aaaa == <<97, 97, 97, 97>>
aaab == <<97, 97, 97, 98>>
aA == <<97, 65>>
A1 == <<65, 126, 49>>              \* A~1
cc == <<176, 161, 176, 161>>
abx == <<97, 46, 98, 46, 97>>     \* a.b.a
lead == <<32, 97>>
plus == <<97, 43>>
ab == <<97, 97, 46, 98>>           \* aa.b
AB == <<65, 65, 46, 98>>           \* AA.b
long == <<97, 97, 97, 97, 97, 97>>
MCTyped == {aaaa, aaab, aA, A1, cc, abx, lead, plus, ab, AB, long,
            <<97, 97>>, <<65, 65>>, <<97>>, <<65, 126, 50>>, <<97, 97, 97>>, <<65, 65, 65, 66>>}

Few == {aaaa, aaab, aA, A1, abx, lead, ab, cc}
Ops == {N(d) : d \in Few} \cup {R(d) : d \in Few}

\* Names with one short form, until it is made from a hash.
Many == [i \in 1 .. 7 |-> N(<<97, 97, 97, 96 + i>>)]

MCPrograms ==
    {<<N(b)>> : b \in SeqOf(Byte, 3)}
    \cup {<<N(b), o, p>> : b \in Few, o, p \in Ops}
    \cup {Many \o <<o>> : o \in Ops}
=============================================================================
