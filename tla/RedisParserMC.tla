---------------------------- MODULE RedisParserMC ----------------------------
EXTENDS RedisParser

\* Payloads that hold what the protocol itself is made of, among them one whose
\* length has two digits.
Blobs == {<<>>, <<LF, 36>>, <<CR, LF, 43>>, [k \in 1 .. 10 |-> 42]}

Simple(b) == Value("simple", b, <<>>)
NullArr == Value("null array", <<>>, <<>>)

Leaves == {Simple(<<>>), Simple(<<79, 75>>), Err(<<69>>), Num(0), Num(-12), Nil, NullArr}
            \cup {Str(b) : b \in Blobs}

\* Arrays in arrays, three deep, with elements before and after the inner one.
Nested ==
    {Arr(<<>>)} \cup {Arr(<<Nil, a>>) : a \in Leaves}
    \cup {Arr(<<Arr(<<a, Num(7)>>), Str(<<LF>>)>>) : a \in Leaves}
    \cup {Arr(<<Arr(<<Arr(<<a>>), Arr(<<Nil>>)>>), Arr(<<>>)>>) : a \in Leaves}

MCReplies == {<<a, b>> : a \in Leaves, b \in {Simple(<<79, 75>>), Str(<<CR>>)}}
                \cup {<<v, Num(1)>> : v \in Nested}

MCDamaged == {<<a, Num(1)>> : a \in Leaves} \cup {<<Arr(<<a, Arr(<<Num(1), Nil>>), Num(2)>>)>> : a \in {Str(<<LF>>), Nil}}

MCCommands == {<<>>} \cup {<<a>> : a \in Blobs} \cup {<<a, b>> : a, b \in Blobs}

MCDamage == {CR, LF, 36, 42, 45, 50, 200}
=============================================================================
