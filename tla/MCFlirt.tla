------------------------------- MODULE MCFlirt -------------------------------
EXTENDS Flirt

\* Functions at 0, 3 and 6: an identifying byte, a reference, a last byte.
Name(off, name, type) == [off |-> off, name |-> name, type |-> type]
Pub(name) == <<Name(0, name, "public")>>
Mod(names, refs, tail, crc) ==
    [names |-> names, refs |-> refs, tail |-> tail, crc |-> crc, tailBytes |-> <<>>]
To(name) == <<[off |-> 1, name |-> name]>>
Node(pat, modules, children) == [pattern |-> pat, modules |-> modules, children |-> children]
AnyByte == [length |-> 0, bytes |-> <<>>]
Byte(b) == [length |-> 1, bytes |-> (0 :> b)]
Wild == [length |-> 1, bytes |-> <<>>]
X(to, code) == [to |-> to, code |-> code]

\* What the first byte 0, 1 and 2 may be matched by.
Zeros == {<<>>, <<Mod(Pub("a"), To("b"), 0, 0)>>,
          <<Mod(Pub("a"), <<>>, 1, 1)>>,
          <<Mod(Pub("a"), To("a"), 0, 0), Mod(Pub("aa"), To("c"), 0, 0)>>,
          <<Mod(<<Name(0, "a", "local"), Name(3, "b", "local"), Name(3, "bb", "public")>>, <<>>, 0, 0)>>,
          <<Mod(Pub("a"), To("."), 0, 0), Mod(<<Name(1, "x", "local")>>, <<>>, 0, 0)>>}
Ones  == {<<>>, <<Mod(Pub("b"), To("c"), 0, 0)>>, <<Mod(Pub("b"), To("a"), 0, 0)>>,
          <<[Mod(Pub("b"), <<>>, 0, 0) EXCEPT !.tailBytes = (1 :> 0)], Mod(Pub("b"), <<>>, 1, 0)>>,
          <<Mod(<<Name(0, "b", "public"), Name(3, "c", "local"), Name(-3, "a", "public")>>, <<>>, 0, 0)>>}
Twos  == {<<>>, <<Mod(Pub("c"), <<>>, 0, 0)>>, <<Mod(Pub("c"), To("b"), 0, 0)>>}

Tree(z, o, t) == Node(AnyByte, <<>>, <<Node(Byte(0), z, <<>>), Node(Wild, <<>>, <<Node(Byte(1), o, <<>>)>>),
                                   Node(Byte(2), t, <<>>)>>)
Second == {Tree(<<Mod(Pub("a2"), <<>>, 0, 0)>>, <<>>, <<>>), Tree(<<>>, <<Mod(Pub("b2"), To("c"), 0, 0)>>, <<Mod(Pub("c2"), To("b"), 0, 0)>>)}

Mem(a, b, l) == <<a, 1, l, b, 0, 1, 2, 1, 1>>

MCScenes ==
    {[mem |-> [i \in 0..8 |-> Mem(a, 1, l)[i + 1]], size |-> 9,
      body |-> (0 :> {0, 1, 2} @@ 3 :> {3, 4, 5} @@ 6 :> {6, 7, 8}),
      xref |-> (1 :> x @@ 4 :> y @@ 7 :> z), packs |-> <<Tree(zs, os, ts), snd>>] :
        a \in {0, 1}, l \in {0, 1}, x \in {X(3, TRUE), X(0, FALSE), X(6, TRUE)},
        y \in {X(6, TRUE), X(0, TRUE)}, z \in {X(3, TRUE), X(0, TRUE)},
        zs \in Zeros, os \in Ones, ts \in Twos, snd \in Second}
=============================================================================
