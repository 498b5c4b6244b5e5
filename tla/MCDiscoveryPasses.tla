------------------------- MODULE MCDiscoveryPasses -------------------------
EXTENDS DiscoveryPasses

I(kind, len, to) == [kind |-> kind, len |-> len, to |-> to]
Plain(len) == I("plain", len, 0)
Ret == I("ret", 1, 0)

\* Code at 0..5 with overlapping decodings, nothing decodes at 6, data from 8 on.
Codes == {(0 :> a @@ 1 :> Ret @@ 2 :> b @@ 3 :> c @@ 4 :> d @@ 5 :> Ret) :
             a \in {Ret, I("call", 1, 3), I("lea", 1, 2), I("jmp", 1, 4)},
             b \in {Ret, Plain(4), I("lea", 1, 4), I("jcc", 1, 5), I("call", 1, 4)},
             c \in {Ret, Plain(1)}, d \in {Ret, Plain(2)}}

Rec(u, b) == [unwind |-> u, begin |-> b]

MCImages ==
    {[is64 |-> w, code |-> c, exec |-> 0..6, entry |-> <<0>>, exports |-> e, forwarded |-> {5},
      tls |-> <<9>>, pdata |-> <<Rec("chained", 4), Rec("seed", 2), Rec("stop", 0), Rec("seed", 5)>>,
      relocs |-> <<8, 3, 12>>, ptr |-> p, good |-> g,
      boundary |-> {1, 3, 4, 5}, prologue |-> {2, 4, 6} \ {x \in {6} : g = {}},
      calls |-> [f \in 0..6 |-> IF f = 0 THEN {3, 6} ELSE IF f = 3 THEN {4, 5} ELSE {}]] :
         w \in BOOLEAN, c \in Codes, e \in {<<1, 2, 3>>, <<3, 5>>},
         p \in {8 :> 2 @@ 10 :> 5, 3 :> 4 @@ 8 :> 5}, g \in {{}, {4, 5}, {1, 2, 3, 4, 5}}}
=============================================================================
