--------------------------- MODULE MCStatementTree ---------------------------
(***************************************************************************)
(* Trees of at most MaxNodes nodes over one leaf of each way of matching:  *)
(* by equality, by scanning the strings, by byte prefix, by the wildcard   *)
(* of Os, and match:.                                                      *)
(***************************************************************************)
EXTENDS StatementTree

MCAny == <<9>>

Str(v)   == [tag |-> "String", datum |-> v]
Mnem     == [tag |-> "Mnemonic", datum |-> <<5>>]
OsOf(v)  == [tag |-> "Os", datum |-> v]
BytesOf(v) == [tag |-> "Bytes", datum |-> v]

MCLeaves ==
    {Str(<<1, 2>>), [tag |-> "Substring", datum |-> <<2>>], Mnem, OsOf(<<3>>),
     BytesOf(<<4>>), MatchedRule(<<1>>)}

MCCounted == {Mnem}

MCCounts == {<<0, 1>>, <<2, 3>>}

MCThresholds == {0, 2}

\* The mnemonic at two addresses, everything else at one of its own, so that
\* counts differ and reported locations tell the features apart.
Address(f) ==
    IF f = Mnem THEN {1, 2} ELSE IF f.datum = <<2>> THEN {3} ELSE {4}

Held(feats) == [f \in feats |-> Address(f)]

MCFeatureSets ==
    {Held({}), Held({Mnem}), Held({Str(<<1, 2>>)}), Held({Str(<<2>>), Mnem}),
     Held({Str(<<1, 2>>), Str(<<2>>)}), Held({OsOf(MCAny), Mnem}), Held({OsOf(<<3>>)}),
     Held({MatchedRule(<<1>>)}), Held({MatchedRule(<<1>>), Mnem, Str(<<2>>)}),
     Held({BytesOf(<<4, 4>>), Str(<<1, 2>>)})}
=============================================================================
