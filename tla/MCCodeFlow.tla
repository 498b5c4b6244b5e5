----------------------------- MODULE MCCodeFlow -----------------------------
(***************************************************************************)
(* Images for TLC: every image over a few addresses, from a small alphabet *)
(* of instructions.  Addresses above Exec are past the section's end.      *)
(***************************************************************************)
EXTENDS CodeFlow

Op(kind, len, to, exits) == [kind |-> kind, len |-> len, to |-> to, exits |-> exits]

Ret         == Op("ret", 1, NoVa, FALSE)
Plain(len)  == Op("plain", len, NoVa, FALSE)
Call(to)    == Op("call", 1, to, FALSE)
Jump(to)    == Op("jump", 1, to, FALSE)
Cond(to)    == Op("cond", 1, to, FALSE)
Switch      == Op("jump", 1, NoVa, FALSE)     \* an indirect jump
ExitIat     == Op("call", 1, NoVa, TRUE)      \* call [import that exits]
ExitThunk(to) == Op("call", 1, to, TRUE)      \* call of a thunk to such an import

\* All images over the executable addresses with instructions from ops.
ImagesOver(addrs, ops) ==
    {[va \in Va |-> IF va \in addrs THEN p[va] ELSE Bad] : p \in [addrs -> ops]}

Images(ops) == ImagesOver(Exec, ops)

Targets(op(_)) == {op(t) : t \in Exec}

\* Calls, jumps and returns: every pattern of recursion and tail jumps.
CallImages == Images({Ret} \cup Targets(Call) \cup Targets(Jump))

\* Conditional jumps, switches, calls that exit, undecodable bytes.
MixedImages == ImagesOver({0, 1, 2}, {Ret, Bad, Plain(1), Plain(2), Switch, ExitIat, Cond(0), ExitThunk(2)}
                      \cup Targets(Call) \cup {Jump(0), Jump(2)})

AllImages == CallImages \cup MixedImages

MCTables == {[cases |-> <<1, 2>>, data |-> {}], [cases |-> <<0>>, data |-> {1}]}

NoNames   == [va \in Va |-> <<>>]
SomeNames == [va \in Va |-> IF va = 0 THEN <<2, 1>> ELSE IF va = 2 THEN <<1>> ELSE <<>>]
=============================================================================
