-------------------------- MODULE MCIntelEmulator --------------------------
EXTENDS IntelEmulator

\* Operands at the boundaries of every width (1, 2, 4 and 8 bits).
Values == {0, 1, 2, 3, 7, 8, 15, 16, 127, 128, 200, 255}

MCMachines(a) ==
    LET fit(x) == x =< UMax(PtrSize(a))
        V == {v \in Values : fit(v)}
    IN  {[regs |-> [r \in {"ax", "cx", "dx", "sp", "bp"} |->
                      CASE r = "ax" -> x [] r = "cx" -> y [] r = "dx" -> z
                        [] r = "sp" -> (IF c = {} THEN 12 ELSE 2) [] r = "bp" -> 8],
          f |-> [k \in Flag |-> k \in c], ov |-> <<>>, xmm |-> x * 256 + y, pc |-> 0] :
              x \in V, y \in V, z \in {0, 1, 15, 127, 255} \cap V, c \in {{}, {"cf"}}}

MCMaps == InitStack(<<Map(24, 4, {"r", "x"}, 1)>>, 4, 16)

I(mn, ops) == [mn |-> mn, va |-> 9, len |-> 2, ops |-> ops]
C(mn, cc, ops) == [mn |-> mn, va |-> 9, len |-> 2, ops |-> ops, cc |-> cc]

Binary == {"mov", "add", "adc", "sub", "sbb", "cmp", "and", "test", "or", "xor"}
Counted == {"shl", "shr", "sar", "rol", "ror", "bt", "bts", "btr", "btc"}
Unary == {"inc", "dec", "neg", "not", "mul", "imul", "div", "idiv"}
Conds == {"b", "nb", "be", "nbe", "z", "nz", "l", "nl", "le", "nle", "o", "no", "s", "ns",
          "p", "np", "cxz", "ecxz"}

MCInsns ==
    UNION {
      {I(mn, <<Reg("ax", n), Reg("cx", n)>>) : mn \in Binary, n \in Sizes},
      {I(mn, <<Reg("ax", n), Imm(1, 1)>>) : mn \in {"add", "sub", "or", "cmp"}, n \in {4, 8}},
      {I("add", <<High("ax"), Reg("cx", 1)>>)},
      {I(mn, <<Reg("ax", n), Reg("cx", 1)>>) : mn \in Counted, n \in Sizes},
      {I(mn, <<Reg("ax", n), Imm(k, 1)>>) : mn \in {"shl", "sar", "ror", "btc"}, k \in 2..5, n \in {2, 8}},
      {I(mn, <<Reg("cx", n)>>) : mn \in Unary, n \in Sizes},
      {I("imul", <<Reg("ax", n), Reg("cx", n)>>) : n \in {2, 4, 8}},
      {I(mn, <<Reg("ax", n), Reg("cx", n)>>) : mn \in {"xchg", "xadd", "cmpxchg"}, n \in Sizes},
      {I("movsx", <<Reg("ax", 4), Reg("cx", n)>>) : n \in {1, 2}},
      {I("lea", <<Reg("ax", 4), Mem("cx", "ax", 2, 3, 4)>>)},
      {C("cmov", cc, <<Reg("ax", 4), Reg("cx", 4)>>) : cc \in Conds \ {"cxz", "ecxz"}},
      {C("set", cc, <<Reg("ax", 1)>>) : cc \in {"b", "l"}},
      {C("jcc", cc, <<Imm(24, 8)>>) : cc \in Conds},
      {I(mn, <<Reg("cx", n)>>) : mn \in {"push", "pop"}, n \in {2, 4, 8}},
      {I("push", <<Imm(1, 1)>>), I("call", <<Reg("cx", 4)>>), I("call", <<Mem("sp", "none", 1, 0, 4)>>),
       I("jmp", <<Reg("cx", 4)>>),
       I("ret", <<>>), I("ret", <<Imm(2, 1)>>), I("leave", <<>>), I("nop", <<>>)},
      {I(mn, <<>>) : mn \in {"cbw", "cwde", "cdqe", "cwd", "cdq", "cqo"}},
      {I(mn, <<>>) : mn \in {"int", "ud", "io", "other"}},
      {[I("movs", <<a, b>>) EXCEPT !.mn = "movs"] @@ [width |-> w] :
          w \in {4, 8, 16}, a \in {Xmm(16)}, b \in {Mem("cx", "none", 1, 0, 8), Xmm(16)}},
      {I("movs", <<Reg("ax", 4), Xmm(16)>>) @@ [width |-> 4],
       I("movs", <<Mem("bp", "none", 1, 0, 8), Xmm(16)>>) @@ [width |-> 8]},
      {I("pxor", <<Xmm(16), Xmm(16)>>), I("psrldq", <<Xmm(16), Imm(3, 1)>>),
       I("pslldq", <<Xmm(16), Imm(20, 1)>>)} }
=============================================================================
