------------------------ MODULE MCWorkspaceEmulator ------------------------
EXTENDS WorkspaceEmulator

I(kind, mn) == [kind |-> kind, mn |-> mn, len |-> 1]
To(kind, mn, to) == I(kind, mn) @@ [to |-> to]
Table(to, es) == To("table", "jmp", to) @@ [entries |-> es]

Body == {I("store", "mov"), To("jcc", "jz", 0), To("jcc", "jz", 3), To("call", "call", 3),
         To("jmp", "jmp", 2), Table(2, <<0, 2, 3>>), Table(1, <<3>>), I("ret", "ret")}
Tail2 == {I("plain", "mov"), I("trap", "int"), I("div0", "div"), I("exit", "int"), I("out", "out"),
          I("badop", "add"), I("ret", "ret"), To("call", "call", 0), Bad}

\* Four instructions; the address after the last is mapped or not.
MCPrograms == {[va \in 0..(IF e THEN 4 ELSE 3) |->
                   IF va = 4 THEN I("ret", "ret") ELSE p[va + 1]] :
                   p \in {<<a, b, c, d>> : a \in Body, b \in Body, c \in Body, d \in Tail2},
                   e \in BOOLEAN}
=============================================================================
