---------------------------- MODULE MCCoreWarNii ----------------------------
EXTENDS CoreWarNii, TLC

D(v)    == <<v % 256, (v \div 256) % 256, (v \div 65536) % 256>>
Low3    == 0 .. 7
CpuKinds == {[eflags |-> {CF, DF, OF}, halted |-> FALSE], [eflags |-> {}, halted |-> TRUE]}

\* EAX and ECX set to a and b, then the bytes.
With(a, b, bytes) == <<184>> \o D(a) \o <<185>> \o D(b) \o bytes
Edges == {0, 1, 127, 128, 255, 8388607, 8388608, 16777215}
Pairs == {<<a, b>> \in Edges \X Edges : a \in {0, 128, 8388607, 8388608} \/ b \in {1, 16777215}}
Few   == {<<1, 255>>, <<8388608, 2>>}

\* Every operation on two registers of every width, and on immediates.
Compares == {With(ab[1], ab[2], <<8 * op + k, 200>>) :
               ab \in Pairs, op \in {0, 1, 4, 5, 6, 7}, k \in 0 .. 3}
Groups   == {With(a, 3, <<op, 192 + 8 * r, b, b, b>>) :
               a \in {0, 128, 8388607}, op \in 128 .. 131, r \in Low3, b \in {1, 127, 128, 255}}
\* Every opcode, with a register, an address, and a base with an index; but no product
\* too large for TLC.
Anything == {With(1, 2, <<op, rm, 1, 0, 0>>) : op \in (0 .. 255) \ {105, 107}, rm \in {193, 1, 69, 12}}
            \cup {With(1, 2, <<15, op, rm, 5>>) : op \in 128 .. 191, rm \in {193, 8}}
Unary    == {With(ab[1], ab[2], <<op, 193 + 8 * r>>) :
               ab \in {<<7, 2>>, <<255, 0>>, <<32769, 1>>, <<9, 254>>, <<8388607, 128>>},
               op \in {246, 247, 255}, r \in Low3}
Shifts   == {With(a, c, <<op, 192 + 8 * r, c>>) :
               a \in {1, 129, 8388609}, c \in {0, 1, 2, 9, 255}, op \in {192, 193, 211}, r \in 4 .. 7}
Jumps    == {With(ab[1], ab[2], <<57, 200, 112 + cc, 1, 204, 15, 144 + cc, 195>>) :
               ab \in Few \cup {<<2, 2>>}, cc \in 0 .. 15}
Stacks   == {<<82>> \o p : p \in {<<96, 92, 97>>, <<232, 1, 0, 0, 204, 195>>, <<156, 157>>,
                                  <<201, 88, 195>>, <<106, 250, 195>>}}
Moves    == {With(ab[1], ab[2], p) : ab \in Few,
               p \in {<<135, 4, 13>>, <<134, 1>>, <<162, 28, 0, 0>>, <<163, 47, 0, 0>>, <<141, 68, 72, 3>>,
                      <<141, 204>>, <<167>>, <<166, 166>>, <<205, 128>>, <<15, 175, 193>>, <<105, 193, 3, 0, 0>>,
                      <<107, 193, 253>>, <<15, 191, 193>>, <<15, 190, 193>>, <<152, 153>>}}

Spin  == <<235, 254>>
Short == <<144, 0, 0, 0>>
Shot  == <<162, 2, 0, 0>>

AllLoads == {(0 :> p) @@ (1 :> Spin) :
               p \in Compares \cup Groups \cup Anything \cup Unary \cup Shifts \cup Jumps
                       \cup Stacks \cup Moves}
            \cup {(0 :> p) @@ (1 :> q) : p \in {Spin, Short, Shot, <<>>}, q \in {Short, Shot, <<>>}}

OneWord  == <<4660>>
AnyOld   == {[modrm |-> 0, sib |-> 0, repeat |-> 0], [modrm |-> 24, sib |-> 93, repeat |-> 1],
             [modrm |-> 8, sib |-> 8, repeat |-> 2]}
=============================================================================
