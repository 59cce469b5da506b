------------------------------ MODULE MCMambo -------------------------------
(***************************************************************************)
(* mambo with three registers of two bytes and a heap of sixteen.  Either  *)
(* the service runs for MaxConnections connections, its flag changes and   *)
(* its alarm goes off, and pollers send one of FewPolls; or it accepts one *)
(* poller, which sends any of Polls.                                       *)
(***************************************************************************)
EXTENDS Mambo

VARIABLE many       \* which of the two

MCFlag == {"a", "b"}

\* setRegister(r, low, high), and what stores, loads and pops.
SetReg(r, low, high) == Encoded(RD_REG, r, low, high, 1)
Op(cmd, r1, r2) == Encoded(cmd, r1, r2, 0, 1)

Two(low, high) == SetReg(1, low, high) \o SetReg(2, 3, 1)

Batches ==
  {Two(200, 255) \o Encoded(op, 1, 2, 0, 0) :
     op \in {ADD_CMD, SUB_CMD, MUL_CMD, DIV_CMD, XOR_CMD, ROL_CMD, ROR_CMD}}
  \cup {SetReg(1, 9, 0) \o Encoded(DIV_CMD, 1, 2, 0, 0)}

\* A buffer of n bytes from the heap; register 1 keeps what it has.
WriteOut(n) ==
  SetReg(2, 4, 0) \o SetReg(0, 5, 5) \o SetReg(2, n, 0) \o Encoded(WR_BUF, 2, 2, 2, 1)
WriteNone == SetReg(2, 4, 0) \o SetReg(0, 3, 0) \o Encoded(WR_BUF, 2, 2, 0, 1)

Memories ==
  {Op(ST8_CMD, 2, 1) \o Op(LD8_CMD, 2, 1) \o Op(LD4_CMD, 1, 2),
   Op(ST8_CMD, 1, 2) \o Op(PUSH_CMD, 1, 0) \o Op(POP_CMD, 2, 0) \o Op(POP_CMD, 0, 0)}

Polled(batch, io, wanted, memory) ==
  [batch |-> batch, io |-> io, wanted |-> wanted, memory |-> memory]

Adding == SetReg(2, 7, 0) \o Encoded(ADD_CMD, 1, 2, 0, 0)

MCPolls ==
  {Polled(b, <<>>, 0, m) : b \in Batches, m \in Memories}
  \cup {Polled(Adding, WriteOut(3), 3, m) : m \in Memories}
  \cup {Polled(Adding, WriteNone, 3, m) : m \in Memories}
  \cup {Polled(Adding, <<>>, 0, <<>>)}

FewPolls == {Polled(SetReg(1, 6, 0), <<>>, 0, Op(POP_CMD, 2, 0))}

InitMC == InitMambo /\ many \in BOOLEAN

NextMC ==
  /\ NextMambo
  /\ IF many THEN cl'.pc = "key" => cl'.poll \in FewPolls
     ELSE /\ numConnections' <= 1 /\ flag' = flag
          /\ alarm => alarm'
          /\ cl = NoPoller /\ numConnections' = 1 => cl'.pc = "key"
  /\ UNCHANGED many

SpecMC == InitMC /\ [][NextMC]_<<mamboVars, many>> /\ Fairness
=============================================================================
