------------------------------- MODULE Mambo --------------------------------
(***************************************************************************)
(* mambo: the service (mambo.c) and the poller that checks it              *)
(* (mamboclient.c).  MamboMain accepts and hands out keys; a child and a   *)
(* poller then exchange encrypted messages over a socket, and both execute *)
(* what was sent.  The cipher is a stream: a byte is decrypted only at the *)
(* position, in the direction and with the key it was encrypted with.      *)
(*                                                                         *)
(* A message is a length and bytes [v, k], v the byte and k its place in   *)
(* the key stream.  read returns some of the bytes that have come.         *)
(***************************************************************************)
EXTENDS MamboMain, MamboCpu, FiniteSets

CONSTANTS BUF_LENGTH,
          MaxConnections,   \* bounds the connections of a behaviour
          Polls             \* what pollers send: [batch, io, wanted, memory]

VARIABLES up, down,         \* what is on its way to the service and to the poller
          sv,               \* the child of the service
          cl                \* the poller

\* The instructions that a poller draws, which write nothing, and those that ask.  A
\* register that it draws past the last one is encoded as one of the others.
Byte == 0 .. 255
Quiet(x) ==
  \/ /\ Len(x) = 4 /\ x[3] \in Byte /\ x[4] \in Byte
     /\ \E r \in Register : x = Encoded(RD_REG, r, x[3], x[4], 1)
  \/ \E r1, r2 \in Register :
       \/ \E op \in {ADD_CMD, SUB_CMD, MUL_CMD, DIV_CMD, XOR_CMD, ROL_CMD, ROR_CMD} :
            x = Encoded(op, r1, r2, 0, 0)
       \/ \E op \in {LD4_CMD, LD8_CMD, ST4_CMD, ST8_CMD, PUSH_CMD, POP_CMD} :
            x = Encoded(op, r1, r2, 0, 1)
Asks(x) ==
  \/ \E r \in Register : x = Encoded(WR_REG, r, 0, 0, 1)
  \/ \E r1, r2, r3 \in Register : x = Encoded(WR_BUF, r1, r2, r3, 1)

\* From the places in starts on, bytes is instructions; with asking, the last may ask.
Program(bytes, starts, asking) ==
  /\ starts \subseteq 0 .. Len(bytes)
  /\ \A at \in starts : at < Len(bytes) =>
       \E n \in {3, 4} :
         /\ at + n \in starts
         /\ LET x == SubSeq(bytes, at + 1, at + n)
            IN  Quiet(x) \/ (asking /\ at + n = Len(bytes) /\ Asks(x))

\* Where the instructions of bytes start, and the end.
Starts(bytes) ==
  LET f[at \in 0 .. Len(bytes)] ==
        at = 0 \/ \E n \in {3, 4} : /\ at >= n /\ f[at - n]
                                   /\ n = IF bytes[at - n + 1] < 128 THEN 3 ELSE 4
  IN  {at \in 0 .. Len(bytes) : f[at]}

Draws(bytes, asking) ==
  bytes \in Seq(Byte) /\ 0 \in Starts(bytes) /\ Program(bytes, Starts(bytes), asking)

\* After the batch, io puts wanted in a register and asks for as many bytes.
AsksWanted(poll) ==
  LET n == Len(poll.io)
  IN  /\ poll.io \in Seq(Byte) /\ n >= 8 /\ Draws(poll.batch \o SubSeq(poll.io, 1, n - 8), FALSE)
      /\ \E r1, r2, r3 \in Register :
           /\ SubSeq(poll.io, n - 7, n - 4) =
                Encoded(RD_REG, r3, poll.wanted % 256, poll.wanted \div 256, 1)
           /\ SubSeq(poll.io, n - 3, n) = Encoded(WR_BUF, r1, r2, r3, 1)

\* Only the last instruction of io asks.
ASSUME PollsAssumption ==
  \A poll \in Polls : /\ Draws(poll.batch, FALSE) /\ Draws(poll.memory, FALSE)
                      /\ Draws(poll.batch \o poll.io, TRUE)
                      /\ poll.wanted \in Nat /\ (poll.io = <<>> \/ AsksWanted(poll))

linkVars == <<up, down, sv, cl>>
mamboVars == <<mainVars, linkVars>>

NoChild  == [pc |-> "none"]
NoPoller == [pc |-> "none"]

InitMambo == InitMain /\ up = <<>> /\ down = <<>> /\ sv = NoChild /\ cl = NoPoller
-----------------------------------------------------------------------------
(* What both ends share.                                                   *)

\* What a byte becomes when it is decrypted at another place than its own.
GARBLED == -1

\* PRGA: the n-th place of the key stream of a direction, "up" (9) or "down" (3).
Place(k, dir, n) == <<k, dir, n>>

\* writeBuffer from position n of the key stream: the length, then the bytes.
Message(bytes, k, dir, n) ==
  <<[len |-> Len(bytes)]>>
    \o [i \in 1 .. Len(bytes) |-> [v |-> bytes[i], k |-> Place(k, dir, n + i - 1)]]

\* Decryption of what was read, from position n.
Clear(items, k, dir, n) ==
  [i \in 1 .. Len(items) |-> IF items[i].k = Place(k, dir, n + i - 1) THEN items[i].v ELSE GARBLED]

\* How many bytes a read may return, at most most: all that have come, or one.
Chunks(coming, most) ==
  LET n == IF Len(coming) < most THEN Len(coming) ELSE most IN {1, n} \cap 1 .. n

\* What lies over the start of a buffer after bytes were put there.
Over(bytes, old) == bytes \o SubSeq(old, Len(bytes) + 1, Len(old))
-----------------------------------------------------------------------------
(* The child: doChallenge.                                                 *)

\* Slip: the registers keep what they held, here their numbers.
NewChildUncleared ==
  [pc |-> "hello", key |-> key, m |-> [StartMachine EXCEPT !.base = [r \in Register |-> r]],
   rx |-> 0, tx |-> 0, buf |-> <<>>, read |-> 0, off |-> 0, want |-> 0, got |-> <<>>]

NewChild == [pc |-> "hello", key |-> key, m |-> StartMachine, rx |-> 0, tx |-> 0,
             buf |-> <<>>, read |-> 0, off |-> 0, want |-> 0, got |-> <<>>]

\* The child has what accept and fork left, and a link to one poller.
Connect(poll) ==
  /\ sv = NoChild /\ cl = NoPoller /\ numConnections < MaxConnections
  /\ Accept
  /\ sv' = NewChild
  /\ cl' = [pc |-> "key", poll |-> poll]
  /\ UNCHANGED <<up, down>>

\* A connection whose child is not followed.
ConnectElsewhere ==
  /\ numConnections < MaxConnections
  /\ Accept
  /\ UNCHANGED linkVars

\* The key goes out in the clear, and the registers that held it are cleared.
SendKey ==
  /\ sv.pc = "hello"
  /\ down' = Append(down, [key |-> sv.key])
  /\ sv' = [sv EXCEPT !.pc = "header"]
  /\ UNCHANGED <<up, cl, mainVars>>

Exited == [pc |-> "exited"]

\* The end of fillBuffer.
Filled(s, items) ==
  LET bytes == Clear(items, s.key, "up", s.rx)
  IN  [s EXCEPT !.pc = "parse", !.rx = @ + Len(bytes), !.buf = Over(bytes, @), !.got = <<>>,
                !.read = Len(bytes), !.off = 0]

\* The length of a message.  An empty one ends the child.
ReadLength ==
  /\ sv.pc = "header" /\ up # <<>>
  /\ up' = Tail(up)
  /\ LET n == Head(up).len
     IN  sv' = IF n > BUF_LENGTH \/ n = 0 THEN Exited
               ELSE [sv EXCEPT !.pc = "payload", !.want = n]
  /\ UNCHANGED <<down, cl, mainVars>>

\* A read of the length returns less than four bytes.
LengthCut ==
  /\ sv.pc = "header" /\ up # <<>>
  /\ sv' = Exited
  /\ UNCHANGED <<up, down, cl, mainVars>>

ReadPayload ==
  /\ sv.pc = "payload"
  /\ \E k \in Chunks(up, sv.want - Len(sv.got)) :
       LET got == sv.got \o SubSeq(up, 1, k)
       IN  /\ up' = SubSeq(up, k + 1, Len(up))
           /\ sv' = IF Len(got) = sv.want THEN Filled(sv, got) ELSE [sv EXCEPT !.got = got]
  /\ UNCHANGED <<down, cl, mainVars>>

\* One turn of doChallenge's loop.  Past the message lie what earlier ones left and
\* zeros.
Parse ==
  /\ sv.pc = "parse"
  /\ LET b   == SubSeq(sv.buf, sv.off + 1, Len(sv.buf)) \o <<0, 0, 0, 0>>
         did == parseInstruction(sv.m, b, sv.read - sv.off)
         off == sv.off + did.used
     IN  /\ sv' = IF did.exit # NULL \/ did.used <= 0 THEN Exited
                  ELSE [sv EXCEPT !.m = did.m, !.off = off, !.tx = @ + Written(did.out),
                                  !.pc = IF off >= sv.read THEN "header" ELSE "parse"]
         /\ down' = IF did.out = NoOutput THEN down
                    ELSE down \o Message(did.out, sv.key, "down", sv.tx)
  /\ UNCHANGED <<up, cl, mainVars>>

\* goAway: fifteen seconds are over.
GoAway ==
  /\ sv.pc \notin {"none", "exited"}
  /\ sv' = Exited
  /\ UNCHANGED <<up, down, cl, mainVars>>
-----------------------------------------------------------------------------
(* The poller: doPoll.                                                     *)

Ends    == {"passed", "failed", "lost", "aborted"}
Waiting == {"key", "length", "payload"}

\* The key comes first.
GetKey ==
  /\ cl.pc = "key" /\ down # <<>>
  /\ cl' = [pc |-> "batch", poll |-> cl.poll, key |-> Head(down).key, m |-> StartMachine,
            rx |-> 0, tx |-> 0, pass |-> 1, i |-> 0, room |-> 0, want |-> 0, count |-> 0,
            buf |-> <<>>, torn |-> FALSE]
  /\ down' = Tail(down)
  /\ UNCHANGED <<up, sv, mainVars>>

\* The poller c, having written bytes.
Sent(c, bytes) == [c EXCEPT !.tx = @ + Len(bytes)]
Send(bytes) == up' = up \o Message(bytes, cl.key, "up", cl.tx)

\* Slip: writeBuffer encrypts before it looks at shouldWrite.
SilentLate(c, n) == [c EXCEPT !.tx = @ + n]

\* The poller c, having executed bytes itself.  With shouldWrite = 0 nothing is written,
\* and n, the bytes writeBuffer was given, do not count.
Silent(c, n) == c

Ran(c, bytes, next) ==
  LET did == parseData(c.m, bytes)
  IN  IF did.m = NULL THEN [c EXCEPT !.pc = "aborted"]
      ELSE Silent([c EXCEPT !.m = did.m, !.pc = next], did.wrote)

\* The first batch sets registers and computes; it writes nothing.
SendBatch ==
  /\ cl.pc = "batch"
  /\ Send(cl.poll.batch)
  /\ cl' = Ran(Sent(cl, cl.poll.batch), cl.poll.batch, "ask")
  /\ UNCHANGED <<down, sv, mainVars>>

\* getRegister(i) asks.
Ask ==
  /\ cl.pc = "ask"
  /\ LET bytes == Encoded(WR_REG, cl.i, 0, 0, 1)
     IN  /\ Send(bytes)
         /\ cl' = [Sent(cl, bytes) EXCEPT !.pc = "length", !.room = WORD, !.buf = <<>>]
  /\ UNCHANGED <<down, sv, mainVars>>

\* The batch goes out once more, with what sets three registers and writes a buffer.
IoBytes == cl.poll.batch \o cl.poll.io
SendIo ==
  /\ cl.pc = "io"
  /\ Send(IoBytes)
  /\ cl' = [Sent(cl, IoBytes) EXCEPT !.pc = "length", !.room = cl.poll.wanted, !.buf = <<>>]
  /\ UNCHANGED <<down, sv, mainVars>>

\* Slip: only what is new is executed.
RunIoNew ==
  /\ cl.pc = "run"
  /\ cl' = Ran(cl, cl.poll.io, "memory")
  /\ UNCHANGED <<up, down, sv, mainVars>>

\* After the answer the poller executes the same bytes, silently.
RunIo ==
  /\ cl.pc = "run"
  /\ cl' = Ran(cl, IoBytes, "memory")
  /\ UNCHANGED <<up, down, sv, mainVars>>

SendMemory ==
  /\ cl.pc = "memory"
  /\ Send(cl.poll.memory)
  /\ cl' = Ran([Sent(cl, cl.poll.memory) EXCEPT !.i = 0, !.pass = 2], cl.poll.memory, "ask")
  /\ UNCHANGED <<down, sv, mainVars>>

AsksRegister(c) == c.pass = 2 \/ c.i < NUM_BASE_REG

\* getData has its bytes: of the buffer WR_BUF wrote, nothing is compared.
Answered(c, bytes) ==
  IF ~AsksRegister(c) THEN [c EXCEPT !.pc = "run"]
  ELSE IF bytes # BytesOf(c.m.base[c.i]) THEN [c EXCEPT !.pc = "failed"]
  ELSE [c EXCEPT !.i = @ + 1,
                 !.pc = CASE c.i + 1 < NUM_BASE_REG -> "ask"
                          [] c.i + 1 = NUM_BASE_REG /\ c.pass = 2 -> "passed"
                          [] OTHER -> IF c.poll.io = <<>> THEN "memory" ELSE "io"]

\* Slip: getData reads before it compares.
GetLengthReading ==
  /\ cl.pc = "length" /\ down # <<>>
  /\ LET n == Head(down).len
         c == [cl EXCEPT !.want = n, !.count = 0]
     IN  cl' = [c EXCEPT !.pc = IF n > cl.room THEN "failed" ELSE "payload"]
  /\ down' = Tail(down)
  /\ UNCHANGED <<up, sv, mainVars>>

\* The length.  getData exits if there is no room.
GetLength ==
  /\ cl.pc = "length" /\ down # <<>>
  /\ LET n == Head(down).len
         c == [cl EXCEPT !.want = n, !.count = 0]
     IN  cl' = CASE n > cl.room -> [c EXCEPT !.pc = "failed"]
                 [] n = 0 -> Answered(c, <<>>)
                 [] OTHER -> [c EXCEPT !.pc = "payload"]
  /\ down' = Tail(down)
  /\ UNCHANGED <<up, sv, mainVars>>

\* Each read puts its bytes at the start of the buffer.
GetPayload ==
  /\ cl.pc = "payload"
  /\ \E k \in Chunks(down, cl.room) :
       LET buf   == Over(SubSeq(down, 1, k), cl.buf)
           count == cl.count + k
           c     == [cl EXCEPT !.buf = buf, !.count = count,
                               !.torn = @ \/ (cl.count > 0)]
       IN  /\ down' = SubSeq(down, k + 1, Len(down))
           /\ cl' = IF count < cl.want THEN c
                    ELSE Answered([c EXCEPT !.rx = @ + cl.want],
                                  Clear(buf, cl.key, "down", cl.rx))
  /\ UNCHANGED <<up, sv, mainVars>>

\* A read times out, or returns part of the key or of a length.
TimeOut ==
  /\ cl.pc \in Waiting
  /\ cl' = [pc |-> "lost"]
  /\ UNCHANGED <<up, down, sv, mainVars>>
-----------------------------------------------------------------------------
(* The ends of a connection.                                               *)

\* The child reads the end of the stream.
PollerGone ==
  /\ sv.pc \in {"header", "payload"} /\ up = <<>> /\ cl.pc \in Ends
  /\ sv' = Exited
  /\ UNCHANGED <<up, down, cl, mainVars>>

\* The poller reads the end of the stream.
ChildGone ==
  /\ cl.pc \in Waiting /\ down = <<>> /\ sv.pc = "exited"
  /\ cl' = [pc |-> "lost"]
  /\ UNCHANGED <<up, down, sv, mainVars>>

Closed ==
  /\ sv.pc = "exited" /\ cl.pc \in Ends
  /\ sv' = NoChild /\ cl' = NoPoller /\ up' = <<>> /\ down' = <<>>
  /\ UNCHANGED mainVars
-----------------------------------------------------------------------------
ServiceStep == SendKey \/ ReadLength \/ ReadPayload \/ Parse \/ PollerGone
PollerStep  == \/ GetKey \/ SendBatch \/ Ask \/ SendIo \/ RunIo \/ SendMemory
               \/ GetLength \/ GetPayload \/ ChildGone

NextMambo ==
  \/ ServiceStep \/ PollerStep
  \/ LengthCut \/ GoAway \/ TimeOut \/ Closed
  \/ ConnectElsewhere \/ \E poll \in Polls : Connect(poll)
  \/ /\ doRekey \/ NoFlagFile \/ KeepKey \/ ForkFails \/ setRekey \/ NewFlag
     /\ UNCHANGED linkVars

\* When a step of the service, or of the poller, is enabled.
ServiceReady ==
  \/ sv.pc \in {"hello", "parse"}
  \/ sv.pc \in {"header", "payload"} /\ (up # <<>> \/ cl.pc \in Ends)
PollerReady ==
  \/ cl.pc \in {"batch", "ask", "io", "run", "memory"}
  \/ cl.pc \in Waiting /\ (down # <<>> \/ sv.pc = "exited")

\* Both ends run: weak fairness, with what enables the steps written out.  Nothing is
\* said of alarms, timeouts and cut reads, nor of new connections.
Fairness == /\ []<>(~ServiceReady) \/ []<><<ServiceStep>>_mamboVars
            /\ []<>(~PollerReady) \/ []<><<PollerStep>>_mamboVars

SpecMambo == InitMambo /\ [][NextMambo]_mamboVars /\ Fairness
-----------------------------------------------------------------------------
\* The bytes among items are at their places of the key stream, the first one at n.
Coded(x) == "k" \in DOMAIN x
InTurn(items, k, dir, n) ==
  \A i \in DOMAIN items : Coded(items[i]) =>
    items[i].k = Place(k, dir, n + Cardinality({j \in 1 .. i - 1 : Coded(items[j])}))

\* Between two messages of an answer, whatever was executed silently, resent or not
\* compared: each byte in flight will be decrypted at its place.
KeysInStep ==
  /\ sv.pc \notin {"none", "exited"} => InTurn(up, sv.key, "up", sv.rx + Len(sv.got))
  /\ cl.pc = "length"  => InTurn(down, cl.key, "down", cl.rx)
  /\ cl.pc = "payload" => InTurn(down, cl.key, "down", cl.rx + cl.count)

\* When the poller is about to ask and the child has done all it was sent, both have
\* the same machine: registers, heap and stack pointer.
MirrorsAgree ==
  sv.pc = "header" /\ up = <<>> /\ cl.pc \in {"ask", "io", "memory", "passed"}
    => sv.m = cl.m

\* The poller finds a wrong register only after a read that came in two parts: getData
\* puts the second one over the first.
VerdictTrue == cl.pc = "failed" => cl.torn

\* The two ends never wait for each other: a poller that has begun comes to an end.
PollEnds == cl.pc = "key" ~> cl.pc \in Ends
=============================================================================
