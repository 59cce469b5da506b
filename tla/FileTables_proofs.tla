-------------------------- MODULE FileTables_proofs --------------------------
(***************************************************************************)
(* For every number of tasks and descriptors: what the host has open and   *)
(* what stands in the tables correspond, numbers are never reused, and     *)
(* read_file and write_file report what they moved.                        *)
(***************************************************************************)
EXTENDS FileTables, WellFoundedInduction, TLAPS

Table == [last : Nat, map : UNION {[D -> Fd] : D \in SUBSET Nat}]

FileTypes ==
  /\ tables \in [Task -> Table]
  /\ tableOf \in [Task -> Task \cup {NULL}]
  /\ host = [fd \in DOMAIN host |-> host[fd]] /\ DOMAIN host \subseteq Fd

NumbersBelow == \A t \in Task : \A n \in DOMAIN tables[t].map : n < tables[t].last

FilesInv == FileTypes /\ NumbersBelow /\ FdsAccounted

\* A table's map is a function from numbers.
LEMMA TableMap ==
  ASSUME NEW T \in Table
  PROVE  /\ T.last \in Nat /\ DOMAIN T.map \subseteq Nat
         /\ T.map = [n \in DOMAIN T.map |-> T.map[n]]
         /\ \A n \in DOMAIN T.map : T.map[n] \in Fd
<1>1. PICK D \in SUBSET Nat : T.map \in [D -> Fd]
  BY DEF Table
<1> QED
  BY <1>1 DEF Table

\* PutFile adds one number.
LEMMA PutFileAdds ==
  ASSUME NEW T \in Table, NEW fd \in Fd, \A n \in DOMAIN T.map : n < T.last
  PROVE  LET new == PutFile(T, fd)
         IN  /\ new \in Table
             /\ new.last = T.last + 1
             /\ DOMAIN new.map = DOMAIN T.map \cup {T.last}
             /\ new.map[T.last] = fd
             /\ \A n \in DOMAIN T.map : n # T.last /\ new.map[n] = T.map[n]
<1> DEFINE new == PutFile(T, fd)
           D   == DOMAIN T.map \cup {T.last}
<1>1. T.last \in Nat /\ DOMAIN T.map \subseteq Nat /\ \A n \in DOMAIN T.map : T.map[n] \in Fd
  BY TableMap
<1>2. \A n \in DOMAIN T.map : n # T.last
  BY <1>1
<1>3. new.map = [n \in D |-> IF n = T.last THEN fd ELSE T.map[n]]
  BY DEF PutFile, With
<1>4. new.map \in [D -> Fd] /\ D \in SUBSET Nat
  BY <1>1, <1>3
<1>5. new.last = T.last + 1 /\ new = [last |-> new.last, map |-> new.map]
  BY DEF PutFile
<1>6. new \in Table
  BY <1>1, <1>4, <1>5 DEF Table
<1> QED
  BY <1>2, <1>3, <1>5, <1>6

\* RemoveFile takes one number away.
LEMMA RemoveFileTakes ==
  ASSUME NEW T \in Table, NEW sfd
  PROVE  LET new == RemoveFile(T, sfd)
         IN  /\ new \in Table
             /\ new.last = T.last
             /\ DOMAIN new.map = DOMAIN T.map \ {sfd}
             /\ \A n \in DOMAIN new.map : new.map[n] = T.map[n]
<1> DEFINE new == RemoveFile(T, sfd)
           D   == DOMAIN T.map \ {sfd}
<1>1. T.last \in Nat /\ DOMAIN T.map \subseteq Nat /\ \A n \in DOMAIN T.map : T.map[n] \in Fd
  BY TableMap
<1>2. new.last = T.last /\ new.map = [n \in D |-> T.map[n]]
      /\ new = [last |-> new.last, map |-> new.map]
  BY DEF RemoveFile, Restrict, Table
<1>3. new.map \in [D -> Fd] /\ D \in SUBSET Nat
  BY <1>1, <1>2
<1>4. new \in Table
  BY <1>1, <1>2, <1>3 DEF Table
<1> QED
  BY <1>2, <1>4

LEMMA FilesInvInit == InitFiles => FilesInv
<1> SUFFICES ASSUME InitFiles PROVE FilesInv
  OBVIOUS
<1>1. EmptyMap \in [{} -> Fd] /\ DOMAIN EmptyMap = {}
  BY DEF EmptyMap
<1>2. EmptyTable \in Table /\ DOMAIN EmptyTable.map = {}
  BY <1>1 DEF EmptyTable, Table
<1>3. FileTypes
  BY <1>1, <1>2, FilesAssumption DEF InitFiles, FileTypes, EmptyMap
<1> QED
  BY <1>1, <1>2, <1>3 DEF InitFiles, FilesInv, NumbersBelow, FdsAccounted

\* A step that opens and closes nothing.
LEMMA FilesInvSame ==
  ASSUME FilesInv, UNCHANGED tables, tableOf' \in [Task -> Task \cup {NULL}],
         host' = [fd \in DOMAIN host |-> host'[fd]]
  PROVE  FilesInv'
<1>1. DOMAIN host' = DOMAIN host
  OBVIOUS
<1> QED
  BY <1>1 DEF FilesInv, FileTypes, NumbersBelow, FdsAccounted

LEMMA FilesInvOpen ==
  ASSUME FilesInv, NEW t \in Task, tableOf[t] # NULL, NEW m, OpenFile(t, m)
  PROVE  FilesInv'
<1> DEFINE u == tableOf[t]
           new == tables'[u]
<1>1. u \in Task /\ tables[u] \in Table /\ \A n \in DOMAIN tables[u].map : n < tables[u].last
  BY DEF FilesInv, FileTypes, NumbersBelow
<1>2. PICK fd \in Fd \ DOMAIN host :
        /\ host' = With(host, fd, [mode |-> m, pos |-> 0])
        /\ tables' = [tables EXCEPT ![u] = PutFile(tables[u], fd)]
  BY DEF OpenFile
<1>3. /\ DOMAIN host' = DOMAIN host \cup {fd}
      /\ host' = [x \in DOMAIN host' |-> host'[x]]
  BY <1>2 DEF With
<1>4. new = PutFile(tables[u], fd) /\ \A x \in Task \ {u} : tables'[x] = tables[x]
  BY <1>1, <1>2 DEF FilesInv, FileTypes
<1>5. /\ new \in Table
      /\ new.last = tables[u].last + 1
      /\ DOMAIN new.map = DOMAIN tables[u].map \cup {tables[u].last}
      /\ new.map[tables[u].last] = fd
      /\ \A n \in DOMAIN tables[u].map : n # tables[u].last /\ new.map[n] = tables[u].map[n]
  BY <1>1, <1>4, PutFileAdds
<1>6. tables[u].last \in Nat /\ DOMAIN tables[u].map \subseteq Nat
  BY <1>1, TableMap
<1> HIDE DEF new, u
<1>7. FileTypes'
  <2>1. tables' \in [Task -> Table]
    BY <1>1, <1>2, <1>4, <1>5 DEF FilesInv, FileTypes
  <2> QED
    BY <2>1, <1>2, <1>3 DEF FilesInv, FileTypes, OpenFile
<1>8. NumbersBelow'
  <2>1. \A n \in DOMAIN new.map : n < new.last
    BY <1>1, <1>5, <1>6
  <2> QED
    BY <2>1, <1>4 DEF FilesInv, NumbersBelow, new
<1>9. FdsAccounted'
  <2>1. \A x \in Task : \A n \in DOMAIN tables'[x].map :
          \/ x = u /\ n = tables[u].last /\ tables'[x].map[n] = fd
          \/ n \in DOMAIN tables[x].map /\ tables'[x].map[n] = tables[x].map[n]
    BY <1>4, <1>5 DEF new
  <2>2. \A x \in Task : \A n \in DOMAIN tables[x].map :
          n \in DOMAIN tables'[x].map /\ tables'[x].map[n] = tables[x].map[n]
    BY <1>4, <1>5 DEF new
  <2>3. tables[u].last \in DOMAIN tables'[u].map /\ tables'[u].map[tables[u].last] = fd
    BY <1>5 DEF new
  <2>4. \A x \in Task : \A n \in DOMAIN tables[x].map : tables[x].map[n] # fd
    BY <1>2 DEF FilesInv, FdsAccounted
  <2>5. \A x \in Task : \A n \in DOMAIN tables'[x].map : tables'[x].map[n] \in DOMAIN host'
    BY <2>1, <1>3 DEF FilesInv, FdsAccounted
  <2>6. \A x \in DOMAIN host' :
          \E y \in Task : \E n \in DOMAIN tables'[y].map : tables'[y].map[n] = x
    BY <2>2, <2>3, <1>1, <1>3 DEF FilesInv, FdsAccounted
  <2>7. \A x, y \in Task : \A n \in DOMAIN tables'[x].map, k \in DOMAIN tables'[y].map :
          tables'[x].map[n] = tables'[y].map[k] => x = y /\ n = k
    BY <2>1, <2>4 DEF FilesInv, FdsAccounted
  <2> QED
    BY <2>5, <2>6, <2>7 DEF FdsAccounted
<1> QED
  BY <1>7, <1>8, <1>9 DEF FilesInv

LEMMA FilesInvClose ==
  ASSUME FilesInv, NEW t \in Task, tableOf[t] # NULL, NEW sfd \in DOMAIN Map(t), CloseFile(t, sfd)
  PROVE  FilesInv'
<1> DEFINE u  == tableOf[t]
           fd == tables[u].map[sfd]
<1>1. u \in Task /\ tables[u] \in Table /\ sfd \in DOMAIN tables[u].map
  BY DEF FilesInv, FileTypes, Map
<1>2. /\ tables' = [tables EXCEPT ![u] = RemoveFile(tables[u], sfd)]
      /\ host' = [x \in DOMAIN host \ {fd} |-> host[x]] /\ UNCHANGED tableOf
  BY DEF CloseFile, Map, Restrict
<1>3. tables'[u] = RemoveFile(tables[u], sfd) /\ \A x \in Task \ {u} : tables'[x] = tables[x]
  BY <1>1, <1>2 DEF FilesInv, FileTypes
<1>4. /\ tables'[u] \in Table /\ tables'[u].last = tables[u].last
      /\ DOMAIN tables'[u].map = DOMAIN tables[u].map \ {sfd}
      /\ \A n \in DOMAIN tables'[u].map : tables'[u].map[n] = tables[u].map[n]
  BY <1>1, <1>3, RemoveFileTakes
<1> HIDE DEF u
<1>5. FileTypes'
  <2>1. tables' \in [Task -> Table]
    BY <1>1, <1>2, <1>3, <1>4 DEF FilesInv, FileTypes
  <2> QED
    BY <2>1, <1>2 DEF FilesInv, FileTypes
<1>6. NumbersBelow'
  BY <1>3, <1>4 DEF FilesInv, NumbersBelow
<1>7. FdsAccounted'
  <2>1. \A x \in Task : \A n : n \in DOMAIN tables'[x].map <=>
          n \in DOMAIN tables[x].map /\ ~(x = u /\ n = sfd)
    BY <1>3, <1>4
  <2>2. \A x \in Task : \A n \in DOMAIN tables'[x].map : tables'[x].map[n] = tables[x].map[n]
    BY <1>3, <1>4
  <2>3. DOMAIN host' = DOMAIN host \ {fd}
    BY <1>2
  <2>4. \A x \in Task : \A n \in DOMAIN tables'[x].map : tables'[x].map[n] # fd
    BY <2>1, <2>2, <1>1 DEF FilesInv, FdsAccounted
  <2>5. \A x \in Task : \A n \in DOMAIN tables'[x].map : tables'[x].map[n] \in DOMAIN host'
    BY <2>1, <2>2, <2>3, <2>4 DEF FilesInv, FdsAccounted
  <2>6. \A x \in DOMAIN host' :
          \E y \in Task : \E n \in DOMAIN tables'[y].map : tables'[y].map[n] = x
    BY <2>1, <2>2, <2>3 DEF FilesInv, FdsAccounted
  <2>7. \A x, y \in Task : \A n \in DOMAIN tables'[x].map, k \in DOMAIN tables'[y].map :
          tables'[x].map[n] = tables'[y].map[k] => x = y /\ n = k
    BY <2>1, <2>2 DEF FilesInv, FdsAccounted
  <2> QED
    BY <2>5, <2>6, <2>7 DEF FdsAccounted
<1> QED
  BY <1>5, <1>6, <1>7 DEF FilesInv

LEMMA FilesInvNext == ASSUME FilesInv, [NextFiles]_fileVars PROVE FilesInv'
<1> USE DEF FilesInv, FileTypes
<1>1. CASE UNCHANGED fileVars
  BY <1>1, FilesInvSame DEF fileVars
<1>2. ASSUME NEW t \in Task, tableOf[t] # NULL, CallFails(t) PROVE FilesInv'
  BY <1>2, FilesInvSame DEF CallFails
<1>3. ASSUME NEW t \in Task, NEW sfd, NEW asked, NEW room,
             ReadFile(t, sfd, asked, room) \/ WriteFile(t, sfd, asked, room)
      PROVE  FilesInv'
  <2>1. UNCHANGED <<tables, tableOf>>
    BY <1>3 DEF ReadFile, WriteFile
  <2>2. host' = [fd \in DOMAIN host |-> host'[fd]]
    BY <1>3 DEF ReadFile, WriteFile
  <2> QED
    BY <2>1, <2>2, FilesInvSame
<1>4. ASSUME NEW t \in Task, tableOf[t] # NULL, NEW child \in Task, NEW unshare,
             CloneFiles(t, child, unshare)
      PROVE  FilesInv'
  BY <1>4, FilesInvSame DEF CloneFiles
<1> QED
  BY <1>1, <1>2, <1>3, <1>4, FilesInvOpen, FilesInvClose DEF NextFiles, FileCall

\* What the host has open and what stands in the tables correspond one to one, whatever
\* the tasks do and however many there are.
THEOREM FdsCorrect == SpecFiles => []FdsAccounted
<1>1. FilesInv => FdsAccounted
  BY DEF FilesInv
<1> QED
  BY <1>1, FilesInvInit, FilesInvNext, PTL DEF SpecFiles

\* A number keeps its file, or loses it for ever.
THEOREM DescriptorsCorrect == SpecFiles => DescriptorsFixed
<1> DEFINE Fixed(a, b, n) == n \in DOMAIN b.map => n \in DOMAIN a.map /\ b.map[n] = a.map[n]
           Kept == \A t \in Task : \A n \in 0 .. tables[t].last - 1 : Fixed(tables[t], tables'[t], n)
<1>1. ASSUME FilesInv, NextFiles PROVE Kept
  <2> SUFFICES ASSUME NEW x \in Task, NEW n \in 0 .. tables[x].last - 1
               PROVE  Fixed(tables[x], tables'[x], n)
    OBVIOUS
  <2>1. PICK t \in Task : /\ tableOf[t] # NULL
                          /\ \/ FileCall(t)
                             \/ \E child \in Task, unshare \in BOOLEAN : CloneFiles(t, child, unshare)
    BY <1>1 DEF NextFiles
  <2>2. tableOf[t] \in Task /\ tables \in [Task -> Table]
    BY <1>1, <2>1 DEF FilesInv, FileTypes
  <2>3. ASSUME NEW m, OpenFile(t, m) PROVE Fixed(tables[x], tables'[x], n)
    <3>1. PICK fd \in Fd : tables' = [tables EXCEPT ![tableOf[t]] = PutFile(tables[tableOf[t]], fd)]
      BY <2>3 DEF OpenFile
    <3>2. \A k \in DOMAIN tables[x].map : k < tables[x].last
      BY <1>1 DEF FilesInv, NumbersBelow
    <3>3. tables[x] \in Table /\ tables[x].last \in Nat
      BY <2>2, TableMap
    <3>4. CASE x = tableOf[t]
      <4>1. tables'[x] = PutFile(tables[x], fd)
        BY <3>1, <3>4, <2>2
      <4>2. /\ DOMAIN tables'[x].map = DOMAIN tables[x].map \cup {tables[x].last}
            /\ \A k \in DOMAIN tables[x].map : tables'[x].map[k] = tables[x].map[k]
        BY <4>1, <3>2, <3>3, PutFileAdds
      <4>3. n # tables[x].last
        BY <3>3
      <4> QED
        BY <4>2, <4>3
    <3>5. CASE x # tableOf[t]
      BY <3>1, <3>5, <2>2
    <3> QED
      BY <3>4, <3>5
  <2>4. ASSUME NEW sfd, CloseFile(t, sfd) PROVE Fixed(tables[x], tables'[x], n)
    <3>1. tables' = [tables EXCEPT ![tableOf[t]] = RemoveFile(tables[tableOf[t]], sfd)]
      BY <2>4 DEF CloseFile
    <3>2. x = tableOf[t] => tables'[x] = RemoveFile(tables[x], sfd)
      BY <3>1, <2>2
    <3>3. x # tableOf[t] => tables'[x] = tables[x]
      BY <3>1, <2>2
    <3> QED
      BY <3>2, <3>3, <2>2, RemoveFileTakes
  <2>5. CASE UNCHANGED tables
    BY <2>5
  <2> QED
    BY <2>1, <2>3, <2>4, <2>5 DEF FileCall, CallFails, ReadFile, WriteFile, CloneFiles
<1>2. FilesInv /\ [NextFiles]_fileVars => [Kept]_fileVars
  BY <1>1
<1> QED
  BY <1>2, FilesInvInit, FilesInvNext, PTL DEF SpecFiles, DescriptorsFixed
-----------------------------------------------------------------------------
(* What the loops of read and write report.                                *)

\* Induction over an interval, for a set of numbers.
LEMMA UpTo ==
  ASSUME NEW n \in Nat, NEW A, 0 \in A, \A k \in 0 .. n - 1 : k \in A => k + 1 \in A
  PROVE  n \in A
<1> DEFINE B == (0 .. n) \ A
<1> SUFFICES ASSUME B # {} PROVE FALSE
  OBVIOUS
<1>1. B \subseteq Nat
  OBVIOUS
<1>2. PICK m \in B : \A i \in B : ~(<<i, m>> \in OpToRel(<, Nat))
  <2> HIDE DEF B
  <2> QED
    BY <1>1, NatLessThanWellFounded, WFMin, Zenon
<1>3. m \in 1 .. n /\ m - 1 \in 0 .. n - 1
  OBVIOUS
<1>4. m - 1 \in A
  <2> SUFFICES ASSUME m - 1 \notin A PROVE FALSE
    OBVIOUS
  <2>1. m - 1 \in B /\ m - 1 \in Nat /\ m \in Nat /\ m - 1 < m
    BY <1>3
  <2> HIDE DEF B
  <2>2. <<m - 1, m>> \in OpToRel(<, Nat)
    BY <2>1 DEF OpToRel
  <2> QED
    BY <1>2, <2>1, <2>2
<1>5. (m - 1) + 1 \in A
  BY <1>3, <1>4
<1> QED
  BY <1>3, <1>5

\* g is what a loop over offsets yields that stops at some of them, with val, and
\* otherwise goes on by CACHE.
IsLoop(g, n, stop, val) ==
  \A off \in 0 .. n : g[off] = IF stop[off] THEN val[off] ELSE g[off + CACHE]

\* Such a loop exists if it stops before n is exceeded.
LEMMA LoopExists ==
  ASSUME NEW n \in Nat, NEW V, NEW val \in [0 .. n -> V], NEW stop \in [0 .. n -> BOOLEAN],
         \A off \in 0 .. n : ~stop[off] => off + CACHE <= n
  PROVE  \E g : g \in [0 .. n -> V] /\ IsLoop(g, n, stop, val)
<1> DEFINE Right(g, off) == g[off] = IF stop[off] THEN val[off] ELSE g[off + CACHE]
           From(g, k) == g \in [0 .. n -> V] /\ \A off \in n - k .. n : Right(g, off)
           A == {k \in 0 .. n : \E g : From(g, k)}
<1>0. CACHE \in Nat \ {0}
  BY FilesAssumption
<1>1. 0 \in A
  <2>1. \A off \in n - 0 .. n : off = n
    OBVIOUS
  <2>2. stop[n]
    BY <1>0
  <2>3. From(val, 0)
    BY <2>1, <2>2
  <2> HIDE DEF From
  <2> QED
    BY <2>3
<1>2. ASSUME NEW k \in 0 .. n - 1, k \in A PROVE k + 1 \in A
  <2>1. PICK g : From(g, k)
    BY <1>2
  <2> DEFINE at == n - (k + 1)
             new == IF stop[at] THEN val[at] ELSE g[at + CACHE]
             h == [g EXCEPT ![at] = new]
  <2>2. at \in 0 .. n /\ new \in V
    BY <2>1, <1>0
  <2>3. h \in [0 .. n -> V] /\ h[at] = new /\ \A off \in 0 .. n : off # at => h[off] = g[off]
    BY <2>1, <2>2
  <2>4. ASSUME NEW off \in at .. n PROVE Right(h, off)
    <3>1. off \in 0 .. n /\ (~stop[off] => off + CACHE \in 0 .. n /\ off + CACHE # at)
      BY <2>2, <1>0
    <3>2. CASE off = at
      <4> HIDE DEF h, at
      <4> QED
        BY <3>1, <3>2, <2>3
    <3>3. CASE off # at
      <4>1. off \in n - k .. n
        BY <3>3
      <4>2. Right(g, off)
        BY <4>1, <2>1
      <4> HIDE DEF h, at, new
      <4> QED
        BY <3>1, <3>3, <4>2, <2>3
    <3> QED
      BY <3>2, <3>3
  <2>5. From(h, k + 1)
    <3> HIDE DEF h, Right
    <3> QED
      BY <2>3, <2>4
  <2> HIDE DEF From
  <2> QED
    BY <2>5
<1>3. n \in A
  <2> HIDE DEF A
  <2> QED
    BY <1>1, <1>2, UpTo
<1>4. PICK g : From(g, n)
  BY <1>3
<1>5. IsLoop(g, n, stop, val)
  BY <1>4 DEF IsLoop
<1> QED
  BY <1>4, <1>5

\* From an offset of R, which it does not leave, a loop comes to one where it stops.
LEMMA LoopEnds ==
  ASSUME NEW n \in Nat, NEW val, NEW stop, NEW g, IsLoop(g, n, stop, val),
         NEW R \in SUBSET (0 .. n),
         \A off \in R : ~stop[off] => off + CACHE \in R,
         NEW o \in R
  PROVE  \E q \in R : stop[q] /\ g[o] = val[q]
<1> DEFINE Ends(off) == \E q \in R : stop[q] /\ g[off] = val[q]
           A == {k \in 0 .. n : \A off \in R : off >= n - k => Ends(off)}
<1>0. CACHE \in Nat \ {0}
  BY FilesAssumption
<1>1. ASSUME NEW off \in R, \A p \in R : p > off => Ends(p) PROVE Ends(off)
  <2>1. CASE stop[off]
    BY <2>1 DEF IsLoop
  <2>2. CASE ~stop[off]
    <3>1. off + CACHE \in R /\ off + CACHE > off
      BY <2>2, <1>0
    <3>2. g[off] = g[off + CACHE]
      BY <2>2 DEF IsLoop
    <3> QED
      BY <1>1, <3>1, <3>2
  <2> QED
    BY <2>1, <2>2
<1> HIDE DEF Ends
<1>2. 0 \in A
  <2> SUFFICES ASSUME NEW off \in R, off >= n - 0 PROVE Ends(off)
    OBVIOUS
  <2> QED
    BY <1>1
<1>3. ASSUME NEW k \in 0 .. n - 1, k \in A PROVE k + 1 \in A
  <2> SUFFICES ASSUME NEW off \in R, off >= n - (k + 1) PROVE Ends(off)
    OBVIOUS
  <2>1. \A p \in R : p > off => p >= n - k
    OBVIOUS
  <2> QED
    BY <1>1, <1>3, <2>1
<1>4. n \in A
  <2> HIDE DEF A
  <2> QED
    BY <1>2, <1>3, UpTo
<1>5. o >= n - n
  OBVIOUS
<1> QED
  BY <1>4, <1>5 DEF Ends

\* Where a read's loop stops, with what.
GotAt(asked, avail, off) ==
  Least(IF asked - off > CACHE THEN CACHE ELSE asked, avail - off)
ReadStops(asked, avail, room, off) ==
  LET got == GotAt(asked, avail, off)
  IN  \/ off >= asked \/ got < 0 \/ off + got > room
      \/ got # CACHE \/ (asked - off <= CACHE /\ asked # CACHE)
ReadEnd(asked, avail, room, off) ==
  LET got == GotAt(asked, avail, off)
  IN  IF off >= asked \/ got < 0 THEN [result |-> off, moved |-> off, taken |-> off]
      ELSE IF off + got > room THEN [result |-> FAULT, moved |-> off, taken |-> off + got]
      ELSE [result |-> off + got, moved |-> off + got, taken |-> off + got]

LEMMA ReadChunkIs ==
  ASSUME NEW asked \in Nat, NEW avail \in Nat, NEW room \in Nat, NEW off \in Nat, NEW rest
  PROVE  ReadChunk(asked, avail, room, off, rest) =
           IF ReadStops(asked, avail, room, off) THEN ReadEnd(asked, avail, room, off) ELSE rest
<1> DEFINE got == GotAt(asked, avail, off)
           chunk == IF asked - off > CACHE THEN CACHE ELSE asked
<1>0. CACHE \in Nat \ {0}
  BY FilesAssumption
<1>1. got \in Int /\ (chunk # CACHE <=> asked - off <= CACHE /\ asked # CACHE)
  BY <1>0 DEF GotAt, Least
<1>2. ReadChunk(asked, avail, room, off, rest) =
        IF off >= asked \/ got < 0 THEN [result |-> off, moved |-> off, taken |-> off]
        ELSE IF off + got > room THEN [result |-> FAULT, moved |-> off, taken |-> off + got]
        ELSE IF got = CACHE /\ chunk = CACHE THEN rest
        ELSE [result |-> off + got, moved |-> off + got, taken |-> off + got]
  BY DEF ReadChunk, GotAt, Counted
<1>3. ReadStops(asked, avail, room, off) <=>
        off >= asked \/ got < 0 \/ off + got > room \/ got # CACHE \/ chunk # CACHE
  BY <1>1 DEF ReadStops
<1>4. ReadEnd(asked, avail, room, off) =
        IF off >= asked \/ got < 0 THEN [result |-> off, moved |-> off, taken |-> off]
        ELSE IF off + got > room THEN [result |-> FAULT, moved |-> off, taken |-> off + got]
        ELSE [result |-> off + got, moved |-> off + got, taken |-> off + got]
  BY DEF ReadEnd
<1> HIDE DEF got, chunk
<1>5. CASE off >= asked \/ got < 0
  <2>1. ReadChunk(asked, avail, room, off, rest) = [result |-> off, moved |-> off, taken |-> off]
    BY <1>2, <1>5, <1>1, <1>0
  <2> QED
    BY <1>3, <1>4, <1>5, <2>1
<1>6. CASE ~(off >= asked \/ got < 0) /\ off + got > room
  BY <1>2, <1>3, <1>4, <1>6
<1>7. CASE ~(off >= asked \/ got < 0) /\ ~(off + got > room) /\ got = CACHE /\ chunk = CACHE
  BY <1>2, <1>3, <1>7
<1>8. CASE ~(off >= asked \/ got < 0) /\ ~(off + got > room) /\ ~(got = CACHE /\ chunk = CACHE)
  BY <1>2, <1>3, <1>4, <1>8
<1> QED
  BY <1>5, <1>6, <1>7, <1>8

\* A read that does not fault returns what the guest got and what it took from the file,
\* which had as much; a read of one chunk returns no more than was asked for.
ReadFrom(asked, avail, room) ==
  LET f[off \in 0 .. asked + CACHE] == ReadChunk(asked, avail, room, off, f[off + CACHE])
  IN  f

LEMMA ReadLoopReports ==
  ASSUME NEW asked \in Nat, NEW avail \in Nat, NEW room \in Nat
  PROVE  LET r == ReadLoop(asked, avail, room)
         IN  /\ r.taken \in 0 .. avail
             /\ r.result # FAULT => /\ r.result = r.moved /\ r.moved = r.taken
                                    /\ asked <= CACHE => r.result <= asked
<1> DEFINE N == asked + CACHE
           stop == [off \in 0 .. N |-> ReadStops(asked, avail, room, off)]
           val == [off \in 0 .. N |-> ReadEnd(asked, avail, room, off)]
           V == {val[off] : off \in 0 .. N}
           Step(f, off) == ReadChunk(asked, avail, room, off, f[off + CACHE])
           g == ReadFrom(asked, avail, room)
<1>0. CACHE \in Nat \ {0} /\ N \in Nat
  BY FilesAssumption
<1>1. ASSUME NEW f, NEW off \in 0 .. N
      PROVE  Step(f, off) = IF stop[off] THEN val[off] ELSE f[off + CACHE]
  BY <1>0, ReadChunkIs
<1>2. \A off \in 0 .. N : ~stop[off] => off + CACHE <= N
  <2> SUFFICES ASSUME NEW off \in 0 .. N, ~ReadStops(asked, avail, room, off)
               PROVE  off + CACHE <= N
    OBVIOUS
  <2>1. off < asked
    BY <1>0 DEF ReadStops
  <2> QED
    BY <1>0, <2>1
<1>3. PICK h : h \in [0 .. N -> V] /\ IsLoop(h, N, stop, val)
  <2>1. val \in [0 .. N -> V] /\ stop \in [0 .. N -> BOOLEAN]
    BY DEF ReadStops
  <2> HIDE DEF N, val, stop, V
  <2> QED
    BY <1>0, <1>2, <2>1, LoopExists
<1> HIDE DEF stop, val, V
<1>4. h = [off \in 0 .. asked + CACHE |-> ReadChunk(asked, avail, room, off, h[off + CACHE])]
  BY <1>1, <1>3 DEF IsLoop
<1>5. g = [off \in 0 .. asked + CACHE |-> ReadChunk(asked, avail, room, off, g[off + CACHE])]
  BY <1>4, Zenon DEF ReadFrom
<1>6. ReadLoop(asked, avail, room) = g[0]
  BY Zenon DEF ReadLoop, ReadFrom
<1> HIDE DEF g
<1>7. IsLoop(g, N, stop, val)
  <2> SUFFICES ASSUME NEW off \in 0 .. N
               PROVE  g[off] = IF stop[off] THEN val[off] ELSE g[off + CACHE]
    BY DEF IsLoop
  <2> QED
    BY <1>1, <1>5
<1> DEFINE R == {off \in 0 .. N : off <= avail /\ (asked <= CACHE => off \in {0, asked})}
<1>8. \A off \in R : ~stop[off] => off + CACHE \in R
  <2> SUFFICES ASSUME NEW off \in R, ~ReadStops(asked, avail, room, off)
               PROVE  off + CACHE \in R
    BY DEF stop
  <2>1. /\ off < asked /\ GotAt(asked, avail, off) = CACHE
        /\ asked - off > CACHE \/ asked = CACHE
    BY <1>0 DEF ReadStops
  <2>2. CACHE <= avail - off
    BY <2>1, <1>0 DEF GotAt, Least
  <2> QED
    BY <2>1, <2>2, <1>0
<1>9. 0 \in R
  BY <1>0
<1>10. PICK q \in R : stop[q] /\ g[0] = val[q]
  <2>1. R \in SUBSET (0 .. N)
    OBVIOUS
  <2> HIDE DEF N, R
  <2> QED
    BY <1>0, <1>7, <1>8, <1>9, <2>1, LoopEnds
<1> DEFINE r == ReadEnd(asked, avail, room, q)
<1>11. g[0] = r
  BY <1>10 DEF val
<1>12. /\ r.taken \in 0 .. avail
       /\ r.result # FAULT => /\ r.result = r.moved /\ r.moved = r.taken
                              /\ asked <= CACHE => r.result <= asked
  BY <1>0 DEF ReadEnd, GotAt, Least, FAULT
<1> HIDE DEF r
<1> QED
  BY <1>6, <1>11, <1>12


\* Where a write's loop stops, with what: R is where everything up to the offset has been
\* written.
WriteGot(asked, readable, off) == Least(Least(asked - off, CACHE), readable - off)
WriteStops(asked, readable, space, off) ==
  LET got == WriteGot(asked, readable, off)
  IN  off >= asked \/ got <= 0 \/ off + got > space
WriteEnd(asked, readable, space, off) ==
  LET got == WriteGot(asked, readable, off)
  IN  IF off >= asked THEN [result |-> asked, moved |-> Least(asked, readable)]
      ELSE IF got <= 0 THEN [result |-> FAULT, moved |-> readable]
      ELSE [result |-> off + (space - off), moved |-> space]

LEMMA WriteChunkIs ==
  ASSUME NEW asked \in Nat, NEW readable \in Nat, NEW space \in Nat, NEW off \in Nat, NEW rest
  PROVE  WriteChunk(asked, readable, space, off, rest) =
           IF WriteStops(asked, readable, space, off) THEN WriteEnd(asked, readable, space, off)
           ELSE rest
<1> DEFINE got == WriteGot(asked, readable, off)
<1>0. CACHE \in Nat \ {0}
  BY FilesAssumption
<1>1. got \in Int
  BY <1>0 DEF WriteGot, Least
<1>2. WriteChunk(asked, readable, space, off, rest) =
        CASE off >= asked -> [result |-> asked, moved |-> Least(asked, readable)]
          [] off < asked /\ got <= 0 -> [result |-> FAULT, moved |-> readable]
          [] off < asked /\ got > 0 /\ off + got > space ->
               [result |-> off + (space - off), moved |-> space]
          [] OTHER -> rest
  BY Zenon DEF WriteChunk, WriteGot, Reported
<1>3. WriteStops(asked, readable, space, off) <=> off >= asked \/ got <= 0 \/ off + got > space
  BY DEF WriteStops
<1>4. WriteEnd(asked, readable, space, off) =
        IF off >= asked THEN [result |-> asked, moved |-> Least(asked, readable)]
        ELSE IF got <= 0 THEN [result |-> FAULT, moved |-> readable]
        ELSE [result |-> off + (space - off), moved |-> space]
  BY DEF WriteEnd
<1> HIDE DEF got
<1>5. CASE off >= asked
  BY <1>1, <1>2, <1>3, <1>4, <1>5
<1>6. CASE off < asked /\ got <= 0
  BY <1>1, <1>2, <1>3, <1>4, <1>6
<1>7. CASE off < asked /\ got > 0 /\ off + got > space
  BY <1>1, <1>2, <1>3, <1>4, <1>7
<1>8. CASE off < asked /\ got > 0 /\ ~(off + got > space)
  BY <1>1, <1>2, <1>3, <1>4, <1>8
<1> QED
  BY <1>1, <1>5, <1>6, <1>7, <1>8

WriteFrom(asked, readable, space) ==
  LET f[off \in 0 .. asked + CACHE] == WriteChunk(asked, readable, space, off, f[off + CACHE])
  IN  f

\* A write that does not fault returns no less than was written and no more than was asked
\* for, and just what was written if the guest's buffer could be read.
LEMMA WriteLoopReports ==
  ASSUME NEW asked \in Nat, NEW readable \in Nat, NEW space \in Nat
  PROVE  LET r == WriteLoop(asked, readable, space)
         IN  /\ r.moved \in 0 .. space /\ r.result \in Int
             /\ r.result # FAULT => /\ r.moved <= r.result /\ r.result <= asked
                                    /\ readable >= asked => r.result = r.moved
<1> DEFINE N == asked + CACHE
           stop == [off \in 0 .. N |-> WriteStops(asked, readable, space, off)]
           val == [off \in 0 .. N |-> WriteEnd(asked, readable, space, off)]
           V == {val[off] : off \in 0 .. N}
           Step(f, off) == WriteChunk(asked, readable, space, off, f[off + CACHE])
           g == WriteFrom(asked, readable, space)
<1>0. CACHE \in Nat \ {0} /\ N \in Nat
  BY FilesAssumption
<1>1. ASSUME NEW f, NEW off \in 0 .. N
      PROVE  Step(f, off) = IF stop[off] THEN val[off] ELSE f[off + CACHE]
  BY <1>0, WriteChunkIs
<1>2. \A off \in 0 .. N : ~stop[off] => off + CACHE <= N
  <2> SUFFICES ASSUME NEW off \in 0 .. N, ~WriteStops(asked, readable, space, off)
               PROVE  off + CACHE <= N
    OBVIOUS
  <2>1. off < asked
    BY <1>0 DEF WriteStops
  <2> QED
    BY <1>0, <2>1
<1>3. PICK h : h \in [0 .. N -> V] /\ IsLoop(h, N, stop, val)
  <2>1. val \in [0 .. N -> V] /\ stop \in [0 .. N -> BOOLEAN]
    BY DEF WriteStops
  <2> HIDE DEF N, val, stop, V
  <2> QED
    BY <1>0, <1>2, <2>1, LoopExists
<1> HIDE DEF stop, val, V
<1>4. h = [off \in 0 .. asked + CACHE |-> WriteChunk(asked, readable, space, off, h[off + CACHE])]
  BY <1>1, <1>3 DEF IsLoop
<1>5. g = [off \in 0 .. asked + CACHE |-> WriteChunk(asked, readable, space, off, g[off + CACHE])]
  BY <1>4, Zenon DEF WriteFrom
<1>6. WriteLoop(asked, readable, space) = g[0]
  BY Zenon DEF WriteLoop, WriteFrom
<1> HIDE DEF g
<1>7. IsLoop(g, N, stop, val)
  <2> SUFFICES ASSUME NEW off \in 0 .. N
               PROVE  g[off] = IF stop[off] THEN val[off] ELSE g[off + CACHE]
    BY DEF IsLoop
  <2> QED
    BY <1>1, <1>5
<1> DEFINE R == {off \in 0 .. N : Least(off, Least(asked, readable)) <= space}
<1>8. \A off \in R : ~stop[off] => off + CACHE \in R
  <2> SUFFICES ASSUME NEW off \in R, ~WriteStops(asked, readable, space, off)
               PROVE  off + CACHE \in R
    BY DEF stop
  <2> DEFINE got == WriteGot(asked, readable, off)
  <2>1. off < asked /\ got > 0 /\ off + got <= space
    BY <1>0 DEF WriteStops, WriteGot, Least
  <2>2. Least(off + CACHE, Least(asked, readable)) = off + got
    BY <2>1, <1>0 DEF WriteGot, Least
  <2> QED
    BY <2>1, <2>2, <1>0
<1>9. 0 \in R
  BY <1>0 DEF Least
<1>10. PICK q \in R : stop[q] /\ g[0] = val[q]
  <2>1. R \in SUBSET (0 .. N)
    OBVIOUS
  <2> HIDE DEF N, R
  <2> QED
    BY <1>0, <1>7, <1>8, <1>9, <2>1, LoopEnds
<1> DEFINE r == WriteEnd(asked, readable, space, q)
<1>11. g[0] = r /\ WriteStops(asked, readable, space, q)
  BY <1>10 DEF val, stop
<1>12. /\ r.moved \in 0 .. space /\ r.result \in Int
       /\ r.result # FAULT => /\ r.moved <= r.result /\ r.result <= asked
                              /\ readable >= asked => r.result = r.moved
  BY <1>0, <1>11 DEF WriteEnd, WriteStops, WriteGot, Least, FAULT
<1> HIDE DEF r
<1> QED
  BY <1>6, <1>11, <1>12

-----------------------------------------------------------------------------
(* Offsets stay on the disk, and so what the calls move.                   *)

Open == [mode : {"r", "w"}, pos : 0 .. MaxSize]

OffsetsInv == size \in 0 .. MaxSize /\ \A fd \in DOMAIN host : host[fd] \in Open

TransferInv == FilesInv /\ OffsetsInv /\ BytesReported

\* A step that reports nothing.
LEMMA NothingReported == did' = Nothing => BytesReported'
BY DEF BytesReported, Nothing

\* A descriptor that moved on.
LEMMA MovedOn ==
  ASSUME FilesInv, OffsetsInv, NEW fd \in DOMAIN host, NEW moved \in Nat,
         host[fd].pos + moved <= MaxSize, host' = [host EXCEPT ![fd].pos = @ + moved]
  PROVE  DOMAIN host' = DOMAIN host /\ \A x \in DOMAIN host : host'[x] \in Open
<1>1. host = [x \in DOMAIN host |-> host[x]] /\ host[fd] \in Open
  BY DEF FilesInv, FileTypes, OffsetsInv
<1>2. DOMAIN host' = DOMAIN host /\ host'[fd] = [host[fd] EXCEPT !.pos = @ + moved]
      /\ \A x \in DOMAIN host : x # fd => host'[x] = host[x]
  BY <1>1
<1>3. host'[fd] \in Open
  <2>1. host[fd].pos \in 0 .. MaxSize /\ MaxSize \in Nat
    BY <1>1, FilesAssumption DEF Open
  <2>2. host[fd].pos + moved \in 0 .. MaxSize
    BY <2>1
  <2> QED
    BY <1>1, <1>2, <2>2 DEF Open
<1> QED
  BY <1>2, <1>3 DEF OffsetsInv

LEMMA TransferRead ==
  ASSUME TransferInv, NEW t \in Task, tableOf[t] # NULL, NEW sfd \in DOMAIN Map(t),
         NEW asked \in Nat, NEW room \in Nat, ReadFile(t, sfd, asked, room)
  PROVE  OffsetsInv' /\ BytesReported'
<1> DEFINE fd    == Map(t)[sfd]
           avail == IF size > host[fd].pos THEN size - host[fd].pos ELSE 0
           r     == IF host[fd].mode = "r" THEN ReadLoop(asked, avail, room)
                    ELSE [result |-> FAULT, moved |-> 0, taken |-> 0]
<1>1. fd \in DOMAIN host /\ host[fd] \in Open /\ size \in 0 .. MaxSize
  BY DEF TransferInv, FilesInv, FileTypes, FdsAccounted, OffsetsInv, Map
<1>2. host[fd].pos \in 0 .. MaxSize /\ MaxSize \in Nat
  BY <1>1, FilesAssumption DEF Open
<1>3. avail \in Nat /\ host[fd].pos + avail <= MaxSize
  BY <1>1, <1>2
<1>4. /\ did' = [call |-> "read", asked |-> asked, result |-> r.result,
                 moved |-> r.moved, taken |-> r.taken]
      /\ host' = [host EXCEPT ![fd].pos = @ + r.taken] /\ UNCHANGED size
  BY Zenon DEF ReadFile
<1> HIDE DEF avail, fd
<1>5. /\ r.taken \in 0 .. avail
      /\ r.result # FAULT => /\ r.result = r.moved /\ r.moved = r.taken
                             /\ asked <= CACHE => r.result <= asked
  <2>1. CASE host[fd].mode = "r"
    <3>1. r = ReadLoop(asked, avail, room)
      BY <2>1
    <3> HIDE DEF r
    <3> QED
      BY <3>1, <1>3, ReadLoopReports
  <2>2. CASE host[fd].mode # "r"
    BY <2>2, <1>3
  <2> QED
    BY <2>1, <2>2
<1> HIDE DEF r
<1>6. OffsetsInv'
  <2>1. r.taken \in Nat /\ host[fd].pos + r.taken <= MaxSize
    BY <1>2, <1>3, <1>5
  <2>2. DOMAIN host' = DOMAIN host /\ \A x \in DOMAIN host : host'[x] \in Open
    BY <2>1, <1>1, <1>4, MovedOn DEF TransferInv
  <2> QED
    BY <2>2, <1>1, <1>4 DEF OffsetsInv
<1>7. BytesReported'
  BY <1>4, <1>5 DEF BytesReported
<1> QED
  BY <1>6, <1>7

LEMMA TransferWrite ==
  ASSUME TransferInv, NEW t \in Task, tableOf[t] # NULL, NEW sfd \in DOMAIN Map(t),
         NEW asked \in Nat, NEW readable \in Nat, WriteFile(t, sfd, asked, readable)
  PROVE  OffsetsInv' /\ BytesReported'
<1> DEFINE fd    == Map(t)[sfd]
           may   == host[fd].mode = "w"
           pos   == host[fd].pos
           space == IF may THEN MaxSize - pos ELSE asked
           r     == WriteLoop(asked, readable, space)
           moved == IF may THEN r.moved ELSE 0
<1>1. fd \in DOMAIN host /\ host[fd] \in Open /\ size \in 0 .. MaxSize
  BY DEF TransferInv, FilesInv, FileTypes, FdsAccounted, OffsetsInv, Map
<1>2. pos \in 0 .. MaxSize /\ MaxSize \in Nat
  BY <1>1, FilesAssumption DEF Open
<1>3. space \in Nat
  BY <1>2
<1>4. /\ did' = [call |-> "write", asked |-> asked, result |-> r.result, moved |-> moved,
                 sound |-> may /\ readable >= asked]
      /\ host' = [host EXCEPT ![fd].pos = @ + moved]
      /\ size' = IF pos + moved > size THEN pos + moved ELSE size
  BY Zenon DEF WriteFile
<1>5. /\ r.moved \in 0 .. space /\ r.result \in Int
      /\ r.result # FAULT => /\ r.moved <= r.result /\ r.result <= asked
                             /\ readable >= asked => r.result = r.moved
  <2> HIDE DEF space
  <2> QED
    BY <1>3, WriteLoopReports
<1> HIDE DEF r
<1>6. moved \in Nat /\ pos + moved <= MaxSize
  BY <1>2, <1>5
<1>7. OffsetsInv'
  <2>1. size' \in 0 .. MaxSize
    BY <1>1, <1>2, <1>4, <1>6
  <2> HIDE DEF fd, moved
  <2>2. DOMAIN host' = DOMAIN host /\ \A x \in DOMAIN host : host'[x] \in Open
    BY <1>1, <1>4, <1>6, MovedOn DEF TransferInv
  <2> QED
    BY <2>1, <2>2 DEF OffsetsInv
<1>8. BytesReported'
  <2>1. r.result # FAULT => moved <= r.result /\ r.result <= asked
    BY <1>3, <1>5
  <2>2. r.result # FAULT /\ may /\ readable >= asked => r.result = moved
    BY <1>5
  <2> HIDE DEF moved, may
  <2> QED
    BY <1>4, <2>1, <2>2 DEF BytesReported
<1> QED
  BY <1>7, <1>8

LEMMA TransferInit == InitFiles => TransferInv
<1> SUFFICES ASSUME InitFiles PROVE TransferInv
  OBVIOUS
<1>1. BytesReported
  BY DEF InitFiles, BytesReported, Nothing
<1>2. DOMAIN host = {} /\ size \in 0 .. MaxSize
  BY DEF InitFiles, EmptyMap
<1> QED
  BY <1>1, <1>2, FilesInvInit DEF TransferInv, OffsetsInv

LEMMA TransferNext == ASSUME TransferInv, [NextFiles]_fileVars PROVE TransferInv'
<1>1. FilesInv'
  BY FilesInvNext DEF TransferInv
<1>3. ASSUME NEW t \in Task, CallFails(t) PROVE OffsetsInv' /\ BytesReported'
  BY <1>3, NothingReported DEF CallFails, TransferInv, OffsetsInv
<1>4. ASSUME NEW t \in Task, NEW mode \in {"r", "w"}, OpenFile(t, mode)
      PROVE  OffsetsInv' /\ BytesReported'
  <2>1. PICK fd \in Fd \ DOMAIN host : host' = With(host, fd, [mode |-> mode, pos |-> 0])
    BY <1>4 DEF OpenFile
  <2>2. [mode |-> mode, pos |-> 0] \in Open
    BY FilesAssumption DEF Open
  <2>3. \A x \in DOMAIN host' : host'[x] \in Open
    BY <2>1, <2>2 DEF With, TransferInv, OffsetsInv
  <2> QED
    BY <1>4, <2>3, NothingReported DEF OpenFile, TransferInv, OffsetsInv
<1>5. ASSUME NEW t \in Task, NEW sfd \in DOMAIN Map(t), CloseFile(t, sfd)
      PROVE  OffsetsInv' /\ BytesReported'
  BY <1>5, NothingReported DEF CloseFile, Restrict, TransferInv, OffsetsInv
<1>6. ASSUME NEW t \in Task, NEW child, NEW unshare, CloneFiles(t, child, unshare)
      PROVE  OffsetsInv' /\ BytesReported'
  BY <1>6, NothingReported DEF CloneFiles, TransferInv, OffsetsInv
<1>7. Asked \subseteq Nat
  BY FilesAssumption DEF Asked
<1>8. ASSUME NEW t \in Task, tableOf[t] # NULL, NEW sfd \in DOMAIN Map(t),
             NEW asked \in Asked, NEW room \in Asked,
             ReadFile(t, sfd, asked, room) \/ WriteFile(t, sfd, asked, room)
      PROVE  OffsetsInv' /\ BytesReported'
  BY <1>7, <1>8, TransferRead, TransferWrite
<1>9. ASSUME NEW t \in Task, tableOf[t] # NULL, FileCall(t) PROVE OffsetsInv' /\ BytesReported'
  BY <1>3, <1>4, <1>5, <1>8, <1>9 DEF FileCall
<1>10. OffsetsInv' /\ BytesReported'
  <2>1. CASE UNCHANGED fileVars
    BY <2>1 DEF fileVars, TransferInv, OffsetsInv, BytesReported
  <2>2. CASE NextFiles
    BY <1>6, <1>9, <2>2 DEF NextFiles
  <2> QED
    BY <2>1, <2>2
<1> QED
  BY <1>1, <1>10 DEF TransferInv

\* Whatever was asked for, whatever the guest's buffer takes or holds and whatever the file
\* and the disk have left, read_file and write_file report what they moved
\* (sys_read_file, sys_write_file).
THEOREM ReportsCorrect == SpecFiles => []BytesReported
<1>1. InitFiles => TransferInv
  BY TransferInit
<1>2. TransferInv /\ [NextFiles]_fileVars => TransferInv'
  BY TransferNext
<1>3. TransferInv => BytesReported
  BY DEF TransferInv
<1> QED
  BY <1>1, <1>2, <1>3, PTL DEF SpecFiles
=============================================================================
