----------------------------- MODULE FileTables ------------------------------
(***************************************************************************)
(* Files of nivisor's guests: FileManager (fm.cpp) maps the descriptors of *)
(* a guest to descriptors of nivisor itself, which the host numbers.       *)
(* Clones share the table of their parent unless they ask for a new one,   *)
(* and no table is ever given back: the scheduler forgets a ThreadContext  *)
(* without deleting it.                                                    *)
(***************************************************************************)
EXTENDS Integers, Functions

CONSTANTS
  Task,             \* spids
  Fd,               \* descriptors the host has for guests' files
  CACHE,            \* CHAR_CACHE_SIZE
  MaxSize,          \* bytes the disk has room for
  MaxOpens,         \* bounds the opens of a table
  NULL

ASSUME FilesAssumption ==
  /\ Task \subseteq Nat \ {0} /\ 1 \in Task /\ Fd \subseteq Nat
  /\ CACHE \in Nat \ {0} /\ MaxSize \in Nat /\ MaxOpens \in Nat

VARIABLES
  tables,           \* by the task it was made for: [last, map]
  tableOf,          \* m_fm of every task, NULL before it is cloned
  host,             \* what nivisor has open: [mode, pos]
  size,             \* of the file
  did               \* the report of the last call, for the properties

fileVars == <<tables, tableOf, host, size, did>>

EmptyMap   == [n \in {} |-> 0]
EmptyTable == [last |-> 0, map |-> EmptyMap]
Nothing    == [call |-> "none"]

InitFiles ==
  /\ tables = [t \in Task |-> EmptyTable]
  /\ tableOf = [t \in Task |-> IF t = 1 THEN 1 ELSE NULL]
  /\ host = EmptyMap
  /\ size \in 0 .. MaxSize
  /\ did = Nothing

\* The map f with x at n, which it did not have.
With(f, n, x) == [k \in DOMAIN f \cup {n} |-> IF k = n THEN x ELSE f[k]]

Map(t) == tables[tableOf[t]].map
-----------------------------------------------------------------------------
(* FileManager.                                                            *)

\* Slip: the lowest free number.
PutFileLowest(table, fd) ==
  LET n == CHOOSE k \in 0 .. table.last :
             k \notin DOMAIN table.map /\ \A j \in 0 .. k - 1 : j \in DOMAIN table.map
  IN  [last |-> table.last + 1, map |-> With(table.map, n, fd)]

\* The next number, which is never used again.
PutFile(table, fd) == [last |-> table.last + 1, map |-> With(table.map, table.last, fd)]

\* Slip: close without erase.
RemoveFileKept(table, sfd) == table

RemoveFile(table, sfd) == [table EXCEPT !.map = Restrict(@, DOMAIN @ \ {sfd})]
-----------------------------------------------------------------------------
(* The calls.                                                              *)

\* The host takes its lowest free descriptor.  A file opened for both is opened for
\* writing only: O_RDONLY is 0.
OpenFile(t, mode) ==
  /\ tables[tableOf[t]].last < MaxOpens
  /\ \E fd \in Fd \ DOMAIN host :
       /\ \A other \in Fd \ DOMAIN host : fd <= other
       /\ host' = With(host, fd, [mode |-> mode, pos |-> 0])
       /\ tables' = [tables EXCEPT ![tableOf[t]] = PutFile(@, fd)]
  /\ did' = Nothing
  /\ UNCHANGED <<tableOf, size>>

CloseFile(t, sfd) ==
  /\ sfd \in DOMAIN Map(t)
  /\ host' = Restrict(host, DOMAIN host \ {Map(t)[sfd]})
  /\ tables' = [tables EXCEPT ![tableOf[t]] = RemoveFile(@, sfd)]
  /\ did' = Nothing
  /\ UNCHANGED <<tableOf, size>>

\* No such file, no descriptor left, a descriptor that is not in the table.
CallFails(t) == did' = Nothing /\ UNCHANGED <<tables, tableOf, host, size>>

Least(a, b) == IF a <= b THEN a ELSE b
FAULT == -1

\* total_read grows by what was read.
Counted(got, chunk) == got

\* sys_read_file's loop from off on: avail bytes were left in the file, the guest's buffer
\* takes room bytes, and rest is what the loop yields after this chunk.  The last chunk of
\* a long read is asked for with sz instead of n.
ReadChunk(asked, avail, room, off, rest) ==
  LET chunk == IF asked - off > CACHE THEN CACHE ELSE asked
      got   == Least(chunk, avail - off)
  IN  IF off >= asked \/ got < 0 THEN [result |-> off, moved |-> off, taken |-> off]
      ELSE IF off + got > room THEN [result |-> FAULT, moved |-> off, taken |-> off + got]
      ELSE IF got = CACHE /\ chunk = CACHE THEN rest
      ELSE [result |-> off + Counted(got, chunk), moved |-> off + got, taken |-> off + got]

ReadLoop(asked, avail, room) ==
  LET f[off \in 0 .. asked + CACHE] == ReadChunk(asked, avail, room, off, f[off + CACHE])
  IN  f[0]

\* The reads that stay within cache.
FitsCache(asked, avail) ==
  asked > CACHE => avail - ((asked - 1) \div CACHE) * CACHE <= CACHE

\* A file that cannot be read gives -1, which is taken for a length.
ReadFile(t, sfd, asked, room) ==
  /\ sfd \in DOMAIN Map(t)
  /\ LET fd    == Map(t)[sfd]
         avail == IF size > host[fd].pos THEN size - host[fd].pos ELSE 0
         r     == IF host[fd].mode = "r" THEN ReadLoop(asked, avail, room)
                  ELSE [result |-> FAULT, moved |-> 0, taken |-> 0]
     IN  /\ FitsCache(asked, avail)
         /\ did' = [call |-> "read", asked |-> asked, result |-> r.result,
                    moved |-> r.moved, taken |-> r.taken]
         /\ host' = [host EXCEPT ![fd].pos = @ + r.taken]
  /\ UNCHANGED <<tables, tableOf, size>>

\* Slip: only the last chunk is reported.
ReportedLast(off, wrote) == wrote

\* What a short write reports.
Reported(off, wrote) == off + wrote

\* sys_write_file's loop from off on: of the guest's buffer readable bytes can be read, and
\* the host had room for space bytes.
WriteChunk(asked, readable, space, off, rest) ==
  LET got == Least(Least(asked - off, CACHE), readable - off)
  IN  CASE off >= asked -> [result |-> asked, moved |-> Least(asked, readable)]
        [] off < asked /\ got <= 0 -> [result |-> FAULT, moved |-> readable]
        [] off < asked /\ got > 0 /\ off + got > space ->
             [result |-> Reported(off, space - off), moved |-> space]
        [] OTHER -> rest

WriteLoop(asked, readable, space) ==
  LET f[off \in 0 .. asked + CACHE] == WriteChunk(asked, readable, space, off, f[off + CACHE])
  IN  f[0]

\* A file that cannot be written gives -1, which is larger than any chunk.
WriteFile(t, sfd, asked, readable) ==
  /\ sfd \in DOMAIN Map(t)
  /\ LET fd   == Map(t)[sfd]
         may  == host[fd].mode = "w"
         pos  == host[fd].pos
         r    == WriteLoop(asked, readable, IF may THEN MaxSize - pos ELSE asked)
         moved == IF may THEN r.moved ELSE 0
     IN  /\ did' = [call |-> "write", asked |-> asked, result |-> r.result, moved |-> moved,
                    sound |-> may /\ readable >= asked]
         /\ host' = [host EXCEPT ![fd].pos = @ + moved]
         /\ size' = IF pos + moved > size THEN pos + moved ELSE size
  /\ UNCHANGED <<tables, tableOf>>

\* ThreadContext::Clone for the new task: a table of its own or its parent's.
CloneFiles(t, child, unshare) ==
  /\ tableOf' = [tableOf EXCEPT ![child] = IF unshare THEN child ELSE tableOf[t]]
  /\ did' = Nothing
  /\ UNCHANGED <<tables, host, size>>
-----------------------------------------------------------------------------
Asked == 0 .. 2 * CACHE + 1

\* What a task may do with its files, by itself.
FileCall(t) ==
  \/ CallFails(t)
  \/ \E mode \in {"r", "w"} : OpenFile(t, mode)
  \/ \E sfd \in DOMAIN Map(t) :
       \/ CloseFile(t, sfd)
       \/ \E asked \in Asked, room \in Asked :
            ReadFile(t, sfd, asked, room) \/ WriteFile(t, sfd, asked, room)

NextFiles ==
  \E t \in Task :
    /\ tableOf[t] # NULL
    /\ \/ FileCall(t)
       \/ \E child \in Task, unshare \in BOOLEAN :
            tableOf[child] = NULL /\ CloneFiles(t, child, unshare)

SpecFiles == InitFiles /\ [][NextFiles]_fileVars
-----------------------------------------------------------------------------
\* Every descriptor the host has open stands in one table under one number, and what
\* stands in a table is open: closing a file in one session never closes another's, even
\* though the host gives the same number out again.
FdsAccounted ==
  /\ \A t \in Task : \A n \in DOMAIN tables[t].map : tables[t].map[n] \in DOMAIN host
  /\ \A fd \in DOMAIN host : \E t \in Task : \E n \in DOMAIN tables[t].map : tables[t].map[n] = fd
  /\ \A t, u \in Task : \A n \in DOMAIN tables[t].map, k \in DOMAIN tables[u].map :
       tables[t].map[n] = tables[u].map[k] => t = u /\ n = k

\* A number of a table means one file for ever: it is not given to another one while
\* some task that shares the table may still hold it.
DescriptorsFixed ==
  [][\A t \in Task : \A n \in 0 .. tables[t].last - 1 :
       n \in DOMAIN tables'[t].map =>
         n \in DOMAIN tables[t].map /\ tables'[t].map[n] = tables[t].map[n]]_fileVars

\* A call that does not fault reports what was moved.  What read_file returns is what the
\* guest has got and what has gone from the file.  write_file never returns less than it
\* has written, so that a guest that goes on from there writes nothing twice; and no more,
\* if the file can be written and the guest's buffer be read.
BytesReported ==
  /\ did.call = "read" /\ did.result # FAULT =>
       /\ did.result = did.moved /\ did.moved = did.taken
       /\ did.asked <= CACHE => did.result <= did.asked
  /\ did.call = "write" /\ did.result # FAULT =>
       /\ did.moved <= did.result /\ did.result <= did.asked
       /\ did.sound => did.result = did.moved
=============================================================================
