----------------------------- MODULE GuestMemory -----------------------------
(***************************************************************************)
(* nivisor's guest memory: MemoryManager, Vma and Pma of mm.cpp with the   *)
(* page faults, copies to and from user memory and clones of ctx.cpp.      *)
(*                                                                         *)
(* Regions (Vma) are backed by physical areas (Pma) at offsets of one      *)
(* memfd; the guest's own page tables map pages of those areas.  A clone   *)
(* shares the areas of its parent until one of them writes, which is       *)
(* noticed by a page fault of the guest or by a system call of nivisor.    *)
(*                                                                         *)
(* An action is one access of a guest (with the page fault it takes) or one*)
(* system call.  A guest that faulted takes the same access again.         *)
(***************************************************************************)
EXTENDS Naturals, FiniteSets

CONSTANTS Thread,      \* ThreadContext objects
          Mm,          \* MemoryManager objects
          Val,         \* what an address can hold, 0 at first
          Image,       \* what the loader puts into every address of a section
          NULL,
          NumRegions, RegionLen,
          NIVISOR_PAGE_SIZE,
          MaxPma,      \* bound: Pma objects created in a behaviour
          Launched,    \* the first process is the one main launched
          Patches,     \* build flags
          Settings     \* values of m_max_usage, in areas, each with what the
                       \* guests call and what may fail

ASSUME MemoryAssumption ==
  /\ NumRegions \in Nat \ {0} /\ RegionLen \in Nat \ {0}
  /\ NIVISOR_PAGE_SIZE \in Nat \ {0} /\ RegionLen % NIVISOR_PAGE_SIZE = 0
  /\ MaxPma \in Nat \ {0}
  /\ {0, Image} \subseteq Val /\ Launched \in BOOLEAN
  /\ Patches \subseteq {"COWUNINIT_BUG_PATCHED", "MPROTECT_BUG_PATCHED"}
  /\ Settings \subseteq [usage : Nat \ {0},
                         calls : SUBSET {"change_region_prot", "exec_proc", "clone_thread",
                                         "clone_process", "copies", "mmap fails", "clone fails"}]

VARIABLES
  setting,
  mm,         \* mm[t] = m_mm of thread t, NULL when there is no such thread
  vma,        \* vma[m][r] = the Vma of region r, or NULL
  pte,        \* pte[m][p] = what page p of the guest is mapped to, or NULL
  pmas,       \* how many Pma objects were created; they are 1 .. pmas
  backed,     \* those with an offset in the memfd
  store,      \* store[p] = what the area p of the memfd holds
  last,       \* m_last_fault_addr
  pending,    \* the access a thread takes again, or NULL
  undefined   \* an uninitialised pointer was used as a Pma

vars == <<setting, mm, vma, pte, pmas, backed, store, last, pending, undefined>>

m_max_usage == setting.usage
Calls       == setting.calls

Region == 0 .. NumRegions - 1
Addr   == 0 .. NumRegions * RegionLen - 1
Page   == 0 .. (NumRegions * RegionLen) \div NIVISOR_PAGE_SIZE - 1
Offset == 0 .. RegionLen - 1
Pma    == 1 .. MaxPma
Prot   == {{}, {"r"}, {"r", "w"}}

RegionOf(a) == a \div RegionLen
PageOf(a)   == a \div NIVISOR_PAGE_SIZE
PagesOf(r)  == {PageOf(a) : a \in {b \in Addr : RegionOf(b) = r}}

Zeroes   == [o \in Offset |-> 0]
Section  == [o \in Offset |-> Image]
NoVmas   == [r \in Region |-> NULL]
NoPages  == [p \in Page |-> NULL]

\* NULL is none of the objects that pointers are compared with it for.
VmaObject == [prot : Prot, cow : BOOLEAN, pma : Pma, faulted_in : BOOLEAN]
Mapping   == [pma : Pma, prot : Prot]
ASSUME NullAssumption == NULL \notin Mm \cup VmaObject \cup Mapping \cup [Offset -> Val]

\* Vma::Vma: a region has an area of its own, without backing.
NewVma(prot, p) == [prot |-> prot, cow |-> FALSE, pma |-> p, faulted_in |-> FALSE]

\* FindBackingMemSpace: the memfd only grows.
HasRoom(areas) == Cardinality(backed \cup areas) <= m_max_usage

\* main: a loaded section, which the launched process inherits as nivisor
\* mapped it, and which exec_proc leaves to page faults.
Init ==
  \E t \in Thread, m \in Mm :
    /\ setting \in Settings
    /\ mm = [u \in Thread |-> IF u = t THEN m ELSE NULL]
    /\ vma = [n \in Mm |-> IF n = m
                           THEN [NoVmas EXCEPT ![0] = NewVma({"r", "w"}, 1)]
                           ELSE NoVmas]
    /\ pte = [n \in Mm |-> [p \in Page |->
                IF n = m /\ Launched /\ p \in PagesOf(0)
                THEN [pma |-> 1, prot |-> {"r", "w"}] ELSE NULL]]
    /\ pmas = 1 /\ backed = {1}
    /\ store = [p \in Pma |-> IF p = 1 THEN Section ELSE Zeroes]
    /\ last = [u \in Thread |-> NULL]
    /\ pending = [u \in Thread |-> NULL]
    /\ undefined = FALSE

Runs(t) == mm[t] # NULL /\ ~undefined

\* A thread makes a system call only when its access is done.
Call(t) == Runs(t) /\ pending[t] = NULL
-----------------------------------------------------------------------------
(* Threads that end.                                                       *)

\* The last thread of an address space takes it along.
Gone(t) ==
  LET alone == \A u \in Thread : mm[u] = mm[t] => u = t
  IN  /\ mm' = [mm EXCEPT ![t] = NULL]
      /\ pending' = [pending EXCEPT ![t] = NULL]
      /\ vma' = IF alone THEN [vma EXCEPT ![mm[t]] = NoVmas] ELSE vma
      /\ pte' = IF alone THEN [pte EXCEPT ![mm[t]] = NoPages] ELSE pte

Exit(t) == /\ Call(t) /\ Gone(t)
           /\ UNCHANGED <<pmas, backed, store, last, undefined>>
-----------------------------------------------------------------------------
(* Accesses of the guest.                                                  *)

Allowed(t, a, w) == LET e == pte[mm[t]][PageOf(a)] IN e # NULL /\ w \in e.prot

Takes(t, a, w) == /\ Runs(t)
                  /\ pending[t] # NULL => pending[t].a = a /\ pending[t].w = w

\* The access is taken again; ok says whether the fault was served.
Retry(t, a, w, ok) ==
  pending' = [pending EXCEPT ![t] = [a |-> a, w |-> w, ok |-> ok]]

\* The processor does the access.
Access(t, a, w) ==
  /\ Takes(t, a, w) /\ Allowed(t, a, w)
  /\ IF w = "w"
     THEN \E x \in Val :
            store' = [store EXCEPT ![pte[mm[t]][PageOf(a)].pma][a % RegionLen] = x]
     ELSE UNCHANGED store
  /\ pending' = [pending EXCEPT ![t] = NULL]
  /\ UNCHANGED <<mm, vma, pte, pmas, backed, last, undefined>>

Faults(t, a, w) == Takes(t, a, w) /\ ~Allowed(t, a, w)

\* VmaForPageIn finds no region, or no memory to back it: the thread is
\* deleted.
BadFault(t, a, w) ==
  /\ Faults(t, a, w)
  /\ LET v == vma[mm[t]][RegionOf(a)]
     IN  v # NULL => ~HasRoom({v.pma})
  /\ Gone(t)
  /\ UNCHANGED <<pmas, backed, store, last, undefined>>

\* The region of a fault that VmaForPageIn can serve.
Served(t, a, w) ==
  /\ Faults(t, a, w)
  /\ LET v == vma[mm[t]][RegionOf(a)] IN v # NULL /\ HasRoom({v.pma})

\* The mmap injected into the guest maps one page of v, or fails.
MapPage(t, a, w, v, prot) ==
  LET m == mm[t]
  IN \/ /\ v.pma \in backed'
        /\ pte' = [pte EXCEPT ![m][PageOf(a)] = [pma |-> v.pma, prot |-> prot]]
        /\ vma' = [vma EXCEPT ![m][RegionOf(a)] = [v EXCEPT !.faulted_in = TRUE]]
        /\ Retry(t, a, w, TRUE)
     \/ /\ "mmap fails" \in Calls \/ v.pma \notin backed'
        /\ vma' = [vma EXCEPT ![m][RegionOf(a)] = v]
        /\ Retry(t, a, w, FALSE)
        /\ UNCHANGED pte

\* The first fault at an address of a region of its own, or of one that is
\* shared: that one is mapped read-only first.
FirstFault(t, a, w) ==
  LET v == vma[mm[t]][RegionOf(a)]
  IN  /\ Served(t, a, w) /\ last[t] # a
      /\ backed' = backed \cup {v.pma}
      /\ MapPage(t, a, w, v, IF v.cow THEN {"r"} ELSE v.prot)
      /\ last' = IF v.cow THEN [last EXCEPT ![t] = a] ELSE last
      /\ UNCHANGED <<mm, pmas, store, undefined>>

\* Slip: the new area is not given to the region.
MarkedOnly(v) == [v EXCEPT !.cow = FALSE]

\* CopyPmaForWrite: a new area for the region, and its memory when there is
\* room for it; *pma is set in any case.
Copied(v) == [v EXCEPT !.pma = pmas + 1, !.cow = FALSE]
CopyPmaForWrite(v) ==
  /\ pmas < MaxPma /\ pmas' = pmas + 1
  /\ backed' = IF HasRoom({v.pma, pmas + 1}) THEN backed \cup {v.pma, pmas + 1}
               ELSE IF HasRoom({v.pma}) THEN backed \cup {v.pma} ELSE backed

\* Slip: the new area starts empty.
SecondFaultUncopied(t, a, w) ==
  LET v == vma[mm[t]][RegionOf(a)]
  IN  /\ Served(t, a, w) /\ last[t] = a /\ v.cow
      /\ CopyPmaForWrite(v)
      /\ MapPage(t, a, w, Copied(v), v.prot)
      /\ UNCHANGED <<mm, store, last, undefined>>

\* The second fault in a row at one address is taken for a write to a shared
\* region, which gets memory of its own.
SecondFault(t, a, w) ==
  LET v == vma[mm[t]][RegionOf(a)]
  IN  /\ Served(t, a, w) /\ last[t] = a /\ v.cow
      /\ CopyPmaForWrite(v)
      /\ store' = IF pmas + 1 \in backed'
                  THEN [store EXCEPT ![pmas + 1] = store[v.pma]] ELSE store
      /\ MapPage(t, a, w, Copied(v), v.prot)
      /\ UNCHANGED <<mm, last, undefined>>

\* The same with a region that is not shared: CopyPmaForWrite returns early,
\* and pma is what the stack held, or NULL in the patched build.
UninitFault(t, a, w) ==
  LET v == vma[mm[t]][RegionOf(a)]
  IN  /\ Served(t, a, w) /\ last[t] = a /\ ~v.cow
      /\ backed' = backed \cup {v.pma}
      /\ Retry(t, a, w, FALSE)
      /\ undefined' \in IF "COWUNINIT_BUG_PATCHED" \in Patches
                        THEN {FALSE} ELSE BOOLEAN
      /\ UNCHANGED <<mm, vma, pte, pmas, store, last>>

\* The scheduler deletes a task whose slice ends with a failed call.
Drop(t) ==
  /\ Runs(t) /\ pending[t] # NULL /\ ~pending[t].ok /\ Gone(t)
  /\ UNCHANGED <<pmas, backed, store, last, undefined>>
-----------------------------------------------------------------------------
(* System calls that copy to and from the guest.                           *)

\* WriteToUser of one address: TranslateAddr(addr, PROT_WRITE), then memcpy.
WriteToUser(t, a, x) ==
  LET m == mm[t]  r == RegionOf(a)  v == vma[m][r]
      Put(p, old) == store' = [store EXCEPT ![p] = [old EXCEPT ![a % RegionLen] = x]]
  IN  /\ Call(t) /\ "copies" \in Calls /\ v # NULL /\ "w" \in v.prot
      /\ \/ /\ ~v.cow /\ HasRoom({v.pma})
            /\ backed' = backed \cup {v.pma}
            /\ Put(v.pma, store[v.pma])
            /\ UNCHANGED <<vma, pmas>>
         \/ /\ v.cow
            /\ CopyPmaForWrite(v)
            /\ vma' = [vma EXCEPT ![m][r] = Copied(v)]
            /\ IF pmas + 1 \in backed' THEN Put(pmas + 1, store[v.pma])
                                       ELSE UNCHANGED store
      /\ UNCHANGED <<mm, pte, last, pending, undefined>>

\* ReadFromUser: TranslateAddr(addr, PROT_READ).  Only the backing changes.
ReadFromUser(t, a) ==
  LET v == vma[mm[t]][RegionOf(a)]
  IN  /\ Call(t) /\ "copies" \in Calls /\ v # NULL /\ "r" \in v.prot
      /\ HasRoom({v.pma})
      /\ backed' = backed \cup {v.pma}
      /\ UNCHANGED <<mm, vma, pte, pmas, store, last, pending, undefined>>
-----------------------------------------------------------------------------
(* System calls that change regions and address spaces.                    *)

\* sys_new_anon_region.
NewAnonRegion(t, r, prot) ==
  /\ Call(t) /\ vma[mm[t]][r] = NULL
  /\ pmas < MaxPma /\ pmas' = pmas + 1
  /\ vma' = [vma EXCEPT ![mm[t]][r] = NewVma(prot, pmas + 1)]
  /\ UNCHANGED <<mm, pte, backed, store, last, pending, undefined>>

\* sys_change_region_prot: one injected mprotect of the region's length from
\* addr on, which stops at a page that is not mapped.
ChangeRegionProt(t, a, prot) ==
  LET m == mm[t]  r == RegionOf(a)
      asked  == {PageOf(a + o) : o \in Offset}
      reached == {p \in asked \cap Page :
                    \A q \in asked : q <= p => q \in Page /\ pte[m][q] # NULL}
  IN  /\ Call(t) /\ "change_region_prot" \in Calls
      /\ vma[m][r] # NULL
      /\ a % NIVISOR_PAGE_SIZE = 0
      /\ "MPROTECT_BUG_PATCHED" \in Patches => a % RegionLen = 0
      /\ pte' = [pte EXCEPT ![m] = [p \in Page |->
                   IF p \in reached THEN [pte[m][p] EXCEPT !.prot = prot]
                                    ELSE pte[m][p]]]
      /\ vma' = IF reached = asked THEN [vma EXCEPT ![m][r].prot = prot] ELSE vma
      /\ UNCHANGED <<mm, pmas, backed, store, last, pending, undefined>>

\* COWifyVma: regions R are marked; pages P become read-only in the guest, if
\* their region was paged in.
Cowified(m, R) == [r \in Region |-> IF r \in R /\ vma[m][r] # NULL
                                    THEN [vma[m][r] EXCEPT !.cow = TRUE]
                                    ELSE vma[m][r]]
ReadOnly(m, P) ==
  [p \in Page |->
     IF pte[m][p] # NULL /\ \E r \in Region : /\ p \in PagesOf(r) \cap P
                                         /\ vma[m][r] # NULL
                                         /\ vma[m][r].faulted_in
     THEN [pte[m][p] EXCEPT !.prot = {"r"}] ELSE pte[m][p]]

\* The new ThreadContext: nothing initialises m_last_fault_addr, so it is 0 or
\* what a deleted context left there.
Started(c, m) ==
  /\ mm' = [mm EXCEPT ![c] = m]
  /\ last' \in {[last EXCEPT ![c] = NULL], last}
  /\ UNCHANGED <<pmas, backed, store, pending, undefined>>

\* ThreadContext::Clone without NIVISOR_CLONE_UNSHARE_VM.
CloneThread(t, c) ==
  /\ Call(t) /\ "clone_thread" \in Calls /\ mm[c] = NULL
  /\ Started(c, mm[t])
  /\ UNCHANGED <<vma, pte>>

\* Slip: only the parent's regions are marked.
CloneParentOnly(t, c, n) ==
  LET m == mm[t]
  IN  /\ Call(t) /\ "clone_process" \in Calls
      /\ mm[c] = NULL /\ \A u \in Thread : mm[u] # n
      /\ vma' = [vma EXCEPT ![m] = Cowified(m, Region), ![n] = vma[m]]
      /\ pte' = [pte EXCEPT ![m] = ReadOnly(m, Page), ![n] = ReadOnly(m, Page)]
      /\ Started(c, n)

\* With it: CloneCOW, in an address space the kernel copied.
CloneProcess(t, c, n) ==
  LET m == mm[t]
  IN  /\ Call(t) /\ "clone_process" \in Calls
      /\ mm[c] = NULL /\ \A u \in Thread : mm[u] # n
      /\ vma' = [vma EXCEPT ![m] = Cowified(m, Region), ![n] = Cowified(m, Region)]
      /\ pte' = [pte EXCEPT ![m] = ReadOnly(m, Page), ![n] = ReadOnly(m, Page)]
      /\ Started(c, n)

\* The mprotect of page p fails, the parent's before its region is marked, or
\* the child's after it: the child is never scheduled.
CloneFails(t) ==
  LET m == mm[t]
  IN  /\ Call(t) /\ "clone fails" \in Calls
      /\ \E r \in Region, p \in Page :
           /\ p \in PagesOf(r) /\ vma[m][r] # NULL /\ vma[m][r].faulted_in
           /\ \/ /\ vma' = [vma EXCEPT ![m] = Cowified(m, {q \in Region : q < r})]
                 /\ pte' = [pte EXCEPT ![m] = ReadOnly(m, {q \in Page : q < p})]
              \/ /\ vma' = [vma EXCEPT ![m] = Cowified(m, 0 .. r)]
                 /\ pte' = [pte EXCEPT ![m] = ReadOnly(m, UNION {PagesOf(q) : q \in 0 .. r})]
      /\ UNCHANGED <<mm, pmas, backed, store, last, pending, undefined>>

\* Slip: Clear forgets the regions without unmapping them in the guest.
ExecWithoutMunmap(t) ==
  /\ Call(t) /\ "exec_proc" \in Calls
  /\ pmas < MaxPma /\ HasRoom({pmas + 1})
  /\ pmas' = pmas + 1 /\ backed' = backed \cup {pmas + 1}
  /\ vma' = [vma EXCEPT ![mm[t]] =
                [NoVmas EXCEPT ![0] = NewVma({"r", "w"}, pmas + 1)]]
  /\ store' = [store EXCEPT ![pmas + 1] = Section]
  /\ UNCHANGED <<mm, pte, last, pending, undefined>>

\* sys_exec_proc: Clear, then the loader's section, backed but not paged in; a
\* load that finds no memory leaves the process without any.
ExecProc(t) ==
  /\ Call(t) /\ "exec_proc" \in Calls
  /\ IF HasRoom({pmas + 1})
     THEN /\ pmas < MaxPma /\ pmas' = pmas + 1
          /\ backed' = backed \cup {pmas + 1}
          /\ vma' = [vma EXCEPT ![mm[t]] =
                        [NoVmas EXCEPT ![0] = NewVma({"r", "w"}, pmas + 1)]]
          /\ store' = [store EXCEPT ![pmas + 1] = Section]
     ELSE /\ vma' = [vma EXCEPT ![mm[t]] = NoVmas]
          /\ UNCHANGED <<pmas, backed, store>>
  /\ pte' = [pte EXCEPT ![mm[t]] = NoPages]
  /\ UNCHANGED <<mm, last, pending, undefined>>
-----------------------------------------------------------------------------
GuestAccess(t) ==
  \E a \in Addr, w \in {"r", "w"} :
    \/ Access(t, a, w) \/ BadFault(t, a, w) \/ FirstFault(t, a, w)
    \/ SecondFault(t, a, w) \/ UninitFault(t, a, w)

SystemCall(t) ==
  \/ Exit(t) \/ Drop(t) \/ CloneFails(t) \/ ExecProc(t)
  \/ \E a \in Addr : ReadFromUser(t, a) \/ \E x \in Val : WriteToUser(t, a, x)
  \/ \E r \in Region, prot \in Prot : NewAnonRegion(t, r, prot)
  \/ \E a \in Addr, prot \in Prot : ChangeRegionProt(t, a, prot)
  \/ \E c \in Thread : CloneThread(t, c) \/ \E n \in Mm : CloneProcess(t, c, n)

Next == /\ setting' = setting
        /\ \E t \in Thread : GuestAccess(t) \/ SystemCall(t)

Spec == Init /\ [][Next]_vars
-----------------------------------------------------------------------------
\* A page the guest can write is memory of its region that no other address
\* space refers to, through a region or through a page: that is what clones,
\* the read-only step of a fault and both ways to copy a region must ensure.
WritableIsPrivate ==
  \A m \in Mm, p \in Page :
    pte[m][p] # NULL /\ "w" \in pte[m][p].prot =>
      /\ \E r \in Region : /\ p \in PagesOf(r) /\ vma[m][r] # NULL
                            /\ vma[m][r].pma = pte[m][p].pma /\ ~vma[m][r].cow
      /\ \A n \in Mm \ {m} :
           /\ \A r \in Region : vma[n][r] # NULL => vma[n][r].pma # pte[m][p].pma
           /\ \A q \in Page : pte[n][q] # NULL => pte[n][q].pma # pte[m][p].pma

\* What nivisor reads at an address of a guest, and what the guest reads there.
Holds(m, a) == IF vma[m][RegionOf(a)] = NULL THEN NULL
               ELSE store[vma[m][RegionOf(a)].pma][a % RegionLen]
Sees(m, a)  == IF pte[m][PageOf(a)] = NULL THEN NULL
               ELSE store[pte[m][PageOf(a)].pma][a % RegionLen]

\* A write never reaches another process: an area that changes is an area of one
\* address space only, by region and by page, although pages of a copied region
\* stay mapped to the memory it shared, and copies and clones fail half way.
Refers(m, p) == \/ \E r \in Region : vma[m][r] # NULL /\ vma[m][r].pma = p
                \/ \E q \in Page : pte[m][q] # NULL /\ pte[m][q].pma = p
NoForeignWrites ==
  [][\A p \in Pma : store'[p] # store[p] =>
       \A m, n \in Mm : Refers(m, p)' /\ Refers(n, p)' => m = n]_vars

\* Regions behave as memory of their own: the shared areas, the copies and the
\* retried faults implement AddressSpaces, also when copies and clones fail half
\* way.  A copy loses the region, in its own process, only once no memory is left.
HostContent == [m \in Mm |-> [r \in Region |->
                  IF vma[m][r] = NULL THEN NULL ELSE store[vma[m][r].pma]]]
Abstract == INSTANCE AddressSpaces WITH content <- HostContent, full <- Cardinality(backed) >= m_max_usage
ImplementsAddressSpaces == Abstract!Spec

\* What a guest reads departs from what nivisor reads there only at the address that
\* a system call writes, which copies a marked region but leaves its pages, or when
\* the copy found no memory: faults, copies of shared regions, the pages they leave
\* on the old area, and clones show every other address as it was.
Agrees(m, a) == Sees(m, a) \in {NULL, Holds(m, a)}
OnlyCopiesDiverge ==
  [][\A m \in Mm, a \in Addr : Agrees(m, a) /\ ~Agrees(m, a)' =>
       \/ \E t \in Thread, x \in Val : mm[t] = m /\ WriteToUser(t, a, x)
       \/ vma'[m][RegionOf(a)].pma \notin backed'
       \/ \E t, c \in Thread : CloneProcess(t, c, m) /\ ~Agrees(mm[t], a)]_vars

\* ctx.cpp:227 says of the second fault at an address that it must "assume the VMA
\* is now COW": then no uninitialised Pma pointer is used.
SecondFaultIsCow == ~undefined

\* mm.cpp:219 says that TranslateAddr yields "an address in the host which
\* represents the underlying page": what the guest reads at a mapped address is
\* what nivisor reads and writes there.
GuestSeesRegion == \A m \in Mm, a \in Addr : Agrees(m, a)
=============================================================================
