------------------------- MODULE GuestMemory_proofs --------------------------
(***************************************************************************)
(* Copy on write keeps processes apart, for every number of threads,       *)
(* address spaces, regions, pages and areas.                               *)
(*                                                                         *)
(* Isolated is the inductive invariant: it relates what three tables say   *)
(* of an area.  An area that a region has unmarked is referred to by its   *)
(* own address space only (Private); a page that is mapped belongs to a    *)
(* region that was paged in (Paged), which is why COWifyVma may make only  *)
(* those read-only; and a writable page shows the area of its region,      *)
(* which is not marked (WritableOwn).  A page whose region was copied by a *)
(* system call may go on showing the area that it shared, but for reading  *)
(* only.                                                                   *)
(*                                                                         *)
(* From these follow that writable memory is private, that a write changes *)
(* no area that two address spaces refer to, and, step by step, that the   *)
(* regions implement AddressSpaces.  All need Isolating, which names       *)
(* the two ways in which the code gives up isolation.  The last part is on *)
(* what a guest reads: its pages may go on showing an area that its region *)
(* gave up, but never that of another region (PagesApart).                 *)
(***************************************************************************)
EXTENDS GuestMemory, FiniteSetTheorems, TLAPS

\* What the variables hold, as far as the proofs need it.
Types ==
  /\ setting \in Settings
  /\ mm \in [Thread -> Mm \cup {NULL}]
  /\ vma \in [Mm -> [Region -> VmaObject \cup {NULL}]]
  /\ pte \in [Mm -> [Page -> Mapping \cup {NULL}]]
  /\ pmas \in Pma /\ backed \subseteq 1 .. pmas
  /\ store \in [Pma -> [Offset -> Val]]

\* No region and no page refers to an area before it is created.
Created ==
  \A m \in Mm :
    /\ \A r \in Region : vma[m][r] # NULL => vma[m][r].pma <= pmas
    /\ \A p \in Page : pte[m][p] # NULL => pte[m][p].pma <= pmas

\* Only its own address space refers to the area of a region that is not marked.
Private ==
  \A m, n \in Mm, r \in Region :
    vma[m][r] # NULL /\ ~vma[m][r].cow /\ m # n => ~Refers(n, vma[m][r].pma)

\* The regions of an address space have different areas.
RegionsApart ==
  \A m \in Mm, r, s \in Region :
    vma[m][r] # NULL /\ vma[m][s] # NULL /\ vma[m][r].pma = vma[m][s].pma => r = s

\* A mapped page belongs to a region that was paged in.
Paged ==
  \A m \in Mm, p \in Page :
    pte[m][p] # NULL =>
      \E r \in Region : p \in PagesOf(r) /\ vma[m][r] # NULL /\ vma[m][r].faulted_in

\* A writable page shows the area of its region, which is not marked.
WritableOwn ==
  \A m \in Mm, p \in Page :
    pte[m][p] # NULL /\ "w" \in pte[m][p].prot =>
      \E r \in Region : /\ p \in PagesOf(r) /\ vma[m][r] # NULL
                        /\ vma[m][r].pma = pte[m][p].pma /\ ~vma[m][r].cow

\* An area without memory was never written, and no page shows it.
Blank ==
  /\ \A p \in Pma \ backed : store[p] = Zeroes
  /\ \A m \in Mm, q \in Page : pte[m][q] # NULL => pte[m][q].pma \in backed

\* An address space without a thread has no regions and no pages.
Unused ==
  \A m \in Mm :
    (\A t \in Thread : mm[t] # m) =>
      /\ \A r \in Region : vma[m][r] = NULL
      /\ \A p \in Page : pte[m][p] = NULL

Apart    == Created /\ Private /\ RegionsApart /\ Paged /\ WritableOwn
Isolated == Types /\ Apart /\ Blank /\ Unused

\* What isolation needs: the first process was not launched with writable pages of
\* regions that were never paged in, and no guest calls change_region_prot.
Isolating ==
  Launched = FALSE /\ \A s \in Settings : "change_region_prot" \notin s.calls

\* The numbers of addresses, pages and regions are natural numbers.
LEMMA Sizes ==
  /\ RegionLen \in Nat \ {0} /\ NIVISOR_PAGE_SIZE \in Nat \ {0}
  /\ RegionLen % NIVISOR_PAGE_SIZE = 0
  /\ NumRegions \in Nat \ {0} /\ MaxPma \in Nat \ {0}
  /\ Region \subseteq Nat /\ Addr \subseteq Nat
<1>1. /\ RegionLen \in Nat \ {0} /\ NIVISOR_PAGE_SIZE \in Nat \ {0}
      /\ RegionLen % NIVISOR_PAGE_SIZE = 0
      /\ NumRegions \in Nat \ {0} /\ MaxPma \in Nat \ {0}
  BY MemoryAssumption
<1>2. NumRegions * RegionLen \in Nat \ {0}
  BY <1>1
<1> QED
  BY <1>1, <1>2 DEF Region, Addr

\* A quotient is below x when the dividend is below x times the divisor.
LEMMA Division ==
  ASSUME NEW n \in Nat \ {0}, NEW a \in Nat, NEW x \in Nat
  PROVE  /\ a \div n \in Nat
         /\ a < x * n <=> a \div n < x
<1> DEFINE q == a \div n
           s == a % n
<1>1. a = q * n + s /\ q \in Nat /\ s \in 0 .. n - 1
  OBVIOUS
<1> HIDE DEF q, s
<1>2. ASSUME q < x PROVE a < x * n
  <2>1. (q + 1) * n <= x * n
    BY <1>1, <1>2
  <2>2. (q + 1) * n = q * n + n
    BY <1>1
  <2> QED
    BY <1>1, <2>1, <2>2
<1>3. ASSUME q >= x PROVE a >= x * n
  <2>1. q * n >= x * n
    BY <1>1, <1>3
  <2> QED
    BY <1>1, <2>1
<1>4. a < x * n <=> q < x
  <2>1. x * n \in Nat
    OBVIOUS
  <2> QED
    BY <1>1, <1>2, <1>3, <2>1
<1> QED
  BY <1>1, <1>4 DEF q

\* Regions begin at pages: the pages of a region come before those of the next.
LEMMA PagesInOrder ==
  ASSUME NEW r \in Region, NEW q \in Region, r < q,
         NEW p \in PagesOf(r), NEW s \in PagesOf(q)
  PROVE  p < s
<1> DEFINE L == RegionLen
           P == NIVISOR_PAGE_SIZE
           k == L \div P
<1>1. /\ L \in Nat \ {0} /\ P \in Nat \ {0} /\ NumRegions \in Nat \ {0}
      /\ r \in Nat /\ q \in Nat
      /\ L % P = 0
  BY Sizes
<1>2. k \in Nat /\ L = k * P
  BY <1>1
<1>3. PICK a \in Addr : p = PageOf(a) /\ RegionOf(a) = r
  BY DEF PagesOf
<1>4. PICK b \in Addr : s = PageOf(b) /\ RegionOf(b) = q
  BY DEF PagesOf
<1>5. a \in Nat /\ b \in Nat
  BY Sizes
<1> HIDE DEF L, P, k
<1>6. a \div L = r /\ b \div L = q /\ p = a \div P /\ s = b \div P
  BY <1>3, <1>4 DEF RegionOf, PageOf, L, P
<1>7. a < q * L /\ ~(b < q * L)
  <2>1. (a < q * L <=> a \div L < q) /\ (b < q * L <=> b \div L < q)
    BY <1>1, <1>5, Division
  <2> QED
    BY <1>1, <1>6, <2>1
<1>8. q * L = (q * k) * P /\ q * k \in Nat
  BY <1>1, <1>2
<1>9. p < q * k /\ ~(s < q * k)
  <2> DEFINE x == q * k
  <2>1. a < x * P /\ ~(b < x * P) /\ x \in Nat
    BY <1>7, <1>8
  <2> HIDE DEF x
  <2>2. a \div P < x /\ ~(b \div P < x)
    BY <1>1, <1>5, <2>1, Division
  <2> QED
    BY <1>6, <2>2 DEF x
<1>10. p \in Nat /\ s \in Nat
  BY <1>1, <1>5, <1>6, Division
<1> QED
  BY <1>8, <1>9, <1>10

\* Pages are a range of natural numbers.
LEMMA PageRange ==
  /\ Page \subseteq Nat
  /\ \A x \in Nat : x < NumRegions * RegionLen => x \div NIVISOR_PAGE_SIZE \in Page
<1> DEFINE P == NIVISOR_PAGE_SIZE
           k == RegionLen \div P
           E == NumRegions * k
<1>1. P \in Nat \ {0} /\ k \in Nat /\ RegionLen = k * P /\ NumRegions \in Nat
  BY Sizes
<1>2. NumRegions * RegionLen = E * P /\ E \in Nat
  BY <1>1
<1> HIDE DEF k, E
<1>3. (E * P) \div P = E
  <2>1. E * P \in Nat /\ (E * P < E * P <=> (E * P) \div P < E)
    BY <1>1, <1>2, Division
  <2>2. E * P < (E + 1) * P
    BY <1>1, <1>2
  <2>3. (E * P < (E + 1) * P <=> (E * P) \div P < E + 1) /\ (E * P) \div P \in Nat
    BY <1>1, <1>2, <2>1, Division
  <2> QED
    BY <1>2, <2>1, <2>2, <2>3
<1>4. Page = 0 .. E - 1
  BY <1>2, <1>3 DEF Page, P
<1>5. ASSUME NEW x \in Nat, x < E * P PROVE x \div P \in 0 .. E - 1
  BY <1>1, <1>2, <1>5, Division
<1> QED
  BY <1>2, <1>4, <1>5 DEF P

\* Where an address is: in a region, at a page of it and at an offset.
LEMMA Place ==
  ASSUME NEW a \in Addr
  PROVE  /\ RegionOf(a) \in Region /\ PageOf(a) \in Page
         /\ PageOf(a) \in PagesOf(RegionOf(a))
         /\ a % RegionLen \in Offset
<1>1. /\ RegionLen \in Nat \ {0} /\ NumRegions \in Nat \ {0} /\ a \in Nat
  BY Sizes
<1>2. NumRegions * RegionLen \in Nat
  BY <1>1
<1>3. a < NumRegions * RegionLen
  BY <1>1, <1>2 DEF Addr
<1>4. a \div RegionLen \in 0 .. NumRegions - 1
  BY <1>1, <1>3, Division
<1>5. a % RegionLen \in 0 .. RegionLen - 1
  BY <1>1
<1>6. PageOf(a) \in Page
  BY <1>1, <1>3, PageRange DEF PageOf
<1> QED
  BY <1>4, <1>5, <1>6 DEF RegionOf, Region, Offset, PagesOf

\* A page belongs to one region.
LEMMA OneRegion ==
  ASSUME NEW r \in Region, NEW s \in Region, NEW p \in PagesOf(r), p \in PagesOf(s)
  PROVE  r = s
<1>1. r \in Nat /\ s \in Nat
  BY Sizes
<1>2. p \in Nat
  BY Place, PageRange DEF PagesOf
<1>3. ~(r < s) /\ ~(s < r)
  BY <1>2, PagesInOrder
<1> QED
  BY <1>1, <1>3

\* The thread that steps has an address space; NULL is no region and no page.
LEMMA Running ==
  ASSUME Types, NEW t \in Thread, Runs(t)
  PROVE  mm[t] \in Mm
  BY DEF Types, Runs

LEMMA NullObjects == NULL \notin Mm /\ NULL \notin VmaObject /\ NULL \notin Mapping /\ NULL \notin [Offset -> Val]
  BY NullAssumption

\* What the steps put into regions and pages.
LEMMA Objects ==
  /\ \A prot \in Prot, p \in Pma : /\ NewVma(prot, p) \in VmaObject
                                   /\ [pma |-> p, prot |-> prot] \in Mapping
  /\ \A v \in VmaObject :
       /\ v.prot \in Prot /\ v.cow \in BOOLEAN /\ v.pma \in Pma /\ v.faulted_in \in BOOLEAN
       /\ [v EXCEPT !.faulted_in = TRUE] \in VmaObject
       /\ [v EXCEPT !.cow = TRUE] \in VmaObject
       /\ pmas + 1 \in Pma => Copied(v) \in VmaObject
       /\ \A prot \in Prot : [v EXCEPT !.prot = prot] \in VmaObject
  /\ \A e \in Mapping : \A prot \in Prot : [e EXCEPT !.prot = prot] \in Mapping
  /\ {} \in Prot /\ {"r"} \in Prot /\ {"r", "w"} \in Prot
  BY DEF NewVma, VmaObject, Mapping, Copied, Prot

\* A fault that is served maps a page or only gives the region back.
LEMMA MapPageTypes ==
  ASSUME Types, NEW t \in Thread, NEW a \in Addr, NEW w, Runs(t),
         NEW v \in VmaObject, NEW prot \in Prot, MapPage(t, a, w, v, prot)
  PROVE  /\ vma' \in [Mm -> [Region -> VmaObject \cup {NULL}]]
         /\ pte' \in [Mm -> [Page -> Mapping \cup {NULL}]]
<1> DEFINE m == mm[t]
           r == RegionOf(a)
           p == PageOf(a)
<1>1. m \in Mm /\ r \in Region /\ p \in Page
  BY Running, Place
<1>2. /\ v.pma \in Pma /\ [v EXCEPT !.faulted_in = TRUE] \in VmaObject
      /\ [pma |-> v.pma, prot |-> prot] \in Mapping
  BY Objects
<1>3. /\ vma \in [Mm -> [Region -> VmaObject \cup {NULL}]]
      /\ pte \in [Mm -> [Page -> Mapping \cup {NULL}]]
  BY DEF Types
<1>4. \A x \in VmaObject : [vma EXCEPT ![m][r] = x] \in [Mm -> [Region -> VmaObject \cup {NULL}]]
  BY <1>1, <1>3
<1>5. \A x \in Mapping : [pte EXCEPT ![m][p] = x] \in [Mm -> [Page -> Mapping \cup {NULL}]]
  BY <1>1, <1>3
<1> QED
  BY <1>2, <1>3, <1>4, <1>5 DEF MapPage

LEMMA CopyTypes ==
  ASSUME Types, NEW v \in VmaObject, CopyPmaForWrite(v), v.pma <= pmas
  PROVE  /\ pmas' = pmas + 1 /\ pmas' \in Pma /\ backed' \subseteq 1 .. pmas'
         /\ Copied(v) \in VmaObject
<1> DEFINE p == v.pma
<1>1. pmas < MaxPma /\ pmas' = pmas + 1 /\ MaxPma \in Nat
  BY Sizes DEF CopyPmaForWrite
<1>2. pmas \in Pma /\ backed \subseteq 1 .. pmas /\ p \in Pma /\ p <= pmas
  BY Objects DEF Types
<1> HIDE DEF p
<1>3. pmas + 1 \in Pma /\ pmas \in Nat
  BY <1>1, <1>2 DEF Pma
<1>4. p \in 1 .. pmas + 1 /\ pmas + 1 \in 1 .. pmas + 1 /\ backed \subseteq 1 .. pmas + 1
  BY <1>1, <1>2, <1>3 DEF Pma
<1>5. backed' \subseteq backed \cup {p, pmas + 1}
  BY DEF CopyPmaForWrite, p
<1> QED
  BY <1>1, <1>3, <1>4, <1>5, Objects

\* The pages of S with another protection.
Reprotected(m, S, prot) ==
  [p \in Page |-> IF p \in S THEN [pte[m][p] EXCEPT !.prot = prot] ELSE pte[m][p]]

\* The injected mprotect reaches mapped pages only.
LEMMA Reached ==
  ASSUME Types, NEW t \in Thread, NEW a \in Addr, NEW prot \in Prot, ChangeRegionProt(t, a, prot)
  PROVE  /\ mm[t] \in Mm /\ RegionOf(a) \in Region /\ vma[mm[t]][RegionOf(a)] # NULL
         /\ \E S \in SUBSET Page :
              /\ \A p \in S : pte[mm[t]][p] # NULL
              /\ pte' = [pte EXCEPT ![mm[t]] = Reprotected(mm[t], S, prot)]
         /\ \/ vma' = vma
            \/ vma' = [vma EXCEPT ![mm[t]][RegionOf(a)] = [vma[mm[t]][RegionOf(a)] EXCEPT !.prot = prot]]
<1> DEFINE m == mm[t]
           r == RegionOf(a)
           asked == {PageOf(a + o) : o \in Offset}
           reached == {p \in asked \cap Page :
                         \A q \in asked : q <= p => q \in Page /\ pte[m][q] # NULL}
<1>1. m \in Mm /\ r \in Region /\ vma[m][r] # NULL
  BY Running, Place DEF ChangeRegionProt, Call
<1>2. /\ pte' = [pte EXCEPT ![m] = Reprotected(m, reached, prot)]
      /\ vma' = vma \/ vma' = [vma EXCEPT ![m][r] = [vma[m][r] EXCEPT !.prot = prot]]
  BY DEF ChangeRegionProt, Reprotected
<1>3. \A p \in reached : p \in Page /\ pte[m][p] # NULL
  <2> HIDE DEF asked
  <2>1. \A p \in reached : p \in asked /\ p \in Page /\ (p <= p => pte[m][p] # NULL)
    OBVIOUS
  <2>2. \A p \in Page : p \in Nat /\ p <= p
    BY PageRange
  <2> QED
    BY <2>1, <2>2
<1> HIDE DEF asked, reached
<1> QED
  BY <1>1, <1>2, <1>3

\* Every step keeps the types.
LEMMA TypesNext ==
  ASSUME Types, Created, Next
  PROVE  Types'
<1> DEFINE Vmas == [Mm -> [Region -> VmaObject \cup {NULL}]]
           Ptes == [Mm -> [Page -> Mapping \cup {NULL}]]
           Stores == [Pma -> [Offset -> Val]]
<1>0. /\ vma \in Vmas /\ pte \in Ptes /\ store \in Stores
      /\ mm \in [Thread -> Mm \cup {NULL}] /\ setting' \in Settings
      /\ pmas \in Pma /\ backed \subseteq 1 .. pmas
  BY DEF Types, Next
<1>1. NoVmas \in [Region -> VmaObject \cup {NULL}] /\ NoPages \in [Page -> Mapping \cup {NULL}]
  BY DEF NoVmas, NoPages
<1>2. Section \in [Offset -> Val]
  BY MemoryAssumption DEF Section
<1>3. ASSUME NEW t \in Thread, Runs(t), Gone(t)
      PROVE  mm' \in [Thread -> Mm \cup {NULL}] /\ vma' \in Vmas /\ pte' \in Ptes
  <2>1. mm[t] \in Mm
    BY <1>3, Running
  <2> QED
    BY <1>0, <1>1, <1>3, <2>1 DEF Gone
<1>4. ASSUME NEW t \in Thread, NEW a \in Addr, Runs(t), vma[mm[t]][RegionOf(a)] # NULL
      PROVE  /\ mm[t] \in Mm /\ RegionOf(a) \in Region
             /\ vma[mm[t]][RegionOf(a)] \in VmaObject
             /\ vma[mm[t]][RegionOf(a)].pma \in 1 .. pmas
  <2>1. mm[t] \in Mm /\ RegionOf(a) \in Region
    BY <1>4, Running, Place
  <2> DEFINE v == vma[mm[t]][RegionOf(a)]
  <2>2. v \in VmaObject /\ v.pma <= pmas
    BY <1>0, <1>4, <2>1 DEF Created
  <2>3. v.pma \in Pma
    BY <2>2, Objects
  <2>4. v.pma \in 1 .. pmas
    <3> DEFINE p == v.pma
    <3>1. p \in Pma /\ p <= pmas
      BY <2>2, <2>3
    <3> HIDE DEF p
    <3>2. p \in 1 .. pmas
      BY <1>0, <3>1, Sizes DEF Pma
    <3> QED
      BY <3>2 DEF p
  <2> QED
    BY <2>1, <2>2, <2>4
<1>5. /\ 1 .. pmas \subseteq Pma
      /\ pmas < MaxPma => /\ pmas + 1 \in Pma /\ backed \subseteq 1 .. pmas + 1
                          /\ backed \cup {pmas + 1} \subseteq 1 .. pmas + 1
                          /\ \A prot \in Prot : NewVma(prot, pmas + 1) \in VmaObject
  <2>1. pmas \in 1 .. MaxPma /\ MaxPma \in Nat
    BY <1>0, Sizes DEF Pma
  <2>2. 1 .. pmas \subseteq Pma /\ (pmas < MaxPma => pmas + 1 \in Pma)
    BY <2>1 DEF Pma
  <2>3. 1 .. pmas \subseteq 1 .. pmas + 1 /\ pmas + 1 \in 1 .. pmas + 1
    BY <2>1
  <2> QED
    BY <1>0, <2>2, <2>3, Objects
<1>6. \A t \in Thread, a \in Addr, w \in {"r", "w"} : Access(t, a, w) => Types'
  <2> SUFFICES ASSUME NEW t \in Thread, NEW a \in Addr, NEW w, Access(t, a, w) PROVE Types'
    OBVIOUS
  <2>1. mm[t] \in Mm /\ PageOf(a) \in Page /\ a % RegionLen \in Offset
    BY Running, Place DEF Access, Takes
  <2>2. pte[mm[t]][PageOf(a)].pma \in Pma
    BY <1>0, <2>1 DEF Access, Allowed, Mapping
  <2>3. \A x \in Val, p \in Pma, o \in Offset : [store EXCEPT ![p][o] = x] \in Stores
    BY <1>0
  <2>4. store' \in Stores
    <3>1. w = "w" => store' \in Stores
      <4> SUFFICES ASSUME w = "w" PROVE store' \in Stores
        OBVIOUS
      <4>1. PICK x \in Val : store' = [store EXCEPT ![pte[mm[t]][PageOf(a)].pma][a % RegionLen] = x]
        BY DEF Access
      <4> QED
        BY <2>1, <2>2, <2>3, <4>1
    <3>2. w # "w" => store' \in Stores
      BY <1>0 DEF Access
    <3> QED
      BY <3>1, <3>2
  <2> QED
    BY <1>0, <2>4 DEF Access, Types
<1>7. \A t \in Thread, a \in Addr, w \in {"r", "w"} : BadFault(t, a, w) => Types'
  BY <1>0, <1>3 DEF BadFault, Faults, Takes, Types
<1>8. \A t \in Thread, a \in Addr, w \in {"r", "w"} : FirstFault(t, a, w) => Types'
  <2> SUFFICES ASSUME NEW t \in Thread, NEW a \in Addr, NEW w, FirstFault(t, a, w) PROVE Types'
    OBVIOUS
  <2> DEFINE v == vma[mm[t]][RegionOf(a)]
             prot == IF v.cow THEN {"r"} ELSE v.prot
  <2>1. Runs(t) /\ v # NULL
    BY DEF FirstFault, Served, Faults, Takes
  <2>2. v \in VmaObject /\ v.pma \in 1 .. pmas
    BY <1>4, <2>1
  <2>3. prot \in Prot
    BY <2>2, Objects
  <2>4. MapPage(t, a, w, v, prot)
    BY DEF FirstFault
  <2>5. vma' \in Vmas /\ pte' \in Ptes
    BY <2>1, <2>2, <2>3, <2>4, MapPageTypes
  <2>6. backed' \subseteq 1 .. pmas
    BY <1>0, <2>2 DEF FirstFault
  <2> QED
    BY <1>0, <2>5, <2>6 DEF FirstFault, Types
<1>9. \A t \in Thread, a \in Addr, w \in {"r", "w"} : SecondFault(t, a, w) => Types'
  <2> SUFFICES ASSUME NEW t \in Thread, NEW a \in Addr, NEW w, SecondFault(t, a, w) PROVE Types'
    OBVIOUS
  <2> DEFINE v == vma[mm[t]][RegionOf(a)]
  <2>1. Runs(t) /\ v # NULL
    BY DEF SecondFault, Served, Faults, Takes
  <2>2. v \in VmaObject /\ v.pma \in 1 .. pmas
    BY <1>4, <2>1
  <2>3. v.prot \in Prot /\ v.pma <= pmas /\ v.pma \in Pma
    <3>1. \A p \in 1 .. pmas : p <= pmas /\ p \in Pma
      BY <1>0, <1>5 DEF Pma
    <3> QED
      BY <2>2, <3>1, Objects
  <2>4. MapPage(t, a, w, Copied(v), v.prot) /\ CopyPmaForWrite(v)
    BY DEF SecondFault
  <2>5. pmas' = pmas + 1 /\ pmas' \in Pma /\ backed' \subseteq 1 .. pmas' /\ Copied(v) \in VmaObject
    BY <2>2, <2>3, <2>4, CopyTypes
  <2>6. vma' \in Vmas /\ pte' \in Ptes
    BY <2>1, <2>3, <2>4, <2>5, MapPageTypes
  <2>7. store' \in Stores
    BY <1>0, <2>3 DEF SecondFault
  <2> QED
    BY <1>0, <2>5, <2>6, <2>7 DEF SecondFault, Types
<1>10. \A t \in Thread, a \in Addr, w \in {"r", "w"} : UninitFault(t, a, w) => Types'
  <2> SUFFICES ASSUME NEW t \in Thread, NEW a \in Addr, NEW w, UninitFault(t, a, w) PROVE Types'
    OBVIOUS
  <2>1. vma[mm[t]][RegionOf(a)].pma \in 1 .. pmas
    BY <1>4 DEF UninitFault, Served, Faults, Takes
  <2> QED
    BY <1>0, <2>1 DEF UninitFault, Types
<1>11. \A t \in Thread : Exit(t) \/ Drop(t) => Types'
  BY <1>0, <1>3 DEF Exit, Drop, Call, Types
<1>12. ASSUME NEW m \in Mm, NEW R, NEW P
       PROVE  Cowified(m, R) \in [Region -> VmaObject \cup {NULL}] /\ ReadOnly(m, P) \in [Page -> Mapping \cup {NULL}]
  <2>1. ASSUME NEW r \in Region, vma[m][r] # NULL PROVE [vma[m][r] EXCEPT !.cow = TRUE] \in VmaObject
    <3> DEFINE v == vma[m][r]
    <3>1. v \in VmaObject
      BY <1>0, <2>1
    <3> HIDE DEF v
    <3>2. [v EXCEPT !.cow = TRUE] \in VmaObject
      BY <3>1, Objects
    <3> QED
      BY <3>2 DEF v
  <2>2. ASSUME NEW p \in Page, pte[m][p] # NULL PROVE [pte[m][p] EXCEPT !.prot = {"r"}] \in Mapping
    <3> DEFINE e == pte[m][p]
    <3>1. e \in Mapping
      BY <1>0, <2>2
    <3> HIDE DEF e
    <3>2. [e EXCEPT !.prot = {"r"}] \in Mapping
      BY <3>1, Objects
    <3> QED
      BY <3>2 DEF e
  <2>3. Cowified(m, R) \in [Region -> VmaObject \cup {NULL}]
    BY <1>0, <2>1 DEF Cowified
  <2>4. ReadOnly(m, P) \in [Page -> Mapping \cup {NULL}]
    BY <1>0, <2>2 DEF ReadOnly
  <2> QED
    BY <2>3, <2>4
<1>13. \A t \in Thread : CloneFails(t) => Types'
  <2> SUFFICES ASSUME NEW t \in Thread, CloneFails(t) PROVE Types'
    OBVIOUS
  <2>1. mm[t] \in Mm
    BY Running DEF CloneFails, Call
  <2>2. PICK R, P : /\ vma' = [vma EXCEPT ![mm[t]] = Cowified(mm[t], R)]
                    /\ pte' = [pte EXCEPT ![mm[t]] = ReadOnly(mm[t], P)]
    BY DEF CloneFails
  <2>3. vma' \in Vmas /\ pte' \in Ptes
    BY <1>0, <1>12, <2>1, <2>2
  <2> QED
    BY <1>0, <2>3 DEF CloneFails, Types
<1>14. \A t \in Thread : ExecProc(t) => Types'
  <2> SUFFICES ASSUME NEW t \in Thread, ExecProc(t) PROVE Types'
    OBVIOUS
  <2>1. mm[t] \in Mm
    BY Running DEF ExecProc, Call
  <2>2. pte' \in Ptes
    BY <1>0, <1>1, <2>1 DEF ExecProc
  <2>3. CASE HasRoom({pmas + 1})
    <3>1. pmas < MaxPma /\ pmas' = pmas + 1 /\ backed' = backed \cup {pmas + 1}
      BY <2>3 DEF ExecProc
    <3>2. NewVma({"r", "w"}, pmas + 1) \in VmaObject /\ pmas + 1 \in Pma
      BY <1>5, <3>1, Objects
    <3> DEFINE new == NewVma({"r", "w"}, pmas + 1)
    <3>a. vma' = [vma EXCEPT ![mm[t]] = [NoVmas EXCEPT ![0] = new]] /\ store' = [store EXCEPT ![pmas + 1] = Section]
      BY <2>3 DEF ExecProc
    <3>3. vma' \in Vmas /\ store' \in Stores
      <4> HIDE DEF new
      <4>1. new \in VmaObject
        BY <3>2 DEF new
      <4> QED
        BY <1>0, <1>1, <1>2, <2>1, <3>2, <3>a, <4>1
    <3> QED
      BY <1>0, <1>5, <2>2, <3>1, <3>3 DEF ExecProc, Types
  <2>4. CASE ~HasRoom({pmas + 1})
    BY <1>0, <1>1, <2>1, <2>2, <2>4 DEF ExecProc, Types
  <2> QED
    BY <2>3, <2>4
<1>15. \A t \in Thread, a \in Addr : ReadFromUser(t, a) => Types'
  <2> SUFFICES ASSUME NEW t \in Thread, NEW a \in Addr, ReadFromUser(t, a) PROVE Types'
    OBVIOUS
  <2>1. vma[mm[t]][RegionOf(a)].pma \in 1 .. pmas
    BY <1>4 DEF ReadFromUser, Call
  <2> QED
    BY <1>0, <2>1 DEF ReadFromUser, Types
<1>16. \A t \in Thread, a \in Addr, x \in Val : WriteToUser(t, a, x) => Types'
  <2> SUFFICES ASSUME NEW t \in Thread, NEW a \in Addr, NEW x \in Val, WriteToUser(t, a, x) PROVE Types'
    OBVIOUS
  <2> DEFINE v == vma[mm[t]][RegionOf(a)]
  <2>1. Runs(t) /\ v # NULL
    BY DEF WriteToUser, Call
  <2>2. v \in VmaObject /\ v.pma \in 1 .. pmas /\ mm[t] \in Mm /\ RegionOf(a) \in Region
    BY <1>4, <2>1
  <2>3. v.pma <= pmas /\ v.pma \in Pma /\ a % RegionLen \in Offset
    <3>1. \A p \in 1 .. pmas : p <= pmas /\ p \in Pma
      BY <1>0, <1>5 DEF Pma
    <3> QED
      BY <2>2, <3>1, Place
  <2>4. \A p, q \in Pma : [store EXCEPT ![p] = [store[q] EXCEPT ![a % RegionLen] = x]] \in Stores
    BY <1>0, <2>3
  <2>5. CASE v.cow
    <3>1. CopyPmaForWrite(v) /\ vma' = [vma EXCEPT ![mm[t]][RegionOf(a)] = Copied(v)]
      BY <2>5 DEF WriteToUser
    <3>2. pmas' = pmas + 1 /\ pmas' \in Pma /\ backed' \subseteq 1 .. pmas' /\ Copied(v) \in VmaObject
      BY <2>2, <2>3, <3>1, CopyTypes
    <3>3. vma' \in Vmas
      BY <1>0, <2>2, <3>1, <3>2
    <3>4. store' \in Stores
      <4>1. store' = [store EXCEPT ![pmas + 1] = [store[v.pma] EXCEPT ![a % RegionLen] = x]] \/ store' = store
        BY <2>5 DEF WriteToUser
      <4>2. pmas + 1 \in Pma
        BY <3>2
      <4>3. [store EXCEPT ![pmas + 1] = [store[v.pma] EXCEPT ![a % RegionLen] = x]] \in Stores
        BY <2>3, <2>4, <4>2
      <4> QED
        BY <1>0, <4>1, <4>3
    <3> QED
      BY <1>0, <3>2, <3>3, <3>4 DEF WriteToUser, Types
  <2>6. CASE ~v.cow
    <3>1. /\ store' = [store EXCEPT ![v.pma] = [store[v.pma] EXCEPT ![a % RegionLen] = x]]
          /\ backed' = backed \cup {v.pma} /\ UNCHANGED <<vma, pmas, mm, pte>>
      BY <2>6 DEF WriteToUser
    <3>2. store' \in Stores
      BY <2>3, <2>4, <3>1
    <3> QED
      BY <1>0, <2>2, <3>1, <3>2 DEF Types
  <2> QED
    BY <2>5, <2>6
<1>17. \A t \in Thread, r \in Region, prot \in Prot : NewAnonRegion(t, r, prot) => Types'
  <2> SUFFICES ASSUME NEW t \in Thread, NEW r \in Region, NEW prot \in Prot, NewAnonRegion(t, r, prot)
               PROVE  Types'
    OBVIOUS
  <2>1. mm[t] \in Mm
    BY Running DEF NewAnonRegion, Call
  <2>2. pmas < MaxPma /\ pmas' = pmas + 1 /\ NewVma(prot, pmas + 1) \in VmaObject
    BY <1>5 DEF NewAnonRegion
  <2>3. vma' \in Vmas
    BY <1>0, <2>1, <2>2 DEF NewAnonRegion
  <2> QED
    BY <1>0, <1>5, <2>2, <2>3 DEF NewAnonRegion, Types
<1>18. \A t \in Thread, a \in Addr, prot \in Prot : ChangeRegionProt(t, a, prot) => Types'
  <2> SUFFICES ASSUME NEW t \in Thread, NEW a \in Addr, NEW prot \in Prot, ChangeRegionProt(t, a, prot)
               PROVE  Types'
    OBVIOUS
  <2> DEFINE m == mm[t]
             r == RegionOf(a)
  <2>1. m \in Mm /\ r \in Region /\ vma[m][r] # NULL
    BY Reached
  <2>2. PICK S \in SUBSET Page :
          /\ \A p \in S : pte[m][p] # NULL
          /\ pte' = [pte EXCEPT ![m] = Reprotected(m, S, prot)]
    BY Reached
  <2>3. vma' = vma \/ vma' = [vma EXCEPT ![m][r] = [vma[m][r] EXCEPT !.prot = prot]]
    BY Reached
  <2>4. \A p \in S : [pte[m][p] EXCEPT !.prot = prot] \in Mapping
    BY <1>0, <2>1, <2>2, Objects
  <2>5. pte' \in Ptes
    BY <1>0, <2>1, <2>2, <2>4 DEF Reprotected
  <2>6. [vma[m][r] EXCEPT !.prot = prot] \in VmaObject
    <3> DEFINE v == vma[m][r]
    <3>1. v \in VmaObject
      BY <1>0, <2>1
    <3> HIDE DEF v
    <3>2. [v EXCEPT !.prot = prot] \in VmaObject
      BY <3>1, Objects
    <3> QED
      BY <3>2 DEF v
  <2>7. vma' \in Vmas
    <3> DEFINE x == [vma[m][r] EXCEPT !.prot = prot]
    <3>1. vma' = vma \/ vma' = [vma EXCEPT ![m][r] = x]
      BY <2>3
    <3> HIDE DEF x
    <3>2. x \in VmaObject
      BY <2>6 DEF x
    <3>3. [vma EXCEPT ![m][r] = x] \in Vmas
      <4> HIDE DEF m, r
      <4> QED
        BY <1>0, <2>1, <3>2
    <3> QED
      BY <1>0, <3>1, <3>3
  <2> QED
    BY <1>0, <2>5, <2>7 DEF ChangeRegionProt, Types
<1>19. \A t, c \in Thread : CloneThread(t, c) => Types'
  <2> SUFFICES ASSUME NEW t \in Thread, NEW c \in Thread, CloneThread(t, c) PROVE Types'
    OBVIOUS
  <2>1. mm[t] \in Mm
    BY Running DEF CloneThread, Call
  <2> QED
    BY <1>0, <2>1 DEF CloneThread, Started, Types
<1>20. \A t, c \in Thread, n \in Mm : CloneProcess(t, c, n) => Types'
  <2> SUFFICES ASSUME NEW t \in Thread, NEW c \in Thread, NEW n \in Mm, CloneProcess(t, c, n) PROVE Types'
    OBVIOUS
  <2>1. mm[t] \in Mm
    BY Running DEF CloneProcess, Call
  <2>2. vma' \in Vmas /\ pte' \in Ptes
    BY <1>0, <1>12, <2>1 DEF CloneProcess
  <2> QED
    BY <1>0, <2>2 DEF CloneProcess, Started, Types
<1> QED
  BY <1>6, <1>7, <1>8, <1>9, <1>10, <1>11, <1>13, <1>14, <1>15, <1>16, <1>17, <1>18, <1>19, <1>20
  DEF Next, GuestAccess, SystemCall

\* A step that changes the regions and pages of one address space m, and gives its
\* regions what they had or the area it creates, keeps the areas apart.
LEMMA LocalChange ==
  ASSUME Types, Types', Created, Private, RegionsApart, NEW m \in Mm,
         pmas' \in {pmas, pmas + 1},
         \A n \in Mm \ {m} : vma'[n] = vma[n] /\ pte'[n] = pte[n],
         \A r \in Region : vma'[m][r] # NULL =>
           \/ pmas' = pmas + 1 /\ vma'[m][r].pma = pmas'
           \/ /\ vma[m][r] # NULL /\ vma'[m][r].pma = vma[m][r].pma
              /\ vma[m][r].cow => vma'[m][r].cow,
         \A r, s \in Region :
           /\ pmas' = pmas + 1 /\ vma'[m][r] # NULL /\ vma'[m][s] # NULL
           /\ vma'[m][r].pma = pmas' /\ vma'[m][s].pma = pmas'
           => r = s,
         \A p \in Page : pte'[m][p] # NULL =>
           \/ \E q \in Page : pte[m][q] # NULL /\ pte'[m][p].pma = pte[m][q].pma
           \/ \E r \in Region : vma'[m][r] # NULL /\ pte'[m][p].pma = vma'[m][r].pma
  PROVE  Created' /\ Private' /\ RegionsApart'
<1>0. /\ pmas \in Nat /\ pmas' \in Nat /\ pmas <= pmas' /\ pmas + 1 > pmas
      /\ \A n \in Mm, r \in Region : /\ vma[n][r] # NULL => vma[n][r].pma \in Nat
                                     /\ vma'[n][r] # NULL => vma'[n][r].pma \in Nat
      /\ \A n \in Mm, p \in Page : /\ pte[n][p] # NULL => pte[n][p].pma \in Nat
                                   /\ pte'[n][p] # NULL => pte'[n][p].pma \in Nat
  <2>1. pmas \in Nat /\ Pma \subseteq Nat
    BY Sizes DEF Pma, Types
  <2>2. \A v \in VmaObject : v.pma \in Nat
    BY <2>1, Objects
  <2>3. \A e \in Mapping : e.pma \in Nat
    BY <2>1 DEF Mapping
  <2> QED
    BY <2>1, <2>2, <2>3 DEF Types
\* What m refers to afterwards is its own area, old or new.
<1>1. ASSUME NEW p \in Nat, Refers(m, p)', ~(pmas' = pmas + 1 /\ p = pmas')
      PROVE  Refers(m, p)
  <2>1. ASSUME NEW r \in Region, vma'[m][r] # NULL, vma'[m][r].pma = p PROVE Refers(m, p)
    BY <1>1, <2>1 DEF Refers
  <2>2. ASSUME NEW q \in Page, pte'[m][q] # NULL, pte'[m][q].pma = p PROVE Refers(m, p)
    BY <1>1, <2>1, <2>2 DEF Refers
  <2> QED
    BY <1>1, <2>1, <2>2 DEF Refers
<1>2. \A n \in Mm \ {m}, p \in Nat : Refers(n, p)' <=> Refers(n, p)
  BY DEF Refers
<1>3. \A n \in Mm, p \in Nat : Refers(n, p) => p <= pmas
  BY DEF Refers, Created
<1>4. Created'
  <2>1. \A n \in Mm, p \in Nat : Refers(n, p)' => p <= pmas'
    BY <1>0, <1>1, <1>2, <1>3
  <2>2. \A n \in Mm : /\ \A r \in Region : vma'[n][r] # NULL => Refers(n, vma[n][r].pma)'
                      /\ \A p \in Page : pte'[n][p] # NULL => Refers(n, pte[n][p].pma)'
    BY DEF Refers
  <2> QED
    BY <1>0, <2>1, <2>2 DEF Created
<1>5. Private'
  <2> SUFFICES ASSUME NEW k \in Mm, NEW n \in Mm, NEW r \in Region,
                      vma'[k][r] # NULL, ~vma'[k][r].cow, k # n,
                      Refers(n, vma[k][r].pma)'
               PROVE  FALSE
    BY DEF Private
  <2>1. PICK p \in Nat : p = vma'[k][r].pma /\ Refers(n, p)'
    BY <1>0
  <2>2. CASE k = m
    <3>1. Refers(n, p) /\ p <= pmas
      BY <1>2, <1>3, <2>1, <2>2
    <3>2. vma[m][r] # NULL /\ p = vma[m][r].pma /\ ~vma[m][r].cow
      BY <1>0, <2>1, <2>2, <3>1 DEF Types, VmaObject
    <3> QED
      BY <2>2, <3>1, <3>2 DEF Private
  <2>3. CASE k # m
    <3>1. vma[k][r] # NULL /\ p = vma[k][r].pma /\ ~vma[k][r].cow
      BY <2>1, <2>3
    <3>2. Refers(k, p) /\ p <= pmas
      BY <1>3, <2>1, <3>1 DEF Refers
    <3>3. ~Refers(n, p)
      BY <3>1 DEF Private
    <3>4. n = m /\ pmas' = pmas + 1 /\ p = pmas'
      BY <1>1, <1>2, <2>1, <3>3
    <3> QED
      BY <1>0, <3>2, <3>4
  <2> QED
    BY <2>2, <2>3
<1>6. RegionsApart'
  <2> SUFFICES ASSUME NEW n \in Mm, NEW r \in Region, NEW s \in Region,
                      vma'[n][r] # NULL, vma'[n][s] # NULL, vma'[n][r].pma = vma'[n][s].pma
               PROVE  r = s
    BY DEF RegionsApart
  <2>1. CASE n # m
    BY <2>1 DEF RegionsApart
  <2>2. CASE n = m /\ pmas' = pmas + 1 /\ vma'[m][r].pma = pmas'
    BY <2>2
  <2>3. CASE n = m /\ ~(pmas' = pmas + 1 /\ vma'[m][r].pma = pmas')
    BY <2>3 DEF RegionsApart
  <2> QED
    BY <2>1, <2>2, <2>3
<1> QED
  BY <1>4, <1>5, <1>6

\* The numbers of areas, as the steps below compare them.
LEMMA Areas ==
  ASSUME Types
  PROVE  /\ pmas \in Nat /\ pmas + 1 > pmas /\ Pma \subseteq Nat
         /\ \A m \in Mm, r \in Region :
              vma[m][r] # NULL => vma[m][r] \in VmaObject /\ vma[m][r].pma \in Nat
         /\ \A m \in Mm, p \in Page :
              pte[m][p] # NULL => pte[m][p] \in Mapping /\ pte[m][p].pma \in Nat
<1>1. pmas \in Nat /\ Pma \subseteq Nat
  BY Sizes DEF Pma, Types
<1>2. \A v \in VmaObject : v.pma \in Nat
  BY <1>1, Objects
<1>3. \A e \in Mapping : e.pma \in Nat
  BY <1>1 DEF Mapping
<1> QED
  BY <1>1, <1>2, <1>3 DEF Types

\* A served fault: region r has what it had, or a new area and is not marked; a
\* page that becomes writable shows a region that is not marked.
LEMMA MapPageStep ==
  ASSUME Types, Types', Apart, NEW t \in Thread, NEW a \in Addr, NEW w, Runs(t),
         vma[mm[t]][RegionOf(a)] # NULL,
         NEW v \in VmaObject, NEW prot \in Prot, MapPage(t, a, w, v, prot),
         "w" \in prot => ~v.cow,
         \/ pmas' = pmas /\ v.pma = vma[mm[t]][RegionOf(a)].pma /\ v.cow = vma[mm[t]][RegionOf(a)].cow
         \/ pmas' = pmas + 1 /\ v.pma = pmas' /\ vma[mm[t]][RegionOf(a)].cow,
         v.faulted_in = vma[mm[t]][RegionOf(a)].faulted_in
  PROVE  Apart'
<1> DEFINE m == mm[t]
           r == RegionOf(a)
           p == PageOf(a)
           old == vma[m][r]
           faulted == [v EXCEPT !.faulted_in = TRUE]
           e == [pma |-> v.pma, prot |-> prot]
<1>1. m \in Mm /\ r \in Region /\ p \in Page /\ p \in PagesOf(r)
  BY Running, Place
<1>2. PICK x \in {v, faulted} :
        /\ vma' = [vma EXCEPT ![m][r] = x]
        /\ \/ pte' = [pte EXCEPT ![m][p] = e] /\ x = faulted
           \/ pte' = pte
  BY DEF MapPage
<1>3. /\ faulted \in VmaObject /\ faulted.pma = v.pma /\ faulted.cow = v.cow /\ faulted.faulted_in
      /\ e \in Mapping /\ e.pma = v.pma /\ e.prot = prot
  BY Objects DEF VmaObject
<1>4. NULL \notin VmaObject /\ NULL \notin Mapping
  BY NullObjects
<1> DEFINE new == vma'[m][r]
<1>a. /\ vma \in [Mm -> [Region -> VmaObject \cup {NULL}]]
      /\ pte \in [Mm -> [Page -> Mapping \cup {NULL}]]
  BY DEF Types
<1> HIDE DEF faulted, e
<1>b. new = x
  BY <1>1, <1>2, <1>a
<1>5. /\ new # NULL /\ new.pma = v.pma /\ new.cow = v.cow
      /\ old.faulted_in => new.faulted_in
  BY <1>2, <1>3, <1>4, <1>b DEF faulted
<1>6. /\ \A n \in Mm \ {m} : vma'[n] = vma[n] /\ pte'[n] = pte[n]
      /\ \A s \in Region \ {r} : vma'[m][s] = vma[m][s]
      /\ \A q \in Page \ {p} : pte'[m][q] = pte[m][q]
      /\ \/ pte'[m][p] = e /\ new.faulted_in
         \/ pte'[m][p] = pte[m][p]
  BY <1>1, <1>2, <1>3, <1>a, <1>b
<1> HIDE DEF new, m, r, p
<1>7. \A s \in Region : vma'[m][s] # NULL =>
           \/ pmas' = pmas + 1 /\ vma'[m][s].pma = pmas'
           \/ /\ vma[m][s] # NULL /\ vma'[m][s].pma = vma[m][s].pma
              /\ vma[m][s].cow => vma'[m][s].cow
  BY <1>1, <1>5, <1>6 DEF new, m, r
<1>8. \A s, u \in Region :
           /\ pmas' = pmas + 1 /\ vma'[m][s] # NULL /\ vma'[m][u] # NULL
           /\ vma'[m][s].pma = pmas' /\ vma'[m][u].pma = pmas'
           => s = u
  <2>1. \A s \in Region \ {r} : vma'[m][s] # NULL => vma'[m][s].pma <= pmas /\ vma'[m][s].pma \in Nat
    BY <1>1, <1>6, Areas DEF Apart, Created
  <2> QED
    BY <2>1, Areas
<1>9. \A q \in Page : pte'[m][q] # NULL =>
           \/ \E s \in Page : pte[m][s] # NULL /\ pte'[m][q].pma = pte[m][s].pma
           \/ \E s \in Region : vma'[m][s] # NULL /\ pte'[m][q].pma = vma'[m][s].pma
  BY <1>1, <1>3, <1>5, <1>6 DEF new, e
<1>10. Created' /\ Private' /\ RegionsApart'
  BY <1>1, <1>6, <1>7, <1>8, <1>9, LocalChange DEF Apart
<1>11. Paged'
  <2> SUFFICES ASSUME NEW n \in Mm, NEW q \in Page, pte'[n][q] # NULL
               PROVE  \E s \in Region : q \in PagesOf(s) /\ vma'[n][s] # NULL /\ vma'[n][s].faulted_in
    BY DEF Paged
  <2>1. CASE n # m
    BY <1>6, <2>1 DEF Apart, Paged
  <2>2. CASE n = m /\ pte'[m][p] # pte[m][p] /\ q = p
    <3>1. new.faulted_in
      BY <1>6, <2>2
    <3> QED
      BY <1>1, <1>5, <2>2, <3>1 DEF new
  <2>3. CASE n = m /\ pte'[m][q] = pte[m][q]
    <3>1. PICK s \in Region : q \in PagesOf(s) /\ vma[m][s] # NULL /\ vma[m][s].faulted_in
      BY <1>1, <2>3 DEF Apart, Paged
    <3> QED
      BY <1>5, <1>6, <2>3, <3>1 DEF new, old
  <2> QED
    BY <1>6, <2>1, <2>2, <2>3
<1>12. WritableOwn'
  <2> SUFFICES ASSUME NEW n \in Mm, NEW q \in Page, pte'[n][q] # NULL, "w" \in pte'[n][q].prot
               PROVE  \E s \in Region : /\ q \in PagesOf(s) /\ vma'[n][s] # NULL
                                        /\ vma'[n][s].pma = pte'[n][q].pma /\ ~vma'[n][s].cow
    BY DEF WritableOwn
  <2>1. CASE n # m
    BY <1>6, <2>1 DEF Apart, WritableOwn
  <2>2. CASE n = m /\ pte'[m][p] = e /\ q = p
    BY <1>1, <1>3, <1>5, <2>2 DEF new
  <2>3. CASE n = m /\ pte'[m][q] = pte[m][q]
    <3>1. PICK s \in Region : /\ q \in PagesOf(s) /\ vma[m][s] # NULL
                              /\ vma[m][s].pma = pte[m][q].pma /\ ~vma[m][s].cow
      BY <1>1, <2>3 DEF Apart, WritableOwn
    <3> QED
      BY <1>5, <1>6, <2>3, <3>1 DEF new, m, r
  <2> QED
    BY <1>6, <2>1, <2>2, <2>3
<1> QED
  BY <1>10, <1>11, <1>12 DEF Apart

\* A region starts with an area of its own, or is given one for the shared area.
LEMMA NewAreaStep ==
  ASSUME Types, Types', Apart, NEW m \in Mm, NEW r \in Region, NEW x \in VmaObject,
         vma' = [vma EXCEPT ![m][r] = x], pte' = pte,
         pmas' = pmas + 1, x.pma = pmas',
         vma[m][r] # NULL => vma[m][r].cow /\ x.faulted_in = vma[m][r].faulted_in
  PROVE  Apart'
<1>1. x # NULL
  BY NullObjects
<1>2. /\ vma'[m][r] = x
      /\ \A n \in Mm \ {m} : vma'[n] = vma[n] /\ pte'[n] = pte[n]
      /\ \A s \in Region \ {r} : vma'[m][s] = vma[m][s]
  BY DEF Types
<1>3. \A s \in Region : vma'[m][s] # NULL =>
           \/ pmas' = pmas + 1 /\ vma'[m][s].pma = pmas'
           \/ /\ vma[m][s] # NULL /\ vma'[m][s].pma = vma[m][s].pma
              /\ vma[m][s].cow => vma'[m][s].cow
  BY <1>2
<1>4. \A s, u \in Region :
           /\ pmas' = pmas + 1 /\ vma'[m][s] # NULL /\ vma'[m][u] # NULL
           /\ vma'[m][s].pma = pmas' /\ vma'[m][u].pma = pmas'
           => s = u
  <2>1. \A s \in Region \ {r} : vma'[m][s] # NULL => vma'[m][s].pma <= pmas /\ vma'[m][s].pma \in Nat
    BY <1>2, Areas DEF Apart, Created
  <2> QED
    BY <2>1, Areas
<1>5. Created' /\ Private' /\ RegionsApart'
  BY <1>2, <1>3, <1>4, LocalChange DEF Apart
<1>6. Paged'
  <2> SUFFICES ASSUME NEW n \in Mm, NEW q \in Page, pte[n][q] # NULL
               PROVE  \E s \in Region : q \in PagesOf(s) /\ vma'[n][s] # NULL /\ vma'[n][s].faulted_in
    BY DEF Paged
  <2>1. PICK s \in Region : q \in PagesOf(s) /\ vma[n][s] # NULL /\ vma[n][s].faulted_in
    BY DEF Apart, Paged
  <2> QED
    BY <1>1, <1>2, <2>1
<1>7. WritableOwn'
  <2> SUFFICES ASSUME NEW n \in Mm, NEW q \in Page, pte[n][q] # NULL, "w" \in pte[n][q].prot
               PROVE  \E s \in Region : /\ q \in PagesOf(s) /\ vma'[n][s] # NULL
                                        /\ vma'[n][s].pma = pte[n][q].pma /\ ~vma'[n][s].cow
    BY DEF WritableOwn
  <2>1. PICK s \in Region : /\ q \in PagesOf(s) /\ vma[n][s] # NULL
                            /\ vma[n][s].pma = pte[n][q].pma /\ ~vma[n][s].cow
    BY DEF Apart, WritableOwn
  <2> QED
    BY <1>1, <1>2, <2>1
<1> QED
  BY <1>5, <1>6, <1>7 DEF Apart

\* An address space loses its regions and its pages, and may get a region with a
\* new area.
LEMMA ClearedStep ==
  ASSUME Types, Types', Apart, NEW m \in Mm, NEW regions,
         vma' = [vma EXCEPT ![m] = regions], pte' = [pte EXCEPT ![m] = NoPages],
         \/ pmas' = pmas /\ \A r \in Region : regions[r] = NULL
         \/ /\ pmas' = pmas + 1
            /\ \A r \in Region : regions[r] # NULL => r = 0 /\ regions[r].pma = pmas'
  PROVE  Apart'
<1>1. /\ \A n \in Mm \ {m} : vma'[n] = vma[n] /\ pte'[n] = pte[n]
      /\ vma'[m] = regions /\ pte'[m] = NoPages
      /\ \A p \in Page : pte'[m][p] = NULL
  BY DEF Types, NoPages
<1>2. pmas' \in {pmas, pmas + 1} /\ pmas + 1 # pmas
  BY Areas
<1>3. \A s \in Region : vma'[m][s] # NULL => pmas' = pmas + 1 /\ vma'[m][s].pma = pmas'
  BY <1>1
<1>4. \A s, u \in Region : vma'[m][s] # NULL /\ vma'[m][u] # NULL => s = u
  BY <1>1
<1>5. Created' /\ Private' /\ RegionsApart'
  BY <1>1, <1>2, <1>3, <1>4, LocalChange DEF Apart
<1>6. Paged'
  BY <1>1 DEF Apart, Paged
<1>7. WritableOwn'
  BY <1>1 DEF Apart, WritableOwn
<1> QED
  BY <1>5, <1>6, <1>7 DEF Apart

LEMMA ApartUnchanged ==
  ASSUME Apart, UNCHANGED <<vma, pte, pmas>>
  PROVE  Apart'
  BY DEF Apart, Created, Private, RegionsApart, Paged, WritableOwn, Refers

LEMMA GoneStep ==
  ASSUME Types, Types', Apart, NEW t \in Thread, Runs(t), Gone(t), pmas' = pmas
  PROVE  Apart'
<1>1. mm[t] \in Mm
  BY Running
<1>2. CASE \A u \in Thread : mm[u] = mm[t] => u = t
  <2>1. vma' = [vma EXCEPT ![mm[t]] = NoVmas] /\ pte' = [pte EXCEPT ![mm[t]] = NoPages]
    BY <1>2 DEF Gone
  <2>2. \A r \in Region : NoVmas[r] = NULL
    BY DEF NoVmas
  <2> QED
    BY <1>1, <2>1, <2>2, ClearedStep
<1>3. CASE ~(\A u \in Thread : mm[u] = mm[t] => u = t)
  BY <1>3, ApartUnchanged DEF Gone
<1> QED
  BY <1>2, <1>3

\* Marking the regions of R keeps their areas, and leaves no page of theirs
\* writable when P has the pages of R.
LEMMA Marking ==
  ASSUME Types, Apart, NEW m \in Mm, NEW R, NEW P,
         \A r \in Region \cap R : PagesOf(r) \subseteq P
  PROVE  /\ \A r \in Region :
              LET x == Cowified(m, R)[r]  v == vma[m][r]
              IN  /\ x = NULL <=> v = NULL
                  /\ v # NULL => /\ x.pma = v.pma /\ x.faulted_in = v.faulted_in
                                 /\ x.cow <=> v.cow \/ r \in R
         /\ \A p \in Page :
              LET y == ReadOnly(m, P)[p]  e == pte[m][p]
              IN  /\ y = NULL <=> e = NULL
                  /\ e # NULL => y.pma = e.pma
                  /\ e # NULL /\ "w" \in y.prot =>
                       \E r \in Region : /\ p \in PagesOf(r) /\ vma[m][r] # NULL
                                         /\ vma[m][r].pma = e.pma
                                         /\ ~vma[m][r].cow /\ r \notin R
<1>1. \A v \in VmaObject : [v EXCEPT !.cow = TRUE] # NULL
  BY Objects, NullObjects
<1>2. \A v \in VmaObject :
        /\ [v EXCEPT !.cow = TRUE].pma = v.pma
        /\ [v EXCEPT !.cow = TRUE].faulted_in = v.faulted_in
        /\ [v EXCEPT !.cow = TRUE].cow
  BY DEF VmaObject
<1>3. ASSUME NEW r \in Region
      PROVE  LET x == Cowified(m, R)[r]  v == vma[m][r]
             IN  /\ x = NULL <=> v = NULL
                 /\ v # NULL => /\ x.pma = v.pma /\ x.faulted_in = v.faulted_in
                                /\ x.cow <=> v.cow \/ r \in R
  <2> DEFINE v == vma[m][r]
  <2>1. Cowified(m, R)[r] = IF r \in R /\ v # NULL THEN [v EXCEPT !.cow = TRUE] ELSE v
    BY DEF Cowified
  <2>2. v # NULL => v \in VmaObject
    BY Areas
  <2> HIDE DEF v
  <2>3. v # NULL /\ r \in R => /\ Cowified(m, R)[r] # NULL /\ Cowified(m, R)[r].pma = v.pma
                               /\ Cowified(m, R)[r].faulted_in = v.faulted_in
                               /\ Cowified(m, R)[r].cow
    BY <1>1, <1>2, <2>1, <2>2
  <2> QED
    BY <2>1, <2>3 DEF v
<1>4. ASSUME NEW p \in Page
      PROVE  LET y == ReadOnly(m, P)[p]  e == pte[m][p]
             IN  /\ y = NULL <=> e = NULL
                 /\ e # NULL => y.pma = e.pma
                 /\ e # NULL /\ "w" \in y.prot =>
                      \E r \in Region : /\ p \in PagesOf(r) /\ vma[m][r] # NULL
                                        /\ vma[m][r].pma = e.pma
                                        /\ ~vma[m][r].cow /\ r \notin R
  <2> DEFINE e == pte[m][p]
             y == ReadOnly(m, P)[p]
             Closed == \E r \in Region : /\ p \in PagesOf(r) \cap P
                                         /\ vma[m][r] # NULL /\ vma[m][r].faulted_in
  <2>1. y = IF e # NULL /\ Closed THEN [e EXCEPT !.prot = {"r"}] ELSE e
    BY DEF ReadOnly
  <2>2. e # NULL => e \in Mapping
    BY Areas
  <2>3. e # NULL => /\ [e EXCEPT !.prot = {"r"}] # NULL /\ [e EXCEPT !.prot = {"r"}].pma = e.pma
                    /\ [e EXCEPT !.prot = {"r"}].prot = {"r"}
    <3> HIDE DEF e
    <3>1. e # NULL => [e EXCEPT !.prot = {"r"}] \in Mapping
      BY <2>2, Objects
    <3> QED
      BY <2>2, <3>1, NullObjects DEF Mapping
  <2>4. (y = NULL <=> e = NULL) /\ (e # NULL => y.pma = e.pma)
    <3> HIDE DEF e, y, Closed
    <3> QED
      BY <2>1, <2>3
  <2>5. ASSUME e # NULL, "w" \in y.prot
        PROVE  \E r \in Region : /\ p \in PagesOf(r) /\ vma[m][r] # NULL
                                 /\ vma[m][r].pma = e.pma /\ ~vma[m][r].cow /\ r \notin R
    <3>1. ~Closed /\ "w" \in e.prot
      <4> HIDE DEF e, y, Closed
      <4> QED
        BY <2>1, <2>3, <2>5
    <3>2. PICK r \in Region : /\ p \in PagesOf(r) /\ vma[m][r] # NULL
                              /\ vma[m][r].pma = e.pma /\ ~vma[m][r].cow
      BY <2>5, <3>1 DEF Apart, WritableOwn
    <3>3. PICK s \in Region : p \in PagesOf(s) /\ vma[m][s] # NULL /\ vma[m][s].faulted_in
      BY <2>5 DEF Apart, Paged
    <3>4. r = s
      BY <3>2, <3>3, OneRegion
    <3>5. r \notin R
      BY <3>1, <3>2, <3>3, <3>4
    <3> QED
      BY <3>2, <3>5
  <2> HIDE DEF Closed
  <2> QED
    BY <2>4, <2>5
<1> QED
  BY <1>3, <1>4

\* A clone that fails has marked some regions and closed their pages, at least.
LEMMA CloneFailsStep ==
  ASSUME Types, Types', Apart, NEW t \in Thread, CloneFails(t)
  PROVE  Apart'
<1> DEFINE m == mm[t]
<1>1. m \in Mm /\ pmas' = pmas
  BY Running DEF CloneFails, Call
<1>2. PICK R, P : /\ \A r \in Region \cap R : PagesOf(r) \subseteq P
                  /\ vma' = [vma EXCEPT ![m] = Cowified(m, R)]
                  /\ pte' = [pte EXCEPT ![m] = ReadOnly(m, P)]
  <2>1. PICK r \in Region, p \in Page :
          /\ p \in PagesOf(r)
          /\ \/ /\ vma' = [vma EXCEPT ![m] = Cowified(m, {q \in Region : q < r})]
                /\ pte' = [pte EXCEPT ![m] = ReadOnly(m, {q \in Page : q < p})]
             \/ /\ vma' = [vma EXCEPT ![m] = Cowified(m, 0 .. r)]
                /\ pte' = [pte EXCEPT ![m] = ReadOnly(m, UNION {PagesOf(q) : q \in 0 .. r})]
    BY DEF CloneFails
  <2>2. \A q \in Region \cap {q \in Region : q < r} : PagesOf(q) \subseteq {s \in Page : s < p}
    <3> SUFFICES ASSUME NEW q \in Region, q < r, NEW s \in PagesOf(q) PROVE s \in Page /\ s < p
      OBVIOUS
    <3>1. s < p
      BY <2>1, PagesInOrder
    <3>2. s \in Page
      BY Place DEF PagesOf
    <3> QED
      BY <3>1, <3>2
  <2>3. \A q \in Region \cap (0 .. r) : PagesOf(q) \subseteq UNION {PagesOf(s) : s \in 0 .. r}
    OBVIOUS
  <2> QED
    BY <2>1, <2>2, <2>3
<1>3. /\ \A n \in Mm \ {m} : vma'[n] = vma[n] /\ pte'[n] = pte[n]
      /\ vma'[m] = Cowified(m, R) /\ pte'[m] = ReadOnly(m, P)
  BY <1>1, <1>2 DEF Types
<1> HIDE DEF m
<1>4. \A r \in Region :
        /\ vma'[m][r] = NULL <=> vma[m][r] = NULL
        /\ vma[m][r] # NULL => /\ vma'[m][r].pma = vma[m][r].pma
                               /\ vma'[m][r].faulted_in = vma[m][r].faulted_in
                               /\ vma'[m][r].cow <=> vma[m][r].cow \/ r \in R
  BY <1>1, <1>2, <1>3, Marking
<1>5. \A p \in Page :
        /\ pte'[m][p] = NULL <=> pte[m][p] = NULL
        /\ pte[m][p] # NULL => pte'[m][p].pma = pte[m][p].pma
        /\ pte[m][p] # NULL /\ "w" \in pte'[m][p].prot =>
             \E r \in Region : /\ p \in PagesOf(r) /\ vma[m][r] # NULL
                               /\ vma[m][r].pma = pte[m][p].pma
                               /\ ~vma[m][r].cow /\ r \notin R
  BY <1>1, <1>2, <1>3, Marking
<1>6. pmas + 1 # pmas
  BY Areas
<1>7. Created' /\ Private' /\ RegionsApart'
  BY <1>1, <1>3, <1>4, <1>5, <1>6, LocalChange DEF Apart
<1>8. Paged'
  BY <1>1, <1>3, <1>4, <1>5 DEF Apart, Paged
<1>9. WritableOwn'
  <2> SUFFICES ASSUME NEW n \in Mm, NEW q \in Page, pte'[n][q] # NULL, "w" \in pte'[n][q].prot
               PROVE  \E s \in Region : /\ q \in PagesOf(s) /\ vma'[n][s] # NULL
                                        /\ vma'[n][s].pma = pte'[n][q].pma /\ ~vma'[n][s].cow
    BY DEF WritableOwn
  <2>1. CASE n # m
    BY <1>3, <2>1 DEF Apart, WritableOwn
  <2>2. CASE n = m
    BY <1>4, <1>5, <2>2
  <2> QED
    BY <2>1, <2>2
<1> QED
  BY <1>7, <1>8, <1>9 DEF Apart

\* A clone with an address space of its own marks every region of both, and no
\* page of either stays writable.
LEMMA CloneProcessStep ==
  ASSUME Types, Types', Apart, Unused, NEW t \in Thread, NEW c \in Thread, NEW n \in Mm,
         CloneProcess(t, c, n)
  PROVE  Apart'
<1> DEFINE m == mm[t]
           V == Cowified(m, Region)
           P == ReadOnly(m, Page)
<1>1. m \in Mm /\ pmas' = pmas /\ m # n
  BY Running DEF CloneProcess, Started, Call
<1>2. /\ \A k \in Mm \ {m, n} : vma'[k] = vma[k] /\ pte'[k] = pte[k]
      /\ \A k \in {m, n} : vma'[k] = V /\ pte'[k] = P
  <2>1. /\ vma' = [vma EXCEPT ![m] = V, ![n] = V]
        /\ pte' = [pte EXCEPT ![m] = P, ![n] = P]
    BY DEF CloneProcess
  <2> HIDE DEF m, V, P
  <2> QED
    BY <1>1, <2>1 DEF Types
<1>3. /\ \A r \in Region : vma[n][r] = NULL
      /\ \A p \in Page : pte[n][p] = NULL
  BY DEF Unused, CloneProcess
<1>4. PICK R, Q : /\ R = Region /\ V = Cowified(m, R) /\ P = ReadOnly(m, Q)
                  /\ \A r \in Region \cap R : PagesOf(r) \subseteq Q
  BY Place DEF PagesOf
<1> HIDE DEF m, V, P
<1>5. \A r \in Region :
        /\ V[r] = NULL <=> vma[m][r] = NULL
        /\ vma[m][r] # NULL => /\ V[r].pma = vma[m][r].pma
                               /\ V[r].faulted_in = vma[m][r].faulted_in
                               /\ V[r].cow <=> vma[m][r].cow \/ r \in R
  BY <1>1, <1>4, Marking
<1>6. \A p \in Page :
        /\ P[p] = NULL <=> pte[m][p] = NULL
        /\ pte[m][p] # NULL => P[p].pma = pte[m][p].pma
        /\ pte[m][p] # NULL /\ "w" \in P[p].prot =>
             \E r \in Region : /\ p \in PagesOf(r) /\ vma[m][r] # NULL
                               /\ vma[m][r].pma = pte[m][p].pma
                               /\ ~vma[m][r].cow /\ r \notin R
  BY <1>1, <1>4, Marking
<1>7. \A k \in {m, n} :
        /\ \A r \in Region : vma'[k][r] # NULL =>
             vma[m][r] # NULL /\ vma'[k][r].pma = vma[m][r].pma /\ vma'[k][r].cow
        /\ \A p \in Page : pte'[k][p] # NULL =>
             pte[m][p] # NULL /\ pte'[k][p].pma = pte[m][p].pma /\ "w" \notin pte'[k][p].prot
  BY <1>1, <1>2, <1>4, <1>5, <1>6
<1>8. Created'
  BY <1>1, <1>2, <1>7 DEF Apart, Created
<1>9. Private'
  <2> SUFFICES ASSUME NEW k \in Mm, NEW l \in Mm, NEW r \in Region,
                      vma'[k][r] # NULL, ~vma'[k][r].cow, k # l,
                      Refers(l, vma[k][r].pma)'
               PROVE  FALSE
    BY DEF Private
  <2>1. k \notin {m, n} /\ vma'[k] = vma[k]
    BY <1>2, <1>7
  <2>2. ~Refers(l, vma[k][r].pma) /\ ~Refers(m, vma[k][r].pma)
    BY <1>1, <2>1 DEF Apart, Private
  <2>3. CASE l \in {m, n}
    BY <1>7, <2>1, <2>2, <2>3 DEF Refers
  <2>4. CASE l \notin {m, n}
    BY <1>2, <2>1, <2>2, <2>4 DEF Refers
  <2> QED
    BY <2>3, <2>4
<1>10. RegionsApart'
  BY <1>1, <1>2, <1>7 DEF Apart, RegionsApart
<1>11. Paged'
  <2> SUFFICES ASSUME NEW k \in Mm, NEW q \in Page, pte'[k][q] # NULL
               PROVE  \E s \in Region : q \in PagesOf(s) /\ vma'[k][s] # NULL /\ vma'[k][s].faulted_in
    BY DEF Paged
  <2>1. CASE k \in {m, n}
    <3>1. PICK s \in Region : q \in PagesOf(s) /\ vma[m][s] # NULL /\ vma[m][s].faulted_in
      BY <1>1, <1>7, <2>1 DEF Apart, Paged
    <3> QED
      BY <1>2, <1>5, <2>1, <3>1
  <2>2. CASE k \notin {m, n}
    BY <1>2, <2>2 DEF Apart, Paged
  <2> QED
    BY <2>1, <2>2
<1>12. WritableOwn'
  BY <1>2, <1>7 DEF Apart, WritableOwn
<1> QED
  BY <1>8, <1>9, <1>10, <1>11, <1>12 DEF Apart

LEMMA NoChangeOfProtection ==
  ASSUME Isolating, Types, NEW t, NEW a, NEW prot
  PROVE  ~ChangeRegionProt(t, a, prot)
  BY DEF Isolating, Types, ChangeRegionProt, Calls

\* A region that a step finds, and its copy.
LEMMA Found ==
  ASSUME Types, NEW t \in Thread, NEW a \in Addr, Runs(t), vma[mm[t]][RegionOf(a)] # NULL
  PROVE  LET v == vma[mm[t]][RegionOf(a)]
         IN  /\ mm[t] \in Mm /\ RegionOf(a) \in Region /\ v \in VmaObject
             /\ v.prot \in Prot /\ v.pma \in Pma
             /\ v.cow \in BOOLEAN
             /\ Copied(v).pma = pmas + 1 /\ ~Copied(v).cow /\ Copied(v).faulted_in = v.faulted_in
<1> DEFINE v == vma[mm[t]][RegionOf(a)]
<1>1. mm[t] \in Mm /\ RegionOf(a) \in Region
  BY Running, Place
<1>2. v \in VmaObject
  BY <1>1, Areas
<1> HIDE DEF v
<1>3. v.prot \in Prot /\ v.pma \in Pma /\ v.cow \in BOOLEAN
  BY <1>2, Objects
<1>4. Copied(v).pma = pmas + 1 /\ ~Copied(v).cow /\ Copied(v).faulted_in = v.faulted_in
  BY <1>2 DEF Copied, VmaObject
<1> QED
  BY <1>1, <1>2, <1>3, <1>4 DEF v

\* What a copy of a region has created and backed.
LEMMA CopyOf ==
  ASSUME Types, Apart, NEW t \in Thread, NEW a \in Addr, Runs(t),
         vma[mm[t]][RegionOf(a)] # NULL, CopyPmaForWrite(vma[mm[t]][RegionOf(a)])
  PROVE  /\ Copied(vma[mm[t]][RegionOf(a)]) \in VmaObject
         /\ pmas' = pmas + 1 /\ pmas' \in Pma
         /\ backed \subseteq backed' /\ backed' \subseteq backed \cup {vma[mm[t]][RegionOf(a)].pma, pmas + 1}
<1> DEFINE v == vma[mm[t]][RegionOf(a)]
<1>1. v \in VmaObject /\ mm[t] \in Mm /\ RegionOf(a) \in Region
  BY Found
<1>2. v.pma <= pmas
  BY <1>1 DEF Apart, Created
<1>3. backed \subseteq backed' /\ backed' \subseteq backed \cup {v.pma, pmas + 1}
  <2> HIDE DEF v
  <2>1. CopyPmaForWrite(v)
    BY DEF v
  <2> QED
    BY <2>1 DEF CopyPmaForWrite
<1> HIDE DEF v
<1>4. CopyPmaForWrite(v)
  BY DEF v
<1>5. Copied(v) \in VmaObject /\ pmas' = pmas + 1 /\ pmas' \in Pma
  BY <1>1, <1>2, <1>4, CopyTypes
<1> QED
  BY <1>3, <1>5 DEF v

\* Every step keeps the areas apart.
LEMMA ApartNext ==
  ASSUME Isolating, Types, Types', Apart, Unused, Next
  PROVE  Apart'
<1>1. ASSUME NEW t \in Thread, NEW a \in Addr, NEW w, FirstFault(t, a, w) PROVE Apart'
  <2> DEFINE v == vma[mm[t]][RegionOf(a)]
             prot == IF v.cow THEN {"r"} ELSE v.prot
  <2>1. Runs(t) /\ v # NULL /\ pmas' = pmas /\ MapPage(t, a, w, v, prot)
    BY <1>1 DEF FirstFault, Served, Faults, Takes
  <2>2. v \in VmaObject /\ prot \in Prot /\ ("w" \in prot => ~v.cow)
    BY <2>1, Found, Objects
  <2> QED
    BY <2>1, <2>2, MapPageStep
<1>2. ASSUME NEW t \in Thread, NEW a \in Addr, NEW w, SecondFault(t, a, w) PROVE Apart'
  <2> DEFINE v == vma[mm[t]][RegionOf(a)]
             prot == v.prot
  <2>1. Runs(t) /\ v # NULL /\ v.cow /\ CopyPmaForWrite(v) /\ MapPage(t, a, w, Copied(v), prot)
    BY <1>2 DEF SecondFault, Served, Faults, Takes
  <2>2. /\ Copied(v) \in VmaObject /\ prot \in Prot /\ pmas' = pmas + 1
        /\ ~Copied(v).cow /\ Copied(v).pma = pmas' /\ Copied(v).faulted_in = v.faulted_in
    BY <2>1, CopyOf, Found
  <2> QED
    BY <2>1, <2>2, MapPageStep
<1>3. ASSUME NEW t \in Thread, NEW a \in Addr, NEW x \in Val, WriteToUser(t, a, x) PROVE Apart'
  <2> DEFINE v == vma[mm[t]][RegionOf(a)]
  <2>1. Runs(t) /\ v # NULL /\ pte' = pte
    BY <1>3 DEF WriteToUser, Call
  <2>2. CASE v.cow
    <3>1. CopyPmaForWrite(v) /\ vma' = [vma EXCEPT ![mm[t]][RegionOf(a)] = Copied(v)]
      BY <1>3, <2>2 DEF WriteToUser
    <3>2. /\ Copied(v) \in VmaObject /\ pmas' = pmas + 1
          /\ Copied(v).pma = pmas' /\ Copied(v).faulted_in = v.faulted_in
          /\ mm[t] \in Mm /\ RegionOf(a) \in Region
      BY <2>1, <3>1, CopyOf, Found
    <3> QED
      BY <2>1, <2>2, <3>1, <3>2, NewAreaStep
  <2>3. CASE ~v.cow
    BY <1>3, <2>3, ApartUnchanged DEF WriteToUser
  <2> QED
    BY <2>2, <2>3
<1>4. ASSUME NEW t \in Thread, NEW r \in Region, NEW prot \in Prot, NewAnonRegion(t, r, prot) PROVE Apart'
  <2> DEFINE x == NewVma(prot, pmas + 1)
  <2>1. /\ mm[t] \in Mm /\ vma[mm[t]][r] = NULL /\ pte' = pte /\ pmas' = pmas + 1
        /\ vma' = [vma EXCEPT ![mm[t]][r] = x]
    BY <1>4, Running DEF NewAnonRegion, Call
  <2>2. x \in VmaObject /\ x.pma = pmas'
    BY <2>1, Objects DEF Types, NewVma
  <2> HIDE DEF x
  <2> QED
    BY <2>1, <2>2, NewAreaStep
<1>5. ASSUME NEW t \in Thread, ExecProc(t) PROVE Apart'
  <2> DEFINE x == NewVma({"r", "w"}, pmas + 1)
             one == [NoVmas EXCEPT ![0] = x]
  <2>1. mm[t] \in Mm /\ pte' = [pte EXCEPT ![mm[t]] = NoPages]
    BY <1>5, Running DEF ExecProc, Call
  <2>2. CASE HasRoom({pmas + 1})
    <3>1. pmas' = pmas + 1 /\ vma' = [vma EXCEPT ![mm[t]] = one]
      BY <1>5, <2>2 DEF ExecProc
    <3>2. x.pma = pmas'
      BY <3>1 DEF NewVma
    <3> HIDE DEF x
    <3>3. \A r \in Region : one[r] # NULL => r = 0 /\ one[r].pma = pmas'
      BY <3>2 DEF NoVmas
    <3> HIDE DEF one
    <3> QED
      BY <2>1, <3>1, <3>3, ClearedStep
  <2>3. CASE ~HasRoom({pmas + 1})
    <3>1. pmas' = pmas /\ vma' = [vma EXCEPT ![mm[t]] = NoVmas]
      BY <1>5, <2>3 DEF ExecProc
    <3>2. \A r \in Region : NoVmas[r] = NULL
      BY DEF NoVmas
    <3> QED
      BY <2>1, <3>1, <3>2, ClearedStep
  <2> QED
    BY <2>2, <2>3
<1>6. ASSUME NEW t \in Thread, Runs(t), Gone(t), UNCHANGED pmas PROVE Apart'
  BY <1>6, GoneStep
<1>7. ASSUME NEW t \in Thread, NEW a \in Addr, NEW w,
             Access(t, a, w) \/ UninitFault(t, a, w) \/ ReadFromUser(t, a) PROVE Apart'
  BY <1>7, ApartUnchanged DEF Access, UninitFault, ReadFromUser
<1>8. ASSUME NEW t \in Thread, NEW c \in Thread, CloneThread(t, c) PROVE Apart'
  BY <1>8, ApartUnchanged DEF CloneThread, Started
<1>9. ASSUME NEW t \in Thread, GuestAccess(t) PROVE Apart'
  BY <1>1, <1>2, <1>6, <1>7, <1>9 DEF GuestAccess, BadFault, Faults, Takes
<1>10. ASSUME NEW t \in Thread, SystemCall(t) PROVE Apart'
  BY <1>3, <1>4, <1>5, <1>6, <1>7, <1>8, <1>10, CloneFailsStep, CloneProcessStep,
     NoChangeOfProtection DEF SystemCall, Exit, Drop, Call
<1> QED
  BY <1>9, <1>10 DEF Next

\* The memory that a step writes is that of a region which is not marked.
WritesOwn ==
  \A p \in Pma : store'[p] # store[p] =>
    /\ p \in backed'
    /\ \E m \in Mm, r \in Region :
         vma'[m][r] # NULL /\ ~vma'[m][r].cow /\ vma'[m][r].pma = p

LEMMA WritesOwnNext ==
  ASSUME Isolating, Types, Types', Apart, Blank, Next
  PROVE  WritesOwn /\ backed \subseteq backed'
<1>0. /\ store \in [Pma -> [Offset -> Val]]
      /\ vma \in [Mm -> [Region -> VmaObject \cup {NULL}]]
      /\ NULL \notin VmaObject
  BY NullObjects DEF Types
<1>1. ASSUME UNCHANGED store PROVE WritesOwn
  BY <1>1 DEF WritesOwn
<1>2. ASSUME NEW t \in Thread, NEW a \in Addr, NEW w, Access(t, a, w)
      PROVE  WritesOwn /\ backed \subseteq backed'
  <2> DEFINE e == pte[mm[t]][PageOf(a)]
  <2>1. /\ UNCHANGED <<vma, backed>> /\ mm[t] \in Mm /\ PageOf(a) \in Page /\ e # NULL /\ w \in e.prot
        /\ \/ UNCHANGED store
           \/ w = "w" /\ \E x : store' = [store EXCEPT ![e.pma][a % RegionLen] = x]
    BY <1>2, Running, Place DEF Access, Takes, Allowed
  <2>2. \A p \in Pma \ {e.pma} : store'[p] = store[p]
    BY <1>0, <2>1
  <2>3. CASE w = "w"
    <3>1. e.pma \in backed
      BY <2>1 DEF Blank
    <3>2. \E r \in Region : vma[mm[t]][r] # NULL /\ ~vma[mm[t]][r].cow /\ vma[mm[t]][r].pma = e.pma
      BY <2>1, <2>3 DEF Apart, WritableOwn
    <3> QED
      BY <2>1, <2>2, <3>1, <3>2 DEF WritesOwn
  <2>4. CASE w # "w"
    BY <1>1, <2>1, <2>4
  <2> QED
    BY <2>3, <2>4
<1>3. ASSUME NEW t \in Thread, NEW a \in Addr, NEW w, SecondFault(t, a, w)
      PROVE  WritesOwn /\ backed \subseteq backed'
  <2> DEFINE v == vma[mm[t]][RegionOf(a)]
             m == mm[t]
             r == RegionOf(a)
  <2>1. /\ Runs(t) /\ v # NULL /\ CopyPmaForWrite(v) /\ MapPage(t, a, w, Copied(v), v.prot)
        /\ store' = IF pmas + 1 \in backed'
                    THEN [store EXCEPT ![pmas + 1] = store[v.pma]] ELSE store
    BY <1>3 DEF SecondFault, Served, Faults, Takes
  <2>2. Copied(v) \in VmaObject /\ Copied(v).pma = pmas + 1 /\ ~Copied(v).cow /\ backed \subseteq backed'
    BY <2>1, CopyOf, Found
  <2>3. m \in Mm /\ r \in Region
    BY <2>1, Found
  <2>4. PICK x \in {Copied(v), [Copied(v) EXCEPT !.faulted_in = TRUE]} : vma' = [vma EXCEPT ![m][r] = x]
    BY <2>1 DEF MapPage
  <2> HIDE DEF v, m, r
  <2>5. x \in VmaObject /\ x.pma = pmas + 1 /\ ~x.cow
    <3>1. \A y \in VmaObject : LET z == [y EXCEPT !.faulted_in = TRUE]
                                IN  z \in VmaObject /\ z.pma = y.pma /\ z.cow = y.cow
      BY Objects DEF VmaObject
    <3> QED
      BY <2>2, <2>4, <3>1
  <2>6. vma'[m][r] # NULL /\ vma'[m][r].pma = pmas + 1 /\ ~vma'[m][r].cow
    BY <1>0, <2>3, <2>4, <2>5
  <2>7. \A p \in Pma : store'[p] # store[p] => p = pmas + 1 /\ p \in backed'
    BY <1>0, <2>1
  <2> QED
    BY <2>2, <2>3, <2>6, <2>7 DEF WritesOwn
<1>4. ASSUME NEW t \in Thread, NEW a \in Addr, NEW x \in Val, WriteToUser(t, a, x)
      PROVE  WritesOwn /\ backed \subseteq backed'
  <2> DEFINE v == vma[mm[t]][RegionOf(a)]
             m == mm[t]
             r == RegionOf(a)
             o == a % RegionLen
  <2>1. Runs(t) /\ v # NULL
    BY <1>4 DEF WriteToUser, Call
  <2>2. m \in Mm /\ r \in Region
    BY <2>1, Found
  <2>3. CASE v.cow
    <3>1. /\ CopyPmaForWrite(v) /\ vma' = [vma EXCEPT ![m][r] = Copied(v)]
          /\ IF pmas + 1 \in backed' THEN store' = [store EXCEPT ![pmas + 1] = [store[v.pma] EXCEPT ![o] = x]]
                                     ELSE store' = store
      BY <1>4, <2>3 DEF WriteToUser
    <3>2. Copied(v) \in VmaObject /\ Copied(v).pma = pmas + 1 /\ ~Copied(v).cow /\ backed \subseteq backed'
      BY <2>1, <3>1, CopyOf, Found
    <3> HIDE DEF v, m, r, o
    <3>3. vma'[m][r] # NULL /\ vma'[m][r].pma = pmas + 1 /\ ~vma'[m][r].cow
      BY <1>0, <2>2, <3>1, <3>2
    <3>4. \A p \in Pma : store'[p] # store[p] => p = pmas + 1 /\ p \in backed'
      BY <1>0, <3>1
    <3> QED
      BY <2>2, <3>2, <3>3, <3>4 DEF WritesOwn
  <2>4. CASE ~v.cow
    <3>1. /\ store' = [store EXCEPT ![v.pma] = [store[v.pma] EXCEPT ![o] = x]]
          /\ backed' = backed \cup {v.pma} /\ UNCHANGED vma
      BY <1>4, <2>4 DEF WriteToUser
    <3> HIDE DEF o
    <3>2. \A p \in Pma : store'[p] # store[p] => p = v.pma
      BY <1>0, <3>1
    <3> QED
      BY <2>1, <2>2, <2>4, <3>1, <3>2 DEF WritesOwn
  <2> QED
    BY <2>3, <2>4
<1>5. ASSUME NEW t \in Thread, ExecProc(t)
      PROVE  WritesOwn /\ backed \subseteq backed'
  <2>1. CASE HasRoom({pmas + 1})
    <3> DEFINE x == NewVma({"r", "w"}, pmas + 1)
    <3>1. /\ mm[t] \in Mm /\ backed' = backed \cup {pmas + 1}
          /\ vma' = [vma EXCEPT ![mm[t]] = [NoVmas EXCEPT ![0] = x]]
          /\ store' = [store EXCEPT ![pmas + 1] = Section]
          /\ pmas + 1 \in Pma
      BY <1>5, <2>1, Running DEF ExecProc, Call, Types
    <3>2. x \in VmaObject /\ x.pma = pmas + 1 /\ ~x.cow
      BY <3>1, Objects DEF NewVma
    <3> HIDE DEF x
    <3>3. 0 \in Region
      BY Sizes DEF Region
    <3>4. vma'[mm[t]][0] = x
      BY <1>0, <3>1, <3>3 DEF NoVmas
    <3>5. \A p \in Pma : store'[p] # store[p] => p = pmas + 1
      BY <1>0, <3>1
    <3> QED
      BY <1>0, <3>1, <3>2, <3>3, <3>4, <3>5 DEF WritesOwn
  <2>2. CASE ~HasRoom({pmas + 1})
    BY <1>1, <1>5, <2>2 DEF ExecProc
  <2> QED
    BY <2>1, <2>2
<1>6. ASSUME NEW t \in Thread, NEW a \in Addr, NEW w,
             FirstFault(t, a, w) \/ BadFault(t, a, w) \/ UninitFault(t, a, w) \/ ReadFromUser(t, a)
      PROVE  WritesOwn /\ backed \subseteq backed'
  BY <1>1, <1>6 DEF FirstFault, BadFault, UninitFault, ReadFromUser
<1>7. ASSUME NEW t \in Thread, Exit(t) \/ Drop(t) \/ CloneFails(t)
      PROVE  WritesOwn /\ backed \subseteq backed'
  BY <1>1, <1>7 DEF Exit, Drop, CloneFails
<1>8. ASSUME NEW t \in Thread, NEW c, NEW n, CloneThread(t, c) \/ CloneProcess(t, c, n)
      PROVE  WritesOwn /\ backed \subseteq backed'
  BY <1>1, <1>8 DEF CloneThread, CloneProcess, Started
<1>9. ASSUME NEW t \in Thread, NEW r \in Region, NEW prot, NewAnonRegion(t, r, prot)
      PROVE  WritesOwn /\ backed \subseteq backed'
  BY <1>1, <1>9 DEF NewAnonRegion
<1>10. ASSUME NEW t \in Thread, GuestAccess(t) PROVE WritesOwn /\ backed \subseteq backed'
  BY <1>2, <1>3, <1>6, <1>10 DEF GuestAccess
<1>11. ASSUME NEW t \in Thread, SystemCall(t) PROVE WritesOwn /\ backed \subseteq backed'
  BY <1>4, <1>5, <1>6, <1>7, <1>8, <1>9, <1>11, NoChangeOfProtection DEF SystemCall
<1> QED
  BY <1>10, <1>11 DEF Next

\* Every step keeps memory that was never given out blank, and maps only memory
\* that was given out.
LEMMA BlankNext ==
  ASSUME Isolating, Types, Types', Apart, Blank, Next
  PROVE  Blank'
<1>1. WritesOwn /\ backed \subseteq backed'
  BY WritesOwnNext
<1>2. \A p \in Pma \ backed' : store'[p] = Zeroes
  BY <1>1 DEF WritesOwn, Blank
<1>3. SUFFICES ASSUME NEW k \in Mm, NEW q \in Page, pte'[k][q] # NULL
               PROVE  pte'[k][q].pma \in backed'
  BY <1>2 DEF Blank
<1> DEFINE Kept == \E n \in Mm, p \in Page : pte[n][p] # NULL /\ pte'[k][q].pma = pte[n][p].pma
<1>4. CASE Kept
  BY <1>1, <1>4 DEF Blank
<1>5. ASSUME UNCHANGED pte PROVE Kept
  BY <1>3, <1>5
<1>6. ASSUME NEW t \in Thread, Runs(t), Gone(t) PROVE Kept
  <2>1. pte' \in {pte, [pte EXCEPT ![mm[t]] = NoPages]}
    BY <1>6 DEF Gone
  <2> QED
    BY <1>3, <2>1 DEF NoPages, Types
<1>7. ASSUME NEW t \in Thread, NEW a \in Addr, NEW w, NEW v, NEW prot, MapPage(t, a, w, v, prot)
      PROVE  Kept \/ pte'[k][q].pma \in backed'
  <2>1. CASE /\ v.pma \in backed'
             /\ pte' = [pte EXCEPT ![mm[t]][PageOf(a)] = [pma |-> v.pma, prot |-> prot]]
    <3> DEFINE e == [pma |-> v.pma, prot |-> prot]
    <3>1. e.pma = v.pma
      OBVIOUS
    <3> HIDE DEF e
    <3>2. pte'[k][q] = e \/ pte'[k][q] = pte[k][q]
      BY <2>1 DEF Types, e
    <3> QED
      BY <1>3, <2>1, <3>1, <3>2
  <2>2. CASE UNCHANGED pte
    BY <1>5, <2>2
  <2> QED
    BY <1>7, <2>1, <2>2 DEF MapPage
<1>8. ASSUME NEW m \in Mm, NEW R, NEW P, pte'[k] = ReadOnly(m, P) PROVE Kept
  <2>1. pte'[k][q] \in {pte[m][q], [pte[m][q] EXCEPT !.prot = {"r"}]}
    BY <1>8 DEF ReadOnly
  <2>2. pte[m][q] # NULL
    BY <1>3, <1>8 DEF ReadOnly
  <2>3. pte[m][q] \in Mapping
    BY <2>2, Areas
  <2>4. [pte[m][q] EXCEPT !.prot = {"r"}].pma = pte[m][q].pma
    BY <2>3 DEF Mapping
  <2> QED
    BY <2>1, <2>2, <2>4
<1>9. ASSUME NEW t \in Thread, CloneFails(t) PROVE Kept
  <2>1. mm[t] \in Mm
    BY <1>9, Running DEF CloneFails, Call
  <2>2. PICK P : pte' = [pte EXCEPT ![mm[t]] = ReadOnly(mm[t], P)]
    BY <1>9 DEF CloneFails
  <2>3. pte'[k] = pte[k] \/ pte'[k] = ReadOnly(mm[t], P)
    BY <2>1, <2>2 DEF Types
  <2> QED
    BY <1>3, <1>8, <2>1, <2>3
<1>10. ASSUME NEW t \in Thread, NEW c, NEW n \in Mm, CloneProcess(t, c, n) PROVE Kept
  <2>1. mm[t] \in Mm
    BY <1>10, Running DEF CloneProcess, Call
  <2>2. pte' = [pte EXCEPT ![mm[t]] = ReadOnly(mm[t], Page), ![n] = ReadOnly(mm[t], Page)]
    BY <1>10 DEF CloneProcess
  <2>3. pte'[k] = pte[k] \/ pte'[k] = ReadOnly(mm[t], Page)
    BY <2>1, <2>2 DEF Types
  <2> QED
    BY <1>3, <1>8, <2>1, <2>3
<1>11. ASSUME NEW t \in Thread, ExecProc(t) PROVE Kept
  <2>1. pte' = [pte EXCEPT ![mm[t]] = NoPages]
    BY <1>11 DEF ExecProc
  <2> QED
    BY <1>3, <2>1 DEF NoPages, Types
<1>12. ASSUME NEW t \in Thread, GuestAccess(t) PROVE Kept \/ pte'[k][q].pma \in backed'
  <2>1. PICK a \in Addr, w \in {"r", "w"} :
          \/ Access(t, a, w) \/ BadFault(t, a, w) \/ FirstFault(t, a, w)
          \/ SecondFault(t, a, w) \/ UninitFault(t, a, w)
    BY <1>12 DEF GuestAccess
  <2>2. CASE Access(t, a, w) \/ UninitFault(t, a, w)
    BY <1>5, <2>2 DEF Access, UninitFault
  <2>3. CASE BadFault(t, a, w)
    BY <1>6, <2>3 DEF BadFault, Faults, Takes
  <2>4. CASE FirstFault(t, a, w) \/ SecondFault(t, a, w)
    <3>1. \E v, prot : MapPage(t, a, w, v, prot)
      BY <2>4 DEF FirstFault, SecondFault
    <3> QED
      BY <1>7, <3>1
  <2> QED
    BY <2>1, <2>2, <2>3, <2>4
<1>13. ASSUME NEW t \in Thread, SystemCall(t) PROVE Kept
  <2>1. \A a \in Addr, x \in Val : ReadFromUser(t, a) \/ WriteToUser(t, a, x) => Kept
    BY <1>5 DEF ReadFromUser, WriteToUser
  <2>2. \A a \in Addr : ReadFromUser(t, a) => Kept
    BY <1>5 DEF ReadFromUser
  <2>3. \A r \in Region, prot \in Prot : NewAnonRegion(t, r, prot) => Kept
    BY <1>5 DEF NewAnonRegion
  <2>4. \A c \in Thread : CloneThread(t, c) => Kept
    BY <1>5 DEF CloneThread
  <2>5. Exit(t) \/ Drop(t) => Kept
    BY <1>6 DEF Exit, Drop, Call
  <2> HIDE DEF Kept
  <2> QED
    BY <1>9, <1>10, <1>11, <1>13, <2>1, <2>2, <2>3, <2>4, <2>5, NoChangeOfProtection DEF SystemCall
<1> HIDE DEF Kept
<1> QED
  BY <1>4, <1>12, <1>13 DEF Next

\* An address space whose last thread has gone, or that has none yet, is empty.
LEMMA UnusedNext ==
  ASSUME Types, Types', Unused, Next
  PROVE  Unused'
<1>1. SUFFICES ASSUME NEW k \in Mm, \A u \in Thread : mm'[u] # k
               PROVE  /\ \A r \in Region : vma'[k][r] = NULL
                      /\ \A p \in Page : pte'[k][p] = NULL
  BY DEF Unused
<1> DEFINE Empty == /\ \A r \in Region : vma'[k][r] = NULL
                    /\ \A p \in Page : pte'[k][p] = NULL
\* Most steps change the regions and pages of the thread that takes them only.
<1> DEFINE OthersKept(t) == \A l \in Mm \ {mm[t]} : vma'[l] = vma[l] /\ pte'[l] = pte[l]
<1>2. \A t \in Thread : Runs(t) /\ mm' = mm /\ OthersKept(t) => Empty
  <2> SUFFICES ASSUME NEW t \in Thread, Runs(t), mm' = mm, OthersKept(t) PROVE Empty
    OBVIOUS
  <2>1. mm[t] # k /\ \A u \in Thread : mm[u] # k
    BY <1>1
  <2> QED
    BY <2>1 DEF Unused
<1>3. vma \in [Mm -> [Region -> VmaObject \cup {NULL}]] /\ pte \in [Mm -> [Page -> Mapping \cup {NULL}]]
  BY DEF Types
<1>4. ASSUME NEW t \in Thread, Runs(t), Gone(t) PROVE Empty
  <2>1. mm[t] \in Mm /\ mm' = [mm EXCEPT ![t] = NULL]
    BY <1>4, Running DEF Gone
  <2>2. CASE k = mm[t]
    <3>1. \A u \in Thread : mm[u] = mm[t] => u = t
      BY <1>1, <2>1, <2>2 DEF Types
    <3>2. vma' = [vma EXCEPT ![mm[t]] = NoVmas] /\ pte' = [pte EXCEPT ![mm[t]] = NoPages]
      BY <1>4, <3>1 DEF Gone
    <3> QED
      BY <2>2, <3>2 DEF Types, NoVmas, NoPages
  <2>3. CASE k # mm[t]
    <3>1. \A u \in Thread : mm[u] # k
      BY <1>1, <2>1, <2>3 DEF Types
    <3>2. vma'[k] = vma[k] /\ pte'[k] = pte[k]
      BY <1>4, <2>1, <2>3 DEF Gone, Types
    <3> QED
      BY <3>1, <3>2 DEF Unused
  <2> QED
    BY <2>2, <2>3
<1>5. ASSUME NEW t \in Thread, NEW c \in Thread, Runs(t), mm[c] = NULL, NEW n \in Mm, mm' = [mm EXCEPT ![c] = n],
             \A l \in Mm \ {mm[t], n} : vma'[l] = vma[l] /\ pte'[l] = pte[l]
      PROVE  Empty
  <2>1. mm[t] \in Mm /\ mm[t] # NULL /\ t # c
    BY <1>5, Running DEF Runs
  <2>2. mm'[c] = n /\ \A u \in Thread \ {c} : mm'[u] = mm[u]
    BY <1>5 DEF Types
  <2>3. k # n /\ k # mm[t] /\ \A u \in Thread : mm[u] # k
    BY <1>1, <1>5, <2>1, <2>2, NullObjects
  <2> QED
    BY <1>5, <2>3 DEF Unused
<1> HIDE DEF Empty
<1>6. ASSUME NEW t \in Thread, NEW a \in Addr, NEW w, NEW v, NEW prot, Runs(t), UNCHANGED mm,
             MapPage(t, a, w, v, prot)
      PROVE  Empty
  <2>1. OthersKept(t)
    BY <1>3, <1>6 DEF MapPage
  <2> QED
    BY <1>2, <1>6, <2>1
<1>7. ASSUME NEW t \in Thread, GuestAccess(t) PROVE Empty
  <2>1. PICK a \in Addr, w \in {"r", "w"} :
          \/ Access(t, a, w) \/ BadFault(t, a, w) \/ FirstFault(t, a, w)
          \/ SecondFault(t, a, w) \/ UninitFault(t, a, w)
    BY <1>7 DEF GuestAccess
  <2>2. Runs(t)
    BY <2>1 DEF Access, BadFault, FirstFault, SecondFault, UninitFault, Served, Faults, Takes
  <2>3. CASE Access(t, a, w) \/ UninitFault(t, a, w)
    BY <1>2, <2>2, <2>3 DEF Access, UninitFault
  <2>4. CASE BadFault(t, a, w)
    BY <1>4, <2>2, <2>4 DEF BadFault
  <2>5. CASE FirstFault(t, a, w) \/ SecondFault(t, a, w)
    <3>1. UNCHANGED mm /\ \E v, prot : MapPage(t, a, w, v, prot)
      BY <2>5 DEF FirstFault, SecondFault
    <3> QED
      BY <1>6, <2>2, <3>1
  <2> QED
    BY <2>1, <2>3, <2>4, <2>5
<1>8. ASSUME NEW t \in Thread, SystemCall(t) PROVE Empty
  <2>1. ASSUME Exit(t) \/ Drop(t) PROVE Empty
    BY <1>4, <2>1 DEF Exit, Drop, Call
  <2>2. ASSUME CloneFails(t) PROVE Empty
    <3>1. PICK V, P : vma' = [vma EXCEPT ![mm[t]] = V] /\ pte' = [pte EXCEPT ![mm[t]] = P]
      BY <2>2 DEF CloneFails
    <3>2. OthersKept(t)
      BY <1>3, <3>1
    <3> QED
      BY <1>2, <2>2, <3>2 DEF CloneFails, Call
  <2>3. ASSUME ExecProc(t) PROVE Empty
    <3>1. PICK V, P : vma' = [vma EXCEPT ![mm[t]] = V] /\ pte' = [pte EXCEPT ![mm[t]] = P]
      BY <2>3 DEF ExecProc
    <3>2. OthersKept(t)
      BY <1>3, <3>1
    <3> QED
      BY <1>2, <2>3, <3>2 DEF ExecProc, Call
  <2>4. ASSUME NEW a \in Addr, ReadFromUser(t, a) PROVE Empty
    BY <1>2, <2>4 DEF ReadFromUser, Call
  <2>5. ASSUME NEW a \in Addr, NEW x \in Val, WriteToUser(t, a, x) PROVE Empty
    <3>1. OthersKept(t)
      BY <1>3, <2>5 DEF WriteToUser
    <3> QED
      BY <1>2, <2>5, <3>1 DEF WriteToUser, Call
  <2>6. ASSUME NEW r \in Region, NEW prot \in Prot, NewAnonRegion(t, r, prot) PROVE Empty
    <3>1. OthersKept(t)
      BY <1>3, <2>6 DEF NewAnonRegion
    <3> QED
      BY <1>2, <2>6, <3>1 DEF NewAnonRegion, Call
  <2>7. ASSUME NEW a \in Addr, NEW prot \in Prot, ChangeRegionProt(t, a, prot) PROVE Empty
    <3>1. PICK P : pte' = [pte EXCEPT ![mm[t]] = P]
      BY <2>7 DEF ChangeRegionProt
    <3>2. vma' = vma \/ vma' = [vma EXCEPT ![mm[t]][RegionOf(a)].prot = prot]
      BY <2>7 DEF ChangeRegionProt
    <3>3. OthersKept(t)
      BY <1>3, <3>1, <3>2
    <3> QED
      BY <1>2, <2>7, <3>3 DEF ChangeRegionProt, Call
  <2>8. ASSUME NEW c \in Thread, CloneThread(t, c) PROVE Empty
    <3>1. /\ Runs(t) /\ mm[c] = NULL /\ mm' = [mm EXCEPT ![c] = mm[t]] /\ UNCHANGED <<vma, pte>>
      BY <2>8 DEF CloneThread, Started, Call
    <3>2. mm[t] \in Mm
      BY <3>1, Running
    <3> QED
      BY <1>5, <3>1, <3>2
  <2>9. ASSUME NEW c \in Thread, NEW n \in Mm, CloneProcess(t, c, n) PROVE Empty
    <3>1. /\ Runs(t) /\ mm[c] = NULL /\ mm' = [mm EXCEPT ![c] = n]
          /\ \E V, P : vma' = [vma EXCEPT ![mm[t]] = V, ![n] = V] /\ pte' = [pte EXCEPT ![mm[t]] = P, ![n] = P]
      BY <2>9 DEF CloneProcess, Started, Call
    <3>2. mm[t] \in Mm
      BY <3>1, Running
    <3>3. \A l \in Mm \ {mm[t], n} : vma'[l] = vma[l] /\ pte'[l] = pte[l]
      BY <3>1, <3>2 DEF Types
    <3> QED
      BY <1>5, <3>1, <3>3
  <2> QED
    BY <1>8, <2>1, <2>2, <2>3, <2>4, <2>5, <2>6, <2>7, <2>8, <2>9 DEF SystemCall
<1> QED
  BY <1>7, <1>8 DEF Next, Empty

LEMMA TypesInit ==
  ASSUME Init
  PROVE  Types
<1>1. PICK t \in Thread, m \in Mm :
        /\ setting \in Settings
        /\ mm = [u \in Thread |-> IF u = t THEN m ELSE NULL]
        /\ vma = [n \in Mm |-> IF n = m
                               THEN [NoVmas EXCEPT ![0] = NewVma({"r", "w"}, 1)]
                               ELSE NoVmas]
        /\ pte = [n \in Mm |-> [p \in Page |->
                    IF n = m /\ Launched /\ p \in PagesOf(0)
                    THEN [pma |-> 1, prot |-> {"r", "w"}] ELSE NULL]]
        /\ pmas = 1 /\ backed = {1}
        /\ store = [p \in Pma |-> IF p = 1 THEN Section ELSE Zeroes]
  BY DEF Init
<1>2. 1 \in Pma /\ backed \subseteq 1 .. pmas
  BY <1>1, Sizes DEF Pma
<1>3. NewVma({"r", "w"}, 1) \in VmaObject /\ [pma |-> 1, prot |-> {"r", "w"}] \in Mapping
  BY <1>2, Objects
<1>4. [NoVmas EXCEPT ![0] = NewVma({"r", "w"}, 1)] \in [Region -> VmaObject \cup {NULL}]
  BY <1>3 DEF NoVmas
<1>5. NoVmas \in [Region -> VmaObject \cup {NULL}]
  BY DEF NoVmas
<1>6. {0, Image} \subseteq Val
  BY MemoryAssumption
<1>7. Section \in [Offset -> Val] /\ Zeroes \in [Offset -> Val]
  BY <1>6 DEF Section, Zeroes
<1> QED
  BY <1>1, <1>2, <1>3, <1>4, <1>5, <1>7 DEF Types

LEMMA IsolatedInit ==
  ASSUME Isolating, Init
  PROVE  Isolated
<1>1. PICK t \in Thread, m \in Mm :
        /\ mm = [u \in Thread |-> IF u = t THEN m ELSE NULL]
        /\ vma = [n \in Mm |-> IF n = m
                               THEN [NoVmas EXCEPT ![0] = NewVma({"r", "w"}, 1)]
                               ELSE NoVmas]
        /\ pte = [n \in Mm |-> [p \in Page |->
                    IF n = m /\ Launched /\ p \in PagesOf(0)
                    THEN [pma |-> 1, prot |-> {"r", "w"}] ELSE NULL]]
        /\ pmas = 1 /\ backed = {1}
        /\ store = [p \in Pma |-> IF p = 1 THEN Section ELSE Zeroes]
  BY DEF Init
<1>2. /\ \A n \in Mm, p \in Page : pte[n][p] = NULL
      /\ \A n \in Mm, r \in Region : vma[n][r] # NULL => n = m /\ r = 0 /\ vma[n][r].pma = 1
  <2>1. NewVma({"r", "w"}, 1).pma = 1
    BY DEF NewVma
  <2> QED
    BY <1>1, <2>1 DEF Isolating, NoVmas
<1>3. Created /\ RegionsApart /\ Paged /\ WritableOwn
  BY <1>1, <1>2 DEF Created, RegionsApart, Paged, WritableOwn
<1>4. Private
  BY <1>2 DEF Private, Refers
<1>5. Blank
  BY <1>1, <1>2 DEF Blank
<1>6. Unused
  BY <1>1, <1>2 DEF Unused
<1> QED
  BY <1>3, <1>4, <1>5, <1>6, TypesInit DEF Isolated, Apart

LEMMA IsolatedNext ==
  ASSUME Isolating, Isolated, Next
  PROVE  Isolated'
  BY TypesNext, ApartNext, BlankNext, UnusedNext DEF Isolated, Apart

LEMMA IsolatedStutters ==
  ASSUME Isolated, UNCHANGED vars
  PROVE  Isolated'
  BY ApartUnchanged DEF Isolated, Types, Blank, Unused, vars

\* As long as no guest changes protections and the first process was not launched
\* with its pages mapped, whatever the guests do and whichever call fails: areas are
\* shared only by marked regions, and writable pages show regions that are not.
THEOREM IsolatedHolds ==
  ASSUME Isolating
  PROVE  Spec => []Isolated
<1>1. Init => Isolated
  BY IsolatedInit
<1>2. Isolated /\ [Next]_vars => Isolated'
  BY IsolatedNext, IsolatedStutters
<1> QED
  BY <1>1, <1>2, PTL DEF Spec

\* A page the guest can write is memory of its region that no other address space
\* refers to: COWifyVma, PageIn, CopyPmaForWrite and a clone that fails half way keep
\* it so.
THEOREM MemoryIsPrivate ==
  ASSUME Isolating
  PROVE  Spec => []WritableIsPrivate
<1>1. ASSUME Isolated PROVE WritableIsPrivate
  <2> SUFFICES ASSUME NEW m \in Mm, NEW p \in Page, pte[m][p] # NULL, "w" \in pte[m][p].prot
               PROVE  /\ \E r \in Region : /\ p \in PagesOf(r) /\ vma[m][r] # NULL
                                           /\ vma[m][r].pma = pte[m][p].pma /\ ~vma[m][r].cow
                      /\ \A n \in Mm \ {m} :
                           /\ \A r \in Region : vma[n][r] # NULL => vma[n][r].pma # pte[m][p].pma
                           /\ \A q \in Page : pte[n][q] # NULL => pte[n][q].pma # pte[m][p].pma
    BY DEF WritableIsPrivate
  <2>1. PICK r \in Region : /\ p \in PagesOf(r) /\ vma[m][r] # NULL
                            /\ vma[m][r].pma = pte[m][p].pma /\ ~vma[m][r].cow
    BY <1>1 DEF Isolated, Apart, WritableOwn
  <2>2. \A n \in Mm \ {m} : ~Refers(n, pte[m][p].pma)
    BY <1>1, <2>1 DEF Isolated, Apart, Private
  <2> QED
    BY <2>1, <2>2 DEF Refers
<1>2. Isolated => WritableIsPrivate
  BY <1>1
<1> QED
  BY <1>2, IsolatedHolds, PTL

\* A write of a guest, of a system call or of a copy reaches an area that one
\* address space refers to.
THEOREM WritesStayInside ==
  ASSUME Isolating
  PROVE  Spec => NoForeignWrites
<1> DEFINE Step == \A p \in Pma : store'[p] # store[p] =>
                     \A m, n \in Mm : Refers(m, p)' /\ Refers(n, p)' => m = n
<1>1. ASSUME Isolated, Isolated', Next PROVE Step
  <2>1. WritesOwn
    BY <1>1, WritesOwnNext DEF Isolated
  <2>2. Private'
    BY <1>1 DEF Isolated, Apart
  <2>3. ASSUME NEW p \in Pma, store'[p] # store[p], NEW m \in Mm, NEW n \in Mm, Refers(m, p)', Refers(n, p)'
        PROVE  m = n
    <3>1. PICK k \in Mm, r \in Region : vma'[k][r] # NULL /\ ~vma'[k][r].cow /\ vma'[k][r].pma = p
      BY <2>1, <2>3 DEF WritesOwn
    <3>2. \A l \in Mm \ {k} : ~Refers(l, p)'
      BY <2>2, <3>1 DEF Private, Refers
    <3> QED
      BY <2>3, <3>2
  <2> QED
    BY <2>3
<1>2. Isolated /\ Isolated' /\ [Next]_vars => [Step]_vars
  BY <1>1
<1> QED
  BY <1>2, IsolatedHolds, PTL DEF Spec, NoForeignWrites

-----------------------------------------------------------------------------
(* What nivisor holds for its guests implements AddressSpaces.             *)

\* What a region holds, before and after a step.
LEMMA ContentAt ==
  ASSUME NEW m \in Mm, NEW r \in Region
  PROVE  /\ HostContent[m][r] = IF vma[m][r] = NULL THEN NULL ELSE store[vma[m][r].pma]
         /\ HostContent'[m][r] = IF vma'[m][r] = NULL THEN NULL ELSE store'[vma'[m][r].pma]
  BY DEF HostContent

LEMMA HeldTypes ==
  ASSUME Types, NEW m \in Mm, NEW r \in Region, vma[m][r] # NULL
  PROVE  /\ vma[m][r].pma \in Pma
         /\ store[vma[m][r].pma] \in [Offset -> Val] /\ store[vma[m][r].pma] # NULL
         /\ HostContent[m][r] = store[vma[m][r].pma] /\ HostContent[m][r] # NULL
<1>1. vma[m][r].pma \in Pma
  BY Areas, Objects
<1> QED
  BY <1>1, ContentAt, NullObjects DEF Types

\* Two steps of what is held: nothing changes, or one region does.
LEMMA HeldSame ==
  ASSUME \A m \in Mm, r \in Region : HostContent'[m][r] = HostContent[m][r]
  PROVE  HostContent' = HostContent
  BY DEF HostContent

LEMMA HeldOne ==
  ASSUME NEW m \in Mm, NEW r \in Region, NEW y,
         HostContent'[m][r] = y,
         \A n \in Mm, s \in Region : n # m \/ s # r => HostContent'[n][s] = HostContent[n][s]
  PROVE  HostContent' = [HostContent EXCEPT ![m][r] = y]
<1>1. \A n \in Mm : HostContent'[n] = [HostContent EXCEPT ![m][r] = y][n]
  BY DEF HostContent
<1> QED
  BY <1>1 DEF HostContent

LEMMA HeldSpace ==
  ASSUME NEW m \in Mm, NEW y,
         HostContent'[m] = y,
         \A n \in Mm \ {m} : HostContent'[n] = HostContent[n]
  PROVE  HostContent' = [HostContent EXCEPT ![m] = y]
<1> DEFINE H == HostContent
           HH == HostContent'
<1>1. H = [n \in Mm |-> H[n]] /\ HH = [n \in Mm |-> HH[n]]
  BY DEF HostContent
<1> HIDE DEF H, HH
<1>2. HH[m] = y /\ \A n \in Mm \ {m} : HH[n] = H[n]
  BY DEF H, HH
<1>3. HH = [H EXCEPT ![m] = y]
  BY <1>1, <1>2
<1> QED
  BY <1>3 DEF H, HH

\* A region is given the next area, the others keep theirs and what they hold.
LEMMA HeldNew ==
  ASSUME Types, Types', Apart, NEW m \in Mm, NEW r \in Region, NEW x \in VmaObject,
         vma' = [vma EXCEPT ![m][r] = x], x.pma = pmas + 1,
         \A p \in Pma \ {pmas + 1} : store'[p] = store[p]
  PROVE  /\ HostContent'[m][r] = store'[pmas + 1]
         /\ \A n \in Mm, s \in Region : n # m \/ s # r => HostContent'[n][s] = HostContent[n][s]
<1>1. x # NULL
  BY NullObjects
<1>2. /\ vma'[m][r] = x
      /\ \A n \in Mm, s \in Region : n # m \/ s # r => vma'[n][s] = vma[n][s]
  BY DEF Types
<1>3. \A n \in Mm, s \in Region : vma[n][s] # NULL =>
        vma[n][s].pma \in Pma /\ vma[n][s].pma # pmas + 1
  BY Areas, HeldTypes DEF Apart, Created
<1>4. HostContent'[m][r] = store'[pmas + 1]
  BY <1>1, <1>2, ContentAt
<1>5. \A n \in Mm, s \in Region : n # m \/ s # r => HostContent'[n][s] = HostContent[n][s]
  BY <1>2, <1>3, ContentAt
<1> QED
  BY <1>4, <1>5

\* A write to the area of a region that is not marked.
LEMMA HeldWrite ==
  ASSUME Types, Types', Apart, NEW m \in Mm, NEW r \in Region, NEW o \in Offset, NEW x \in Val,
         vma[m][r] # NULL, ~vma[m][r].cow, UNCHANGED vma,
         store' = [store EXCEPT ![vma[m][r].pma] = [store[vma[m][r].pma] EXCEPT ![o] = x]]
  PROVE  Abstract!Store(m, r, o, x)
<1> DEFINE p == vma[m][r].pma
           y == [store[p] EXCEPT ![o] = x]
<1>1. p \in Pma /\ HostContent[m][r] = store[p] /\ HostContent[m][r] # NULL
  BY HeldTypes
<1>2. store' = [store EXCEPT ![p] = y]
  OBVIOUS
<1> HIDE DEF y
<1>3. store'[p] = y /\ \A q \in Pma \ {p} : store'[q] = store[q]
  BY <1>1, <1>2 DEF Types
<1>4. \A n \in Mm, s \in Region : (n # m \/ s # r) /\ vma[n][s] # NULL =>
        vma[n][s].pma \in Pma \ {p}
  BY HeldTypes DEF Apart, Private, RegionsApart, Refers
<1>5. HostContent'[m][r] = y
  BY <1>3, ContentAt
<1>6. \A n \in Mm, s \in Region : n # m \/ s # r => HostContent'[n][s] = HostContent[n][s]
  BY <1>3, <1>4, ContentAt
<1>7. HostContent' = [HostContent EXCEPT ![m][r] = y]
  BY <1>5, <1>6, HeldOne
<1> QED
  BY <1>1, <1>7 DEF Abstract!Store, y

\* A copy without memory is blank; it is made when memory has run out, or of a
\* region that was blank itself.
LEMMA HeldLost ==
  ASSUME Types, Types', Apart, Blank, NEW t \in Thread, NEW a \in Addr, Runs(t),
         vma[mm[t]][RegionOf(a)] # NULL,
         CopyPmaForWrite(vma[mm[t]][RegionOf(a)]), pmas + 1 \notin backed',
         NEW x \in VmaObject, x.pma = pmas + 1,
         vma' = [vma EXCEPT ![mm[t]][RegionOf(a)] = x], UNCHANGED store
  PROVE  UNCHANGED HostContent \/ Abstract!Lose(mm[t], RegionOf(a))
<1> DEFINE m == mm[t]
           r == RegionOf(a)
           v == vma[m][r]
<1>1. m \in Mm /\ r \in Region /\ pmas' = pmas + 1 /\ pmas + 1 \in Pma
  BY Found, CopyOf
<1>2. HostContent[m][r] = store[v.pma] /\ HostContent[m][r] # NULL /\ v.pma \in Pma
  BY <1>1, HeldTypes
<1> HIDE DEF m, r, v
<1>3. pmas + 1 \notin backed /\ pmas \in Nat
  BY Areas DEF Types
<1>4. store'[pmas + 1] = Zeroes
  BY <1>1, <1>3 DEF Blank
<1>5. /\ HostContent' = [HostContent EXCEPT ![m][r] = Zeroes]
      /\ HostContent'[m][r] = Zeroes
      /\ \A n \in Mm, s \in Region : n # m \/ s # r => HostContent'[n][s] = HostContent[n][s]
  <2>1. vma' = [vma EXCEPT ![m][r] = x]
    BY DEF m, r
  <2>2. \A p \in Pma \ {pmas + 1} : store'[p] = store[p]
    OBVIOUS
  <2>3. /\ HostContent'[m][r] = store'[pmas + 1]
        /\ \A n \in Mm, s \in Region : n # m \/ s # r => HostContent'[n][s] = HostContent[n][s]
    BY <1>1, <2>1, <2>2, HeldNew
  <2>4. HostContent' = [HostContent EXCEPT ![m][r] = Zeroes]
    BY <1>1, <1>4, <2>3, HeldOne
  <2> QED
    BY <1>4, <2>3, <2>4
<1>6. CASE v.pma \notin backed
  <2>1. HostContent[m][r] = Zeroes
    BY <1>2, <1>6 DEF Blank
  <2>2. \A n \in Mm, s \in Region : HostContent'[n][s] = HostContent[n][s]
    BY <1>5, <2>1
  <2> QED
    BY <2>2, HeldSame
<1>7. CASE v.pma \in backed
  <2>1. ~HasRoom({v.pma, pmas + 1})
    BY DEF CopyPmaForWrite, v, m, r
  <2>2. IsFiniteSet(backed) /\ Cardinality(backed) \in Nat
    <3>1. IsFiniteSet(1 .. pmas)
      BY <1>3, FS_Interval
    <3>2. IsFiniteSet(backed)
      BY <3>1, FS_Subset DEF Types
    <3> QED
      BY <3>2, FS_CardinalityType
  <2>3. backed \cup {v.pma, pmas + 1} = backed \cup {pmas + 1}
    BY <1>7
  <2>4. Cardinality(backed \cup {pmas + 1}) = Cardinality(backed) + 1
    BY <1>3, <2>2, FS_AddElement
  <2>5. setting.usage \in Nat
    <3>1. setting \in Settings
      BY DEF Types
    <3> QED
      BY <3>1, MemoryAssumption
  <2>6. Cardinality(backed) >= m_max_usage
    BY <2>1, <2>2, <2>3, <2>4, <2>5 DEF HasRoom, m_max_usage
  <2>7. Abstract!Lose(m, r)
    BY <1>2, <1>5, <2>6 DEF Abstract!Lose, Abstract!Zeroes, Abstract!Offset, Zeroes, Offset
  <2> QED
    BY <2>7 DEF m, r
<1> QED
  BY <1>6, <1>7

\* The regions of an address space are dropped, but for a loaded section in a new area.
LEMMA HeldReset ==
  ASSUME Types, Types', Apart, NEW m \in Mm, NEW regions, NEW K \in SUBSET Region,
         vma' = [vma EXCEPT ![m] = regions],
         \A r \in Region : IF r \in K THEN regions[r] # NULL /\ store'[regions[r].pma] = Section
                                      ELSE regions[r] = NULL,
         \A p \in Pma \ {pmas + 1} : store'[p] = store[p]
  PROVE  Abstract!Reset(m)
<1>1. vma'[m] = regions /\ \A n \in Mm \ {m} : vma'[n] = vma[n]
  BY DEF Types
<1>2. \A n \in Mm, s \in Region : vma[n][s] # NULL =>
        vma[n][s].pma \in Pma /\ vma[n][s].pma # pmas + 1
  BY Areas, HeldTypes DEF Apart, Created
<1>3. \A n \in Mm \ {m}, s \in Region : HostContent'[n][s] = HostContent[n][s]
  BY <1>1, <1>2, ContentAt
<1>4. \A s \in Region : HostContent'[m][s] = IF s \in K THEN Section ELSE NULL
  BY <1>1, ContentAt
<1> DEFINE y == [r \in Region |-> IF r \in K THEN Section ELSE NULL]
<1>5. HostContent'[m] = y
  BY <1>4 DEF HostContent
<1>6. \A n \in Mm \ {m} : HostContent'[n] = HostContent[n]
  BY <1>3 DEF HostContent
<1>7. HostContent' = [HostContent EXCEPT ![m] = y]
  <2> HIDE DEF y
  <2> QED
    BY <1>5, <1>6, HeldSpace
<1> QED
  BY <1>7 DEF Abstract!Reset, Abstract!Section, Abstract!Offset, Section, Offset

\* What a step of the detailed memory does to what is held.
AbstractStep ==
  \/ UNCHANGED HostContent
  \/ \E m \in Mm :
       \/ \E r \in Region, o \in Offset, x \in Val : Abstract!Store(m, r, o, x)
       \/ \E r \in Region : Abstract!NewRegion(m, r) \/ Abstract!Lose(m, r)
       \/ \E n \in Mm : Abstract!Clone(m, n)
       \/ Abstract!Reset(m)

\* Regions keep their areas and nothing is written.
LEMMA HeldUnchanged ==
  ASSUME UNCHANGED store,
         \A m \in Mm, r \in Region :
           /\ vma'[m][r] = NULL <=> vma[m][r] = NULL
           /\ vma[m][r] # NULL => vma'[m][r].pma = vma[m][r].pma
  PROVE  AbstractStep
<1>1. \A m \in Mm, r \in Region : HostContent'[m][r] = HostContent[m][r]
  BY ContentAt
<1> QED
  BY <1>1, HeldSame DEF AbstractStep

LEMMA AccessHolds ==
  ASSUME Types, Types', Apart, NEW t \in Thread, NEW a \in Addr, NEW w, Access(t, a, w)
  PROVE  AbstractStep
<1> DEFINE m == mm[t]
           e == pte[m][PageOf(a)]
           o == a % RegionLen
<1>1. /\ UNCHANGED vma /\ m \in Mm /\ PageOf(a) \in Page /\ o \in Offset /\ e # NULL /\ w \in e.prot
      /\ IF w = "w" THEN \E x \in Val : store' = [store EXCEPT ![e.pma][o] = x] ELSE UNCHANGED store
  BY Running, Place DEF Access, Takes, Allowed
<1>2. CASE w = "w"
  <2>1. PICK x \in Val : store' = [store EXCEPT ![e.pma][o] = x]
    BY <1>1, <1>2
  <2>2. PICK r \in Region : vma[m][r] # NULL /\ vma[m][r].pma = e.pma /\ ~vma[m][r].cow
    BY <1>1, <1>2 DEF Apart, WritableOwn
  <2>3. store' = [store EXCEPT ![vma[m][r].pma] = [store[vma[m][r].pma] EXCEPT ![o] = x]]
    BY <2>1, <2>2
  <2>4. Abstract!Store(m, r, o, x)
    BY <1>1, <2>2, <2>3, HeldWrite
  <2> QED
    BY <1>1, <2>4 DEF AbstractStep
<1>3. CASE w # "w"
  BY <1>1, <1>3, HeldUnchanged
<1> QED
  BY <1>2, <1>3

LEMMA FirstFaultHolds ==
  ASSUME Types, NEW t \in Thread, NEW a \in Addr, NEW w, FirstFault(t, a, w)
  PROVE  AbstractStep
<1> DEFINE v == vma[mm[t]][RegionOf(a)]
           m == mm[t]
           r == RegionOf(a)
           x == [v EXCEPT !.faulted_in = TRUE]
<1>1. /\ Runs(t) /\ v # NULL /\ UNCHANGED store
      /\ vma' = [vma EXCEPT ![m][r] = x] \/ vma' = [vma EXCEPT ![m][r] = v]
  BY DEF FirstFault, Served, Faults, Takes, MapPage
<1>2. m \in Mm /\ r \in Region /\ v \in VmaObject
  BY <1>1, Found
<1> HIDE DEF m, r, v
<1>3. x # NULL /\ x.pma = v.pma
  <2>1. x \in VmaObject
    BY <1>2, Objects
  <2> QED
    BY <1>2, <2>1, NullObjects DEF VmaObject
<1> HIDE DEF x
<1>4. /\ vma'[m][r] \in {v, x}
      /\ \A n \in Mm, s \in Region : n # m \/ s # r => vma'[n][s] = vma[n][s]
  BY <1>1, <1>2 DEF Types
<1>5. \A n \in Mm, s \in Region :
        /\ vma'[n][s] = NULL <=> vma[n][s] = NULL
        /\ vma[n][s] # NULL => vma'[n][s].pma = vma[n][s].pma
  BY <1>1, <1>3, <1>4 DEF v, m, r
<1> QED
  BY <1>1, <1>5, HeldUnchanged

LEMMA SecondFaultHolds ==
  ASSUME Types, Types', Apart, Blank, NEW t \in Thread, NEW a \in Addr, NEW w, SecondFault(t, a, w)
  PROVE  AbstractStep
<1> DEFINE m == mm[t]
           r == RegionOf(a)
           v == vma[m][r]
           c == Copied(v)
           d == [c EXCEPT !.faulted_in = TRUE]
<1>1. /\ Runs(t) /\ v # NULL /\ CopyPmaForWrite(v) /\ HasRoom({v.pma})
      /\ store' = IF pmas + 1 \in backed'
                  THEN [store EXCEPT ![pmas + 1] = store[v.pma]] ELSE store
      /\ vma' = [vma EXCEPT ![m][r] = d] \/ vma' = [vma EXCEPT ![m][r] = c]
  BY DEF SecondFault, Served, Faults, Takes, MapPage
<1>2. /\ m \in Mm /\ r \in Region /\ v \in VmaObject
      /\ c \in VmaObject /\ c.pma = pmas + 1 /\ pmas' = pmas + 1 /\ pmas + 1 \in Pma
  BY <1>1, Found, CopyOf
<1>3. HostContent[m][r] = store[v.pma]
  BY <1>1, <1>2, HeldTypes
<1> HIDE DEF c
<1>4. d \in VmaObject /\ d.pma = pmas + 1
  BY <1>2, Objects DEF VmaObject
<1>5. PICK x \in VmaObject : x.pma = pmas + 1 /\ vma' = [vma EXCEPT ![m][r] = x]
  BY <1>1, <1>2, <1>4
<1>6. CASE pmas + 1 \in backed'
  <2> HIDE DEF m, r, v
  <2>1. store'[pmas + 1] = store[v.pma] /\ \A p \in Pma \ {pmas + 1} : store'[p] = store[p]
    BY <1>1, <1>2, <1>6 DEF Types
  <2>2. /\ HostContent'[m][r] = store'[pmas + 1]
        /\ \A n \in Mm, s \in Region : n # m \/ s # r => HostContent'[n][s] = HostContent[n][s]
    BY <1>2, <1>5, <2>1, HeldNew
  <2>3. \A n \in Mm, s \in Region : HostContent'[n][s] = HostContent[n][s]
    BY <1>3, <2>1, <2>2
  <2> QED
    BY <2>3, HeldSame DEF AbstractStep
<1>7. CASE pmas + 1 \notin backed'
  <2>1. UNCHANGED HostContent \/ Abstract!Lose(m, r)
    BY <1>1, <1>5, <1>7, HeldLost
  <2> QED
    BY <1>2, <2>1 DEF AbstractStep
<1> QED
  BY <1>6, <1>7

LEMMA WriteToUserHolds ==
  ASSUME Types, Types', Apart, Blank, NEW t \in Thread, NEW a \in Addr, NEW x \in Val, WriteToUser(t, a, x)
  PROVE  AbstractStep
<1> DEFINE m == mm[t]
           r == RegionOf(a)
           v == vma[m][r]
           c == Copied(v)
           o == a % RegionLen
<1>1. Runs(t) /\ v # NULL
  BY DEF WriteToUser, Call
<1>2. m \in Mm /\ r \in Region /\ v \in VmaObject /\ o \in Offset
  BY <1>1, Found, Place
<1>3. CASE ~v.cow
  <2>1. UNCHANGED vma /\ store' = [store EXCEPT ![v.pma] = [store[v.pma] EXCEPT ![o] = x]]
    BY <1>3 DEF WriteToUser
  <2>2. Abstract!Store(m, r, o, x)
    BY <1>1, <1>2, <1>3, <2>1, HeldWrite
  <2> QED
    BY <1>2, <2>2 DEF AbstractStep
<1>4. CASE v.cow
  <2>1. /\ CopyPmaForWrite(v) /\ vma' = [vma EXCEPT ![m][r] = c]
        /\ IF pmas + 1 \in backed'
           THEN store' = [store EXCEPT ![pmas + 1] = [store[v.pma] EXCEPT ![o] = x]]
           ELSE UNCHANGED store
    BY <1>4 DEF WriteToUser
  <2>2. c \in VmaObject /\ c.pma = pmas + 1 /\ pmas + 1 \in Pma
    BY <1>1, <2>1, Found, CopyOf
  <2>3. HostContent[m][r] = store[v.pma] /\ HostContent[m][r] # NULL
    BY <1>1, <1>2, HeldTypes
  <2>4. CASE pmas + 1 \in backed'
    <3> DEFINE y == [store[v.pma] EXCEPT ![o] = x]
    <3>1. store' = [store EXCEPT ![pmas + 1] = y]
      BY <2>1, <2>4
    <3> HIDE DEF m, r, v, c, y, o
    <3>2. store'[pmas + 1] = y /\ \A p \in Pma \ {pmas + 1} : store'[p] = store[p]
      BY <2>2, <3>1 DEF Types
    <3>3. /\ HostContent'[m][r] = store'[pmas + 1]
          /\ \A n \in Mm, s \in Region : n # m \/ s # r => HostContent'[n][s] = HostContent[n][s]
      BY <1>2, <2>1, <2>2, <3>2, HeldNew
    <3>4. HostContent' = [HostContent EXCEPT ![m][r] = y]
      BY <1>2, <3>2, <3>3, HeldOne
    <3>5. Abstract!Store(m, r, o, x)
      BY <2>3, <3>4 DEF Abstract!Store, y
    <3> QED
      BY <1>2, <3>5 DEF AbstractStep
  <2>5. CASE pmas + 1 \notin backed'
    <3>1. UNCHANGED HostContent \/ Abstract!Lose(m, r)
      BY <1>1, <2>1, <2>2, <2>5, HeldLost
    <3> QED
      BY <1>2, <3>1 DEF AbstractStep
  <2> QED
    BY <2>4, <2>5
<1> QED
  BY <1>3, <1>4

LEMMA NewAnonRegionHolds ==
  ASSUME Types, Types', Apart, Blank, NEW t \in Thread, NEW r \in Region, NEW prot \in Prot,
         NewAnonRegion(t, r, prot)
  PROVE  AbstractStep
<1> DEFINE m == mm[t]
           x == NewVma(prot, pmas + 1)
<1>1. /\ m \in Mm /\ vma[m][r] = NULL /\ UNCHANGED store /\ pmas' = pmas + 1
      /\ vma' = [vma EXCEPT ![m][r] = x]
  BY Running DEF NewAnonRegion, Call
<1>2. pmas + 1 \in Pma /\ x \in VmaObject /\ x.pma = pmas + 1
  BY <1>1, Objects DEF Types, NewVma
<1>3. pmas + 1 \notin backed
  BY Areas DEF Types
<1> HIDE DEF x, m
<1>4. /\ HostContent'[m][r] = store'[pmas + 1]
      /\ \A n \in Mm, s \in Region : n # m \/ s # r => HostContent'[n][s] = HostContent[n][s]
  BY <1>1, <1>2, HeldNew
<1>5. store'[pmas + 1] = Zeroes
  BY <1>1, <1>2, <1>3 DEF Blank
<1>6. HostContent' = [HostContent EXCEPT ![m][r] = Zeroes]
  BY <1>1, <1>4, <1>5, HeldOne
<1>7. HostContent[m][r] = NULL
  BY <1>1, ContentAt
<1>8. Abstract!NewRegion(m, r)
  BY <1>6, <1>7 DEF Abstract!NewRegion, Abstract!Zeroes, Abstract!Offset, Zeroes, Offset
<1> QED
  BY <1>1, <1>8 DEF AbstractStep

LEMMA ExecProcHolds ==
  ASSUME Types, Types', Apart, NEW t \in Thread, ExecProc(t)
  PROVE  AbstractStep
<1> DEFINE m == mm[t]
           x == NewVma({"r", "w"}, pmas + 1)
           one == [NoVmas EXCEPT ![0] = x]
<1>1. m \in Mm
  BY Running DEF ExecProc, Call
<1>2. CASE HasRoom({pmas + 1})
  <2>1. /\ vma' = [vma EXCEPT ![m] = one] /\ pmas' = pmas + 1
        /\ store' = [store EXCEPT ![pmas + 1] = Section]
    BY <1>2 DEF ExecProc
  <2>2. pmas + 1 \in Pma /\ x \in VmaObject /\ x.pma = pmas + 1
    BY <2>1, Objects DEF Types, NewVma
  <2>3. store'[pmas + 1] = Section /\ \A p \in Pma \ {pmas + 1} : store'[p] = store[p]
    BY <2>1, <2>2 DEF Types
  <2>4. {0} \in SUBSET Region
    BY Sizes DEF Region
  <2> HIDE DEF x
  <2>5. \A r \in Region : IF r \in {0} THEN one[r] # NULL /\ store'[one[r].pma] = Section
                                       ELSE one[r] = NULL
    BY <2>2, <2>3, NullObjects DEF NoVmas
  <2> HIDE DEF one, m
  <2>6. Abstract!Reset(m)
    BY <1>1, <2>1, <2>3, <2>4, <2>5, HeldReset
  <2> QED
    BY <1>1, <2>6 DEF AbstractStep
<1>3. CASE ~HasRoom({pmas + 1})
  <2>1. vma' = [vma EXCEPT ![m] = NoVmas] /\ UNCHANGED store
    BY <1>3 DEF ExecProc
  <2>2. PICK K \in SUBSET Region :
          \A r \in Region : IF r \in K THEN NoVmas[r] # NULL /\ store'[NoVmas[r].pma] = Section
                                      ELSE NoVmas[r] = NULL
    <3>1. \A r \in Region : r \notin {} /\ NoVmas[r] = NULL
      BY DEF NoVmas
    <3>2. {} \in SUBSET Region
      OBVIOUS
    <3> QED
      BY <3>1, <3>2
  <2> HIDE DEF m
  <2>3. Abstract!Reset(m)
    BY <1>1, <2>1, <2>2, HeldReset
  <2> QED
    BY <1>1, <2>3 DEF AbstractStep
<1> QED
  BY <1>2, <1>3

LEMMA GoneHolds ==
  ASSUME Types, Types', Apart, NEW t \in Thread, Runs(t), Gone(t), UNCHANGED store
  PROVE  AbstractStep
<1> DEFINE m == mm[t]
<1>1. m \in Mm
  BY Running
<1>2. CASE UNCHANGED vma
  BY <1>2, HeldUnchanged
<1>3. CASE vma' = [vma EXCEPT ![m] = NoVmas]
  <2>1. PICK K \in SUBSET Region :
          \A r \in Region : IF r \in K THEN NoVmas[r] # NULL /\ store'[NoVmas[r].pma] = Section
                                      ELSE NoVmas[r] = NULL
    <3>1. \A r \in Region : r \notin {} /\ NoVmas[r] = NULL
      BY DEF NoVmas
    <3>2. {} \in SUBSET Region
      OBVIOUS
    <3> QED
      BY <3>1, <3>2
  <2> HIDE DEF m
  <2>2. Abstract!Reset(m)
    BY <1>1, <1>3, <2>1, HeldReset
  <2> QED
    BY <1>1, <2>2 DEF AbstractStep
<1> QED
  BY <1>2, <1>3 DEF Gone

\* Marking changes no area.
LEMMA Marked ==
  ASSUME Types, NEW m \in Mm, NEW R, NEW r \in Region
  PROVE  /\ Cowified(m, R)[r] = NULL <=> vma[m][r] = NULL
         /\ vma[m][r] # NULL => Cowified(m, R)[r].pma = vma[m][r].pma
<1> DEFINE v == vma[m][r]
<1>1. \/ Cowified(m, R)[r] = v
      \/ v # NULL /\ Cowified(m, R)[r] = [v EXCEPT !.cow = TRUE]
  BY DEF Cowified
<1>2. v # NULL => v \in VmaObject
  BY Areas
<1> HIDE DEF v
<1>3. v # NULL => [v EXCEPT !.cow = TRUE] # NULL /\ [v EXCEPT !.cow = TRUE].pma = v.pma
  <2>1. v # NULL => [v EXCEPT !.cow = TRUE] \in VmaObject
    BY <1>2, Objects
  <2> QED
    BY <1>2, <2>1, NullObjects DEF VmaObject
<1> QED
  BY <1>1, <1>3 DEF v

LEMMA CloneFailsHolds ==
  ASSUME Types, NEW t \in Thread, CloneFails(t)
  PROVE  AbstractStep
<1>1. mm[t] \in Mm /\ UNCHANGED store
  BY Running DEF CloneFails, Call
<1>2. PICK R : vma' = [vma EXCEPT ![mm[t]] = Cowified(mm[t], R)]
  BY DEF CloneFails
<1>3. vma'[mm[t]] = Cowified(mm[t], R) /\ \A n \in Mm \ {mm[t]} : vma'[n] = vma[n]
  BY <1>1, <1>2 DEF Types
<1> QED
  BY <1>1, <1>3, Marked, HeldUnchanged

LEMMA CloneProcessHolds ==
  ASSUME Types, Unused, NEW t \in Thread, NEW c \in Thread, NEW n \in Mm, CloneProcess(t, c, n)
  PROVE  AbstractStep
<1> DEFINE m == mm[t]
<1>1. m \in Mm /\ m # n /\ UNCHANGED store
  BY Running DEF CloneProcess, Started, Call
<1>2. \A r \in Region : vma[n][r] = NULL
  BY DEF Unused, CloneProcess
<1>3. PICK R : vma' = [vma EXCEPT ![m] = Cowified(m, R), ![n] = Cowified(m, R)]
  BY DEF CloneProcess
<1> HIDE DEF m
<1>4. /\ \A k \in Mm \ {m, n} : vma'[k] = vma[k]
      /\ \A k \in {m, n} : vma'[k] = Cowified(m, R)
  BY <1>1, <1>3 DEF Types
<1>5. \A k \in Mm \ {m, n}, r \in Region : HostContent'[k][r] = HostContent[k][r]
  BY <1>1, <1>4, ContentAt
<1>6. \A k \in {m, n}, r \in Region : HostContent'[k][r] = HostContent[m][r]
  BY <1>1, <1>4, Marked, ContentAt
<1>7. /\ \A k \in Mm \ {m, n} : HostContent'[k] = HostContent[k]
      /\ \A k \in {m, n} : HostContent'[k] = HostContent[m]
  BY <1>1, <1>5, <1>6 DEF HostContent
<1>8. HostContent' = [HostContent EXCEPT ![n] = HostContent[m]]
  BY <1>1, <1>7, HeldSpace
<1>9. \A r \in Region : HostContent[n][r] = NULL
  BY <1>2, ContentAt
<1>10. Abstract!Clone(m, n)
  BY <1>8, <1>9 DEF Abstract!Clone
<1> QED
  BY <1>1, <1>10 DEF AbstractStep

LEMMA HoldsNext ==
  ASSUME Isolating, Isolated, Isolated', Next
  PROVE  AbstractStep
<1>1. Types /\ Types' /\ Apart /\ Blank /\ Unused
  BY DEF Isolated
<1>2. ASSUME NEW t \in Thread, GuestAccess(t) PROVE AbstractStep
  <2>1. ASSUME NEW a \in Addr, NEW w, BadFault(t, a, w) PROVE AbstractStep
    BY <1>1, <2>1, GoneHolds DEF BadFault, Faults, Takes
  <2>2. ASSUME NEW a \in Addr, NEW w, UninitFault(t, a, w) PROVE AbstractStep
    BY <2>2, HeldUnchanged DEF UninitFault
  <2> QED
    BY <1>1, <1>2, <2>1, <2>2, AccessHolds, FirstFaultHolds, SecondFaultHolds DEF GuestAccess
<1>3. ASSUME NEW t \in Thread, SystemCall(t) PROVE AbstractStep
  <2>1. Exit(t) \/ Drop(t) => AbstractStep
    BY <1>1, GoneHolds DEF Exit, Drop, Call
  <2>2. \A a \in Addr : ReadFromUser(t, a) => AbstractStep
    BY HeldUnchanged DEF ReadFromUser
  <2>3. \A c \in Thread : CloneThread(t, c) => AbstractStep
    BY HeldUnchanged DEF CloneThread, Started
  <2> QED
    BY <1>1, <1>3, <2>1, <2>2, <2>3, CloneFailsHolds, ExecProcHolds, WriteToUserHolds,
       NewAnonRegionHolds, CloneProcessHolds, NoChangeOfProtection DEF SystemCall
<1> QED
  BY <1>2, <1>3 DEF Next

\* The memfd only grows, up to a limit that never changes.
LEMMA FullStays ==
  ASSUME Isolating, Isolated, Isolated', Next, Cardinality(backed) >= m_max_usage
  PROVE  (Cardinality(backed) >= m_max_usage)'
<1>1. backed \subseteq backed' /\ setting' = setting
  BY WritesOwnNext DEF Isolated, Next
<1>2. IsFiniteSet(backed') /\ Cardinality(backed') \in Nat /\ Cardinality(backed) \in Nat
  <2>1. pmas \in Nat /\ pmas' \in Nat /\ backed \subseteq 1 .. pmas /\ backed' \subseteq 1 .. pmas'
    BY Sizes DEF Isolated, Types, Pma
  <2>2. IsFiniteSet(1 .. pmas) /\ IsFiniteSet(1 .. pmas')
    BY <2>1, FS_Interval
  <2>3. IsFiniteSet(backed) /\ IsFiniteSet(backed')
    BY <2>1, <2>2, FS_Subset
  <2> QED
    BY <2>3, FS_CardinalityType
<1>3. Cardinality(backed) <= Cardinality(backed')
  BY <1>1, <1>2, FS_Subset
<1>4. setting.usage \in Nat
  <2>1. setting \in Settings
    BY DEF Isolated, Types
  <2> QED
    BY <2>1, MemoryAssumption
<1> QED
  BY <1>1, <1>2, <1>3, <1>4 DEF m_max_usage

LEMMA HoldsInit ==
  ASSUME Isolating, Init
  PROVE  Abstract!Init
<1>1. PICK m \in Mm :
        /\ vma = [n \in Mm |-> IF n = m
                               THEN [NoVmas EXCEPT ![0] = NewVma({"r", "w"}, 1)]
                               ELSE NoVmas]
        /\ store = [p \in Pma |-> IF p = 1 THEN Section ELSE Zeroes]
  BY DEF Init
<1>2. 0 \in Region /\ 1 \in Pma
  BY Sizes DEF Region, Pma
<1>3. NewVma({"r", "w"}, 1) # NULL /\ NewVma({"r", "w"}, 1).pma = 1
  BY <1>2, Objects, NullObjects DEF NewVma
<1>4. \A n \in Mm, r \in Region :
        HostContent[n][r] = IF n = m /\ r = 0 THEN Section ELSE NULL
  <2>1. store[1] = Section
    BY <1>1, <1>2
  <2>2. \A n \in Mm, r \in Region : IF n = m /\ r = 0 THEN vma[n][r] # NULL /\ vma[n][r].pma = 1
                                                      ELSE vma[n][r] = NULL
    <3> DEFINE x == NewVma({"r", "w"}, 1)
    <3>1. vma = [n \in Mm |-> IF n = m THEN [NoVmas EXCEPT ![0] = x] ELSE NoVmas]
      BY <1>1
    <3>2. x # NULL /\ x.pma = 1
      BY <1>3
    <3> HIDE DEF x
    <3> QED
      BY <1>2, <3>1, <3>2 DEF NoVmas
  <2> QED
    BY <2>1, <2>2, ContentAt
<1>5. HostContent = [n \in Mm |-> [r \in Region |-> IF n = m /\ r = 0 THEN Section ELSE NULL]]
  <2>1. HostContent = [n \in Mm |-> [r \in Region |-> HostContent[n][r]]]
    BY DEF HostContent
  <2> QED
    BY <1>4, <2>1
<1>6. (Cardinality(backed) >= m_max_usage) \in BOOLEAN
  OBVIOUS
<1> QED
  BY <1>2, <1>5, <1>6 DEF Abstract!Init, Abstract!Section, Abstract!Offset, Section, Offset

\* The regions of guests behave as memory of their own: every step of faults, copies,
\* clones and calls that fail is a step of AddressSpaces, or changes nothing there.
THEOREM MemoryImplementsAddressSpaces ==
  ASSUME Isolating
  PROVE  Spec => ImplementsAddressSpaces
<1>1. Init => Abstract!Init
  BY HoldsInit
<1>2. Isolated /\ Isolated' /\ [Next]_vars
        => [Abstract!Next]_<<HostContent, Cardinality(backed) >= m_max_usage>>
  <2>1. ASSUME Isolated, Isolated', Next PROVE Abstract!Next
    <3>1. AbstractStep
      BY <2>1, HoldsNext
    <3>2. Cardinality(backed) >= m_max_usage => (Cardinality(backed) >= m_max_usage)'
      BY <2>1, FullStays
    <3> QED
      BY <3>1, <3>2 DEF AbstractStep, Abstract!Next, Abstract!Offset, Offset
  <2>2. ASSUME UNCHANGED vars PROVE UNCHANGED <<HostContent, Cardinality(backed) >= m_max_usage>>
    BY <2>2 DEF vars, HostContent, m_max_usage
  <2> QED
    BY <2>1, <2>2
<1> QED
  BY <1>1, <1>2, IsolatedHolds, PTL DEF Spec, ImplementsAddressSpaces, Abstract!Spec

-----------------------------------------------------------------------------
(* What a guest reads is what nivisor reads, but where a call has written.  *)

\* An area that a page of one region shows is not that of another region of the
\* address space, also when the page was left on the area its region had before.
PagesApart ==
  \A m \in Mm, r, s \in Region, p \in Page :
    /\ p \in PagesOf(s) /\ vma[m][r] # NULL /\ pte[m][p] # NULL
    /\ vma[m][r].pma = pte[m][p].pma
    => r = s

\* The tables of m after a step refer to what those of n did before it.
SameTables(m, n) ==
  /\ \A r \in Region : /\ vma'[m][r] = NULL <=> vma[n][r] = NULL
                       /\ vma[n][r] # NULL => vma'[m][r].pma = vma[n][r].pma
  /\ \A p \in Page : /\ pte'[m][p] = NULL <=> pte[n][p] = NULL
                     /\ pte[n][p] # NULL => pte'[m][p].pma = pte[n][p].pma

\* Nothing is mapped any more, and every region of m is new.
ClearedTables(m) ==
  /\ \A r \in Region : vma'[m][r] # NULL => vma'[m][r].pma = pmas + 1
  /\ \A p \in Page : pte'[m][p] = NULL

\* Region r of m has the area it had, or the next one, and some of its pages show it.
OneChanged(m, r) ==
  /\ vma'[m][r] # NULL
  /\ \/ vma'[m][r].pma = pmas + 1
     \/ vma[m][r] # NULL /\ vma'[m][r].pma = vma[m][r].pma
  /\ \A s \in Region : s # r =>
       /\ vma'[m][s] = NULL <=> vma[m][s] = NULL
       /\ vma[m][s] # NULL => vma'[m][s].pma = vma[m][s].pma
  /\ \A p \in Page :
       \/ /\ pte'[m][p] = NULL <=> pte[m][p] = NULL
          /\ pte[m][p] # NULL => pte'[m][p].pma = pte[m][p].pma
       \/ p \in PagesOf(r) /\ pte'[m][p] # NULL /\ pte'[m][p].pma = vma'[m][r].pma

\* What every step does to the tables of an address space.
TablesStep ==
  \A m \in Mm : \/ \E n \in Mm : SameTables(m, n)
                \/ ClearedTables(m)
                \/ \E r \in Region : OneChanged(m, r)

LEMMA PagesStayApart ==
  ASSUME Types, Created, RegionsApart', PagesApart, TablesStep
  PROVE  PagesApart'
<1> SUFFICES ASSUME NEW m \in Mm, NEW r \in Region, NEW s \in Region, NEW p \in Page,
                    p \in PagesOf(s), vma'[m][r] # NULL, pte'[m][p] # NULL,
                    vma'[m][r].pma = pte'[m][p].pma
             PROVE  r = s
  BY DEF PagesApart
<1>1. ASSUME NEW n \in Mm, SameTables(m, n) PROVE r = s
  BY <1>1 DEF PagesApart, SameTables
<1>2. ASSUME NEW q \in Region, OneChanged(m, q) PROVE r = s
  <2>1. CASE p \in PagesOf(q) /\ pte'[m][p].pma = vma'[m][q].pma
    <3>1. q = s
      BY <2>1, OneRegion
    <3>2. q = r
      BY <1>2, <2>1 DEF RegionsApart, OneChanged
    <3> QED
      BY <3>1, <3>2
  <2>2. CASE pte[m][p] # NULL /\ pte'[m][p].pma = pte[m][p].pma
    <3>1. pte[m][p].pma <= pmas /\ pte[m][p].pma \in Nat /\ pmas \in Nat
      BY <2>2, Areas DEF Created
    <3>2. vma'[m][r].pma # pmas + 1
      BY <2>2, <3>1
    <3>3. vma[m][r] # NULL /\ vma'[m][r].pma = vma[m][r].pma
      BY <1>2, <3>2 DEF OneChanged
    <3> QED
      BY <2>2, <3>3 DEF PagesApart
  <2> QED
    BY <1>2, <2>1, <2>2 DEF OneChanged
<1>3. CASE ClearedTables(m)
  BY <1>3 DEF ClearedTables
<1> QED
  BY <1>1, <1>2, <1>3 DEF TablesStep

\* Two addresses at one offset of one region.
LEMMA SamePlace ==
  ASSUME NEW a \in Addr, NEW b \in Addr, RegionOf(a) = RegionOf(b), a % RegionLen = b % RegionLen
  PROVE  a = b
<1>1. RegionLen \in Nat \ {0} /\ a \in Nat /\ b \in Nat
  BY Sizes
<1>2. a \div RegionLen = b \div RegionLen
  BY DEF RegionOf
<1>3. \A x \in Nat : x = RegionLen * (x \div RegionLen) + (x % RegionLen)
  BY <1>1
<1> QED
  BY <1>1, <1>2, <1>3

\* Areas other than the next one keep what they hold.
OldAreasKept == \A z \in Pma : z # pmas + 1 => store'[z] = store[z]

LEMMA OldAreas ==
  ASSUME Types, Created, NEW m \in Mm, NEW r \in Region, NEW p \in Page
  PROVE  /\ vma[m][r] # NULL => vma[m][r].pma \in Pma /\ vma[m][r].pma # pmas + 1
         /\ pte[m][p] # NULL => pte[m][p].pma \in Pma /\ pte[m][p].pma # pmas + 1
<1>1. vma[m][r] # NULL => vma[m][r].pma \in Pma
  BY Areas, Objects
<1>2. pte[m][p] # NULL => pte[m][p].pma \in Pma
  BY Areas DEF Mapping
<1>3. vma[m][r] # NULL => vma[m][r].pma \in Nat /\ vma[m][r].pma <= pmas
  BY Areas DEF Created
<1>4. pte[m][p] # NULL => pte[m][p].pma \in Nat /\ pte[m][p].pma <= pmas
  BY Areas DEF Created
<1>5. pmas \in Nat
  BY Areas
<1> QED
  BY <1>1, <1>2, <1>3, <1>4, <1>5

\* Tables that refer to the same areas, which hold what they held.
LEMMA SameView ==
  ASSUME Types, Created, OldAreasKept, NEW m \in Mm, NEW n \in Mm, SameTables(m, n), NEW a \in Addr
  PROVE  Agrees(m, a)' <=> Agrees(n, a)
<1> DEFINE r == RegionOf(a)
           p == PageOf(a)
<1>1. r \in Region /\ p \in Page
  BY Place
<1>2. /\ vma'[m][r] = NULL <=> vma[n][r] = NULL
      /\ vma[n][r] # NULL => store'[vma'[m][r].pma] = store[vma[n][r].pma]
  BY <1>1, OldAreas DEF SameTables, OldAreasKept
<1>3. /\ pte'[m][p] = NULL <=> pte[n][p] = NULL
      /\ pte[n][p] # NULL => store'[pte'[m][p].pma] = store[pte[n][p].pma]
  BY <1>1, OldAreas DEF SameTables, OldAreasKept
<1>4. Holds(m, a)' = Holds(n, a)
  BY <1>2 DEF Holds
<1>5. Sees(m, a)' = Sees(n, a)
  BY <1>3 DEF Sees
<1> QED
  BY <1>4, <1>5 DEF Agrees

LEMMA ClearedView ==
  ASSUME NEW m \in Mm, ClearedTables(m), NEW a \in Addr
  PROVE  Agrees(m, a)'
  BY Place DEF ClearedTables, Agrees, Sees

\* Where one region changed, only its own addresses can disagree, and only if its
\* new area holds something else there.
LEMMA ChangedView ==
  ASSUME Types, Created, OldAreasKept, NEW m \in Mm, NEW r \in Region, OneChanged(m, r),
         NEW a \in Addr, Agrees(m, a), ~Agrees(m, a)'
  PROVE  /\ RegionOf(a) = r /\ vma[m][r] # NULL /\ vma'[m][r].pma = pmas + 1
         /\ store'[pmas + 1][a % RegionLen] # store[vma[m][r].pma][a % RegionLen]
<1> DEFINE p == PageOf(a)
           s == RegionOf(a)
<1>1. s \in Region /\ p \in Page /\ p \in PagesOf(s)
  BY Place
<1>2. CASE p \in PagesOf(r) /\ pte'[m][p] # NULL /\ pte'[m][p].pma = vma'[m][r].pma
  <2>1. s = r
    BY <1>1, <1>2, OneRegion
  <2>2. Sees(m, a)' = Holds(m, a)'
    BY <1>2, <2>1 DEF OneChanged, Sees, Holds
  <2> QED
    BY <2>2 DEF Agrees
<1>3. CASE /\ pte'[m][p] = NULL <=> pte[m][p] = NULL
           /\ pte[m][p] # NULL => pte'[m][p].pma = pte[m][p].pma
  <2>1. pte[m][p] # NULL => store'[pte'[m][p].pma] = store[pte[m][p].pma]
    BY <1>1, <1>3, OldAreas DEF OldAreasKept
  <2>2. Sees(m, a)' = Sees(m, a)
    BY <1>3, <2>1 DEF Sees
  <2>3. Sees(m, a) # NULL /\ Sees(m, a) = Holds(m, a) /\ Holds(m, a)' # Holds(m, a)
    BY <2>2 DEF Agrees
  <2>4. vma[m][s] # NULL
    BY <2>3 DEF Holds
  <2>5. s = r
    <3> SUFFICES ASSUME s # r PROVE FALSE
      OBVIOUS
    <3>1. vma'[m][s] # NULL /\ store'[vma'[m][s].pma] = store[vma[m][s].pma]
      BY <1>1, <2>4, OldAreas DEF OneChanged, OldAreasKept
    <3> QED
      BY <2>3, <2>4, <3>1 DEF Holds
  <2>6. vma'[m][r] # NULL
    BY DEF OneChanged
  <2>7. store'[vma'[m][r].pma][a % RegionLen] # store[vma[m][r].pma][a % RegionLen]
    BY <2>3, <2>4, <2>5, <2>6 DEF Holds
  <2>8. vma'[m][r].pma = pmas + 1
    BY <1>1, <2>4, <2>5, <2>7, OldAreas DEF OneChanged, OldAreasKept
  <2> QED
    BY <2>4, <2>5, <2>7, <2>8
<1> QED
  BY <1>1, <1>2, <1>3 DEF OneChanged

\* A write to the area of a region that is not marked is seen at the place it is made,
\* and nowhere else.
LEMMA WrittenView ==
  ASSUME Types, Apart, PagesApart, NEW m \in Mm, NEW r \in Region, NEW o \in Offset, NEW x,
         vma[m][r] # NULL, ~vma[m][r].cow, UNCHANGED <<vma, pte>>,
         store' = [store EXCEPT ![vma[m][r].pma] = [store[vma[m][r].pma] EXCEPT ![o] = x]],
         NEW n \in Mm, NEW a \in Addr, ~(n = m /\ RegionOf(a) = r /\ a % RegionLen = o)
  PROVE  Agrees(n, a)' <=> Agrees(n, a)
<1> DEFINE s == RegionOf(a)
           p == PageOf(a)
           i == a % RegionLen
           z == vma[m][r].pma
           y == [store[z] EXCEPT ![o] = x]
<1>1. s \in Region /\ p \in Page /\ p \in PagesOf(s) /\ i \in Offset
  BY Place
<1>2. z \in Pma /\ store[z] \in [Offset -> Val]
  BY HeldTypes
<1>3. store' = [store EXCEPT ![z] = y]
  OBVIOUS
<1>4. y[o] = x /\ \A j \in Offset : j # o => y[j] = store[z][j]
  BY <1>2
<1> HIDE DEF y
<1>5. store'[z] = y /\ \A q \in Pma : q # z => store'[q] = store[q]
  BY <1>2, <1>3 DEF Types
<1>6. n # m => ~Refers(n, z)
  BY DEF Apart, Private
<1>7. ASSUME vma[n][s] # NULL PROVE store'[vma[n][s].pma][i] = store[vma[n][s].pma][i]
  <2>1. vma[n][s].pma \in Pma
    BY <1>1, <1>7, HeldTypes
  <2>2. vma[n][s].pma = z => n = m /\ s = r
    BY <1>1, <1>6, <1>7 DEF Refers, Apart, RegionsApart
  <2> QED
    BY <1>1, <1>4, <1>5, <2>1, <2>2
<1>8. ASSUME pte[n][p] # NULL PROVE store'[pte[n][p].pma][i] = store[pte[n][p].pma][i]
  <2>1. pte[n][p].pma \in Pma
    BY <1>1, <1>8, Areas DEF Mapping
  <2>2. pte[n][p].pma = z => n = m /\ s = r
    BY <1>1, <1>6, <1>8 DEF Refers, PagesApart
  <2> QED
    BY <1>1, <1>4, <1>5, <2>1, <2>2
<1>9. Holds(n, a)' = Holds(n, a)
  BY <1>7 DEF Holds
<1>10. Sees(n, a)' = Sees(n, a)
  BY <1>8 DEF Sees
<1> QED
  BY <1>9, <1>10 DEF Agrees

\* Where the property lets a guest lose sight of its region.
Excused(m, a) ==
  \/ \E t \in Thread, x \in Val : mm[t] = m /\ WriteToUser(t, a, x)
  \/ vma'[m][RegionOf(a)].pma \notin backed'
  \/ \E t, c \in Thread : CloneProcess(t, c, m) /\ ~Agrees(mm[t], a)

OnlyExcused ==
  \A m \in Mm, a \in Addr : Agrees(m, a) /\ ~Agrees(m, a)' => Excused(m, a)

\* Every address space keeps its tables, or was cleared.
LEMMA KeptStep ==
  ASSUME Types, Created, OldAreasKept, \A m \in Mm : SameTables(m, m) \/ ClearedTables(m)
  PROVE  TablesStep /\ OnlyExcused
  BY SameView, ClearedView DEF TablesStep, OnlyExcused

LEMMA QuietStep ==
  ASSUME Types, Created, UNCHANGED <<vma, pte, store>>
  PROVE  TablesStep /\ OnlyExcused
  BY KeptStep DEF SameTables, OldAreasKept

\* A step that gives region r of m the object x, and maps one page to it or none.
Gives(m, r, x) ==
  /\ vma' = [vma EXCEPT ![m][r] = x]
  /\ \/ x.pma = pmas + 1
     \/ vma[m][r] # NULL /\ x.pma = vma[m][r].pma
  /\ \/ UNCHANGED pte
     \/ \E p \in Page, e \in Mapping : /\ p \in PagesOf(r) /\ e.pma = x.pma
                                       /\ pte' = [pte EXCEPT ![m][p] = e]

LEMMA ChangedStep ==
  ASSUME Types, NEW m \in Mm, NEW r \in Region, NEW x \in VmaObject, Gives(m, r, x)
  PROVE  OneChanged(m, r) /\ (\A n \in Mm : n # m => SameTables(n, n)) /\ TablesStep
<1>0. /\ vma \in [Mm -> [Region -> VmaObject \cup {NULL}]]
      /\ pte \in [Mm -> [Page -> Mapping \cup {NULL}]]
      /\ NULL \notin VmaObject /\ NULL \notin Mapping
  BY NullObjects DEF Types
<1>1. /\ vma'[m][r] = x /\ x # NULL
      /\ \A n \in Mm : n # m => vma'[n] = vma[n]
      /\ \A s \in Region : s # r => vma'[m][s] = vma[m][s]
  BY <1>0 DEF Gives
<1>2. \A n \in Mm : n # m => pte'[n] = pte[n]
  BY <1>0 DEF Gives
<1>3. \A p \in Page : \/ pte'[m][p] = pte[m][p]
                      \/ p \in PagesOf(r) /\ pte'[m][p] # NULL /\ pte'[m][p].pma = x.pma
  BY <1>0 DEF Gives
<1>4. OneChanged(m, r)
  BY <1>1, <1>3 DEF OneChanged, Gives
<1>5. \A n \in Mm : n # m => SameTables(n, n)
  BY <1>1, <1>2 DEF SameTables
<1> QED
  BY <1>4, <1>5 DEF TablesStep

\* A step that changes one region loses nothing but what its new area lacks.
LEMMA ChangedLoss ==
  ASSUME Types, Created, OldAreasKept, NEW m \in Mm, NEW r \in Region, OneChanged(m, r),
         \A n \in Mm : n # m => SameTables(n, n),
         \A a \in Addr : /\ RegionOf(a) = r /\ vma[m][r] # NULL /\ vma'[m][r].pma = pmas + 1
                         /\ store'[pmas + 1][a % RegionLen] # store[vma[m][r].pma][a % RegionLen]
                         => Excused(m, a)
  PROVE  OnlyExcused
<1> SUFFICES ASSUME NEW n \in Mm, NEW a \in Addr, Agrees(n, a), ~Agrees(n, a)'
             PROVE  Excused(n, a)
  BY DEF OnlyExcused
<1>1. n = m
  BY SameView
<1> QED
  BY <1>1, ChangedView

LEMMA AccessShows ==
  ASSUME Types, Apart, PagesApart, NEW t \in Thread, NEW b \in Addr, NEW w, Access(t, b, w)
  PROVE  TablesStep /\ OnlyExcused
<1> DEFINE m == mm[t]
           e == pte[m][PageOf(b)]
           o == b % RegionLen
<1>1. /\ UNCHANGED <<vma, pte>> /\ m \in Mm /\ e # NULL /\ w \in e.prot
      /\ IF w = "w" THEN \E x \in Val : store' = [store EXCEPT ![e.pma][o] = x] ELSE UNCHANGED store
  BY Running DEF Access, Takes, Allowed
<1>2. CASE w # "w"
  BY <1>1, <1>2, QuietStep DEF Apart
<1>3. CASE w = "w"
  <2>1. PICK x \in Val : store' = [store EXCEPT ![e.pma][o] = x]
    BY <1>1, <1>3
  <2>2. PageOf(b) \in Page /\ PageOf(b) \in PagesOf(RegionOf(b)) /\ RegionOf(b) \in Region /\ o \in Offset
    BY Place
  <2>3. PICK r \in Region : /\ PageOf(b) \in PagesOf(r) /\ vma[m][r] # NULL
                            /\ vma[m][r].pma = e.pma /\ ~vma[m][r].cow
    BY <1>1, <1>3, <2>2 DEF Apart, WritableOwn
  <2>4. r = RegionOf(b)
    BY <2>2, <2>3, OneRegion
  <2>5. store' = [store EXCEPT ![vma[m][r].pma] = [store[vma[m][r].pma] EXCEPT ![o] = x]]
    BY <2>1, <2>3
  <2>6. ASSUME NEW n \in Mm, NEW a \in Addr, Agrees(n, a) PROVE Agrees(n, a)'
    <3>1. CASE n = m /\ RegionOf(a) = r /\ a % RegionLen = o
      <4>1. a = b
        BY <2>4, <3>1, SamePlace
      <4>2. /\ vma'[n][RegionOf(b)] # NULL /\ pte'[n][PageOf(b)] # NULL
            /\ vma'[n][RegionOf(b)].pma = pte'[n][PageOf(b)].pma
        BY <1>1, <2>3, <2>4, <3>1
      <4>3. Holds(n, b)' = Sees(n, b)'
        BY <4>2 DEF Holds, Sees
      <4> QED
        BY <4>1, <4>3 DEF Agrees
    <3>2. CASE ~(n = m /\ RegionOf(a) = r /\ a % RegionLen = o)
      BY <1>1, <2>2, <2>3, <2>5, <2>6, <3>2, WrittenView
    <3> QED
      BY <3>1, <3>2
  <2>7. TablesStep
    BY <1>1 DEF TablesStep, SameTables
  <2> QED
    BY <2>6, <2>7 DEF OnlyExcused
<1> QED
  BY <1>2, <1>3

LEMMA FirstFaultShows ==
  ASSUME Types, Apart, NEW t \in Thread, NEW b \in Addr, NEW w, FirstFault(t, b, w)
  PROVE  TablesStep /\ OnlyExcused
<1> DEFINE m == mm[t]
           r == RegionOf(b)
           p == PageOf(b)
           v == vma[m][r]
           prot == IF v.cow THEN {"r"} ELSE v.prot
           y == [v EXCEPT !.faulted_in = TRUE]
           e == [pma |-> v.pma, prot |-> prot]
<1>1. /\ Runs(t) /\ v # NULL /\ UNCHANGED store
      /\ \/ pte' = [pte EXCEPT ![m][p] = e] /\ vma' = [vma EXCEPT ![m][r] = y]
         \/ vma' = [vma EXCEPT ![m][r] = v] /\ UNCHANGED pte
  BY DEF FirstFault, Served, Faults, Takes, MapPage
<1>2. m \in Mm /\ r \in Region /\ v \in VmaObject /\ v.prot \in Prot /\ v.pma \in Pma
  BY <1>1, Found
<1>3. p \in Page /\ p \in PagesOf(r)
  BY Place
<1> HIDE DEF m, r, p, v
<1>4. y \in VmaObject /\ y.pma = v.pma /\ e \in Mapping /\ e.pma = v.pma
  BY <1>2, Objects DEF VmaObject
<1> HIDE DEF y, e
<1>5. PICK x \in VmaObject :
        /\ x.pma = v.pma /\ vma' = [vma EXCEPT ![m][r] = x]
        /\ UNCHANGED pte \/ pte' = [pte EXCEPT ![m][p] = e]
  BY <1>1, <1>2, <1>4
<1>6. Gives(m, r, x)
  BY <1>1, <1>3, <1>4, <1>5 DEF Gives, v
<1>7. OneChanged(m, r) /\ (\A n \in Mm : n # m => SameTables(n, n)) /\ TablesStep
  BY <1>2, <1>5, <1>6, ChangedStep
<1>8. vma'[m][r] = x
  BY <1>2, <1>5 DEF Types
<1>9. vma'[m][r].pma # pmas + 1
  BY <1>1, <1>2, <1>3, <1>5, <1>8, OldAreas DEF Apart, v
<1>10. OldAreasKept
  BY <1>1 DEF OldAreasKept
<1> QED
  BY <1>2, <1>7, <1>9, <1>10, ChangedLoss DEF Apart

LEMMA SecondFaultShows ==
  ASSUME Types, Apart, NEW t \in Thread, NEW b \in Addr, NEW w, SecondFault(t, b, w)
  PROVE  TablesStep /\ OnlyExcused
<1> DEFINE m == mm[t]
           r == RegionOf(b)
           p == PageOf(b)
           v == vma[m][r]
           c == Copied(v)
           y == [c EXCEPT !.faulted_in = TRUE]
           e == [pma |-> c.pma, prot |-> v.prot]
<1>1. /\ Runs(t) /\ v # NULL /\ CopyPmaForWrite(v)
      /\ store' = IF pmas + 1 \in backed'
                  THEN [store EXCEPT ![pmas + 1] = store[v.pma]] ELSE store
      /\ \/ pte' = [pte EXCEPT ![m][p] = e] /\ vma' = [vma EXCEPT ![m][r] = y]
         \/ vma' = [vma EXCEPT ![m][r] = c] /\ UNCHANGED pte
  BY DEF SecondFault, Served, Faults, Takes, MapPage
<1>2. /\ m \in Mm /\ r \in Region /\ v \in VmaObject /\ v.prot \in Prot /\ v.pma \in Pma
      /\ c \in VmaObject /\ c.pma = pmas + 1 /\ pmas + 1 \in Pma
  BY <1>1, Found, CopyOf
<1>3. p \in Page /\ p \in PagesOf(r)
  BY Place
<1> HIDE DEF m, r, p, v, c
<1>4. y \in VmaObject /\ y.pma = pmas + 1 /\ e \in Mapping /\ e.pma = pmas + 1
  BY <1>2, Objects DEF VmaObject, Mapping
<1> HIDE DEF y, e
<1>5. PICK x \in VmaObject :
        /\ x.pma = pmas + 1 /\ vma' = [vma EXCEPT ![m][r] = x]
        /\ UNCHANGED pte \/ pte' = [pte EXCEPT ![m][p] = e]
  BY <1>1, <1>2, <1>4
<1>6. Gives(m, r, x)
  BY <1>3, <1>4, <1>5 DEF Gives
<1>7. OneChanged(m, r) /\ (\A n \in Mm : n # m => SameTables(n, n)) /\ TablesStep
  BY <1>2, <1>5, <1>6, ChangedStep
<1>8. vma'[m][r] = x
  BY <1>2, <1>5 DEF Types
<1>9. OldAreasKept
  BY <1>1, <1>2 DEF OldAreasKept, Types
<1>10. CASE pmas + 1 \in backed'
  <2>1. store'[pmas + 1] = store[v.pma]
    BY <1>1, <1>2, <1>10 DEF Types
  <2> QED
    BY <1>2, <1>7, <1>9, <2>1, ChangedLoss DEF Apart, v
<1>11. CASE pmas + 1 \notin backed'
  <2>1. \A a \in Addr : RegionOf(a) = r => Excused(m, a)
    BY <1>5, <1>8, <1>11 DEF Excused
  <2> QED
    BY <1>2, <1>7, <1>9, <2>1, ChangedLoss DEF Apart
<1> QED
  BY <1>10, <1>11

LEMMA WriteToUserShows ==
  ASSUME Types, Apart, PagesApart, NEW t \in Thread, NEW b \in Addr, NEW x \in Val, WriteToUser(t, b, x)
  PROVE  TablesStep /\ OnlyExcused
<1> DEFINE m == mm[t]
           r == RegionOf(b)
           v == vma[m][r]
           c == Copied(v)
           o == b % RegionLen
<1>1. Runs(t) /\ v # NULL /\ UNCHANGED pte
  BY DEF WriteToUser, Call
<1>2. m \in Mm /\ r \in Region /\ v \in VmaObject /\ v.pma \in Pma /\ o \in Offset
  BY <1>1, Found, Place
<1>3. \A a \in Addr : RegionOf(a) = r /\ a % RegionLen = o => Excused(m, a)
  BY SamePlace DEF Excused
<1>4. CASE ~v.cow
  <2>1. UNCHANGED vma /\ store' = [store EXCEPT ![v.pma] = [store[v.pma] EXCEPT ![o] = x]]
    BY <1>4 DEF WriteToUser
  <2> HIDE DEF m, r, o
  <2>2. ASSUME NEW n \in Mm, NEW a \in Addr, ~(n = m /\ RegionOf(a) = r /\ a % RegionLen = o)
        PROVE  Agrees(n, a)' <=> Agrees(n, a)
    BY <1>1, <1>2, <1>4, <2>1, <2>2, WrittenView
  <2>3. OnlyExcused
    BY <1>3, <2>2 DEF OnlyExcused
  <2>4. TablesStep
    BY <1>1, <2>1 DEF TablesStep, SameTables
  <2> QED
    BY <2>3, <2>4
<1>5. CASE v.cow
  <2>1. /\ CopyPmaForWrite(v) /\ vma' = [vma EXCEPT ![m][r] = c]
        /\ IF pmas + 1 \in backed'
           THEN store' = [store EXCEPT ![pmas + 1] = [store[v.pma] EXCEPT ![o] = x]]
           ELSE UNCHANGED store
    BY <1>5 DEF WriteToUser
  <2>2. c \in VmaObject /\ c.pma = pmas + 1 /\ pmas + 1 \in Pma
    BY <1>1, <2>1, Found, CopyOf
  <2>3. store[v.pma] \in [Offset -> Val]
    BY <1>1, <1>2, HeldTypes
  <2> DEFINE y == [store[v.pma] EXCEPT ![o] = x]
  <2>4. \A j \in Offset : j # o => y[j] = store[v.pma][j]
    BY <2>3
  <2>5. IF pmas + 1 \in backed' THEN store' = [store EXCEPT ![pmas + 1] = y] ELSE UNCHANGED store
    BY <2>1
  <2> HIDE DEF m, r, o, v, c, y
  <2>6. OneChanged(m, r) /\ (\A n \in Mm : n # m => SameTables(n, n)) /\ TablesStep
    <3>1. Gives(m, r, c)
      BY <1>1, <2>1, <2>2 DEF Gives
    <3> QED
      BY <1>2, <2>2, <3>1, ChangedStep
  <2>7. OldAreasKept
    BY <2>2, <2>5 DEF OldAreasKept, Types
  <2>8. vma'[m][r] = c
    BY <1>2, <2>1 DEF Types
  <2>9. ASSUME NEW a \in Addr, RegionOf(a) = r,
               store'[pmas + 1][a % RegionLen] # store[v.pma][a % RegionLen]
        PROVE  Excused(m, a)
    <3>1. CASE pmas + 1 \notin backed'
      BY <2>2, <2>8, <2>9, <3>1 DEF Excused
    <3>2. CASE pmas + 1 \in backed'
      <4>1. store'[pmas + 1] = y
        BY <2>2, <2>5, <3>2 DEF Types
      <4>2. a % RegionLen = o
        BY <2>4, <2>9, <4>1, Place
      <4> QED
        BY <1>3, <2>9, <4>2
    <3> QED
      BY <3>1, <3>2
  <2> QED
    BY <1>2, <2>6, <2>7, <2>9, ChangedLoss DEF Apart, v
<1> QED
  BY <1>4, <1>5

LEMMA NewAnonRegionShows ==
  ASSUME Types, Apart, NEW t \in Thread, NEW r \in Region, NEW prot \in Prot, pmas + 1 \in Pma,
         NewAnonRegion(t, r, prot)
  PROVE  TablesStep /\ OnlyExcused
<1> DEFINE m == mm[t]
           x == NewVma(prot, pmas + 1)
<1>1. /\ m \in Mm /\ vma[m][r] = NULL /\ UNCHANGED <<store, pte>>
      /\ vma' = [vma EXCEPT ![m][r] = x]
  BY Running DEF NewAnonRegion, Call
<1>2. x \in VmaObject /\ x.pma = pmas + 1
  BY Objects DEF NewVma
<1> HIDE DEF x, m
<1>3. OneChanged(m, r) /\ (\A n \in Mm : n # m => SameTables(n, n)) /\ TablesStep
  <2>1. Gives(m, r, x)
    BY <1>1, <1>2 DEF Gives
  <2> QED
    BY <1>1, <1>2, <2>1, ChangedStep
<1>4. OldAreasKept
  BY <1>1 DEF OldAreasKept
<1> QED
  BY <1>1, <1>3, <1>4, ChangedLoss DEF Apart

\* An address space that is cleared, and may be given a section.
LEMMA ClearedShows ==
  ASSUME Types, Created, OldAreasKept, NEW m \in Mm, NEW regions,
         vma' = [vma EXCEPT ![m] = regions], pte' = [pte EXCEPT ![m] = NoPages],
         \A r \in Region : regions[r] # NULL => regions[r].pma = pmas + 1
  PROVE  TablesStep /\ OnlyExcused
<1>1. /\ \A n \in Mm : n # m => vma'[n] = vma[n] /\ pte'[n] = pte[n]
      /\ vma'[m] = regions /\ \A p \in Page : pte'[m][p] = NULL
  BY DEF Types, NoPages
<1>2. ClearedTables(m)
  BY <1>1 DEF ClearedTables
<1>3. \A n \in Mm : n # m => SameTables(n, n)
  BY <1>1 DEF SameTables
<1> QED
  BY <1>2, <1>3, KeptStep

LEMMA ExecProcShows ==
  ASSUME Types, Types', Apart, NEW t \in Thread, ExecProc(t)
  PROVE  TablesStep /\ OnlyExcused
<1> DEFINE m == mm[t]
           x == NewVma({"r", "w"}, pmas + 1)
           one == [NoVmas EXCEPT ![0] = x]
<1>1. m \in Mm /\ pte' = [pte EXCEPT ![m] = NoPages]
  BY Running DEF ExecProc, Call
<1>2. CASE HasRoom({pmas + 1})
  <2>1. /\ vma' = [vma EXCEPT ![m] = one] /\ pmas' = pmas + 1
        /\ store' = [store EXCEPT ![pmas + 1] = Section]
    BY <1>2 DEF ExecProc
  <2>2. x.pma = pmas + 1
    BY DEF NewVma
  <2>3. OldAreasKept
    BY <2>1 DEF OldAreasKept, Types
  <2> HIDE DEF x
  <2>4. \A r \in Region : one[r] # NULL => one[r].pma = pmas + 1
    BY <2>2 DEF NoVmas
  <2> HIDE DEF one, m
  <2> QED
    BY <1>1, <2>1, <2>3, <2>4, ClearedShows DEF Apart
<1>3. CASE ~HasRoom({pmas + 1})
  <2>1. vma' = [vma EXCEPT ![m] = NoVmas] /\ UNCHANGED store
    BY <1>3 DEF ExecProc
  <2>2. OldAreasKept /\ \A r \in Region : NoVmas[r] = NULL
    BY <2>1 DEF OldAreasKept, NoVmas
  <2> HIDE DEF m
  <2> QED
    BY <1>1, <2>1, <2>2, ClearedShows DEF Apart
<1> QED
  BY <1>2, <1>3

LEMMA GoneShows ==
  ASSUME Types, Apart, NEW t \in Thread, Runs(t), Gone(t), UNCHANGED store
  PROVE  TablesStep /\ OnlyExcused
<1>1. mm[t] \in Mm /\ OldAreasKept /\ \A r \in Region : NoVmas[r] = NULL
  BY Running DEF OldAreasKept, NoVmas
<1>2. CASE UNCHANGED <<vma, pte>>
  BY <1>2, QuietStep DEF Apart
<1>3. CASE vma' = [vma EXCEPT ![mm[t]] = NoVmas] /\ pte' = [pte EXCEPT ![mm[t]] = NoPages]
  BY <1>1, <1>3, ClearedShows DEF Apart
<1> QED
  BY <1>2, <1>3 DEF Gone

\* Read-only pages show what they showed.
LEMMA ReadOnlyShows ==
  ASSUME Types, NEW m \in Mm, NEW P, NEW p \in Page
  PROVE  /\ ReadOnly(m, P)[p] = NULL <=> pte[m][p] = NULL
         /\ pte[m][p] # NULL => ReadOnly(m, P)[p].pma = pte[m][p].pma
<1> DEFINE e == pte[m][p]
<1>1. \/ ReadOnly(m, P)[p] = e
      \/ e # NULL /\ ReadOnly(m, P)[p] = [e EXCEPT !.prot = {"r"}]
  BY DEF ReadOnly
<1>2. e # NULL => e \in Mapping
  BY Areas
<1> HIDE DEF e
<1>3. e # NULL => [e EXCEPT !.prot = {"r"}] # NULL /\ [e EXCEPT !.prot = {"r"}].pma = e.pma
  <2>1. e # NULL => [e EXCEPT !.prot = {"r"}] \in Mapping
    BY <1>2, Objects
  <2> QED
    BY <1>2, <2>1, NullObjects DEF Mapping
<1> QED
  BY <1>1, <1>3 DEF e

LEMMA CloneFailsShows ==
  ASSUME Types, Apart, NEW t \in Thread, CloneFails(t)
  PROVE  TablesStep /\ OnlyExcused
<1> DEFINE m == mm[t]
<1>1. m \in Mm /\ UNCHANGED store
  BY Running DEF CloneFails, Call
<1>2. PICK R, P : vma' = [vma EXCEPT ![m] = Cowified(m, R)] /\ pte' = [pte EXCEPT ![m] = ReadOnly(m, P)]
  BY DEF CloneFails
<1> HIDE DEF m
<1>3. /\ vma'[m] = Cowified(m, R) /\ pte'[m] = ReadOnly(m, P)
      /\ \A n \in Mm : n # m => vma'[n] = vma[n] /\ pte'[n] = pte[n]
  BY <1>1, <1>2 DEF Types
<1>4. SameTables(m, m)
  BY <1>1, <1>3, Marked, ReadOnlyShows DEF SameTables
<1>5. \A n \in Mm : SameTables(n, n)
  BY <1>3, <1>4 DEF SameTables
<1>6. OldAreasKept
  BY <1>1 DEF OldAreasKept
<1> QED
  BY <1>5, <1>6, KeptStep DEF Apart

LEMMA CloneProcessShows ==
  ASSUME Types, Apart, NEW t \in Thread, NEW c \in Thread, NEW n \in Mm, CloneProcess(t, c, n)
  PROVE  TablesStep /\ OnlyExcused
<1> DEFINE m == mm[t]
<1>1. m \in Mm /\ m # n /\ UNCHANGED store
  BY Running DEF CloneProcess, Started, Call
<1>2. PICK R, P : /\ vma' = [vma EXCEPT ![m] = Cowified(m, R), ![n] = Cowified(m, R)]
                  /\ pte' = [pte EXCEPT ![m] = ReadOnly(m, P), ![n] = ReadOnly(m, P)]
  BY DEF CloneProcess
<1>3. PICK k \in Mm : k = m
  BY <1>1
<1> HIDE DEF m
<1>4. /\ vma'[k] = Cowified(k, R) /\ pte'[k] = ReadOnly(k, P)
      /\ vma'[n] = Cowified(k, R) /\ pte'[n] = ReadOnly(k, P)
      /\ \A l \in Mm : l # k /\ l # n => vma'[l] = vma[l] /\ pte'[l] = pte[l]
  BY <1>1, <1>2, <1>3 DEF Types
<1>5. SameTables(k, k) /\ SameTables(n, k)
  BY <1>4, Marked, ReadOnlyShows DEF SameTables
<1>6. \A l \in Mm : l # n => SameTables(l, l)
  BY <1>4, <1>5 DEF SameTables
<1>7. OldAreasKept
  BY <1>1 DEF OldAreasKept
<1>8. ASSUME NEW l \in Mm, NEW a \in Addr, Agrees(l, a), ~Agrees(l, a)' PROVE Excused(l, a)
  <2>1. l = n
    BY <1>6, <1>7, <1>8, SameView DEF Apart
  <2>2. ~Agrees(k, a)
    BY <1>5, <1>7, <1>8, <2>1, SameView DEF Apart
  <2> QED
    BY <1>3, <2>1, <2>2 DEF Excused, m
<1>9. TablesStep
  BY <1>5, <1>6 DEF TablesStep
<1> QED
  BY <1>8, <1>9 DEF OnlyExcused

LEMMA NextShows ==
  ASSUME Isolating, Isolated, Isolated', PagesApart, Next
  PROVE  TablesStep /\ OnlyExcused
<1> DEFINE Goal == TablesStep /\ OnlyExcused
<1>1. Types /\ Types' /\ Apart /\ Created /\ Blank /\ Unused
  BY DEF Isolated, Apart
<1>2. ASSUME NEW t \in Thread, GuestAccess(t) PROVE Goal
  <2>1. ASSUME NEW a \in Addr, NEW w, BadFault(t, a, w) PROVE Goal
    BY <1>1, <2>1, GoneShows DEF BadFault, Faults, Takes
  <2>2. ASSUME NEW a \in Addr, NEW w, UninitFault(t, a, w) PROVE Goal
    BY <1>1, <2>2, QuietStep DEF UninitFault
  <2> QED
    BY <1>1, <1>2, <2>1, <2>2, AccessShows, FirstFaultShows, SecondFaultShows DEF GuestAccess
<1>3. ASSUME NEW t \in Thread, SystemCall(t) PROVE Goal
  <2>1. Exit(t) \/ Drop(t) => Goal
    BY <1>1, GoneShows DEF Exit, Drop, Call
  <2>2. \A a \in Addr : ReadFromUser(t, a) => Goal
    BY <1>1, QuietStep DEF ReadFromUser
  <2>3. \A c \in Thread : CloneThread(t, c) => Goal
    BY <1>1, QuietStep DEF CloneThread, Started
  <2>4. \A r \in Region, prot \in Prot : NewAnonRegion(t, r, prot) => Goal
    <3> SUFFICES ASSUME NEW r \in Region, NEW prot \in Prot, NewAnonRegion(t, r, prot) PROVE Goal
      OBVIOUS
    <3>1. pmas + 1 \in Pma
      BY <1>1 DEF NewAnonRegion, Types
    <3> QED
      BY <1>1, <3>1, NewAnonRegionShows
  <2> HIDE DEF Goal
  <2>5. CloneFails(t) \/ ExecProc(t) => Goal
    BY <1>1, CloneFailsShows, ExecProcShows DEF Goal
  <2>6. \A c \in Thread, n \in Mm : CloneProcess(t, c, n) => Goal
    BY <1>1, CloneProcessShows DEF Goal
  <2>7. \A a \in Addr, x \in Val : WriteToUser(t, a, x) => Goal
    BY <1>1, WriteToUserShows DEF Goal
  <2>8. \A a, prot : ~ChangeRegionProt(t, a, prot)
    BY <1>1, NoChangeOfProtection
  <2> QED
    BY <1>3, <2>1, <2>2, <2>3, <2>4, <2>5, <2>6, <2>7, <2>8 DEF SystemCall
<1> QED
  BY <1>2, <1>3 DEF Next

LEMMA PagesApartInit ==
  ASSUME Isolating, Init
  PROVE  PagesApart
<1>1. PICK m \in Mm :
        pte = [n \in Mm |-> [p \in Page |->
                 IF n = m /\ Launched /\ p \in PagesOf(0)
                 THEN [pma |-> 1, prot |-> {"r", "w"}] ELSE NULL]]
  BY DEF Init
<1>2. \A n \in Mm, p \in Page : pte[n][p] = NULL
  BY <1>1 DEF Isolating
<1> QED
  BY <1>2, Place DEF PagesApart, PagesOf

\* A guest and nivisor lose sight of each other only where a call writes a copied
\* region, when a copy finds no memory, or by inheriting it: never by a fault, by the
\* copy of a shared region, by a write elsewhere or by what another process does.
THEOREM OnlyCopiesPartViews ==
  ASSUME Isolating
  PROVE  Spec => OnlyCopiesDiverge
<1> DEFINE Step == \A m \in Mm, a \in Addr : Agrees(m, a) /\ ~Agrees(m, a)' =>
                     \/ \E t \in Thread, x \in Val : mm[t] = m /\ WriteToUser(t, a, x)
                     \/ vma'[m][RegionOf(a)].pma \notin backed'
                     \/ \E t, c \in Thread : CloneProcess(t, c, m) /\ ~Agrees(mm[t], a)
<1>1. Init => PagesApart
  BY PagesApartInit
<1>2. Isolated /\ Isolated' /\ PagesApart /\ [Next]_vars => PagesApart'
  <2>1. ASSUME Isolated, Isolated', PagesApart, Next PROVE PagesApart'
    BY <2>1, NextShows, PagesStayApart DEF Isolated, Apart
  <2>2. ASSUME PagesApart, UNCHANGED vars PROVE PagesApart'
    BY <2>2 DEF PagesApart, vars
  <2> QED
    BY <2>1, <2>2
<1>3. Isolated /\ Isolated' /\ PagesApart /\ [Next]_vars => [Step]_vars
  <2>1. ASSUME Isolated, Isolated', PagesApart, Next PROVE OnlyExcused
    BY <2>1, NextShows
  <2>2. OnlyExcused => Step
    BY DEF OnlyExcused, Excused
  <2> QED
    BY <2>1, <2>2
<1> QED
  BY <1>1, <1>2, <1>3, IsolatedHolds, PTL DEF Spec, OnlyCopiesDiverge
=============================================================================
