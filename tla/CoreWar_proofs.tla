----------------------- MODULE CoreWar_proofs ------------------------------
(***************************************************************************)
(* For every number of players and process slots: the turns of run_game    *)
(* keep their types, the list of each player holds exactly its living      *)
(* processes, with the next one inside, and the game ends rightly.  For    *)
(* every core, every width and all programs: processes stay in the areas   *)
(* of their players and write there, as far as cpu.c means them to.        *)
(***************************************************************************)
EXTENDS CoreWar, SequenceTheorems, FiniteSetTheorems, WellFoundedInduction, TLAPS

USE TurnsAssumption

\* A list has at most one entry more than current_procs can count, and a cycle counts
\* no more players than have had their turn.
Bounded == /\ \A p \in Player : Len(proc_ids[p]) <= ProcMax + 1
           /\ alive_players <= turn

IInv == TurnsTypeOK /\ ProcIdsSound /\ Bounded

\* What is left after the removal of the k-th entry: a list one shorter, of the others.
LEMMA RemovedProperties ==
  ASSUME NEW s \in Seq(Slot), NEW k \in 1 .. Len(s)
  PROVE  /\ Removed(s, k) \in Seq(Slot)
         /\ Len(Removed(s, k)) = Len(s) - 1
         /\ \A j \in 1 .. Len(s) - 1 :
              Removed(s, k)[j] = IF j < k THEN s[j] ELSE s[j + 1]
<1>1. Len(s) \in Nat /\ s \in [1 .. Len(s) -> Slot] /\ Len(s) - 1 \in Nat
  BY LenProperties
<1>2. Removed(s, k) \in [1 .. Len(s) - 1 -> Slot]
  <2>1. \A j \in 1 .. Len(s) - 1 : j \in 1 .. Len(s) /\ j + 1 \in 1 .. Len(s)
    BY <1>1
  <2> QED
    BY <1>1, <2>1 DEF Removed
<1>3. Removed(s, k) \in Seq(Slot)
  BY <1>1, <1>2, SeqDef, Zenon
<1>4. Len(Removed(s, k)) = Len(s) - 1
  <2>1. DOMAIN Removed(s, k) = 1 .. Len(s) - 1
    BY DEF Removed
  <2>2. Len(Removed(s, k)) \in Nat /\ DOMAIN Removed(s, k) = 1 .. Len(Removed(s, k))
    BY <1>3, LenProperties
  <2>3. \A m, n \in Nat : 1 .. m = 1 .. n => m = n
    <3>1. \A m, n \in Nat : m < n => n \in 1 .. n /\ n \notin 1 .. m
      OBVIOUS
    <3> QED
      BY <3>1
  <2> QED
    BY <1>1, <2>1, <2>2, <2>3
<1> QED
  BY <1>3, <1>4 DEF Removed

\* The entries left after a removal are those of the list but the k-th, each once if
\* they were in the list.
LEMMA RemovedEntries ==
  ASSUME NEW s \in Seq(Slot), NEW k \in 1 .. Len(s),
         \A j, l \in 1 .. Len(s) : s[j] = s[l] => j = l
  PROVE  /\ \A i \in Slot : (\E j \in 1 .. Len(s) - 1 : Removed(s, k)[j] = i)
                              <=> i # s[k] /\ \E j \in 1 .. Len(s) : s[j] = i
         /\ \A j, l \in 1 .. Len(s) - 1 : Removed(s, k)[j] = Removed(s, k)[l] => j = l
<1> DEFINE r == Removed(s, k)
<1>1. /\ Len(s) \in Nat
      /\ \A j \in 1 .. Len(s) - 1 : r[j] = IF j < k THEN s[j] ELSE s[j + 1]
  BY LenProperties, RemovedProperties
<1> HIDE DEF r
<1>2. \A j, l \in 1 .. Len(s) - 1 : r[j] = r[l] => j = l
  BY <1>1
<1>3. ASSUME NEW i \in Slot, NEW j \in 1 .. Len(s) - 1, r[j] = i
      PROVE  i # s[k] /\ \E l \in 1 .. Len(s) : s[l] = i
  <2>1. CASE j < k
    BY <1>1, <1>3, <2>1
  <2>2. CASE ~(j < k)
    <3>1. j + 1 \in 1 .. Len(s) /\ j + 1 # k /\ s[j + 1] = i
      BY <1>1, <1>3, <2>2
    <3> QED
      BY <3>1
  <2> QED
    BY <2>1, <2>2
<1>4. ASSUME NEW i \in Slot, NEW j \in 1 .. Len(s), s[j] = i, i # s[k]
      PROVE  \E l \in 1 .. Len(s) - 1 : r[l] = i
  <2>1. j # k
    BY <1>4
  <2>2. CASE j < k
    <3>1. j \in 1 .. Len(s) - 1 /\ r[j] = i
      BY <1>1, <1>4, <2>2
    <3> QED
      BY <3>1
  <2>3. CASE j > k
    <3>1. j - 1 \in 1 .. Len(s) - 1 /\ r[j - 1] = s[(j - 1) + 1] /\ (j - 1) + 1 = j
      BY <1>1, <2>3
    <3> QED
      BY <1>4, <3>1
  <2> QED
    BY <1>1, <2>1, <2>2, <2>3
<1> QED
  BY <1>2, <1>3, <1>4 DEF r

\* Advance leaves the other offsets alone and yields one that is below the count.
LEMMA AdvanceProperties ==
  ASSUME NEW p \in Player, NEW count \in Nat, TurnsTypeOK, Advance(p, count)
  PROVE  /\ next_proc_offset' \in [Player -> Nat]
         /\ count > 0 => next_proc_offset'[p] < count
         /\ \A q \in Player : q # p => next_proc_offset'[q] = next_proc_offset[q]
<1>1. next_proc_offset \in [Player -> Nat] /\ next_proc_offset[p] \in Nat
  BY DEF TurnsTypeOK
<1>2. count > 0 => (next_proc_offset[p] + 1) % count \in 0 .. count - 1
  BY <1>1
<1> DEFINE new == IF count # 0 THEN (next_proc_offset[p] + 1) % count
                  ELSE next_proc_offset[p]
<1>3. new \in Nat /\ (count > 0 => new < count)
  BY <1>1, <1>2
<1>4. next_proc_offset' = [next_proc_offset EXCEPT ![p] = new]
  BY DEF Advance
<1> HIDE DEF new
<1> QED
  BY <1>1, <1>3, <1>4

\* The current process of a player whose turn it is: an entry of its list, which
\* current_procs counts, and living.
LEMMA CurrentProperties ==
  ASSUME IInv, NEW p \in Player, Plays(p)
  PROVE  /\ proc_ids[p] \in Seq(Slot) /\ Len(proc_ids[p]) \in Nat
         /\ current_procs[p] = Len(proc_ids[p])
         /\ current_procs[p] \in 1 .. ProcMax
         /\ next_proc_offset[p] + 1 \in 1 .. Len(proc_ids[p])
         /\ Current(p) \in Slot /\ owner[Current(p)] = p
         /\ turn = p /\ turn + 1 \in 0 .. NumPlayers
         /\ alive_players + 1 \in 0 .. NumPlayers /\ alive_players + 1 <= turn + 1
<1>1. /\ proc_ids[p] \in Seq(Slot) /\ Len(proc_ids[p]) \in Nat
      /\ Len(proc_ids[p]) <= ProcMax + 1
      /\ next_proc_offset[p] \in Nat
  BY DEF IInv, TurnsTypeOK, Bounded
<1>2. current_procs[p] = Signed(Len(proc_ids[p])) /\ current_procs[p] > 0
      /\ next_proc_offset[p] < current_procs[p]
  BY DEF IInv, ProcIdsSound, Plays, Lives
<1>3. current_procs[p] = Len(proc_ids[p]) /\ current_procs[p] \in 1 .. ProcMax
  <2>1. \A n \in Nat : n <= ProcMax + 1 /\ Signed(n) > 0 =>
                         Signed(n) = n /\ n \in 1 .. ProcMax
    BY DEF Signed
  <2> QED
    BY <1>1, <1>2, <2>1
<1>4. next_proc_offset[p] + 1 \in 1 .. Len(proc_ids[p])
  BY <1>1, <1>2, <1>3
<1>5. Current(p) \in Slot
  BY <1>1, <1>4 DEF Current
<1>6. owner[Current(p)] = p
  BY <1>4, <1>5 DEF IInv, ProcIdsSound, Current
<1>7. /\ turn = p /\ turn + 1 \in 0 .. NumPlayers
      /\ alive_players + 1 \in 0 .. NumPlayers /\ alive_players + 1 <= turn + 1
  BY DEF IInv, TurnsTypeOK, Bounded, Plays, Player
<1> QED
  BY <1>1, <1>3, <1>4, <1>5, <1>6, <1>7

\* A free slot that create_process takes is the first free one.
LEMMA FreshIsFree ==
  ASSUME Free # {}
  PROVE  Fresh \in Slot /\ owner[Fresh] = NULL
<1>1. Free \subseteq Nat
  BY DEF Free, Slot
<1>2. PICK i \in Free : \A j \in Free : ~(<<j, i>> \in OpToRel(<, Nat))
  BY <1>1, NatLessThanWellFounded, WFMin, Zenon
<1>3. \A j \in Free : i <= j
  <2>1. \A j \in Free : ~(j < i)
    BY <1>1, <1>2 DEF OpToRel
  <2> QED
    BY <1>1, <2>1
<1>4. Fresh \in Free
  BY <1>2, <1>3, Zenon DEF Fresh
<1> QED
  BY <1>4 DEF Free

LEMMA InitIInv == InitTurns => IInv
<1> SUFFICES ASSUME InitTurns
             PROVE  IInv
  OBVIOUS
<1> USE DEF InitTurns
<1>1. Player \subseteq Slot /\ Player \subseteq Nat /\ NULL \notin Player
  BY DEF Player, Slot
<1>2. \A p \in Player : /\ <<p>> \in Seq(Slot) /\ Len(<<p>>) = 1
                        /\ \A k \in 1 .. 1 : <<p>>[k] = p
  BY <1>1
<1>3. TurnsTypeOK
  BY <1>1, <1>2 DEF TurnsTypeOK, Player
<1>4. ProcIdsSound
  <2> SUFFICES ASSUME NEW p \in Player
               PROVE  /\ current_procs[p] = Signed(Len(proc_ids[p]))
                      /\ next_proc_offset[p] < current_procs[p]
                      /\ \A i \in Slot : owner[i] = p /\ state[i] = "ACTIVE"
                           <=> \E k \in 1 .. Len(proc_ids[p]) : proc_ids[p][k] = i
                      /\ \A j, k \in 1 .. Len(proc_ids[p]) :
                           proc_ids[p][j] = proc_ids[p][k] => j = k
    BY DEF ProcIdsSound
  <2>1. proc_ids[p] = <<p>> /\ Len(proc_ids[p]) = 1 /\ \A k \in 1 .. 1 : proc_ids[p][k] = p
    BY <1>2
  <2>2. \A j, k \in 1 .. 1 : j = k
    OBVIOUS
  <2>3. 1 \in 1 .. 1 /\ Signed(1) = 1
    BY DEF Signed
  <2>4. \A i \in Slot : owner[i] = p /\ state[i] = "ACTIVE" <=> i = p
    BY <1>1
  <2> QED
    BY <2>1, <2>2, <2>3, <2>4
<1>5. Bounded
  BY <1>2 DEF Bounded
<1> QED
  BY <1>3, <1>4, <1>5 DEF IInv

LEMMA GoesOnIInv ==
  ASSUME IInv, NEW p \in Player, GoesOn(p)
  PROVE  IInv'
<1>1. /\ current_procs[p] \in 1 .. ProcMax
      /\ turn' \in 0 .. NumPlayers /\ alive_players' \in 0 .. NumPlayers
      /\ alive_players' <= turn'
  BY CurrentProperties DEF GoesOn
<1>2. TurnsTypeOK /\ current_procs[p] \in Nat /\ current_procs[p] > 0
  BY <1>1 DEF IInv
<1>3. /\ next_proc_offset' \in [Player -> Nat]
      /\ next_proc_offset'[p] < current_procs[p]
      /\ \A q \in Player : q # p => next_proc_offset'[q] = next_proc_offset[q]
  BY <1>2, AdvanceProperties DEF GoesOn
<1>4. TurnsTypeOK'
  BY <1>1, <1>2, <1>3 DEF GoesOn, TurnsTypeOK
<1>5. ProcIdsSound'
  BY <1>3 DEF GoesOn, IInv, ProcIdsSound, Lives
<1>6. Bounded'
  BY <1>1 DEF GoesOn, IInv, Bounded
<1> QED
  BY <1>4, <1>5, <1>6 DEF IInv

LEMMA DiesIInv ==
  ASSUME IInv, NEW p \in Player, Dies(p)
  PROVE  IInv'
<1> DEFINE s == proc_ids[p]
           k == next_proc_offset[p] + 1
           n == Len(s) - 1
<1>1. /\ s \in Seq(Slot) /\ Len(s) \in Nat /\ k \in 1 .. Len(s)
      /\ current_procs[p] = Len(s) /\ Len(s) \in 1 .. ProcMax
      /\ s[k] = Current(p) /\ s[k] \in Slot /\ owner[s[k]] = p
      /\ turn + 1 \in 0 .. NumPlayers
      /\ alive_players + 1 \in 0 .. NumPlayers /\ alive_players + 1 <= turn + 1
      /\ turn' = turn + 1
  BY CurrentProperties DEF Dies, Current
<1>2. TurnsTypeOK /\ ProcIdsSound /\ Bounded
  BY DEF IInv
<1>3. /\ alive_players' \in 0 .. NumPlayers /\ alive_players' <= turn'
      /\ turn' \in 0 .. NumPlayers
  BY <1>1, <1>2 DEF Dies, TurnsTypeOK
<1>4. \A j, l \in 1 .. Len(s) : s[j] = s[l] => j = l
  BY <1>2 DEF ProcIdsSound
<1>5. /\ Removed(s, k) \in Seq(Slot) /\ Len(Removed(s, k)) = n
      /\ \A i \in Slot : (\E j \in 1 .. n : Removed(s, k)[j] = i)
                           <=> i # s[k] /\ \E j \in 1 .. Len(s) : s[j] = i
      /\ \A j, l \in 1 .. n : Removed(s, k)[j] = Removed(s, k)[l] => j = l
  <2>1. Removed(s, k) \in Seq(Slot) /\ Len(Removed(s, k)) = n
    BY <1>1, RemovedProperties
  <2>2. /\ \A i \in Slot : (\E j \in 1 .. n : Removed(s, k)[j] = i)
                            <=> i # s[k] /\ \E j \in 1 .. Len(s) : s[j] = i
        /\ \A j, l \in 1 .. n : Removed(s, k)[j] = Removed(s, k)[l] => j = l
    <3> HIDE DEF s, k
    <3> QED
      BY <1>1, <1>4, RemovedEntries
  <2> QED
    BY <2>1, <2>2
<1>6. /\ proc_ids' = [proc_ids EXCEPT ![p] = Removed(s, k)]
      /\ proc_ids \in [Player -> Seq(Slot)]
  BY <1>2 DEF Dies, TurnsTypeOK
<1>7. /\ current_procs' = [current_procs EXCEPT ![p] = n]
      /\ current_procs \in [Player -> -(ProcMax + 1) .. ProcMax]
      /\ n \in 0 .. ProcMax - 1
  BY <1>1, <1>2 DEF Dies, TurnsTypeOK
<1>8. /\ next_proc_offset' \in [Player -> Nat]
      /\ n > 0 => next_proc_offset'[p] < n
      /\ \A q \in Player : q # p => next_proc_offset'[q] = next_proc_offset[q]
  <2>1. current_procs'[p] = n /\ n \in Nat
    BY <1>7
  <2>2. Advance(p, n)
    BY <2>1 DEF Dies
  <2> QED
    BY <1>2, <2>1, <2>2, AdvanceProperties
<1>9. state' = [state EXCEPT ![s[k]] = "DEAD"] /\ owner' = owner
  BY <1>1 DEF Dies
<1> HIDE DEF s, k, n
<1>10. TurnsTypeOK'
  <2>1. proc_ids' \in [Player -> Seq(Slot)]
    BY <1>5, <1>6
  <2>2. current_procs' \in [Player -> -(ProcMax + 1) .. ProcMax]
    BY <1>7
  <2>3. state' \in [Slot -> {"NONEXIST", "ACTIVE", "DEAD"}]
    BY <1>1, <1>2, <1>9 DEF TurnsTypeOK
  <2> QED
    BY <1>2, <1>3, <1>8, <1>9, <2>1, <2>2, <2>3 DEF Dies, TurnsTypeOK
<1>11. ProcIdsSound'
  <2> SUFFICES ASSUME NEW q \in Player
               PROVE  /\ current_procs'[q] = Signed(Len(proc_ids'[q]))
                      /\ current_procs'[q] > 0 => next_proc_offset'[q] < current_procs'[q]
                      /\ \A i \in Slot : owner'[i] = q /\ state'[i] = "ACTIVE"
                           <=> \E j \in 1 .. Len(proc_ids'[q]) : proc_ids'[q][j] = i
                      /\ \A j, l \in 1 .. Len(proc_ids'[q]) :
                           proc_ids'[q][j] = proc_ids'[q][l] => j = l
    BY DEF ProcIdsSound, Lives
  <2>1. /\ current_procs[q] = Signed(Len(proc_ids[q]))
        /\ current_procs[q] > 0 => next_proc_offset[q] < current_procs[q]
        /\ \A i \in Slot : owner[i] = q /\ state[i] = "ACTIVE"
             <=> \E j \in 1 .. Len(proc_ids[q]) : proc_ids[q][j] = i
        /\ \A j, l \in 1 .. Len(proc_ids[q]) :
             proc_ids[q][j] = proc_ids[q][l] => j = l
    BY <1>2 DEF ProcIdsSound, Lives
  <2>2. \A i \in Slot : state'[i] = "ACTIVE" <=> i # s[k] /\ state[i] = "ACTIVE"
    BY <1>1, <1>2, <1>9 DEF TurnsTypeOK
  <2>3. CASE q = p
    <3>1. /\ proc_ids'[q] = Removed(s, k) /\ Len(proc_ids'[q]) = n
          /\ current_procs'[q] = n
      BY <1>5, <1>6, <1>7, <2>3
    <3>2. Signed(n) = n
      BY <1>7 DEF Signed
    <3>3. current_procs'[q] > 0 => next_proc_offset'[q] < current_procs'[q]
      BY <1>8, <2>3, <3>1
    <3>4. ASSUME NEW i \in Slot
          PROVE  owner'[i] = q /\ state'[i] = "ACTIVE"
                   <=> \E j \in 1 .. n : Removed(s, k)[j] = i
      BY <1>5, <1>9, <2>1, <2>2, <2>3 DEF s
    <3> QED
      BY <1>5, <3>1, <3>2, <3>3, <3>4
  <2>4. CASE q # p
    <3>1. /\ proc_ids'[q] = proc_ids[q] /\ current_procs'[q] = current_procs[q]
          /\ next_proc_offset'[q] = next_proc_offset[q]
      BY <1>6, <1>7, <1>8, <2>4
    <3>2. \A i \in Slot : owner'[i] = q /\ state'[i] = "ACTIVE"
                            <=> owner[i] = q /\ state[i] = "ACTIVE"
      BY <1>1, <1>9, <2>2, <2>4
    <3> QED
      BY <2>1, <3>1, <3>2
  <2> QED
    BY <2>3, <2>4
<1>12. Bounded'
  <2>1. \A q \in Player : Len(proc_ids'[q]) <= ProcMax + 1
    BY <1>2, <1>5, <1>6, <1>7 DEF Bounded
  <2> QED
    BY <1>3, <2>1 DEF Bounded
<1> QED
  BY <1>10, <1>11, <1>12 DEF IInv

LEMMA ForksIInv ==
  ASSUME IInv, NEW p \in Player, Forks(p)
  PROVE  IInv'
<1> DEFINE s == proc_ids[p]
           f == Fresh
           n == Len(s) + 1
<1>1. /\ s \in Seq(Slot) /\ Len(s) \in Nat
      /\ current_procs[p] = Len(s) /\ Len(s) \in 1 .. ProcMax
      /\ turn' = turn + 1 /\ alive_players' = alive_players + 1
      /\ turn' \in 0 .. NumPlayers
      /\ alive_players' \in 0 .. NumPlayers /\ alive_players' <= turn'
  BY CurrentProperties DEF Forks
<1>2. TurnsTypeOK /\ ProcIdsSound /\ Bounded
  BY DEF IInv
<1>3. f \in Slot /\ owner[f] = NULL
  BY FreshIsFree DEF Forks
<1>4. \A q \in Player : NULL # q
  BY DEF Player
<1>5. /\ Append(s, f) \in Seq(Slot) /\ Len(Append(s, f)) = n
      /\ \A j \in 1 .. Len(s) : Append(s, f)[j] = s[j]
      /\ Append(s, f)[n] = f
  BY <1>1, <1>3, AppendProperties
<1>6. /\ proc_ids' = [proc_ids EXCEPT ![p] = Append(s, f)]
      /\ proc_ids \in [Player -> Seq(Slot)]
  BY <1>2 DEF Forks, TurnsTypeOK
<1>7. n \in 2 .. ProcMax + 1
  BY <1>1
<1>8. Signed(n) \in -(ProcMax + 1) .. ProcMax /\ (Signed(n) > 0 => Signed(n) = n)
  <2> HIDE DEF n
  <2> QED
    BY <1>7 DEF Signed
<1>9. /\ current_procs' = [current_procs EXCEPT ![p] = Signed(n)]
      /\ current_procs \in [Player -> -(ProcMax + 1) .. ProcMax]
  BY <1>1, <1>2 DEF Forks, TurnsTypeOK
<1>10. /\ next_proc_offset' \in [Player -> Nat]
      /\ next_proc_offset'[p] < n
      /\ \A q \in Player : q # p => next_proc_offset'[q] = next_proc_offset[q]
  <2>1. Len(proc_ids'[p]) = n /\ n \in Nat /\ n > 0
    BY <1>5, <1>6, <1>7
  <2>2. Advance(p, n)
    BY <2>1 DEF Forks
  <2> QED
    BY <1>2, <2>1, <2>2, AdvanceProperties
<1>11. /\ owner' = [owner EXCEPT ![f] = p]
       /\ state' = [state EXCEPT ![f] = "ACTIVE"]
  BY DEF Forks
<1> HIDE DEF s, f, n
<1>12. TurnsTypeOK'
  <2>1. proc_ids' \in [Player -> Seq(Slot)]
    BY <1>5, <1>6
  <2>2. current_procs' \in [Player -> -(ProcMax + 1) .. ProcMax]
    BY <1>8, <1>9
  <2>3. /\ owner' \in [Slot -> Player \cup {NULL}]
        /\ state' \in [Slot -> {"NONEXIST", "ACTIVE", "DEAD"}]
    BY <1>2, <1>11 DEF TurnsTypeOK
  <2> QED
    BY <1>1, <1>2, <1>10, <2>1, <2>2, <2>3 DEF Forks, TurnsTypeOK
<1>13. ProcIdsSound'
  <2> SUFFICES ASSUME NEW q \in Player
               PROVE  /\ current_procs'[q] = Signed(Len(proc_ids'[q]))
                      /\ current_procs'[q] > 0 => next_proc_offset'[q] < current_procs'[q]
                      /\ \A i \in Slot : owner'[i] = q /\ state'[i] = "ACTIVE"
                           <=> \E j \in 1 .. Len(proc_ids'[q]) : proc_ids'[q][j] = i
                      /\ \A j, l \in 1 .. Len(proc_ids'[q]) :
                           proc_ids'[q][j] = proc_ids'[q][l] => j = l
    BY DEF ProcIdsSound, Lives
  <2>1. /\ current_procs[q] = Signed(Len(proc_ids[q]))
        /\ current_procs[q] > 0 => next_proc_offset[q] < current_procs[q]
        /\ \A i \in Slot : owner[i] = q /\ state[i] = "ACTIVE"
             <=> \E j \in 1 .. Len(proc_ids[q]) : proc_ids[q][j] = i
        /\ \A j, l \in 1 .. Len(proc_ids[q]) :
             proc_ids[q][j] = proc_ids[q][l] => j = l
    BY <1>2 DEF ProcIdsSound, Lives
  <2>2. /\ owner'[f] = p /\ state'[f] = "ACTIVE"
        /\ \A i \in Slot : i # f => owner'[i] = owner[i] /\ state'[i] = state[i]
    BY <1>2, <1>3, <1>11 DEF TurnsTypeOK
  <2>3. \A j \in 1 .. Len(proc_ids[q]) : proc_ids[q][j] # f
    BY <1>3, <1>4, <2>1
  <2>4. CASE q = p
    <3>1. /\ proc_ids'[q] = Append(s, f) /\ Len(proc_ids'[q]) = n
          /\ current_procs'[q] = Signed(n)
      BY <1>5, <1>6, <1>9, <2>4
    <3>2. current_procs'[q] > 0 => next_proc_offset'[q] < current_procs'[q]
      BY <1>7, <1>8, <1>10, <2>4, <3>1
    <3>3. /\ Len(s) \in Nat /\ n = Len(s) + 1
          /\ \A j \in 1 .. Len(s) : Append(s, f)[j] = s[j] /\ s[j] # f
          /\ Append(s, f)[n] = f
      BY <1>1, <1>5, <2>3, <2>4 DEF s, n
    <3>4. \A j \in 1 .. n : j = n \/ j \in 1 .. Len(s)
      BY <3>3
    <3>5. ASSUME NEW i \in Slot
          PROVE  owner'[i] = q /\ state'[i] = "ACTIVE"
                   <=> \E j \in 1 .. n : Append(s, f)[j] = i
      <4>1. CASE i = f
        <5>1. n \in 1 .. n
          BY <1>7
        <5> QED
          BY <2>2, <2>4, <3>3, <4>1, <5>1
      <4>2. CASE i # f
        <5>1. owner'[i] = q /\ state'[i] = "ACTIVE" <=> \E j \in 1 .. Len(s) : s[j] = i
          BY <2>1, <2>2, <2>4, <4>2 DEF s
        <5>2. \A j \in 1 .. Len(s) : j \in 1 .. n
          BY <3>3
        <5> QED
          BY <3>3, <3>4, <4>2, <5>1, <5>2
      <4> QED
        BY <4>1, <4>2
    <3>6. ASSUME NEW j \in 1 .. n, NEW l \in 1 .. n, Append(s, f)[j] = Append(s, f)[l]
          PROVE  j = l
      <4>1. \A a, b \in 1 .. Len(s) : s[a] = s[b] => a = b
        BY <2>1, <2>4 DEF s
      <4> QED
        BY <3>3, <3>4, <3>6, <4>1
    <3> QED
      BY <3>1, <3>2, <3>5, <3>6
  <2>5. CASE q # p
    <3>1. /\ proc_ids'[q] = proc_ids[q] /\ current_procs'[q] = current_procs[q]
          /\ next_proc_offset'[q] = next_proc_offset[q]
      BY <1>6, <1>9, <1>10, <2>5
    <3>2. \A i \in Slot : owner'[i] = q /\ state'[i] = "ACTIVE"
                            <=> owner[i] = q /\ state[i] = "ACTIVE"
      BY <1>3, <1>4, <2>2, <2>5
    <3> QED
      BY <2>1, <3>1, <3>2
  <2> QED
    BY <2>4, <2>5
<1>14. Bounded'
  <2>1. \A q \in Player : Len(proc_ids'[q]) <= ProcMax + 1
    BY <1>2, <1>5, <1>6, <1>7 DEF Bounded
  <2> QED
    BY <1>1, <2>1 DEF Bounded
<1> QED
  BY <1>12, <1>13, <1>14 DEF IInv

LEMMA NextIInv == IInv /\ [NextTurn]_turnVars => IInv'
<1> SUFFICES ASSUME IInv, [NextTurn]_turnVars
             PROVE  IInv'
  OBVIOUS
<1>1. ASSUME NEW p \in Player, Passes(p)
      PROVE  IInv'
  <2>1. turn' \in 0 .. NumPlayers /\ turn' = turn + 1
    BY <1>1 DEF Passes, Player
  <2>2. alive_players' <= turn'
    BY <1>1, <2>1 DEF Passes, IInv, TurnsTypeOK, Bounded
  <2>3. TurnsTypeOK'
    BY <1>1, <2>1 DEF Passes, IInv, TurnsTypeOK
  <2>4. ProcIdsSound'
    BY <1>1 DEF Passes, IInv, ProcIdsSound, Lives
  <2>5. Bounded'
    BY <1>1, <2>2 DEF Passes, IInv, Bounded
  <2> QED
    BY <2>3, <2>4, <2>5 DEF IInv
<1>2. ASSUME NEW last \in BOOLEAN, EndCycle(last)
      PROVE  IInv'
  <2>1. /\ result' \in {"none", "tie", "won", "unexpected"}
        /\ last_alive_player' \in Player \cup {-1}
    BY <1>2 DEF EndCycle, IInv, TurnsTypeOK
  <2>2. /\ turn' = 0 /\ alive_players' = 0
        /\ UNCHANGED <<proc_ids, current_procs, next_proc_offset, owner, state>>
    BY <1>2 DEF EndCycle
  <2> QED
    BY <2>1, <2>2 DEF IInv, TurnsTypeOK, ProcIdsSound, Bounded, Lives
<1>3. CASE UNCHANGED turnVars
  BY <1>3 DEF turnVars, IInv, TurnsTypeOK, ProcIdsSound, Bounded, Lives
<1> QED
  BY <1>1, <1>2, <1>3, GoesOnIInv, DiesIInv, ForksIInv DEF NextTurn, GameOver

THEOREM TurnsInvariant == SpecTurns => []IInv
  BY InitIInv, NextIInv, PTL DEF SpecTurns

\* current_procs stays an int8_t, and alive_players counts no player twice.
THEOREM TurnsTypeCorrect == SpecTurns => []TurnsTypeOK
<1>1. IInv => TurnsTypeOK
  BY DEF IInv
<1> QED
  BY <1>1, TurnsInvariant, PTL

\* The list of every player always holds exactly its living processes, each once,
\* and the next one to run is in it, whatever processes died and forked before.
THEOREM ProcIdsCorrect == SpecTurns => []ProcIdsSound
<1>1. IInv => ProcIdsSound
  BY DEF IInv
<1> QED
  BY <1>1, TurnsInvariant, PTL
-----------------------------------------------------------------------------
\* The living players that have had their turn in this cycle.
Counted == {q \in Player : q < turn /\ Lives(q)}

\* No count of processes has wrapped.
NoneWrapped == \A p \in Player : current_procs[p] >= 0

\* The inductive form of ResultRight: a cycle counts as it goes.
CountRight ==
  NoneWrapped => /\ alive_players = Cardinality(Counted)
                 /\ result # "unexpected"
                 /\ result = "won" => \A p \in Player : Lives(p) <=> p = last_alive_player

LEMMA CountedFinite ==
  IsFiniteSet(Counted) /\ IsFiniteSet({p \in Player : Lives(p)})
<1>1. IsFiniteSet(Player)
  BY FS_Interval DEF Player
<1>2. Counted \subseteq Player /\ {p \in Player : Lives(p)} \subseteq Player
  BY DEF Counted
<1> QED
  BY <1>1, <1>2, FS_Subset

\* The turn of a player that still lives after it counts one more, and another none.
LEMMA TurnCounts ==
  ASSUME NEW p \in Player, turn = p, turn' = turn + 1,
         \A q \in Player : q # p => current_procs'[q] = current_procs[q]
  PROVE  /\ Lives(p)' => Cardinality(Counted') = Cardinality(Counted) + 1
         /\ ~Lives(p)' => Cardinality(Counted') = Cardinality(Counted)
<1>1. \A q \in Player : q < turn' <=> q < turn \/ q = p
  BY DEF Player
<1>2. \A q \in Player : q < turn => q # p
  BY DEF Player
<1>3. \A q \in Player : q # p => (current_procs'[q] > 0 <=> current_procs[q] > 0)
  OBVIOUS
<1>4. CASE Lives(p)'
  <2>1. Counted' = Counted \cup {p} /\ p \notin Counted
    BY <1>1, <1>2, <1>3, <1>4 DEF Counted, Lives
  <2> QED
    BY <1>4, <2>1, CountedFinite, FS_AddElement
<1>5. CASE ~Lives(p)'
  <2>1. Counted' = Counted
    BY <1>1, <1>2, <1>3, <1>5 DEF Counted, Lives
  <2> QED
    BY <1>5, <2>1
<1> QED
  BY <1>4, <1>5

LEMMA InitCountRight == InitTurns => CountRight
<1> SUFFICES ASSUME InitTurns
             PROVE  CountRight
  OBVIOUS
<1>1. \A q \in Player : ~(q < turn)
  BY DEF InitTurns, Player
<1>2. Counted = {}
  BY <1>1 DEF Counted
<1> QED
  BY <1>2, FS_EmptySet DEF InitTurns, CountRight

LEMMA TurnCountRight ==
  ASSUME IInv, CountRight, NEW p \in Player, GoesOn(p) \/ Dies(p) \/ Forks(p) \/ Passes(p)
  PROVE  CountRight'
<1>1. /\ turn = p /\ turn' = turn + 1 /\ result = "none" /\ result' = result
      /\ current_procs \in [Player -> -(ProcMax + 1) .. ProcMax]
      /\ alive_players \in 0 .. NumPlayers
  BY DEF GoesOn, Dies, Forks, Passes, Plays, IInv, TurnsTypeOK
<1>2. \A q \in Player : q # p => current_procs'[q] = current_procs[q]
  BY <1>1 DEF GoesOn, Dies, Forks, Passes
<1>3. SUFFICES ASSUME NoneWrapped'
               PROVE  alive_players' = Cardinality(Counted')
  BY <1>1 DEF CountRight
<1>4. NoneWrapped
  <2>1. current_procs[p] >= 0
    BY <1>1, <1>3 DEF GoesOn, Dies, Forks, Passes, Plays, Lives, NoneWrapped
  <2> QED
    BY <1>2, <1>3, <2>1 DEF NoneWrapped
<1>5. alive_players = Cardinality(Counted)
  BY <1>4 DEF CountRight
<1>6. Lives(p)' <=> current_procs'[p] > 0
  BY DEF Lives
<1>7. CASE GoesOn(p)
  <2>1. Lives(p)' /\ alive_players' = alive_players + 1
    BY <1>7 DEF GoesOn, Plays, Lives
  <2> QED
    BY <1>1, <1>2, <1>5, <2>1, TurnCounts
<1>8. CASE Dies(p)
  <2>1. alive_players' = IF Lives(p)' THEN alive_players + 1 ELSE alive_players
    BY <1>1, <1>3, <1>6, <1>8 DEF Dies, NoneWrapped
  <2> QED
    BY <1>1, <1>2, <1>5, <2>1, TurnCounts
<1>9. CASE Forks(p)
  <2>1. current_procs'[p] = Signed(current_procs[p] + 1) /\ current_procs'[p] >= 0
    BY <1>1, <1>3, <1>9 DEF Forks, NoneWrapped
  <2>2. current_procs[p] > 0 /\ current_procs[p] <= ProcMax
    BY <1>1, <1>9 DEF Forks, Plays, Lives
  <2>3. Lives(p)' /\ alive_players' = alive_players + 1
    BY <1>1, <1>6, <1>9, <2>1, <2>2 DEF Forks, Signed
  <2> QED
    BY <1>1, <1>2, <1>5, <2>3, TurnCounts
<1>10. CASE Passes(p)
  <2>1. ~Lives(p)' /\ alive_players' = alive_players
    BY <1>10 DEF Passes, Lives
  <2> QED
    BY <1>1, <1>2, <1>5, <2>1, TurnCounts
<1> QED
  BY <1>7, <1>8, <1>9, <1>10

LEMMA EndCountRight ==
  ASSUME IInv, CountRight, NEW last \in BOOLEAN, EndCycle(last)
  PROVE  CountRight'
<1> DEFINE living == {q \in Player : Lives(q)}
<1>1. /\ turn = NumPlayers /\ turn' = 0 /\ alive_players' = 0
      /\ current_procs' = current_procs
      /\ result' = CASE alive_players = 0 -> "tie"
                      [] alive_players = 1 -> IF Cardinality(living) > 1
                                              THEN "unexpected" ELSE "won"
                      [] OTHER -> IF last THEN "tie" ELSE "none"
      /\ last_alive_player' \in IF result' = "won" /\ living # {} THEN living
                                ELSE {last_alive_player}
  BY DEF EndCycle
<1>2. SUFFICES ASSUME NoneWrapped'
               PROVE  /\ alive_players' = Cardinality(Counted')
                      /\ result' # "unexpected"
                      /\ result' = "won" =>
                           \A q \in Player : Lives(q)' <=> q = last_alive_player'
  BY DEF CountRight, Lives
<1>3. alive_players' = Cardinality(Counted')
  <2>1. Counted' = {}
    BY <1>1 DEF Counted, Player
  <2> QED
    BY <1>1, <2>1, FS_EmptySet
<1>4. alive_players = Cardinality(living)
  <2>1. NoneWrapped
    BY <1>1, <1>2 DEF NoneWrapped
  <2>2. Counted = living
    BY <1>1 DEF Counted, Player
  <2> QED
    BY <2>1, <2>2 DEF CountRight
<1>5. IsFiniteSet(living)
  BY CountedFinite
<1>6. \A q \in Player : Lives(q)' <=> q \in living
  BY <1>1 DEF Lives
<1> HIDE DEF living
<1>7. result' # "unexpected"
  BY <1>1, <1>4
<1>8. ASSUME result' = "won"
      PROVE  living = {last_alive_player'}
  <2>1. Cardinality(living) = 1
    BY <1>1, <1>4, <1>8
  <2>2. PICK x : living = {x}
    BY <1>5, <2>1, FS_Singleton
  <2> QED
    BY <1>1, <1>8, <2>2
<1> QED
  BY <1>3, <1>6, <1>7, <1>8

LEMMA NextCountRight == IInv /\ CountRight /\ [NextTurn]_turnVars => CountRight'
<1> SUFFICES ASSUME IInv, CountRight, [NextTurn]_turnVars
             PROVE  CountRight'
  OBVIOUS
<1>1. CASE UNCHANGED turnVars
  BY <1>1 DEF turnVars, CountRight, NoneWrapped, Counted, Lives
<1> QED
  BY <1>1, TurnCountRight, EndCountRight DEF NextTurn, GameOver

LEMMA CountResult == CountRight => ResultRight
<1> SUFFICES ASSUME CountRight, NoneWrapped
             PROVE  /\ turn = NumPlayers =>
                         alive_players = Cardinality({p \in Player : Lives(p)})
                    /\ result # "unexpected"
                    /\ result = "won" => \A p \in Player : Lives(p) <=> p = last_alive_player
  BY DEF ResultRight, NoneWrapped
<1>1. turn = NumPlayers => Counted = {p \in Player : Lives(p)}
  BY DEF Counted, Player
<1> QED
  BY <1>1 DEF CountRight

\* run_game ends a game rightly for every number of players and slots: as long as no
\* int8_t of processes has wrapped, every cycle counts the players that live, the
\* "unexpected" branch is never taken and a winner is the only one that lives.
THEOREM ResultCorrect == SpecTurns => []ResultRight
  BY CountResult, TurnsInvariant, InitCountRight, NextCountRight, PTL DEF SpecTurns

-----------------------------------------------------------------------------
(* Positions: what instructions do to addresses.                           *)

Addr == 0 .. 2 ^ AddrBits - 1

LEMMA Widths ==
  /\ 2 ^ ByteBits \in Nat \ {0} /\ 2 ^ AddrBits \in Nat \ {0} /\ 2 ^ SizeBits \in Nat \ {0}
  /\ 2 ^ (FieldBits - 1) \in Nat \ {0} /\ 2 ^ FieldBits \in Nat \ {0}
  /\ CORE_SIZE \in Nat \ {0} /\ Margin \in Nat \ {0} /\ Behind \in Nat \ {0}
<1>1. /\ 2 ^ ByteBits \in Int /\ 2 ^ AddrBits \in Int /\ 2 ^ SizeBits \in Int
      /\ 2 ^ (FieldBits - 1) \in Int /\ 2 ^ FieldBits \in Int
  BY RedcodeAssumption
<1> QED
  BY <1>1, RedcodeAssumption, PowersAssumption

LEMMA Remainders ==
  ASSUME NEW x \in Int, NEW m \in Nat \ {0}
  PROVE  x % m \in 0 .. m - 1 /\ (x \in 0 .. m - 1 => x % m = x)
OBVIOUS

LEMMA BelowAddr ==
  /\ Addr \subseteq Nat /\ Addr \subseteq Int /\ \A y \in Addr : y \in Int
  /\ \A y \in Addr : \A x \in 0 .. y : x \in Addr
BY Widths DEF Addr

LEMMA UnsignedIs ==
  ASSUME NEW x \in Int
  PROVE  Unsigned(x) \in Addr /\ (x \in Addr => Unsigned(x) = x)
<1> DEFINE m == 2 ^ AddrBits
<1>1. m \in Nat \ {0}
  BY Widths
<1>2. Unsigned(x) = x % m /\ Addr = 0 .. m - 1
  BY DEF Unsigned, Addr
<1> HIDE DEF m
<1> QED
  BY <1>1, <1>2, Remainders

\* The players' areas lie one after the other in the core.
LEMMA AreaIs ==
  ASSUME NEW p \in Player
  PROVE  /\ AreaSize \in Nat /\ AreaSize >= 2 /\ p \in Nat
         /\ Area(p).size = AreaSize /\ Area(p).start = AreaSize * p
         /\ Area(p).start \in Nat /\ Area(p).end = Area(p).start + AreaSize
         /\ Area(p).end <= CORE_SIZE /\ Area(p).end + 1 \in Addr
<1>1. p \in Nat /\ p + 1 <= NumPlayers /\ CORE_SIZE \in Nat /\ NumPlayers \in Nat \ {0}
  BY Widths DEF Player
<1>2. AreaSize \in Nat /\ AreaSize * NumPlayers <= CORE_SIZE /\ AreaSize >= 2
  BY <1>1, WarAssumption DEF AreaSize
<1>3. AreaSize * (p + 1) <= AreaSize * NumPlayers
  BY <1>1, <1>2
<1>4. AreaSize * (p + 1) = AreaSize * p + AreaSize /\ AreaSize * p \in Nat
  BY <1>1, <1>2
<1>5. CORE_SIZE + 1 < 2 ^ AddrBits
  BY Widths, WarAssumption
<1>6. /\ Area(p).size = AreaSize /\ Area(p).start = AreaSize * p
      /\ Area(p).end = AreaSize * (p + 1)
  BY DEF Area
<1> QED
  BY <1>1, <1>2, <1>3, <1>4, <1>5, <1>6, Widths DEF Addr

\* In an area the sub-area of a program counter is the area.
LEMMA SubArea ==
  ASSUME NEW p \in Player, NEW pc0 \in Int, InArea(p, pc0)
  PROVE  (pc0 \div Area(p).size) * Area(p).size = Area(p).start
<1> DEFINE n == AreaSize
<1>1. n \in Nat \ {0} /\ p \in Nat /\ n * p <= pc0 /\ pc0 < n * p + n
  BY AreaIs DEF InArea
<1> HIDE DEF n
<1>2. pc0 \div n = p
  BY <1>1
<1>3. p * n = n * p
  BY <1>1
<1> QED
  BY <1>2, <1>3, AreaIs DEF n

LEMMA NearStays ==
  ASSUME NEW p \in Player, NEW pc0 \in Int, NEW x \in Int
  PROVE  /\ Near(Area(p), pc0, x) \in Addr
         /\ InArea(p, pc0) => InArea(p, Near(Area(p), pc0, x))
<1> DEFINE n == AreaSize
           m == 2 ^ SizeBits
           start == (pc0 \div n) * n
           y == (((x - start) % m) % n) + start
<1>1. n \in Nat \ {0} /\ m \in Nat \ {0}
  BY AreaIs, Widths
<1>2. Near(Area(p), pc0, x) = Unsigned(y)
  BY AreaIs DEF Near
<1> HIDE DEF n, m
<1>3. start \in Int
  BY <1>1
<1>4. InArea(p, pc0) => start = Area(p).start
  BY SubArea, AreaIs DEF n
<1> HIDE DEF start
<1>5. y \in Int /\ start <= y /\ y < start + n
  <2>1. (x - start) % m \in Nat
    BY <1>1, <1>3, Remainders
  <2> DEFINE z == (x - start) % m
  <2>2. z % n \in 0 .. n - 1
    <3>1. z \in Int
      BY <2>1
    <3> HIDE DEF z
    <3> QED
      BY <1>1, <3>1, Remainders
  <2> QED
    BY <1>1, <1>3, <2>2
<1> HIDE DEF y
<1>6. ASSUME InArea(p, pc0) PROVE y \in Addr /\ InArea(p, y)
  <2>1. y \in Int /\ Area(p).start <= y /\ y < Area(p).end
    BY <1>4, <1>5, <1>6, AreaIs DEF n
  <2>2. y \in 0 .. Area(p).end + 1
    BY <2>1, AreaIs
  <2> QED
    BY <2>1, <2>2, AreaIs, BelowAddr DEF InArea
<1> QED
  BY <1>2, <1>5, <1>6, UnsignedIs

LEMMA WrapStays ==
  ASSUME NEW p \in Player, NEW x \in Int
  PROVE  Wrap(Area(p), x) \in Addr /\ InArea(p, Wrap(Area(p), x))
<1> DEFINE n == AreaSize
           y == (Unsigned(x - Area(p).start) % n) + Area(p).start
<1>1. n \in Nat \ {0} /\ Area(p).start \in Nat
  BY AreaIs
<1>2. Wrap(Area(p), x) = Unsigned(y)
  BY AreaIs DEF Wrap
<1> HIDE DEF n
<1>3. y \in Int /\ Area(p).start <= y /\ y < Area(p).start + n
  <2>1. Unsigned(x - Area(p).start) \in Nat
    BY <1>1, UnsignedIs DEF Addr
  <2> DEFINE z == Unsigned(x - Area(p).start)
  <2>2. z % n \in 0 .. n - 1
    <3>1. z \in Int
      BY <2>1
    <3> HIDE DEF z
    <3> QED
      BY <1>1, <3>1, Remainders
  <2> QED
    BY <1>1, <2>2
<1> HIDE DEF y
<1>4. y \in Addr /\ InArea(p, y)
  <2>1. y \in Int /\ Area(p).start <= y /\ y < Area(p).end
    BY <1>3, AreaIs DEF n
  <2>2. y \in 0 .. Area(p).end + 1
    BY <2>1, AreaIs
  <2> QED
    BY <2>1, <2>2, AreaIs, BelowAddr DEF InArea
<1> QED
  BY <1>2, <1>3, <1>4, UnsignedIs

LEMMA NextStays ==
  ASSUME NEW p \in Player, NEW pc0 \in Addr
  PROVE  /\ Advance1(Area(p), pc0) \in Addr /\ Skip(Area(p), pc0) \in Addr
         /\ InArea(p, pc0) => /\ InArea(p, Advance1(Area(p), pc0))
                              /\ InArea(p, Skip(Area(p), pc0))
         /\ \A n \in {1, 2} : Past(n, pc0) \in Addr
<1> DEFINE s == Area(p).start
           e == Area(p).end
           one == Unsigned(pc0 + 1)
           two == Unsigned(pc0 + 2)
<1>1. /\ s \in Nat /\ e \in Nat /\ e >= s + 2 /\ e + 1 \in Addr /\ pc0 \in Nat
      /\ s \in Addr /\ s + 1 \in Addr
  <2>1. /\ s \in Nat /\ e \in Nat /\ e >= s + 2 /\ e + 1 \in Addr /\ pc0 \in Nat
    BY AreaIs, BelowAddr
  <2>2. s \in 0 .. e + 1 /\ s + 1 \in 0 .. e + 1
    BY <2>1
  <2> QED
    BY <2>1, <2>2, BelowAddr
<1>2. one \in Addr /\ two \in Addr
  BY <1>1, UnsignedIs
<1>3. InArea(p, pc0) => s <= pc0 /\ pc0 < e /\ one = pc0 + 1 /\ two = pc0 + 2
  <2> SUFFICES ASSUME InArea(p, pc0) PROVE s <= pc0 /\ pc0 < e /\ one = pc0 + 1 /\ two = pc0 + 2
    OBVIOUS
  <2>1. s <= pc0 /\ pc0 < e
    BY DEF InArea
  <2>2. pc0 + 1 \in 0 .. e + 1 /\ pc0 + 2 \in 0 .. e + 1
    BY <2>1, <1>1
  <2>3. pc0 + 1 \in Addr /\ pc0 + 2 \in Addr
    BY <2>2, <1>1, BelowAddr
  <2> QED
    BY <2>1, <2>3, <1>1, UnsignedIs
<1>4. /\ Advance1(Area(p), pc0) = IF one = e THEN s ELSE one
      /\ Skip(Area(p), pc0) = LET t == IF two = e THEN s ELSE two
                              IN  IF t = e + 1 THEN s + 1 ELSE t
  BY DEF Advance1, Skip, CheckEnd, CheckEndTwo
<1>5. \A x \in Int : InArea(p, x) <=> s <= x /\ x < e
  BY DEF InArea
<1>6. \A n \in {1, 2} : Past(n, pc0) \in Addr
  <2> SUFFICES ASSUME NEW x \in Addr PROVE x % CORE_SIZE \in Addr
    BY <1>2 DEF Past
  <2>1. x % CORE_SIZE \in 0 .. CORE_SIZE - 1
    BY Widths, Remainders, BelowAddr
  <2> QED
    BY <2>1, Widths, WarAssumption DEF Addr
<1> HIDE DEF s, e, one, two
<1>7. Addr \subseteq Int
  BY DEF Addr
<1> QED
  BY <1>1, <1>2, <1>3, <1>4, <1>5, <1>6, <1>7
-----------------------------------------------------------------------------
(* Instructions keep the types of the core, the program counter and the    *)
(* fork, and a process in its player's area stays there.                   *)

Core == [Pos -> Instr]

LEMMA InstrIs ==
  /\ Zero \in Instr
  /\ \A i \in Instr : /\ i.opcode \in Byte /\ i.a_mode \in Byte /\ i.b_mode \in Byte
                      /\ i.a \in Field /\ i.b \in Field
                      /\ i.opcode \in Int /\ i.a_mode \in Int /\ i.b_mode \in Int
                      /\ i.a \in Int /\ i.b \in Int
<1>1. 0 \in Byte /\ 0 \in Field /\ Byte \subseteq Int /\ Field \subseteq Int
  BY Widths DEF Byte, Field
<1> QED
  BY <1>1 DEF Instr, Zero

LEMMA CellIs ==
  ASSUME NEW c \in Core, NEW q
  PROVE  /\ Cell(c, q) \in Instr
         /\ \A f \in {"a", "b"} : Cell(c, q)[f] \in Int
BY InstrIs DEF Core, Cell

LEMMA ToFieldIs == \A x \in Int : ToField(x) \in Field /\ ToByte(x) \in Byte
<1> SUFFICES ASSUME NEW x \in Int PROVE ToField(x) \in Field /\ ToByte(x) \in Byte
  OBVIOUS
<1> DEFINE h == 2 ^ (FieldBits - 1)
           m == 2 ^ FieldBits
           n == 2 ^ ByteBits
<1>1. h \in Nat \ {0} /\ m = 2 * h /\ m \in Nat \ {0} /\ n \in Nat \ {0}
  BY Widths, PowersAssumption
<1>2. ToField(x) = ((x + h) % m) - h /\ Field = -h .. h - 1
  BY DEF ToField, Field
<1>3. ToByte(x) = x % n /\ Byte = 0 .. n - 1
  BY DEF ToByte, Byte
<1> HIDE DEF h, m, n
<1>4. (x + h) % m \in 0 .. m - 1
  BY <1>1, Remainders
<1>5. x % n \in 0 .. n - 1
  BY <1>1, Remainders
<1>6. ToField(x) \in Int /\ -h <= ToField(x) /\ ToField(x) <= h - 1
  BY <1>1, <1>2, <1>4
<1> QED
  BY <1>1, <1>2, <1>3, <1>5, <1>6

\* Operands are addresses, and those that are not numbers are in the area.
LEMMA OperandsAre ==
  ASSUME NEW p \in Player, NEW c \in Core, NEW pc0 \in Addr
  PROVE  LET i == Cell(c, pc0)
         IN  /\ OperandA(c, Area(p), pc0) \in Addr /\ OperandB(c, Area(p), pc0) \in Addr
             /\ InArea(p, pc0) /\ i.b_mode \in {Mem, Relative} =>
                  InArea(p, OperandB(c, Area(p), pc0))
<1> DEFINE R(x, mode, f) == Resolve(c, Area(p), pc0, x, mode, f)
<1>0. Addr \subseteq Int /\ pc0 \in Int
  BY BelowAddr
<1>1. ASSUME NEW x \in Int, NEW mode, NEW f \in {"a", "b"}
      PROVE  /\ R(x, mode, f) \in Addr
             /\ InArea(p, pc0) /\ mode \in {Mem, Relative} => InArea(p, R(x, mode, f))
  <2> DEFINE q == Near(Area(p), pc0, Unsigned(x + pc0))
             y == Cell(c, q)[f] + q
  <2>1. x + pc0 \in Int /\ Unsigned(x + pc0) \in Int /\ Unsigned(x) \in Addr
    <3>1. x + pc0 \in Int
      BY <1>0
    <3> QED
      BY <1>0, <3>1, UnsignedIs
  <2>2. q \in Addr /\ (InArea(p, pc0) => InArea(p, q))
    BY <1>0, <2>1, NearStays
  <2>3. y \in Int /\ Unsigned(y) \in Int
    <3>1. Cell(c, q)[f] \in Int /\ q \in Int
      BY <1>0, <2>2, CellIs
    <3>2. y \in Int
      BY <3>1
    <3> QED
      BY <1>0, <3>2, UnsignedIs
  <2>4. /\ Near(Area(p), pc0, Unsigned(y)) \in Addr
        /\ InArea(p, pc0) => InArea(p, Near(Area(p), pc0, Unsigned(y)))
    BY <1>0, <2>3, NearStays
  <2>5. R(x, mode, f) = IF mode = Mem THEN q
                        ELSE IF mode = Relative THEN Near(Area(p), pc0, Unsigned(y))
                        ELSE Unsigned(x)
    BY DEF Resolve, Mem, Relative
  <2> HIDE DEF R, q, y
  <2> QED
    BY <2>1, <2>2, <2>4, <2>5
<1> HIDE DEF R
<1>2. Cell(c, pc0).a \in Int /\ Cell(c, pc0).b \in Int
  BY CellIs, InstrIs
<1>3. /\ OperandA(c, Area(p), pc0) = R(Cell(c, pc0).a, Cell(c, pc0).a_mode, "a")
      /\ OperandB(c, Area(p), pc0) = R(Cell(c, pc0).b, Cell(c, pc0).b_mode, "b")
  BY DEF OperandA, OperandB, R
<1> QED
  BY <1>1, <1>2, <1>3

LEMMA SourcesAre ==
  ASSUME NEW c \in Core, NEW area, NEW pc0
  PROVE  Ins(c, area, pc0) \in Instr
BY CellIs, InstrIs DEF Ins

\* Where a MOV outside of its player's area may write: an operand of mode Mem is cut to
\* the core, so only a relative one reaches what is behind it.
Thrown(p, c, pc0, q) ==
  InMargin(Area(p), q) /\ (q < CORE_SIZE \/ Cell(c, pc0).b_mode # Mem)

LEMMA DestinationIs ==
  ASSUME NEW p \in Player, NEW c \in Core, NEW pc0 \in Addr, InArea(p, pc0)
  PROVE  LET d == Destination(c, Area(p), pc0) IN InArea(p, d) \/ Thrown(p, c, pc0, d)
<1> DEFINE Kept(q) == IF InMargin(Area(p), q) THEN q ELSE Near(Area(p), pc0, q)
           b == Unsigned(c[pc0].b + pc0)
           d == Near(Area(p), pc0, b)
           e == Unsigned(Cell(c, d).b + d)
<1>0. Addr \subseteq Int /\ pc0 \in Int /\ pc0 \in Pos
  BY BelowAddr, AreaIs, Widths DEF InArea, Pos
<1>1. b \in Int
  <2>1. c[pc0].b + pc0 \in Int
    BY <1>0, InstrIs DEF Core
  <2> QED
    BY <1>0, <2>1, UnsignedIs
<1>2. b % CORE_SIZE \in Int /\ b % CORE_SIZE < CORE_SIZE
  <2> HIDE DEF b
  <2> QED
    BY <1>1, Widths, Remainders
<1>3. e \in Int
  <2>1. d \in Int
    BY <1>0, <1>1, NearStays
  <2>2. Cell(c, d).b \in Int
    BY CellIs, InstrIs
  <2>3. Cell(c, d).b + d \in Int
    BY <2>1, <2>2
  <2> QED
    BY <1>0, <2>3, UnsignedIs
<1>4. \A q \in Int : InArea(p, Kept(q)) \/ (Kept(q) = q /\ InMargin(Area(p), q))
  BY <1>0, NearStays
<1>5. Destination(c, Area(p), pc0) = IF c[pc0].b_mode = Mem THEN Kept(b % CORE_SIZE) ELSE Kept(e)
  BY DEF Destination
<1>6. Cell(c, pc0) = c[pc0]
  BY <1>0 DEF Cell, Core
<1> HIDE DEF Kept, b, e
<1>7. CASE c[pc0].b_mode = Mem
  BY <1>2, <1>4, <1>5, <1>7 DEF Thrown
<1>8. CASE c[pc0].b_mode # Mem
  BY <1>3, <1>4, <1>5, <1>6, <1>8 DEF Thrown
<1> QED
  BY <1>7, <1>8

-----------------------------------------------------------------------------
(* What an instruction yields.                                             *)

Crosses(c, pc0) == Cell(c, pc0).opcode \in {Op.JMZ, Op.SEQ}
MayWrite(p, c, pc0, q) ==
  \/ InArea(p, q)
  \/ /\ Cell(c, pc0).opcode = Op.MOV /\ InMargin(Area(p), q)
     /\ q < CORE_SIZE \/ Cell(c, pc0).b_mode = Relative

\* The instruction at pc0 of core c yields e for a process of p.
Keeps(p, c, pc0, e) ==
  /\ e.core \in Core /\ e.pc \in Addr /\ e.fork \in Addr \cup {-1}
  /\ InArea(p, pc0) =>
       /\ e.pc = pc0 \/ InArea(p, e.pc) \/ Crosses(c, pc0)
       /\ \A q \in Pos : e.core[q] # c[q] => MayWrite(p, c, pc0, q)

LEMMA GotoKeeps ==
  ASSUME NEW p \in Player, NEW c \in Core, NEW pc0 \in Addr, NEW d \in Core, NEW to \in Addr,
         InArea(p, pc0) => /\ to = pc0 \/ InArea(p, to) \/ Crosses(c, pc0)
                           /\ \A q \in Pos : d[q] # c[q] => MayWrite(p, c, pc0, q)
  PROVE  Keeps(p, c, pc0, Goto(d, to))
BY DEF Keeps, Goto, Stays

LEMMA StaysKeeps ==
  ASSUME NEW p \in Player, NEW c \in Core, NEW pc0 \in Addr
  PROVE  /\ Keeps(p, c, pc0, Stays(c, pc0)) /\ Keeps(p, c, pc0, Dead(c, pc0))
         /\ Keeps(p, c, pc0, On(c, Area(p), pc0))
<1>1. Keeps(p, c, pc0, Stays(c, pc0)) /\ Keeps(p, c, pc0, Dead(c, pc0))
  BY DEF Keeps, Stays, Dead
<1>2. Keeps(p, c, pc0, On(c, Area(p), pc0))
  BY NextStays, GotoKeeps DEF On
<1> QED
  BY <1>1, <1>2

LEMMA WriteKeeps ==
  ASSUME NEW p \in Player, NEW c \in Core, NEW pc0 \in Addr, NEW to, NEW x \in Instr,
         InArea(p, pc0) => MayWrite(p, c, pc0, to)
  PROVE  Keeps(p, c, pc0, Write(c, Area(p), pc0, to, x))
<1> DEFINE d == IF to \in DOMAIN c THEN [c EXCEPT ![to] = x] ELSE c
<1>1. d \in Core /\ \A q \in Pos : d[q] # c[q] => q = to
  BY DEF Core
<1>2. Write(c, Area(p), pc0, to, x) = Goto(d, Advance1(Area(p), pc0))
  BY DEF Write, On
<1> HIDE DEF d
<1> QED
  BY <1>1, <1>2, NextStays, GotoKeeps

Calculates == {Op.ADD, Op.SUB, Op.MUL, Op.DIV, Op.MOD}

LEMMA ComputeIs ==
  ASSUME NEW op \in Calculates, NEW x \in Int, NEW y \in Int, Divides(op) => y # 0
  PROVE  Compute(op, x, y) \in Int
<1>1. y # 0 => Quotient(x, y) \in Int
  <2> SUFFICES ASSUME y # 0 PROVE Quotient(x, y) \in Int
    OBVIOUS
  <2> DEFINE m == Abs(x)
             n == Abs(y)
  <2>1. m \in Nat /\ n \in Nat \ {0}
    BY DEF Abs
  <2>2. Quotient(x, y) = IF (x < 0) = (y < 0) THEN m \div n ELSE -(m \div n)
    BY DEF Quotient
  <2> HIDE DEF m, n
  <2>3. m \div n \in Int
    BY <2>1
  <2> QED
    BY <2>2, <2>3
<1>2. CASE op = Op.ADD
  BY <1>2 DEF Compute, Op
<1>3. CASE op = Op.SUB
  BY <1>3 DEF Compute, Op
<1>4. CASE op = Op.MUL
  BY <1>4 DEF Compute, Op
<1>5. CASE op = Op.DIV
  BY <1>1, <1>5 DEF Compute, Op, Divides
<1>6. CASE op = Op.MOD
  <2>1. Quotient(x, y) \in Int
    BY <1>1, <1>6 DEF Divides
  <2>2. Compute(op, x, y) = x - y * Quotient(x, y)
    BY <1>6 DEF Compute, Op
  <2> QED
    BY <2>1, <2>2
<1> QED
  BY <1>2, <1>3, <1>4, <1>5, <1>6 DEF Calculates

LEMMA ComputeInstrIs ==
  ASSUME NEW op \in Calculates, NEW i \in Instr, NEW j \in Instr, Divides(op) => ~HasZero(j)
  PROVE  ComputeInstr(op, i, j) \in Instr
<1>1. Divides(op) => /\ j.opcode # 0 /\ j.a # 0 /\ j.a_mode # 0 /\ j.b # 0 /\ j.b_mode # 0
  <2>1. DOMAIN j = {"opcode", "a", "a_mode", "b", "b_mode"}
    BY DEF Instr
  <2> QED
    BY <2>1 DEF HasZero
<1>2. /\ Compute(op, i.opcode, j.opcode) \in Int
      /\ Compute(op, i.a, j.a) \in Int /\ Compute(op, i.a_mode, j.a_mode) \in Int
      /\ Compute(op, i.b, j.b) \in Int /\ Compute(op, i.b_mode, j.b_mode) \in Int
  BY <1>1, InstrIs, ComputeIs
<1> QED
  BY <1>2, ToFieldIs DEF ComputeInstr, Instr

LEMMA ComputeFieldIs ==
  ASSUME NEW op \in Calculates, NEW i \in Instr, NEW x \in Int, Divides(op) => x # 0
  PROVE  ComputeField(op, i, x) \in Instr
<1>1. Unsigned(i.b) \in Int
  <2>1. i.b \in Int
    BY InstrIs
  <2>2. Unsigned(i.b) \in Addr
    BY <2>1, UnsignedIs
  <2> QED
    BY <2>2, BelowAddr
<1>2. ToField(Compute(op, Unsigned(i.b), x)) \in Field
  BY <1>1, ComputeIs, ToFieldIs
<1> QED
  BY <1>2 DEF ComputeField, Instr


\* An address as an integer, for what is asked of integers.
LEMMA OperandsInt ==
  ASSUME NEW p \in Player, NEW c \in Core, NEW pc0 \in Addr
  PROVE  /\ pc0 \in Int
         /\ OperandA(c, Area(p), pc0) \in Int /\ OperandB(c, Area(p), pc0) \in Int
BY OperandsAre, BelowAddr

LEMMA MoveKeeps ==
  ASSUME NEW p \in Player, NEW c \in Core, NEW pc0 \in Addr, Cell(c, pc0).opcode = Op.MOV
  PROVE  Keeps(p, c, pc0, Move(c, Area(p), pc0))
<1> DEFINE to == Destination(c, Area(p), pc0)
<1>1. InArea(p, pc0) => InArea(p, to) \/ Thrown(p, c, pc0, to)
  BY DestinationIs
<1>2. ASSUME Cell(c, pc0).b_mode \in {Mem, Relative}
      PROVE  Keeps(p, c, pc0, Write(c, Area(p), pc0, to, Ins(c, Area(p), pc0)))
  <2> HIDE DEF to
  <2>1. InArea(p, pc0) => MayWrite(p, c, pc0, to)
    BY <1>1, <1>2 DEF MayWrite, Thrown
  <2> QED
    BY <2>1, WriteKeeps, SourcesAre
<1> QED
  BY <1>2, StaysKeeps DEF Move

LEMMA CalculateKeeps ==
  ASSUME NEW p \in Player, NEW c \in Core, NEW pc0 \in Addr,
         Cell(c, pc0).opcode \in Calculates
  PROVE  Keeps(p, c, pc0, Calculate(c, Area(p), pc0))
<1> DEFINE i   == Cell(c, pc0)
           A   == OperandA(c, Area(p), pc0)
           B   == OperandB(c, Area(p), pc0)
           ins == Ins(c, Area(p), pc0)
           dies == Divides(i.opcode) /\ (IF i.a_mode = Mem THEN HasZero(ins) ELSE A = 0)
           x == IF i.a_mode = Mem THEN ComputeInstr(i.opcode, Cell(c, B), ins)
                ELSE ComputeField(i.opcode, Cell(c, B), A)
           w == Write(c, Area(p), pc0, B, x)
<1>1. Calculate(c, Area(p), pc0) =
        IF ~Legal(i.a_mode) \/ ~Legal(i.b_mode) THEN Dead(c, pc0)
        ELSE IF i.b_mode = Const THEN Stays(c, pc0)
        ELSE IF i.a_mode = Relative THEN Dead(c, pc0)
        ELSE IF dies THEN Dead(c, pc0) ELSE w
  BY Zenon DEF Calculate
<1>2. ASSUME ~dies PROVE x \in Instr
  <2>1. ins \in Instr /\ A \in Int /\ Cell(c, B) \in Instr
    BY SourcesAre, OperandsInt, CellIs
  <2>2. CASE i.a_mode = Mem
    <3>1. ComputeInstr(i.opcode, Cell(c, B), ins) \in Instr
      BY <1>2, <2>1, <2>2, ComputeInstrIs
    <3> QED
      BY <2>2, <3>1
  <2>3. CASE i.a_mode # Mem
    <3>1. ComputeField(i.opcode, Cell(c, B), A) \in Instr
      BY <1>2, <2>1, <2>3, ComputeFieldIs
    <3> QED
      BY <2>3, <3>1
  <2> QED
    BY <2>2, <2>3
<1>3. ASSUME Legal(i.b_mode), i.b_mode # Const, InArea(p, pc0) PROVE MayWrite(p, c, pc0, B)
  BY <1>3, OperandsAre DEF MayWrite, Legal
<1> HIDE DEF x, dies
<1>4. ASSUME ~dies, Legal(i.b_mode), i.b_mode # Const PROVE Keeps(p, c, pc0, w)
  <2> HIDE DEF i, B
  <2> QED
    BY <1>2, <1>3, <1>4, WriteKeeps
<1> HIDE DEF i, w
<1> QED
  BY <1>1, <1>4, StaysKeeps

LEMMA JumpKeeps ==
  ASSUME NEW p \in Player, NEW c \in Core, NEW pc0 \in Addr
  PROVE  Keeps(p, c, pc0, Jump(c, Area(p), pc0))
<1> DEFINE to == Near(Area(p), pc0, OperandA(c, Area(p), pc0))
<1>1. to \in Addr /\ (InArea(p, pc0) => InArea(p, to))
  BY OperandsInt, NearStays
<1>2. Keeps(p, c, pc0, Goto(c, to))
  <2> HIDE DEF to
  <2> QED
    BY <1>1, GotoKeeps
<1> QED
  BY <1>2, StaysKeeps DEF Jump

LEMMA JumpIfKeeps ==
  ASSUME NEW p \in Player, NEW c \in Core, NEW pc0 \in Addr, NEW cond, NEW next \in Addr,
         InArea(p, pc0) => InArea(p, next) \/ Crosses(c, pc0)
  PROVE  Keeps(p, c, pc0, JumpIf(cond, next, c, Area(p), pc0))
<1> DEFINE to == Wrap(Area(p), OperandA(c, Area(p), pc0))
<1>1. to \in Addr /\ InArea(p, to)
  BY OperandsInt, WrapStays
<1>2. Keeps(p, c, pc0, Goto(c, IF cond THEN to ELSE next))
  <2> HIDE DEF to
  <2> QED
    BY <1>1, GotoKeeps
<1> QED
  BY <1>2, StaysKeeps DEF JumpIf

LEMMA DecrementKeeps ==
  ASSUME NEW p \in Player, NEW c \in Core, NEW pc0 \in Addr, Cell(c, pc0).opcode = Op.DJN
  PROVE  Keeps(p, c, pc0, Decrement(c, Area(p), pc0))
<1> DEFINE dec == [c EXCEPT ![pc0].b = ToField(@ - 1)]
           out == Wrap(Area(p), OperandA(c, Area(p), pc0))
           on  == Advance1(Area(p), pc0)
<1>1. pc0 \in Pos
  BY DEF Cell, Core, Zero, Op
<1>2. dec \in Core /\ \A q \in Pos : dec[q] # c[q] => q = pc0
  <2>1. c[pc0] \in Instr /\ c[pc0].b - 1 \in Int
    BY <1>1, InstrIs DEF Core
  <2>2. [c[pc0] EXCEPT !.b = ToField(@ - 1)] \in Instr
    BY <2>1, ToFieldIs DEF Instr
  <2>3. dec = [c EXCEPT ![pc0] = [c[pc0] EXCEPT !.b = ToField(@ - 1)]]
    BY <1>1 DEF Core
  <2> QED
    BY <1>1, <2>2, <2>3 DEF Core
<1>3. /\ out \in Addr /\ InArea(p, out)
      /\ on \in Addr /\ (InArea(p, pc0) => InArea(p, on))
  BY OperandsInt, WrapStays, NextStays
<1>4. \A to \in {out, on} : Keeps(p, c, pc0, Goto(dec, to))
  <2> HIDE DEF dec, out, on
  <2> QED
    BY <1>2, <1>3, GotoKeeps DEF MayWrite
<1>5. \/ Decrement(c, Area(p), pc0) = Dead(c, pc0)
      \/ Decrement(c, Area(p), pc0) = Goto(dec, out)
      \/ Decrement(c, Area(p), pc0) = Goto(dec, on)
  BY DEF Decrement
<1> QED
  BY <1>4, <1>5, StaysKeeps

LEMMA SplitKeeps ==
  ASSUME NEW p \in Player, NEW c \in Core, NEW pc0 \in Addr
  PROVE  Keeps(p, c, pc0, Split(c, Area(p), pc0))
BY OperandsAre, StaysKeeps DEF Split, Keeps, Stays

LEMMA SkipIfKeeps ==
  ASSUME NEW p \in Player, NEW c \in Core, NEW pc0 \in Addr, NEW cond, NEW to \in Addr,
         InArea(p, pc0) => InArea(p, to) \/ Crosses(c, pc0)
  PROVE  Keeps(p, c, pc0, SkipIf(cond, to, c, Area(p), pc0))
BY GotoKeeps, StaysKeeps DEF SkipIf

\* Every instruction: the types are kept, and what starts in the area ends there.
LEMMA ExecuteKeeps ==
  ASSUME NEW p \in Player, NEW c \in Core, NEW pc0 \in Addr
  PROVE  Keeps(p, c, pc0, Execute(c, Area(p), pc0))
<1> DEFINE op == Cell(c, pc0).opcode
           B  == OperandB(c, Area(p), pc0)
           Kept(e) == Keeps(p, c, pc0, e)
           a  == Area(p)
<1>1. op = Op.MOV => Kept(Move(c, a, pc0))
  BY MoveKeeps
<1>2. op \in Calculates => Kept(Calculate(c, a, pc0))
  BY CalculateKeeps
<1>3. Kept(Jump(c, a, pc0)) /\ Kept(Split(c, a, pc0))
  BY JumpKeeps, SplitKeeps
<1>4. op = Op.JMZ => Kept(JumpIf(B = 0, Past(1, pc0), c, a, pc0))
  BY JumpIfKeeps, NextStays DEF Crosses
<1>5. Kept(JumpIf(B # 0, Advance1(a, pc0), c, a, pc0))
  BY JumpIfKeeps, NextStays
<1>6. op = Op.DJN => Kept(Decrement(c, a, pc0))
  BY DecrementKeeps
<1>7. \A cond \in BOOLEAN : Kept(SkipIf(cond, Skip(a, pc0), c, a, pc0))
  BY SkipIfKeeps, NextStays
<1>8. op = Op.SEQ => Kept(SkipIf(Equal(c, a, pc0), Past(2, pc0), c, a, pc0))
  BY SkipIfKeeps, NextStays DEF Crosses
<1>9. /\ Kept(SkipIf(Equal(c, a, pc0), Skip(a, pc0), c, a, pc0))
      /\ Kept(SkipIf(~Equal(c, a, pc0), Skip(a, pc0), c, a, pc0))
  BY SkipIfKeeps, NextStays
<1>10. Kept(SkipIfLess(c, a, pc0))
  <2>1. Kept(SkipIf(Less(c, a, pc0), Skip(a, pc0), c, a, pc0))
    BY SkipIfKeeps, NextStays
  <2> QED
    BY <2>1, StaysKeeps DEF SkipIfLess
<1>11. Kept(Stays(c, pc0)) /\ Kept(Dead(c, pc0)) /\ Kept(On(c, a, pc0))
  BY StaysKeeps
<1> DEFINE e == Execute(c, a, pc0)
<1>12. /\ op = Op.MOV => e = Move(c, a, pc0)
       /\ op \in Calculates => e = Calculate(c, a, pc0)
       /\ op = Op.JMP => e = Jump(c, a, pc0)
       /\ op = Op.JMZ => e = JumpIf(B = 0, Past(1, pc0), c, a, pc0)
       /\ op = Op.JMN => e = JumpIf(B # 0, Advance1(a, pc0), c, a, pc0)
       /\ op = Op.DJN => e = Decrement(c, a, pc0)
       /\ op = Op.SPL => e = Split(c, a, pc0)
       /\ op = Op.CMP => e = SkipIf(Equal(c, a, pc0), Skip(a, pc0), c, a, pc0)
       /\ op = Op.SEQ => e = SkipIf(Equal(c, a, pc0), Past(2, pc0), c, a, pc0)
       /\ op = Op.SNE => e = SkipIf(~Equal(c, a, pc0), Skip(a, pc0), c, a, pc0)
       /\ op = Op.SLT => e = SkipIfLess(c, a, pc0)
       /\ op = Op.NOP => e = On(c, a, pc0)
       /\ op \in {Op.LDP, Op.STP} => e = Stays(c, pc0)
       /\ op \notin Calculates \cup {Op.MOV, Op.JMP, Op.JMZ, Op.JMN, Op.DJN, Op.SPL, Op.CMP, Op.SEQ,
                                  Op.SNE, Op.SLT, Op.LDP, Op.STP, Op.NOP} => e = Dead(c, pc0)
  BY DEF Execute, Calculates, Op
<1> HIDE DEF Kept, B, a, op, e
<1>13. Kept(e)
  BY <1>1, <1>2, <1>3, <1>4, <1>5, <1>6, <1>8, <1>9, <1>10, <1>11, <1>12
<1> QED
  BY <1>13 DEF Kept, e, a

-----------------------------------------------------------------------------
(* The game: the turns of CoreWarTurns with these instructions.            *)

WarTypeOK == core \in Core /\ pc \in [Slot -> Addr]

WarInv == IInv /\ WarTypeOK

LEMMA LargestPlayer ==
  ASSUME NEW S \in SUBSET Player, S # {}
  PROVE  \E p \in S : \A o \in S : o <= p
<1> DEFINE T == {NumPlayers - o : o \in S}
<1>1. T \subseteq Nat /\ T # {}
  BY DEF Player
<1>2. PICK m \in T : \A k \in T : ~(<<k, m>> \in OpToRel(<, Nat))
  <2> HIDE DEF T
  <2> QED
    BY <1>1, NatLessThanWellFounded, WFMin, Zenon
<1>3. \A k \in T : m <= k
  <2>1. \A k \in T : ~(k < m)
    BY <1>1, <1>2 DEF OpToRel
  <2> HIDE DEF T
  <2> QED
    BY <1>1, <2>1
<1>4. PICK p \in S : m = NumPlayers - p
  BY <1>2
<1>5. \A o \in S : NumPlayers - p <= NumPlayers - o
  BY <1>3, <1>4
<1> QED
  BY <1>5 DEF Player

LEMMA StartPosIs ==
  ASSUME NEW p \in Player, NEW offset \in Nat
  PROVE  StartPos(p, offset) \in Addr
<1>1. 0 \in Addr
  BY Widths DEF Addr
<1>2. offset % AreaSize \in Nat
  <2> DEFINE n == AreaSize
  <2>1. n \in Nat \ {0}
    BY AreaIs
  <2> HIDE DEF n
  <2>2. offset % n \in 0 .. n - 1
    BY <2>1, Remainders
  <2> QED
    BY <2>1, <2>2 DEF n
<1>3. Area(p).start + (offset % AreaSize) \in Int
  BY <1>2, AreaIs
<1>4. ASSUME NEW x \in Int PROVE x % CORE_SIZE \in Addr
  <2>1. x % CORE_SIZE \in 0 .. CORE_SIZE - 1
    BY Widths, Remainders
  <2> QED
    BY <2>1, Widths, WarAssumption DEF Addr
<1> QED
  BY <1>1, <1>3, <1>4 DEF StartPos

LEMMA InitWarInv == InitWar => WarInv
<1> SUFFICES ASSUME InitWar PROVE WarInv
  OBVIOUS
<1>1. IInv
  BY InitIInv DEF InitWar
<1>2. PICK load \in Loads, offset \in Offsets :
        LET At(p, q) == q - StartPos(p, offset) + 1
            Covers(p, q) == At(p, q) \in DOMAIN load[p]
            Last(q) == CHOOSE p \in Player : Covers(p, q) /\ \A o \in Player : Covers(o, q) => o <= p
        IN  /\ core = [q \in Pos |-> IF \E p \in Player : Covers(p, q)
                                     THEN load[Last(q)][At(Last(q), q)] ELSE Zero]
            /\ pc = [i \in Slot |-> IF i \in Player THEN StartPos(i, offset) ELSE 0]
  BY Zenon DEF InitWar
<1> DEFINE At(p, q) == q - StartPos(p, offset) + 1
           Covers(p, q) == At(p, q) \in DOMAIN load[p]
           Last(q) == CHOOSE p \in Player : Covers(p, q) /\ \A o \in Player : Covers(o, q) => o <= p
<1>3. load \in [Player -> Seq(Instr)] /\ offset \in Nat
  BY WarAssumption
<1>4. ASSUME NEW q \in Pos PROVE core[q] \in Instr
  <2>1. core[q] = IF \E p \in Player : Covers(p, q) THEN load[Last(q)][At(Last(q), q)] ELSE Zero
    BY <1>2
  <2>2. ASSUME \E p \in Player : Covers(p, q) PROVE load[Last(q)][At(Last(q), q)] \in Instr
    <3> DEFINE S == {p \in Player : Covers(p, q)}
    <3> HIDE DEF Covers
    <3>1. \E p \in Player : Covers(p, q) /\ \A o \in Player : Covers(o, q) => o <= p
      BY <2>2, LargestPlayer, S \in SUBSET Player, S # {}
    <3>2. Last(q) \in Player /\ Covers(Last(q), q)
      BY <3>1, Zenon
    <3> HIDE DEF Last
    <3>3. load[Last(q)] \in Seq(Instr) /\ At(Last(q), q) \in DOMAIN load[Last(q)]
      BY <1>3, <3>2 DEF Covers
    <3> HIDE DEF At
    <3> QED
      BY <3>3
  <2> HIDE DEF Last, At
  <2> QED
    BY <2>1, <2>2, InstrIs
<1>5. core \in Core
  <2>1. core = [q \in Pos |-> core[q]]
    BY <1>2
  <2> QED
    BY <1>4, <2>1 DEF Core
<1>6. pc \in [Slot -> Addr]
  <2>1. 0 \in Addr
    BY Widths DEF Addr
  <2> QED
    BY <1>2, <1>3, <2>1, StartPosIs
<1> QED
  BY <1>1, <1>5, <1>6 DEF WarInv, WarTypeOK

\* The process whose turn it is, and what its instruction yields.
LEMMA ExecutedKeeps ==
  ASSUME WarInv, NEW p \in Player, Plays(p)
  PROVE  /\ Current(p) \in Slot /\ owner[Current(p)] = p /\ p # NULL
         /\ pc[Current(p)] \in Addr
         /\ Keeps(p, core, pc[Current(p)], Executed(p))
<1>1. Current(p) \in Slot /\ owner[Current(p)] = p
  BY CurrentProperties DEF WarInv
<1>2. pc[Current(p)] \in Addr
  BY <1>1 DEF WarInv, WarTypeOK
<1>3. Keeps(p, core, pc[Current(p)], Executed(p))
  BY <1>2, ExecuteKeeps DEF WarInv, WarTypeOK, Executed
<1>4. p # NULL
  BY DEF Player
<1> QED
  BY <1>1, <1>2, <1>3, <1>4

\* Areas are inside the array.
LEMMA InAreaPos == \A p \in Player, x \in Addr : InArea(p, x) => x \in Pos
  BY AreaIs, BelowAddr, Widths DEF InArea, Pos

\* A step of the game is a step of the turns.
LEMMA WarTurns == [NextWar]_warVars => [NextTurn]_turnVars
<1>1. \A p \in Player : /\ (Killed(p) => Dies(p)) /\ (Forked(p) => Forks(p))
                         /\ (Stepped(p) => GoesOn(p)) /\ (Passed(p) => Passes(p))
  BY DEF Killed, Forked, Stepped, Passed
<1>2. CycleEnds => \E last \in BOOLEAN : EndCycle(last)
  BY Zenon DEF CycleEnds
<1>3. Over => GameOver
  BY DEF Over
<1>4. UNCHANGED warVars => UNCHANGED turnVars
  BY DEF warVars, turnVars
<1>5. ASSUME NextWar PROVE NextTurn
  <2>1. CASE \E p \in Player : Killed(p) \/ Forked(p) \/ Stepped(p) \/ Passed(p)
    <3>1. \E p \in Player : GoesOn(p) \/ Dies(p) \/ Forks(p) \/ Passes(p)
      BY <1>1, <2>1
    <3> QED
      BY <3>1, Zenon DEF NextTurn
  <2>2. CASE CycleEnds
    BY <1>2, <2>2, Zenon DEF NextTurn
  <2>3. CASE Over
    BY <1>3, <2>3, Zenon DEF NextTurn
  <2> QED
    BY <1>5, <2>1, <2>2, <2>3, Zenon DEF NextWar
<1> QED
  BY <1>4, <1>5

LEMMA NextWarInv == WarInv /\ [NextWar]_warVars => WarInv'
<1> SUFFICES ASSUME WarInv, [NextWar]_warVars PROVE WarInv'
  OBVIOUS
<1>1. IInv'
  BY WarTurns, NextIInv DEF WarInv
<1>2. ASSUME UNCHANGED <<core, pc>> PROVE WarTypeOK'
  BY <1>2 DEF WarInv, WarTypeOK
<1>3. ASSUME NEW p \in Player, Forked(p) PROVE WarTypeOK'
  <2>1. Plays(p) /\ Fresh \in Slot /\ Executed(p).fork # -1
    BY <1>3, FreshIsFree DEF Forked, Forks, MayFork
  <2>2. /\ Executed(p).core \in Core /\ Executed(p).pc \in Addr /\ Executed(p).fork \in Addr
        /\ Current(p) \in Slot
    BY <2>1, ExecutedKeeps DEF Keeps
  <2> QED
    BY <1>3, <2>1, <2>2 DEF Forked, WarInv, WarTypeOK
<1>4. ASSUME NEW p \in Player, Stepped(p) PROVE WarTypeOK'
  <2>1. Executed(p).core \in Core /\ Executed(p).pc \in Addr /\ Current(p) \in Slot
    BY <1>4, ExecutedKeeps DEF Keeps, Stepped
  <2> QED
    BY <1>4, <2>1 DEF Stepped, WarInv, WarTypeOK
<1>5. WarTypeOK'
  BY <1>2, <1>3, <1>4 DEF NextWar, Killed, Passed, CycleEnds, Over, warVars
<1> QED
  BY <1>1, <1>5 DEF WarInv

THEOREM WarInvariant == SpecWar => []WarInv
  BY InitWarInv, NextWarInv, PTL DEF SpecWar

\* The whole game keeps what its turns keep, whatever the programs do: lists, counts and
\* the result are right with the instructions of cpu.c.
THEOREM GameCorrect == SpecWar => [](TurnsTypeOK /\ ProcIdsSound /\ ResultRight)
<1>1. InitWar => IInv /\ CountRight
  BY InitIInv, InitCountRight DEF InitWar
<1>2. IInv /\ CountRight /\ [NextWar]_warVars => (IInv /\ CountRight)'
  BY WarTurns, NextIInv, NextCountRight
<1>3. IInv /\ CountRight => TurnsTypeOK /\ ProcIdsSound /\ ResultRight
  BY CountResult DEF IInv
<1> QED
  BY <1>1, <1>2, <1>3, PTL DEF SpecWar

\* No instruction stores a value that is too wide for its place in the core, and every
\* program counter is a 32-bit address (cpu.c).
THEOREM WarTypeCorrect == SpecWar => []WarTypeOK
<1>1. WarInv => WarTypeOK
  BY DEF WarInv
<1> QED
  BY <1>1, WarInvariant, PTL

\* What an instruction does to its own process, whether it forks another or not.
LEMMA CurrentStays ==
  ASSUME WarInv, NEW p \in Player, Forked(p) \/ Stepped(p)
  PROVE  LET i == Current(p)
         IN  /\ owner[i] = p /\ owner'[i] = p /\ i \in Slot
             /\ InArea(p, pc[i]) => \/ pc'[i] = pc[i] \/ InArea(p, pc'[i])
                                    \/ core[pc[i]].opcode \in {Op.JMZ, Op.SEQ}
             /\ Forked(p) => InArea(p, pc'[Fresh]) /\ owner'[Fresh] = p
             /\ \A j \in Slot : pc'[j] # pc[j] => j = i \/ (Forked(p) /\ j = Fresh)
<1> DEFINE i == Current(p)
           e == Executed(p)
<1>1. Plays(p)
  BY DEF Forked, Stepped
<1>2. /\ i \in Slot /\ owner[i] = p /\ p # NULL /\ pc[i] \in Addr
      /\ Keeps(p, core, pc[i], e)
  BY <1>1, ExecutedKeeps
<1>3. pc \in [Slot -> Addr] /\ owner \in [Slot -> Player \cup {NULL}]
  BY DEF WarInv, WarTypeOK, IInv, TurnsTypeOK
<1>4. InArea(p, pc[i]) => Cell(core, pc[i]) = core[pc[i]]
  BY <1>2, InAreaPos DEF WarInv, WarTypeOK, Core, Cell
<1>5. ASSUME Forked(p)
      PROVE  /\ Fresh \in Slot /\ Fresh # i /\ InArea(p, e.fork)
             /\ pc' = [pc EXCEPT ![i] = e.pc, ![Fresh] = e.fork]
             /\ owner' = [owner EXCEPT ![Fresh] = p]
  BY <1>2, <1>5, FreshIsFree DEF Forked, Forks, MayFork
<1>6. ASSUME Stepped(p) PROVE pc' = [pc EXCEPT ![i] = e.pc] /\ owner' = owner
  BY <1>6 DEF Stepped, GoesOn
<1> HIDE DEF i, e
<1>7. /\ owner'[i] = p /\ pc'[i] = e.pc
      /\ Forked(p) => InArea(p, pc'[Fresh]) /\ owner'[Fresh] = p
      /\ \A j \in Slot : pc'[j] # pc[j] => j = i \/ (Forked(p) /\ j = Fresh)
  BY <1>2, <1>3, <1>5, <1>6
<1> QED
  BY <1>2, <1>4, <1>7 DEF Keeps, Crosses, i

\* A process never leaves its player's area, and no fork starts outside of it, but for
\* the failed JMZ and the SEQ that the comments of cpu.c mark.
THEOREM StaysInAreaCorrect == SpecWar => StaysInArea
<1> DEFINE Stay ==
             \A i \in Slot :
               LET p == owner'[i]
               IN  p # NULL /\ pc'[i] # pc[i] /\ ~InArea(p, pc'[i])
                     => owner[i] = p /\ \/ ~InArea(p, pc[i])
                                        \/ core[pc[i]].opcode \in {Op.JMZ, Op.SEQ}
<1>1. ASSUME WarInv, NextWar PROVE Stay
  <2> SUFFICES ASSUME NEW i \in Slot, pc'[i] # pc[i], ~InArea(owner'[i], pc'[i])
               PROVE  /\ owner[i] = owner'[i]
                      /\ \/ ~InArea(owner'[i], pc[i])
                         \/ core[pc[i]].opcode \in {Op.JMZ, Op.SEQ}
    OBVIOUS
  <2>1. PICK p \in Player : Forked(p) \/ Stepped(p)
    BY <1>1 DEF NextWar, Killed, Passed, CycleEnds, Over
  <2>2. i = Current(p)
    BY <1>1, <2>1, CurrentStays
  <2> QED
    BY <1>1, <2>1, <2>2, CurrentStays
<1>2. WarInv /\ [NextWar]_warVars => [Stay]_warVars
  BY <1>1
<1> QED
  BY <1>2, WarInvariant, PTL DEF SpecWar, StaysInArea

\* What InMargin lets through is up to Margin positions past the end, the end included.
LEMMA MarginIs ==
  ASSUME NEW p \in Player, NEW q \in Pos, InMargin(Area(p), q), ~InArea(p, q)
  PROVE  Area(p).end <= q /\ q <= Area(p).end + Margin
<1> DEFINE m == 2 ^ AddrBits
           end == Area(p).end
           start == Area(p).start
<1>1. /\ m \in Nat /\ CORE_SIZE + Margin + Behind < m
      /\ Margin \in Nat /\ CORE_SIZE \in Nat /\ Behind \in Nat \ {0}
  BY Widths, WarAssumption
<1>2. end \in Nat /\ end <= CORE_SIZE /\ start \in Nat
  BY AreaIs
<1>3. q \in Nat /\ q < CORE_SIZE + Margin + Behind
  BY <1>1 DEF Pos
<1>4. (q - end) % m <= Margin
  BY DEF InMargin, Unsigned
<1>5. ~(start <= q /\ q < end)
  BY DEF InArea
<1> HIDE DEF m, end, start
<1>6. CASE q < end
  <2>1. (q - end) % m = q - end + m
    BY <1>1, <1>2, <1>3, <1>6
  <2>2. q - end + m <= Margin
    BY <1>4, <2>1
  <2>3. ~(q - end + m <= Margin)
    BY <1>1, <1>2, <1>3
  <2> QED
    BY <2>2, <2>3
<1>7. CASE end <= q
  <2>1. (q - end) % m = q - end
    BY <1>1, <1>2, <1>3, <1>7
  <2>2. q <= end + Margin
    BY <1>1, <1>2, <1>3, <1>4, <2>1
  <2> QED
    BY <1>7, <2>2 DEF end
<1> QED
  BY <1>2, <1>3, <1>6, <1>7

\* What a process writes lies in its player's area, or is a MOV's: at most ten past the
\* end, as the comment at cpu.c:120 says, and the eleventh that the guard lets through.
THEOREM WritesNearAreaCorrect == SpecWar => WritesNearArea
<1> DEFINE Near1 ==
             core' # core => \A p \in Player :
               Plays(p) /\ InArea(p, pc[Current(p)]) =>
                 LET i == core[pc[Current(p)]]
                     eleventh == Area(p).end + Margin
                 IN \A q \in Pos : core'[q] # core[q] =>
                      \/ InArea(p, q)
                      \/ i.opcode = Op.MOV /\ Area(p).end <= q /\ q < eleventh
                      \/ /\ i.opcode = Op.MOV /\ q = eleventh
                         /\ q \in Array \/ (q = CORE_SIZE + Margin /\ i.b_mode = Relative)
<1>1. ASSUME WarInv, NextWar PROVE Near1
  <2> SUFFICES ASSUME core' # core, NEW p \in Player, Plays(p), InArea(p, pc[Current(p)]),
                      NEW q \in Pos, core'[q] # core[q], ~InArea(p, q)
               PROVE  LET i == core[pc[Current(p)]]
                          eleventh == Area(p).end + Margin
                      IN  \/ i.opcode = Op.MOV /\ Area(p).end <= q /\ q < eleventh
                          \/ /\ i.opcode = Op.MOV /\ q = eleventh
                             /\ q \in Array \/ (q = CORE_SIZE + Margin /\ i.b_mode = Relative)
    OBVIOUS
  <2> DEFINE i == core[pc[Current(p)]]
             end == Area(p).end
  <2>1. PICK o \in Player : Forked(o) \/ Stepped(o)
    BY <1>1 DEF NextWar, Killed, Passed, CycleEnds, Over
  <2>2. o = p /\ core' = Executed(p).core
    BY <2>1 DEF Forked, Stepped, Plays
  <2>3. pc[Current(p)] \in Addr /\ Keeps(p, core, pc[Current(p)], Executed(p))
    BY <1>1, ExecutedKeeps
  <2>4. Cell(core, pc[Current(p)]) = i
    BY <1>1, <2>3, InAreaPos DEF WarInv, WarTypeOK, Core, Cell
  <2>5. MayWrite(p, core, pc[Current(p)], q)
    BY <2>2, <2>3 DEF Keeps
  <2>6. /\ i.opcode = Op.MOV /\ InMargin(Area(p), q)
        /\ q < CORE_SIZE \/ i.b_mode = Relative
    BY <2>4, <2>5 DEF MayWrite
  <2>7. end <= q /\ q <= end + Margin
    BY <2>6, MarginIs
  <2>8. /\ end \in Nat /\ end <= CORE_SIZE /\ q \in Nat
        /\ CORE_SIZE \in Nat /\ Margin \in Nat /\ Behind \in Nat
    BY AreaIs, Widths DEF Pos
  <2> HIDE DEF i, end
  <2>9. q \in Array \/ (q = CORE_SIZE + Margin /\ i.b_mode = Relative)
    BY <2>6, <2>7, <2>8 DEF Array
  <2> QED
    BY <2>6, <2>7, <2>8, <2>9 DEF i, end
<1>2. WarInv /\ [NextWar]_warVars => [Near1]_warVars
  BY <1>1
<1> QED
  BY <1>2, WarInvariant, PTL DEF SpecWar, WritesNearArea
=============================================================================
