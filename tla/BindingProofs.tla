---------------------------- MODULE BindingProofs ----------------------------
(***************************************************************************)
(* Proofs about what surrounds the engine in a process.  FfiBoundary: the  *)
(* memory that crosses the C binding, and what a conversion that panics    *)
(* costs, for any devices, variables of the caller and number of calls.    *)
(* LibraryLog: who waits for whom, and how often the message is logged,    *)
(* for any number of threads and calls.                                    *)
(***************************************************************************)
EXTENDS FfiBoundary, LibraryLog, SequenceTheorems, FiniteSetTheorems,
        WellFoundedInduction, TLAPS

-----------------------------------------------------------------------------
(* Induction over the natural numbers, on a set: the theorems of module    *)
(* NaturalsInduction are about an operator.                                *)

LEMMA LeastNumber ==
  ASSUME NEW T \in SUBSET Nat, T # {}
  PROVE  \E m \in T : \A n \in T : m <= n
<1> DEFINE R == OpToRel(<, Nat)
<1>1. IsWellFoundedOn(R, Nat)
  BY NatLessThanWellFounded
<1>2. \A n, m \in Nat : n < m => <<n, m>> \in R
  BY DEF OpToRel
<1> HIDE DEF R
<1>3. PICK m \in T : \A n \in T : <<n, m>> \notin R
  BY <1>1, WFMin
<1>4. \A n \in T : n \in Nat /\ m \in Nat /\ ~(n < m)
  BY <1>2, <1>3
<1> QED
  BY <1>4

LEMMA SetInduction ==
  ASSUME NEW T, 0 \in T, \A n \in Nat : n \in T => n + 1 \in T
  PROVE  \A n \in Nat : n \in T
<1> SUFFICES ASSUME Nat \ T # {} PROVE FALSE
  OBVIOUS
<1>1. PICK m \in Nat \ T : \A n \in Nat \ T : m <= n
  BY LeastNumber
<1>2. m # 0 /\ m - 1 \in Nat
  BY <1>1
<1>3. m - 1 \in T
  BY <1>1, <1>2
<1> QED
  BY <1>1, <1>2, <1>3

(* What FlattenSeq makes of sequences over a set is a sequence over it.    *)
LEMMA FlattenType ==
  ASSUME NEW T, NEW s \in Seq(Seq(T))
  PROVE  FlattenSeq(s) \in Seq(T)
<1> DEFINE N == Len(s)
           Step(f, i) == IF i = 1 THEN s[i] ELSE f[i - 1] \o s[i]
           Flat(f) == f = [i \in 1 .. N |-> Step(f, i)]
<1>1. N \in Nat /\ \A i \in 1 .. N : s[i] \in Seq(T)
  BY ElementOfSeq, LenProperties
<1>2. CASE N = 0
  <2>1. s = <<>>
    BY <1>2, EmptySeq
  <2> QED
    BY <1>2, <2>1 DEF FlattenSeq
<1>3. CASE N # 0
  <2> DEFINE Upto(n) == \E g : \A i \in 1 .. n : g[i] = Step(g, i)
             Good == {n \in Nat : Upto(n)}
  <2>1. 0 \in Good
    OBVIOUS
  <2>2. ASSUME NEW n \in Nat, n \in Good PROVE n + 1 \in Good
    <3>1. PICK g : \A i \in 1 .. n : g[i] = Step(g, i)
      BY <2>2
    <3> DEFINE h == [i \in 1 .. n + 1 |-> Step(g, i)]
    <3> HIDE DEF Step
    <3>2. \A i \in 1 .. n + 1 : h[i] = Step(g, i)
      OBVIOUS
    <3> HIDE DEF h
    <3>3. \A i \in 1 .. n + 1 : i # 1 => i - 1 \in 1 .. n
      OBVIOUS
    <3>4. \A i \in 1 .. n : h[i] = g[i]
      BY <3>1, <3>2
    <3>5. \A i \in 1 .. n + 1 : h[i] = Step(h, i)
      BY <3>2, <3>3, <3>4 DEF Step
    <3>6. Upto(n + 1)
      BY <3>5
    <3> QED
      BY <3>6
  <2> HIDE DEF Good
  <2>3. N \in Good
    BY <1>1, <2>1, <2>2, SetInduction
  <2> USE DEF Good
  <2>4. PICK g : \A i \in 1 .. N : g[i] = Step(g, i)
    BY <2>3
  <2> DEFINE k == [i \in 1 .. N |-> g[i]]
  <2>5. \A i \in 1 .. N : k[i] = g[i] /\ (i # 1 => k[i - 1] = g[i - 1])
    BY <1>1
  <2>6. \A i \in 1 .. N : Step(k, i) = g[i]
    BY <2>4, <2>5
  <2>7. Flat(k)
    BY <2>6
  <2> DEFINE f == CHOOSE f : Flat(f)
  <2>8. Flat(f)
    BY <2>7
  <2>9. FlattenSeq(s) = f[N]
    BY <1>3 DEF FlattenSeq
  <2> HIDE DEF f
  <2> DEFINE Typed == {n \in Nat : n \in 1 .. N => f[n] \in Seq(T)}
  <2>10. 0 \in Typed
    OBVIOUS
  <2>11. ASSUME NEW n \in Nat, n \in Typed PROVE n + 1 \in Typed
    <3> SUFFICES ASSUME n + 1 \in 1 .. N PROVE f[n + 1] \in Seq(T)
      OBVIOUS
    <3>1. f[n + 1] = Step(f, n + 1)
      BY <2>8
    <3>2. CASE n = 0
      BY <1>1, <3>1, <3>2
    <3>3. CASE n # 0
      <4>1. f[n] \in Seq(T)
        BY <2>11, <3>3
      <4>2. f[n + 1] = f[n] \o s[n + 1]
        <5> DEFINE m == n + 1
        <5>1. m # 1 /\ m - 1 = n
          BY <3>3
        <5>2. f[m] = IF m = 1 THEN s[m] ELSE f[m - 1] \o s[m]
          BY <3>1
        <5> HIDE DEF m
        <5>3. f[m] = f[n] \o s[m]
          BY <5>1, <5>2, Zenon
        <5> QED
          BY <5>3 DEF m
      <4>3. s[n + 1] \in Seq(T)
        BY <1>1
      <4>4. f[n] \o s[n + 1] \in Seq(T)
        BY <4>1, <4>3, ConcatProperties
      <4> QED
        BY <4>2, <4>4
    <3> QED
      BY <3>2, <3>3
  <2> HIDE DEF Typed
  <2>12. N \in Typed
    BY <1>1, <2>10, <2>11, SetInduction
  <2> USE DEF Typed
  <2> QED
    BY <1>1, <1>3, <2>9, <2>12
<1> QED
  BY <1>2, <1>3
-----------------------------------------------------------------------------
(* Memory: every block was allocated by a call that has been made, for the *)
(* place that leads to it; the blocks of the next call are new therefore.  *)

Owned == UNION {BlocksOf(held[h]) : h \in Holder}

MemoryTypes ==
  /\ calls \in Nat
  /\ \A b \in heap : b[1] \in 1 .. calls
  /\ DOMAIN held = Holder /\ held = [h \in Holder |-> held[h]]
  /\ \A h \in Holder : held[h] = [p \in DOMAIN held[h] |-> held[h][p]]
  /\ \A h \in Holder : \A p \in DOMAIN held[h] : held[h][p][1] \in 1 .. calls

MemoryInv == MemoryTypes /\ PointersLive /\ heap \ Owned = lost

LEMMA MemoryInvInit == Init => MemoryInv
<1> SUFFICES ASSUME Init PROVE MemoryInv
  OBVIOUS
<1>1. \A h \in Holder : held[h] = <<>> /\ DOMAIN held[h] = {}
  BY DEF Init
<1>2. MemoryTypes
  BY <1>1 DEF Init, MemoryTypes
<1>3. PointersLive
  BY <1>1 DEF PointersLive, BlocksOf
<1>4. heap \ Owned = lost
  BY DEF Init
<1> QED
  BY <1>2, <1>3, <1>4 DEF MemoryInv

(* Variable h, which owned nothing, gets blocks of this call.              *)
LEMMA HandedOver ==
  ASSUME MemoryInv, NEW h \in Holder, NEW P, held[h] = <<>>,
         calls' = calls + 1, lost' = lost,
         held' = [held EXCEPT ![h] = Fresh(P)],
         heap' = heap \cup BlocksOf(Fresh(P))
  PROVE  MemoryInv'
<1> DEFINE new == Fresh(P)
<1>1. /\ new = [p \in DOMAIN new |-> new[p]]
      /\ \A p \in DOMAIN new : new[p] = <<calls + 1, p>> /\ new[p][1] = calls + 1
  BY DEF Fresh
<1>2. /\ DOMAIN held' = Holder /\ held'[h] = new
      /\ \A k \in Holder \ {h} : held'[k] = held[k]
  BY DEF MemoryInv, MemoryTypes
<1>3. BlocksOf(held[h]) = {}
  BY DEF BlocksOf
<1> HIDE DEF new
<1>4. \A b \in BlocksOf(new) : b[1] = calls + 1
  BY <1>1 DEF BlocksOf
<1>5. calls \in Nat /\ \A b \in heap : b[1] \in 1 .. calls /\ b[1] # calls + 1
  BY DEF MemoryInv, MemoryTypes
<1>6. MemoryTypes'
  <2>1. \A b \in heap' : b[1] \in 1 .. calls'
    BY <1>4, <1>5 DEF new
  <2>2. held' = [k \in Holder |-> held'[k]]
    BY <1>2 DEF MemoryInv, MemoryTypes
  <2>3. ASSUME NEW k \in Holder
        PROVE  /\ held'[k] = [p \in DOMAIN held'[k] |-> held'[k][p]]
               /\ \A p \in DOMAIN held'[k] : held'[k][p][1] \in 1 .. calls'
    <3>1. CASE k = h
      BY <1>1, <1>2, <1>5, <3>1
    <3>2. CASE k # h
      BY <1>2, <1>5, <3>2 DEF MemoryInv, MemoryTypes
    <3> QED
      BY <3>1, <3>2
  <2>4. calls' \in Nat
    BY <1>5
  <2> QED
    BY <1>2, <2>1, <2>2, <2>3, <2>4, Zenon DEF MemoryTypes
<1>7. \A k \in Holder \ {h} : \A p \in DOMAIN held[k] : held[k][p] \in heap
  BY DEF MemoryInv, PointersLive, BlocksOf
<1>8. PointersLive'
  <2>1. \A k \in Holder : BlocksOf(held'[k]) \subseteq heap'
    BY <1>2 DEF MemoryInv, PointersLive, new
  <2>2. ASSUME NEW j \in Holder, NEW k \in Holder,
               NEW p \in DOMAIN held'[j], NEW q \in DOMAIN held'[k],
               held'[j][p] = held'[k][q]
        PROVE  j = k /\ p = q
    <3>1. CASE j = h /\ k = h
      BY <1>1, <1>2, <2>2, <3>1
    <3>2. CASE j = h /\ k # h
      BY <1>1, <1>2, <1>5, <1>7, <2>2, <3>2
    <3>3. CASE j # h /\ k = h
      BY <1>1, <1>2, <1>5, <1>7, <2>2, <3>3
    <3>4. CASE j # h /\ k # h
      BY <1>2, <2>2, <3>4 DEF MemoryInv, PointersLive
    <3> QED
      BY <3>1, <3>2, <3>3, <3>4
  <2> QED
    BY <2>1, <2>2 DEF PointersLive, BlocksOf
<1>9. (heap \ Owned = lost)'
  <2>1. Owned' = Owned \cup BlocksOf(new)
    <3>1. \A b : b \in Owned' <=> \E k \in Holder : b \in BlocksOf(held'[k])
      BY DEF Owned, BlocksOf, Holder
    <3>2. \A b : b \in Owned <=> \E k \in Holder : b \in BlocksOf(held[k])
      BY DEF Owned
    <3> QED
      BY <1>2, <1>3, <3>1, <3>2
  <2>2. heap \cap BlocksOf(new) = {}
    BY <1>4, <1>5
  <2>3. heap \ Owned = lost
    BY DEF MemoryInv
  <2> QED
    BY <2>1, <2>2, <2>3 DEF new
<1> QED
  BY <1>6, <1>8, <1>9 DEF MemoryInv
(* A conversion panicked: what it had made belongs to nobody.              *)
LEMMA LeftBehind ==
  ASSUME MemoryInv, NEW P,
         calls' = calls + 1, held' = held,
         heap' = heap \cup BlocksOf(Fresh(P)), lost' = lost \cup BlocksOf(Fresh(P))
  PROVE  MemoryInv'
<1> DEFINE B == BlocksOf(Fresh(P))
<1>1. \A b \in B : b[1] = calls + 1
  BY DEF BlocksOf, Fresh
<1> HIDE DEF B
<1>2. calls \in Nat /\ \A b \in heap : b[1] \in 1 .. calls /\ b[1] # calls + 1
  BY DEF MemoryInv, MemoryTypes
<1>3. MemoryTypes'
  <2>1. calls' \in Nat /\ \A b \in heap' : b[1] \in 1 .. calls'
    BY <1>1, <1>2 DEF B
  <2>2. \A h \in Holder : \A p \in DOMAIN held[h] : held[h][p][1] \in 1 .. calls'
    BY <1>2 DEF MemoryInv, MemoryTypes
  <2> QED
    BY <2>1, <2>2 DEF MemoryInv, MemoryTypes
<1>4. PointersLive'
  BY DEF MemoryInv, PointersLive, BlocksOf
<1>5. (heap \ Owned = lost)'
  <2>1. Owned' = Owned
    BY DEF Owned, BlocksOf
  <2>2. Owned \subseteq heap
    BY DEF MemoryInv, PointersLive, Owned
  <2>3. heap \cap B = {}
    BY <1>1, <1>2
  <2> QED
    BY <2>1, <2>2, <2>3 DEF MemoryInv, B
<1> QED
  BY <1>3, <1>4, <1>5 DEF MemoryInv

(* What is freed was reached by one pointer, which is gone.                *)
LEMMA ReleaseKeeps ==
  ASSUME MemoryInv, NEW h \in Holder, NEW P \in SUBSET DOMAIN held[h], Release(h, P)
  PROVE  MemoryInv'
<1> DEFINE freed == {held[h][p] : p \in P}
           left  == [p \in DOMAIN held[h] \ P |-> held[h][p]]
<1>1. /\ heap' = heap \ freed /\ calls' = calls /\ lost' = lost
      /\ held' = [held EXCEPT ![h] = left]
  BY DEF Release
<1>2. /\ DOMAIN held' = Holder /\ held'[h] = left
      /\ \A k \in Holder \ {h} : held'[k] = held[k]
  BY <1>1 DEF MemoryInv, MemoryTypes
<1>3. /\ left = [p \in DOMAIN left |-> left[p]]
      /\ DOMAIN left = DOMAIN held[h] \ P
      /\ \A p \in DOMAIN left : left[p] = held[h][p]
  OBVIOUS
<1> HIDE DEF left
<1>4. \A k \in Holder : /\ DOMAIN held'[k] \subseteq DOMAIN held[k]
                        /\ \A p \in DOMAIN held'[k] : held'[k][p] = held[k][p]
  BY <1>2, <1>3
<1>5. \A k \in Holder : \A p \in DOMAIN held'[k] : held'[k][p] \notin freed
  <2> SUFFICES ASSUME NEW k \in Holder, NEW p \in DOMAIN held'[k], NEW q \in P,
                      held[k][p] = held[h][q]
               PROVE  FALSE
    BY <1>4
  <2>1. k = h /\ p = q
    BY <1>4 DEF MemoryInv, PointersLive
  <2> QED
    BY <1>2, <1>3, <2>1
<1>6. MemoryTypes'
  <2>1. calls' \in Nat /\ \A b \in heap' : b[1] \in 1 .. calls'
    BY <1>1 DEF MemoryInv, MemoryTypes
  <2>2. held' = [k \in Holder |-> held'[k]]
    BY <1>1, <1>2 DEF MemoryInv, MemoryTypes
  <2>3. \A k \in Holder : held'[k] = [p \in DOMAIN held'[k] |-> held'[k][p]]
    BY <1>2, <1>3 DEF MemoryInv, MemoryTypes
  <2>4. ASSUME NEW k \in Holder, NEW p \in DOMAIN held'[k]
        PROVE  held'[k][p][1] \in 1 .. calls'
    <3>1. p \in DOMAIN held[k] /\ held'[k][p] = held[k][p]
      BY <1>4
    <3> QED
      BY <1>1, <3>1 DEF MemoryInv, MemoryTypes
  <2> QED
    BY <1>2, <2>1, <2>2, <2>3, <2>4, Zenon DEF MemoryTypes
<1>7. PointersLive'
  <2>1. \A k \in Holder : BlocksOf(held'[k]) \subseteq heap'
    BY <1>1, <1>4, <1>5 DEF MemoryInv, PointersLive, BlocksOf
  <2>2. \A j, k \in Holder : \A p \in DOMAIN held'[j], q \in DOMAIN held'[k] :
          held'[j][p] = held'[k][q] => j = k /\ p = q
    BY <1>4 DEF MemoryInv, PointersLive
  <2> QED
    BY <2>1, <2>2 DEF PointersLive, BlocksOf
<1>8. (heap \ Owned = lost)'
  <2>1. ASSUME NEW b PROVE b \in Owned' <=> b \in Owned \ freed
    <3>1. b \in Owned' <=> \E k \in Holder : \E p \in DOMAIN held'[k] : b = held'[k][p]
      BY DEF Owned, BlocksOf
    <3>2. b \in Owned <=> \E k \in Holder : \E p \in DOMAIN held[k] : b = held[k][p]
      BY DEF Owned, BlocksOf
    <3>3. ASSUME NEW k \in Holder, NEW p \in DOMAIN held[k], b = held[k][p], b \notin freed
          PROVE  p \in DOMAIN held'[k] /\ b = held'[k][p]
      BY <1>2, <1>3, <3>3
    <3> QED
      BY <1>4, <1>5, <3>1, <3>2, <3>3
  <2>2. freed \subseteq Owned
    BY DEF Owned, BlocksOf
  <2>3. Owned \subseteq heap
    BY DEF MemoryInv, PointersLive, Owned
  <2> QED
    BY <1>1, <2>1, <2>2, <2>3 DEF MemoryInv
<1> QED
  BY <1>6, <1>7, <1>8 DEF MemoryInv

(* A field is set: the block it had is freed for a new one.                *)
LEMMA SetFieldKeeps ==
  ASSUME MemoryInv, NEW h \in Holder, NEW p, SetField(h, p)
  PROVE  MemoryInv'
<1> DEFINE new   == <<calls + 1, p>>
           old   == held[h]
           after == [q \in DOMAIN old \cup {p} |-> IF q = p THEN new ELSE old[q]]
           freed == IF p \in DOMAIN old THEN {old[p]} ELSE {}
<1>1. /\ heap' = (heap \ freed) \cup {new} /\ calls' = calls + 1 /\ lost' = lost
      /\ held' = [held EXCEPT ![h] = after]
  BY DEF SetField
<1>2. /\ DOMAIN held' = Holder /\ held'[h] = after
      /\ \A k \in Holder \ {h} : held'[k] = held[k]
  BY <1>1 DEF MemoryInv, MemoryTypes
<1>3. /\ after = [q \in DOMAIN after |-> after[q]]
      /\ DOMAIN after = DOMAIN old \cup {p}
      /\ after[p] = new /\ \A q \in DOMAIN old \ {p} : after[q] = old[q]
  OBVIOUS
<1> HIDE DEF after
<1>4. /\ calls \in Nat /\ new[1] = calls + 1 /\ new \notin heap
      /\ \A k \in Holder : \A q \in DOMAIN held[k] : held[k][q] \in heap
  BY DEF MemoryInv, MemoryTypes, PointersLive, BlocksOf
<1> HIDE DEF new
<1>5. /\ held'[h][p] = new
      /\ \A k \in Holder : \A q \in DOMAIN held'[k] : k # h \/ q # p =>
           q \in DOMAIN held[k] /\ held'[k][q] = held[k][q]
      /\ \A k \in Holder : \A q \in DOMAIN held[k] : k # h \/ q # p =>
           q \in DOMAIN held'[k]
  BY <1>2, <1>3
<1>6. \A k \in Holder : \A q \in DOMAIN held[k] :
        held[k][q] \in freed <=> k = h /\ q = p
  BY DEF MemoryInv, PointersLive
<1>7. MemoryTypes'
  <2>1. calls' \in Nat /\ \A b \in heap' : b[1] \in 1 .. calls'
    BY <1>1, <1>4 DEF MemoryInv, MemoryTypes
  <2>2. held' = [k \in Holder |-> held'[k]]
    BY <1>1, <1>2 DEF MemoryInv, MemoryTypes
  <2>3. \A k \in Holder : held'[k] = [q \in DOMAIN held'[k] |-> held'[k][q]]
    BY <1>2, <1>3 DEF MemoryInv, MemoryTypes
  <2>4. ASSUME NEW k \in Holder, NEW q \in DOMAIN held'[k]
        PROVE  held'[k][q][1] \in 1 .. calls'
    <3>1. CASE k = h /\ q = p
      BY <1>1, <1>4, <1>5, <3>1
    <3>2. CASE k # h \/ q # p
      <4>1. q \in DOMAIN held[k] /\ held'[k][q] = held[k][q]
        BY <1>5, <3>2
      <4>2. held[k][q][1] \in 1 .. calls
        BY <4>1 DEF MemoryInv, MemoryTypes
      <4> QED
        BY <1>1, <1>4, <4>1, <4>2
    <3> QED
      BY <3>1, <3>2
  <2> QED
    BY <1>2, <2>1, <2>2, <2>3, <2>4, Zenon DEF MemoryTypes
<1>8. PointersLive'
  <2>1. ASSUME NEW k \in Holder, NEW q \in DOMAIN held'[k] PROVE held'[k][q] \in heap'
    BY <1>1, <1>4, <1>5, <1>6
  <2>2. ASSUME NEW j \in Holder, NEW k \in Holder,
               NEW q \in DOMAIN held'[j], NEW r \in DOMAIN held'[k],
               held'[j][q] = held'[k][r]
        PROVE  j = k /\ q = r
    <3>1. CASE j = h /\ q = p
      BY <1>4, <1>5, <2>2, <3>1
    <3>2. CASE k = h /\ r = p
      BY <1>4, <1>5, <2>2, <3>2
    <3>3. CASE (j # h \/ q # p) /\ (k # h \/ r # p)
      BY <1>5, <2>2, <3>3 DEF MemoryInv, PointersLive
    <3> QED
      BY <3>1, <3>2, <3>3
  <2>3. \A k \in Holder : BlocksOf(held'[k]) \subseteq heap'
    BY <2>1 DEF BlocksOf
  <2> QED
    BY <2>2, <2>3 DEF PointersLive, BlocksOf
<1>9. (heap \ Owned = lost)'
  <2>1. ASSUME NEW b PROVE b \in Owned' <=> b \in (Owned \ freed) \cup {new}
    <3>1. b \in Owned' <=> \E k \in Holder : \E q \in DOMAIN held'[k] : b = held'[k][q]
      BY DEF Owned, BlocksOf
    <3>2. b \in Owned <=> \E k \in Holder : \E q \in DOMAIN held[k] : b = held[k][q]
      BY DEF Owned, BlocksOf
    <3>3. p \in DOMAIN held'[h]
      BY <1>2, <1>3
    <3>4. b \in Owned' => b \in (Owned \ freed) \cup {new}
      BY <1>5, <1>6, <3>1, <3>2
    <3>5. b \in (Owned \ freed) \cup {new} => b \in Owned'
      BY <1>5, <1>6, <3>1, <3>2, <3>3
    <3> QED
      BY <3>4, <3>5
  <2>2. freed \subseteq Owned
    BY DEF Owned, BlocksOf
  <2>3. Owned \subseteq heap
    BY DEF MemoryInv, PointersLive, Owned
  <2> QED
    BY <1>1, <1>4, <2>1, <2>2, <2>3 DEF MemoryInv
<1> QED
  BY <1>7, <1>8, <1>9 DEF MemoryInv
LEMMA MemoryUntouched ==
  ASSUME MemoryInv, UNCHANGED <<calls, heap, held, lost>>
  PROVE  MemoryInv'
BY DEF MemoryInv, MemoryTypes, PointersLive, Owned, BlocksOf

(* actions_to_c and get_registry, whether they panic or not.               *)
LEMMA ConvertKeeps ==
  ASSUME MemoryInv, NEW h \in Holder, held[h] = <<>>,
         NEW fields, NEW array, NEW kind, Convert(h, fields, array, kind)
  PROVE  MemoryInv'
<1>1. CASE Panics(fields)
  BY <1>1, LeftBehind DEF Convert
<1>2. CASE ~Panics(fields)
  BY <1>2, HandedOver DEF Convert
<1> QED
  BY <1>1, <1>2

LEMMA HandOutKeeps ==
  ASSUME MemoryInv, NEW l \in List, Callable(l), NEW acts, NEW kind, HandOut(l, acts, kind)
  PROVE  MemoryInv'
<1>1. l \in Holder /\ held[l] = <<>>
  BY DEF Holder, Callable
<1> QED
  BY <1>1, ConvertKeeps DEF HandOut

(* The calls that reach the engine.                                        *)
LEMMA EngineCallKeeps ==
  ASSUME MemoryInv, EngineCall
  PROVE  MemoryInv'
<1>1. PICK l \in List :
        \/ \E d \in Device :
             \/ ProcessRegister(l, d) \/ ProcessDeferred(l, d) \/ ProcessOther(l, d)
             \/ ApproveRegistration(l, d) \/ DenyRegistration(l, d) \/ DropDevice(l, d)
        \/ \E m \in Makers, target \in Nameable :
             \E nulls, bad \in Arguments(m) : Make(m, l, target, nulls, bad)
  BY DEF EngineCall
<1>2. ASSUME NEW d \in Device, ProcessRegister(l, d) PROVE MemoryInv'
  BY <1>2, HandOutKeeps DEF ProcessRegister
<1>3. ASSUME NEW d \in Device, ProcessDeferred(l, d) PROVE MemoryInv'
  BY <1>3, HandOutKeeps DEF ProcessDeferred
<1>4. ASSUME NEW d \in Device, ProcessOther(l, d) PROVE MemoryInv'
  BY <1>4, HandOutKeeps DEF ProcessOther
<1>5. ASSUME NEW d \in Device, ApproveRegistration(l, d) PROVE MemoryInv'
  BY <1>5, HandOutKeeps DEF ApproveRegistration
<1>6. ASSUME NEW d \in Device, DenyRegistration(l, d) PROVE MemoryInv'
  BY <1>6, HandOutKeeps DEF DenyRegistration
<1>7. ASSUME NEW d \in Device, DropDevice(l, d) PROVE MemoryInv'
  BY <1>7, HandOutKeeps DEF DropDevice
<1>8. ASSUME NEW m, NEW target, NEW nulls, NEW bad, Make(m, l, target, nulls, bad)
      PROVE  MemoryInv'
  <2>1. CASE Refused(m, nulls, bad)
    BY <1>8, <2>1, MemoryUntouched DEF Make
  <2>2. CASE ~Refused(m, nulls, bad)
    BY <1>8, <2>2, HandOutKeeps DEF Make
  <2> QED
    BY <2>1, <2>2
<1> QED
  BY <1>1, <1>2, <1>3, <1>4, <1>5, <1>6, <1>7, <1>8

(* What the caller does with its memory.                                   *)
LEMMA CallerStepKeeps ==
  ASSUME MemoryInv, CallerStep
  PROVE  MemoryInv'
<1>1. CASE EngineNew \/ EngineFree \/ \E d \in Device : RegisterDevice(d)
  BY <1>1, MemoryUntouched DEF EngineNew, EngineFree, RegisterDevice
<1>2. ASSUME NEW l \in List, ActionsFree(l) \/ SetAction(l) PROVE MemoryInv'
  <2>1. l \in Holder
    BY DEF Holder
  <2> QED
    BY <1>2, <2>1, ReleaseKeeps, SetFieldKeeps DEF ActionsFree, SetAction
<1>3. ASSUME NEW h \in Holder, NEW i, NEW j, FreeElement(h, i, j) PROVE MemoryInv'
  BY <1>3, ReleaseKeeps DEF FreeElement
<1>4. CASE GetRegistry \/ SnapshotFree
  <2>1. "snapshot" \in Holder
    BY DEF Holder
  <2> QED
    BY <1>4, <2>1, ConvertKeeps, ReleaseKeeps DEF GetRegistry, SnapshotFree
<1>5. ASSUME NEW s \in Struct, StructNew(s) \/ SetStruct(s) \/ StructDestroy(s)
      PROVE  MemoryInv'
  <2>1. s \in Holder
    BY DEF Holder
  <2>2. CASE StructNew(s)
    BY <2>1, <2>2, HandedOver DEF StructNew
  <2>3. CASE SetStruct(s) \/ StructDestroy(s)
    BY <2>1, <2>3, SetFieldKeeps, ReleaseKeeps DEF SetStruct, StructDestroy
  <2> QED
    BY <1>5, <2>2, <2>3
<1>6. CASE BytesNew \/ BytesFree
  <2>1. "bytes" \in Holder
    BY DEF Holder
  <2> QED
    BY <1>6, <2>1, HandedOver, ReleaseKeeps DEF BytesNew, BytesFree
<1> QED
  BY <1>1, <1>2, <1>3, <1>4, <1>5, <1>6 DEF CallerStep, Holder

LEMMA MemoryInvAlways == Spec => []MemoryInv
<1>1. MemoryInv /\ [Next]_vars => MemoryInv'
  BY EngineCallKeeps, CallerStepKeeps, MemoryUntouched DEF Next, vars
<1> QED
  BY <1>1, MemoryInvInit, PTL DEF Spec

(* Whatever the C caller sets, frees alone or frees with its list, every   *)
(* pointer it holds leads to allocated memory, and no two to the same      *)
(* (bm_engine_actions_free, action_free, the setters): nothing is used     *)
(* after it is freed and nothing is freed twice.                           *)
THEOREM PointersStayLive == Spec => []PointersLive
<1>1. MemoryInv => PointersLive
  BY DEF MemoryInv
<1> QED
  BY <1>1, MemoryInvAlways, PTL

(* All memory that is allocated can be freed by the caller, but for what   *)
(* conversions that panicked have left (actions_to_c, get_registry).       *)
THEOREM OnlyPanicsLeak == Spec => []NothingLeaks
<1>1. MemoryInv => NothingLeaks
  BY DEF MemoryInv, NothingLeaks, Owned
<1> QED
  BY <1>1, MemoryInvAlways, PTL
-----------------------------------------------------------------------------
(* Conversions: a list whose fields have no NUL does not panic.            *)

FieldName ==
  {"payload", "device_id", "device_name", "addr", "app_id", "registry",
   "invoke_method", "invoke_return_method"}

CleanField == [info : Nat, field : FieldName, content : {"plain", "none"}]

LEMMA CleanPasses ==
  ASSUME NEW acts \in Seq(Seq(CleanField))
  PROVE  ~Panics(Placed(acts))
<1> DEFINE CleanPlaced == [place : Nat \X Nat \X FieldName, content : {"plain", "none"}]
           placed(i, n) == [place   |-> <<i, acts[i][n].info, acts[i][n].field>>,
                            content |-> acts[i][n].content]
           row(i) == [n \in 1 .. Len(acts[i]) |-> placed(i, n)]
           rows   == [i \in 1 .. Len(acts) |-> row(i)]
<1>1. Len(acts) \in Nat /\ \A i \in 1 .. Len(acts) : acts[i] \in Seq(CleanField)
  BY ElementOfSeq, LenProperties
<1>2. ASSUME NEW i \in 1 .. Len(acts) PROVE row(i) \in Seq(CleanPlaced)
  <2>1. Len(acts[i]) \in Nat /\ \A n \in 1 .. Len(acts[i]) : acts[i][n] \in CleanField
    BY <1>1, ElementOfSeq, LenProperties
  <2>2. i \in Nat
    BY <1>1
  <2>3. \A n \in 1 .. Len(acts[i]) : placed(i, n) \in CleanPlaced
    BY <2>1, <2>2 DEF CleanField
  <2> HIDE DEF placed, CleanPlaced
  <2> QED
    BY <2>1, <2>3, IsASeq
<1>3. Placed(acts) = FlattenSeq(rows)
  BY DEF Placed
<1> HIDE DEF row, CleanPlaced
<1>4. rows \in Seq(Seq(CleanPlaced))
  BY <1>1, <1>2, IsASeq
<1>5. Placed(acts) \in Seq(CleanPlaced)
  BY <1>3, <1>4, FlattenType
<1>6. \A k \in 1 .. Len(Placed(acts)) : Placed(acts)[k] \in CleanPlaced
  BY <1>5, ElementOfSeq
<1> QED
  BY <1>6 DEF Panics, CleanPlaced

LEMMA CleanFields ==
  ASSUME NEW j \in Nat
  PROVE  /\ \A f \in FieldName : Field(j, f, "plain") \in CleanField
         /\ \A f \in FieldName : Field(j, f, "none") \in CleanField
         /\ \A d, f : f \in FieldName /\ Text(d, f) # "nul" => TextOf(j, d, f) \in CleanField
BY DEF Field, Text, TextOf, CleanField

(* A line of log has no text of a device.                                  *)
LEMMA CleanLog == LogFields \in Seq(CleanField)
BY CleanFields DEF LogFields, FieldName

(* The fields of a device whose texts hold no NUL.                         *)
LEMMA CleanDevice ==
  ASSUME NEW d \in Device, d \notin NulId
  PROVE  /\ SendFields(d) \in Seq(CleanField)
         /\ d \notin NulAny => /\ UpdateRegistryFields(d) \in Seq(CleanField)
                              /\ KnownInvoke(d) \in Seq(CleanField)
                              /\ RegistryEventFields(<<d>>) \in Seq(CleanField)
<1>1. SendFields(d) \in Seq(CleanField)
  BY CleanFields DEF FieldName, SendFields, NulId
<1>2. ASSUME d \notin NulAny
      PROVE  /\ UpdateRegistryFields(d) \in Seq(CleanField)
             /\ KnownInvoke(d) \in Seq(CleanField)
             /\ RegistryEventFields(<<d>>) \in Seq(CleanField)
  <2>0. \A f \in TextField : Text(d, f) # "nul"
    BY <1>2 DEF NulAny
  <2>1. UpdateRegistryFields(d) \in Seq(CleanField)
    BY <2>0, CleanFields DEF FieldName, TextField, UpdateRegistryFields
  <2>2. KnownInvoke(d) \in Seq(CleanField)
    BY <2>0, CleanFields DEF FieldName, TextField, KnownInvoke, InvokeFields
  <2>3. InfoFields(1, d) \in Seq(CleanField)
    BY <2>0, CleanFields DEF FieldName, TextField, InfoFields
  <2> DEFINE infos == [j \in 1 .. Len(<<d>>) |-> InfoFields(j, <<d>>[j])]
  <2>4. infos \in Seq(Seq(CleanField))
    <3>1. infos = [j \in 1 .. 1 |-> InfoFields(1, d)]
      OBVIOUS
    <3> QED
      BY <2>3, <3>1, IsASeq
  <2>5. FlattenSeq(infos) \in Seq(CleanField)
    BY <2>4, FlattenType
  <2>6. <<Field(0, "registry", "plain")>> \in Seq(CleanField)
    BY CleanFields DEF FieldName
  <2>7. RegistryEventFields(<<d>>) = FlattenSeq(infos) \o <<Field(0, "registry", "plain")>>
    BY DEF RegistryEventFields
  <2> HIDE DEF infos
  <2> QED
    BY <2>1, <2>2, <2>5, <2>6, <2>7, ConcatProperties
<1> QED
  BY <1>1, <1>2

(* An id is one of the texts.                                              *)
LEMMA NulIdIsAny == NulId \subseteq NulAny
BY DEF NulId, NulAny, TextField

LEMMA CleanBroadcast ==
  ASSUME NEW D \in SUBSET Device, D \cap NulId = {}, NEW b \in Broadcasts(D)
  PROVE  b \in Seq(Seq(CleanField))
<1>1. Cardinality(D) \in Nat
  BY FS_Subset, FS_CardinalityType, BoundaryAssumption
<1>2. PICK s \in SetToSeqs(D) : b = [n \in 1 .. Len(s) |-> SendFields(s[n])]
  BY DEF Broadcasts
<1>3. s \in [1 .. Cardinality(D) -> D]
  BY DEF SetToSeqs
<1>4. s \in Seq(D) /\ Len(s) \in Nat /\ \A n \in 1 .. Len(s) : s[n] \in D
  BY <1>1, <1>3, IsASeq, ElementOfSeq, LenProperties
<1>5. \A n \in 1 .. Len(s) : SendFields(s[n]) \in Seq(CleanField)
  BY <1>4, CleanDevice
<1> QED
  BY <1>2, <1>4, <1>5, IsASeq
LEMMA OneRow ==
  ASSUME NEW Rows
  PROVE  <<>> \in Seq(Rows) /\ \A row \in Rows : <<row>> \in Seq(Rows)
OBVIOUS

(* What admitting a device sends, when neither it nor a viewer has a NUL.  *)
LEMMA CleanAdmission ==
  ASSUME NEW d \in Device, d \notin NulId, devices \cap Viewer \cap NulId = {},
         NEW sends \in Admission(d)
  PROVE  sends \in Seq(Seq(CleanField))
<1>1. PICK b \in Broadcasts(Told(devices, d)) :
        sends = (IF d \in Viewer THEN <<>> ELSE <<SendFields(d)>>) \o b
  BY DEF Admission
<1>2. Told(devices, d) \in SUBSET Device /\ Told(devices, d) \cap NulId = {}
  BY BoundaryAssumption DEF Told
<1>3. b \in Seq(Seq(CleanField))
  BY <1>2, CleanBroadcast
<1>4. <<SendFields(d)>> \in Seq(Seq(CleanField)) /\ <<>> \in Seq(Seq(CleanField))
  BY CleanDevice, OneRow
<1> DEFINE own == IF d \in Viewer THEN <<>> ELSE <<SendFields(d)>>
<1>5. own \in Seq(Seq(CleanField))
  BY <1>4
<1>6. sends = own \o b
  BY <1>1
<1> HIDE DEF own
<1> QED
  BY <1>3, <1>5, <1>6, ConcatProperties

(* A device is admitted: it is told, or there is a cause that it is not.   *)
LEMMA DeliveredKeeps ==
  ASSUME LossHasCause, NEW d \in Device, NEW first, NEW sends \in Admission(d),
         d \notin NulAny => first \in Seq(Seq(CleanField)),
         devices' = devices \cup {d}, Delivered(Placed(first \o sends), d)
  PROVE  LossHasCause'
<1>1. told \subseteq devices /\ told' \subseteq devices'
  BY DEF LossHasCause, Delivered
<1>2. CASE devices' \cap Viewer \cap NulId # {}
  BY <1>1, <1>2 DEF LossHasCause
<1>3. CASE devices' \cap Viewer \cap NulId = {} /\ d \in NulAny
  BY <1>1, <1>3 DEF LossHasCause, Delivered
<1>4. CASE devices' \cap Viewer \cap NulId = {} /\ d \notin NulAny
  <2>1. first \o sends \in Seq(Seq(CleanField))
    BY <1>4, CleanAdmission, NulIdIsAny, ConcatProperties
  <2>2. told' = told \cup {d}
    BY <2>1, CleanPasses DEF Delivered
  <2> QED
    BY <1>1, <1>4, <2>2 DEF LossHasCause
<1> QED
  BY <1>2, <1>3, <1>4

LEMMA LossUntouched ==
  ASSUME LossHasCause, UNCHANGED <<devices, told>>
  PROVE  LossHasCause'
BY DEF LossHasCause

LEMMA LossStep == LossHasCause /\ [Next]_vars => LossHasCause'
<1> SUFFICES ASSUME LossHasCause, [Next]_vars PROVE LossHasCause'
  OBVIOUS
<1>1. ASSUME NEW l \in List, NEW d \in Device, ProcessRegister(l, d)
      PROVE  LossHasCause'
  <2> DEFINE first == <<UpdateRegistryFields(d), KnownInvoke(d),
                        RegistryEventFields(<<d>>), SendFields(d)>>
  <2>1. d \notin NulAny => first \in Seq(Seq(CleanField))
    BY CleanDevice, NulIdIsAny
  <2>2. PICK sends \in Admission(d) : Delivered(Placed(first \o sends), d)
    BY <1>1 DEF ProcessRegister
  <2>3. devices' = devices \cup {d}
    BY <1>1 DEF ProcessRegister
  <2> HIDE DEF first
  <2> QED
    BY <2>1, <2>2, <2>3, DeliveredKeeps
<1>2. ASSUME NEW l \in List, NEW d \in Device, ApproveRegistration(l, d)
      PROVE  LossHasCause'
  <2> DEFINE first == <<SendFields(d), RegistryEventFields(<<d>>)>>
  <2>1. d \notin NulAny => first \in Seq(Seq(CleanField))
    BY CleanDevice, NulIdIsAny
  <2>2. PICK sends \in Admission(d) : Delivered(Placed(first \o sends), d)
    BY <1>2 DEF ApproveRegistration
  <2>3. devices' = devices \cup {d}
    BY <1>2 DEF ApproveRegistration
  <2> HIDE DEF first
  <2> QED
    BY <2>1, <2>2, <2>3, DeliveredKeeps
(* A device that leaves can be named, so it is none of the causes.         *)
<1>3. ASSUME NEW d \in Nameable, devices' = devices \ {d}, told' = told \ {d}
      PROVE  LossHasCause'
  BY <1>3 DEF LossHasCause, Nameable
<1>4. ASSUME NEW l \in List, NEW d \in Device,
             ProcessDeferred(l, d) \/ ProcessOther(l, d) \/ DenyRegistration(l, d)
      PROVE  UNCHANGED <<devices, told>>
  BY <1>4 DEF ProcessDeferred, ProcessOther, DenyRegistration, engineVars
<1>5. ASSUME NEW l \in List, NEW d \in Device, DropDevice(l, d) PROVE LossHasCause'
  BY <1>3, <1>5 DEF DropDevice
<1>6. ASSUME NEW m, NEW l, NEW target, NEW nulls, NEW bad, Make(m, l, target, nulls, bad)
      PROVE  UNCHANGED <<devices, told>>
  BY <1>6 DEF Make
<1>7. CASE EngineCall
  BY <1>1, <1>2, <1>4, <1>5, <1>6, <1>7, LossUntouched DEF EngineCall
<1>8. CASE CallerStep
  <2>1. CASE EngineFree
    BY <2>1 DEF EngineFree, LossHasCause
  <2>2. CASE \E d \in Device : RegisterDevice(d)
    BY <1>3, <2>2 DEF RegisterDevice
  <2>3. CASE ~EngineFree /\ ~\E d \in Device : RegisterDevice(d)
    BY <1>8, <2>3, LossUntouched DEF CallerStep, EngineNew, ActionsFree, SetAction,
       SetField, Release, FreeElement, GetRegistry, SnapshotFree, StructNew, SetStruct,
       StructDestroy, BytesNew, BytesFree, engineVars
  <2> QED
    BY <2>1, <2>2, <2>3
<1> QED
  BY <1>7, <1>8, LossUntouched DEF Next, vars, engineVars

(* A registered device that was not told of its registration: it or a      *)
(* registered viewer has a text that the binding cannot convert            *)
(* (actions_to_c).  Whatever else the devices send, in any order.          *)
THEOREM LossExplained == Spec => []LossHasCause
<1>1. Init => LossHasCause
  BY DEF Init, LossHasCause
<1> QED
  BY <1>1, LossStep, PTL DEF Spec
-----------------------------------------------------------------------------
(* The calls that make a packet.                                           *)

LEMMA MadeClean ==
  ASSUME NEW target \in Nameable, NEW known
  PROVE  ~Panics(Placed(MadeActions(target, known)))
<1>1. MadeActions(target, known) = <<SendFields(target)>>
      \/ MadeActions(target, known) = <<LogFields>>
  BY DEF MadeActions
<1>2. SendFields(target) \in Seq(CleanField) /\ LogFields \in Seq(CleanField)
  BY CleanDevice, CleanLog DEF Nameable
<1>3. MadeActions(target, known) \in Seq(Seq(CleanField))
  BY <1>1, <1>2, OneRow
<1> QED
  BY <1>3, CleanPasses

LEMMA MakeFailsClean ==
  ASSUME spent \in Nat, NEW m, NEW l, NEW target \in Nameable, NEW nulls, NEW bad,
         Make(m, l, target, nulls, bad), ~last'.ok
  PROVE  UNCHANGED <<engineVars, heap, held, lost>>
<1>1. CASE Refused(m, nulls, bad)
  BY <1>1 DEF Make, Spending, engineVars
<1>2. CASE ~Refused(m, nulls, bad)
  <2> DEFINE known == target \in records /\ "target" \notin nulls \cup bad
  <2>1. HandOut(l, MadeActions(target, known), "make")
    BY <1>2 DEF Make
  <2> HIDE DEF known
  <2> DEFINE fields == Placed(MadeActions(target, known))
  <2>2. last' = [kind |-> "make", ok |-> ~Panics(fields)]
    BY <2>1 DEF HandOut, Convert
  <2>3. last'.ok
    BY <2>2, MadeClean
  <2> QED
    BY <2>3
<1> QED
  BY <1>1, <1>2

(* Numbers used up, as far as it takes to tell that none was.              *)
LEMMA SpentTyped == Spec => [](spent \in Nat)
<1>1. Init => spent \in Nat
  BY DEF Init
<1>2. spent \in Nat /\ [Next]_vars => (spent \in Nat)'
  <2> SUFFICES ASSUME spent \in Nat, [Next]_vars PROVE spent' \in Nat
    OBVIOUS
  <2>1. CASE EngineCall
    <3>1. ASSUME NEW m, NEW l, NEW target, NEW nulls, NEW bad,
                 Make(m, l, target, nulls, bad)
          PROVE  spent' \in Nat
      BY <3>1 DEF Make, Spending
    <3>2. ASSUME NEW l \in List, NEW d \in Device,
                 \/ ProcessRegister(l, d) \/ ProcessDeferred(l, d) \/ ProcessOther(l, d)
                 \/ ApproveRegistration(l, d) \/ DenyRegistration(l, d) \/ DropDevice(l, d)
          PROVE  spent' = spent \/ spent' = spent + 1
      BY <3>2 DEF ProcessRegister, ProcessDeferred, ProcessOther, ApproveRegistration,
         DenyRegistration, DropDevice, engineVars
    <3> QED
      BY <2>1, <3>1, <3>2 DEF EngineCall
  <2>2. CASE CallerStep
    <3>1. UNCHANGED spent \/ EngineFree
      BY <2>2 DEF CallerStep, EngineNew, RegisterDevice, ActionsFree, SetAction,
         SetField, Release, FreeElement, GetRegistry, SnapshotFree, StructNew, SetStruct,
         StructDestroy, BytesNew, BytesFree, engineVars
    <3> QED
      BY <3>1 DEF EngineFree
  <2> QED
    BY <2>1, <2>2 DEF Next, vars, engineVars
<1> QED
  BY <1>1, <1>2, PTL DEF Spec

(* Only a call that makes a packet is reported as one.                     *)
LEMMA OnlyMakersMake ==
  ASSUME Next, last'.kind = "make", last' # last
  PROVE  \E m \in Makers, l \in List, target \in Nameable :
           \E nulls, bad \in Arguments(m) : Make(m, l, target, nulls, bad)
<1>1. ASSUME NEW l \in List, NEW d \in Device,
             \/ ProcessRegister(l, d) \/ ProcessDeferred(l, d) \/ ProcessOther(l, d)
             \/ ApproveRegistration(l, d) \/ DenyRegistration(l, d) \/ DropDevice(l, d)
      PROVE  last'.kind = "process"
  <2>1. \E acts : HandOut(l, acts, "process")
    BY <1>1 DEF ProcessRegister, ProcessDeferred, ProcessOther, ApproveRegistration,
       DenyRegistration, DropDevice
  <2> QED
    BY <2>1 DEF HandOut, Convert
<1>2. CASE CallerStep
  <2>1. ASSUME GetRegistry PROVE last'.kind = "snapshot"
    BY <2>1 DEF GetRegistry, Convert
  <2>2. ASSUME NEW d \in Device, RegisterDevice(d) PROVE last'.kind = "process"
    BY <2>2 DEF RegisterDevice
  <2>3. \/ UNCHANGED last \/ GetRegistry \/ \E d \in Device : RegisterDevice(d)
    BY <1>2 DEF CallerStep, EngineNew, EngineFree, ActionsFree, SetAction,
       SetField, Release, FreeElement, SnapshotFree, StructNew, SetStruct,
       StructDestroy, BytesNew, BytesFree
  <2> QED
    BY <2>1, <2>2, <2>3
<1> QED
  BY <1>1, <1>2 DEF Next, EngineCall

(* A call of the C interface that makes a packet and reports false has     *)
(* used no number, changed nothing and left no memory behind, with any     *)
(* arguments that are null or cannot be read.                              *)
THEOREM RefusedLeavesNoTrace == Spec => MakersFailClean
<1> DEFINE Clean == last'.kind = "make" /\ ~last'.ok /\ last' # last
                      => UNCHANGED <<engineVars, heap, held, lost>>
<1>1. spent \in Nat /\ Next => Clean
  BY OnlyMakersMake, MakeFailsClean
<1>2. spent \in Nat /\ [Next]_vars => [Clean]_vars
  BY <1>1
<1> QED
  BY <1>2, SpentTyped, PTL DEF Spec, MakersFailClean

-----------------------------------------------------------------------------
(* The log.                                                                *)

Place == {"out", "test", "attach", "lock", "call", "drop", "store", "slot", "flush"}

Types ==
  /\ pc \in [Thread -> Place]
  /\ libLogged \in BOOLEAN /\ callback \in BOOLEAN /\ overlap \in BOOLEAN
  /\ imported \in {"no", "running", "yes"}
  /\ logged \in Nat /\ within \subseteq Thread

(* The callback is locked by the thread that runs Python under it, waits   *)
(* for it again from there or flushes, and who is inside the interpreter   *)
(* has it, unless it runs Python that let another thread run.              *)
Holding ==
  /\ ~pendingLog
  /\ lock \in Thread \cup {NoThread}
  /\ \A t \in Thread : lock = t <=> pc[t] \in {"call", "drop", "flush"} \/ t \in within
  /\ \A t \in within : pc[t] = "slot"
  /\ \A t \in Thread : pc[t] \in {"lock", "slot", "flush"} => gil = t

(* Unless calls overlapped, one thread at most is between test and store,  *)
(* before anything was logged, or on its way to the store with the first.  *)
Single ==
  ~overlap =>
    /\ \A t \in Thread : pc[t] \in Between => ~libLogged
    /\ \A t, u \in Thread : pc[t] \in Between /\ pc[u] \in Between => t = u
    /\ logged > 0 => logged = 1 /\ (libLogged \/ \E t \in Thread : pc[t] = "store")

(* What has happened when the flag is set, when the import is over, and   *)
(* when there is a callback.                                               *)
Progressed ==
  /\ \A t \in Thread : pc[t] = "store" => logged > 0
  /\ libLogged => logged > 0
  /\ imported = "yes" => libLogged
  /\ callback => imported = "yes"
  /\ \A t \in Thread : pc[t] \in {"call", "drop", "slot", "flush"} => imported = "yes"

LogInv == Types /\ Holding /\ Single /\ Progressed

-----------------------------------------------------------------------------
(* Nobody has called: all threads are outside.                             *)
LEMMA LogInvInit == LogInit => LogInv
<1> SUFFICES ASSUME LogInit PROVE LogInv
  OBVIOUS
<1>1. \A t \in Thread : pc[t] = "out"
  BY DEF LogInit
<1>2. Types
  BY DEF LogInit, Types, Place
<1>3. Holding /\ Single /\ Progressed
  BY <1>1, LogAssumption DEF LogInit, Holding, Single, Progressed, Between
<1> QED
  BY <1>2, <1>3 DEF LogInv

(* A C thread calls: it has nothing yet.                                   *)
LEMMA LibraryInitKeeps ==
  ASSUME LogInv, NEW t \in Thread, LibraryInit(t)
  PROVE  LogInv'
<1> USE LogAssumption DEF LibraryInit, Goes, Calls
<1>1. Types'
  BY DEF LogInv, Types, Place
<1>2. Holding'
  BY DEF LogInv, Types, Place, Holding
<1>3. Single'
  BY DEF LogInv, Types, Place, Holding, Single, Progressed, Between
<1>4. Progressed'
  BY DEF LogInv, Types, Place, Holding, Progressed, Thread
<1> QED
  BY <1>1, <1>2, <1>3, <1>4 DEF LogInv

(* The interpreter starts the import: only its lock is taken.              *)
LEMMA ImportKeeps ==
  ASSUME LogInv, NEW t \in Thread, Import(t)
  PROVE  LogInv'
<1> USE LogAssumption DEF Import, Goes, Calls
<1>1. Types'
  BY DEF LogInv, Types, Place
<1>2. Holding'
  BY DEF LogInv, Types, Place, Holding
<1>3. Single'
  BY DEF LogInv, Types, Place, Holding, Single, Progressed, Between
<1>4. Progressed'
  BY DEF LogInv, Types, Place, Holding, Progressed, Thread
<1> QED
  BY <1>1, <1>2, <1>3, <1>4 DEF LogInv

(* Whoever finds the flag unset starts to log, and knows of the others.    *)
LEMMA TestKeeps ==
  ASSUME LogInv, NEW t \in Thread, Test(t)
  PROVE  LogInv'
<1> USE LogAssumption DEF Test, Goes, Returns, Without, MustLog
<1>1. Types'
  BY DEF LogInv, Types, Place
<1>2. Holding'
  BY DEF LogInv, Types, Place, Holding
<1>3. Single'
  <2>1. CASE libLogged
    BY <2>1 DEF LogInv, Types, Place, Single, Between
  <2>2. CASE ~libLogged /\ overlap'
    BY <2>2 DEF Single
  <2>3. CASE ~libLogged /\ ~overlap'
    <3>1. \A u \in Thread : pc[u] \notin Between
      BY <2>3 DEF LogInv, Types, Between
    <3>2. ~overlap /\ pc' = [pc EXCEPT ![t] = "attach"]
      BY <2>3 DEF LogInv, Types
    <3>3. logged = 0
      BY <2>3, <3>1, <3>2 DEF LogInv, Types, Single, Between
    <3> QED
      BY <2>3, <3>1, <3>2, <3>3 DEF LogInv, Types, Single, Between
  <2> QED
    BY <2>1, <2>2, <2>3
<1>4. Progressed'
  BY DEF LogInv, Types, Place, Holding, Progressed, Thread
<1> QED
  BY <1>1, <1>2, <1>3, <1>4 DEF LogInv

(* The interpreter's lock is taken by a thread that logs.                  *)
LEMMA AttachKeeps ==
  ASSUME LogInv, NEW t \in Thread, Attach(t)
  PROVE  LogInv'
<1> USE LogAssumption DEF Attach, Goes
<1>1. Types'
  BY DEF LogInv, Types, Place
<1>2. Holding'
  BY DEF LogInv, Types, Place, Holding
<1>3. Single'
  BY DEF LogInv, Types, Place, Holding, Single, Progressed, Between
<1>4. Progressed'
  BY DEF LogInv, Types, Place, Holding, Progressed, Thread
<1> QED
  BY <1>1, <1>2, <1>3, <1>4 DEF LogInv

(* The callback is locked for the call, or there is none.                  *)
LEMMA LockKeeps ==
  ASSUME LogInv, NEW t \in Thread, Lock(t)
  PROVE  LogInv'
<1> USE LogAssumption DEF Lock, Goes, Tried, TryLog
<1>1. Types'
  BY DEF LogInv, Types, Place
<1>2. Holding'
  BY DEF LogInv, Types, Place, Holding
<1>3. Single'
  BY DEF LogInv, Types, Place, Holding, Single, Progressed, Between
<1>4. Progressed'
  BY DEF LogInv, Types, Place, Holding, Progressed, Thread
<1> QED
  BY <1>1, <1>2, <1>3, <1>4 DEF LogInv

(* The callback is over: the lock is dropped, the message is out.          *)
LEMMA CallbackReturnsKeeps ==
  ASSUME LogInv, NEW t \in Thread, CallbackReturns(t)
  PROVE  LogInv'
<1> USE LogAssumption DEF CallbackReturns, Goes, Tried, TryLog
<1>1. Types'
  BY DEF LogInv, Types, Place
<1>2. Holding'
  BY DEF LogInv, Types, Place, Holding
<1>3. Single'
  BY DEF LogInv, Types, Place, Holding, Single, Progressed, Between
<1>4. Progressed'
  BY DEF LogInv, Types, Place, Holding, Progressed, Thread
<1> QED
  BY <1>1, <1>2, <1>3, <1>4 DEF LogInv

(* The interpreter is let go, the callback stays locked.                   *)
LEMMA PythonYieldsKeeps ==
  ASSUME LogInv, NEW t \in Thread, PythonYields(t)
  PROVE  LogInv'
<1> USE LogAssumption DEF PythonYields, InPython
<1>1. Types'
  BY DEF LogInv, Types, Place
<1>2. Holding'
  BY DEF LogInv, Types, Place, Holding
<1>3. Single'
  BY DEF LogInv, Types, Place, Holding, Single, Progressed, Between
<1>4. Progressed'
  BY DEF LogInv, Types, Place, Holding, Progressed, Thread
<1> QED
  BY <1>1, <1>2, <1>3, <1>4 DEF LogInv

(* The same Python goes on in the same thread.                             *)
LEMMA PythonResumesKeeps ==
  ASSUME LogInv, NEW t \in Thread, PythonResumes(t)
  PROVE  LogInv'
<1> USE LogAssumption DEF PythonResumes, InPython
<1>1. Types'
  BY DEF LogInv, Types, Place
<1>2. Holding'
  BY DEF LogInv, Types, Place, Holding
<1>3. Single'
  BY DEF LogInv, Types, Place, Holding, Single, Progressed, Between
<1>4. Progressed'
  BY DEF LogInv, Types, Place, Holding, Progressed, Thread
<1> QED
  BY <1>1, <1>2, <1>3, <1>4 DEF LogInv

(* A callback is only run after the import, when the flag is set: Python   *)
(* that calls in again can but wait for the lock of its own thread.        *)
LEMMA PythonReentersKeeps ==
  ASSUME LogInv, NEW t \in Thread, PythonReenters(t)
  PROVE  LogInv'
<1>1. libLogged /\ pc[t] \in {"call", "drop"} /\ gil = t /\ lock = t
  BY DEF LogInv, Types, Holding, Progressed, PythonReenters, InPython, Goes
<1>2. pc' = [pc EXCEPT ![t] = "slot"] /\ overlap' = overlap /\ within' = within \cup {t}
  <2>1. PICK from \in InPython, to \in {"slot"} \cup (IF MustLog THEN {"attach"} ELSE {}) :
          Goes(t, from, to) /\ overlap' = (overlap \/ to = "attach")
    BY DEF PythonReenters
  <2>2. to = "slot"
    BY <1>1, <2>1 DEF MustLog
  <2>3. overlap' = overlap
    BY <2>1, <2>2 DEF LogInv, Types
  <2> QED
    BY <2>1, <2>2, <2>3 DEF PythonReenters, Goes
<1>3. UNCHANGED <<libLogged, pendingLog, callback, lock, gil, imported, logged>>
  BY DEF PythonReenters
<1>4. Types'
  BY <1>2, <1>3 DEF LogInv, Types, Place
<1>5. Holding'
  BY <1>1, <1>2, <1>3 DEF LogInv, Types, Holding
<1>6. Single'
  BY <1>1, <1>2, <1>3 DEF LogInv, Types, Single, Between
<1>7. Progressed'
  BY <1>1, <1>2, <1>3 DEF LogInv, Types, Progressed
<1> QED
  BY <1>4, <1>5, <1>6, <1>7 DEF LogInv

(* The flag is set by a thread whose message is out.                       *)
LEMMA StoreKeeps ==
  ASSUME LogInv, NEW t \in Thread, Store(t)
  PROVE  LogInv'
<1> USE LogAssumption DEF Store, Goes, Returns, Without
<1>1. Types'
  BY DEF LogInv, Types, Place
<1>2. Holding'
  BY DEF LogInv, Types, Place, Holding
<1>3. Single'
  BY DEF LogInv, Types, Place, Holding, Single, Progressed, Between
<1>4. Progressed'
  BY DEF LogInv, Types, Place, Holding, Progressed, Thread
<1> QED
  BY <1>1, <1>2, <1>3, <1>4 DEF LogInv

(* A callback is set by a program that has imported the module.            *)
LEMMA SetCallbackKeeps ==
  ASSUME LogInv, NEW t \in Thread, SetCallback(t)
  PROVE  LogInv'
<1> USE LogAssumption DEF SetCallback, Goes, Calls
<1>1. Types'
  BY DEF LogInv, Types, Place
<1>2. Holding'
  BY DEF LogInv, Types, Place, Holding
<1>3. Single'
  BY DEF LogInv, Types, Place, Holding, Single, Progressed, Between
<1>4. Progressed'
  BY DEF LogInv, Types, Place, Holding, Progressed, Thread
<1> QED
  BY <1>1, <1>2, <1>3, <1>4 DEF LogInv

(* The callback is locked and replaced.                                    *)
LEMMA SlotKeeps ==
  ASSUME LogInv, NEW t \in Thread, Slot(t)
  PROVE  LogInv'
<1> USE LogAssumption DEF Slot, Goes
<1>1. Types'
  BY DEF LogInv, Types, Place
<1>2. Holding'
  BY DEF LogInv, Types, Place, Holding
<1>3. Single'
  BY DEF LogInv, Types, Place, Holding, Single, Progressed, Between
<1>4. Progressed'
  BY DEF LogInv, Types, Place, Holding, Progressed, Thread
<1> QED
  BY <1>1, <1>2, <1>3, <1>4 DEF LogInv

(* The destructor of the old callback is over.                             *)
LEMMA DroppedKeeps ==
  ASSUME LogInv, NEW t \in Thread, Dropped(t)
  PROVE  LogInv'
<1> USE LogAssumption DEF Dropped, Goes
<1>1. Types'
  BY DEF LogInv, Types, Place
<1>2. Holding'
  BY DEF LogInv, Types, Place, Holding
<1>3. Single'
  BY DEF LogInv, Types, Place, Holding, Single, Progressed, Between
<1>4. Progressed'
  BY DEF LogInv, Types, Place, Holding, Progressed, Thread
<1> QED
  BY <1>1, <1>2, <1>3, <1>4 DEF LogInv

(* Nothing is ever pending: the flush only drops the lock.                 *)
LEMMA FlushKeeps ==
  ASSUME LogInv, NEW t \in Thread, Flush(t)
  PROVE  LogInv'
<1> USE LogAssumption DEF Flush, Goes, Returns, Without
<1>1. Types'
  BY DEF LogInv, Types, Place
<1>2. Holding'
  BY DEF LogInv, Types, Place, Holding
<1>3. Single'
  BY DEF LogInv, Types, Place, Holding, Single, Progressed, Between
<1>4. Progressed'
  BY DEF LogInv, Types, Place, Holding, Progressed, Thread
<1> QED
  BY <1>1, <1>2, <1>3, <1>4 DEF LogInv
-----------------------------------------------------------------------------
(* Every call of every thread, in any order, keeps the invariant.          *)
LEMMA LogInvStep == LogInv /\ [LogNext]_logVars => LogInv'
<1> SUFFICES ASSUME LogInv, [LogNext]_logVars PROVE LogInv'
  OBVIOUS
<1>1. CASE UNCHANGED logVars
  BY <1>1 DEF logVars, LogInv, Types, Holding, Single, Progressed
<1>2. CASE LogNext
  BY <1>2, LibraryInitKeeps, ImportKeeps, TestKeeps, AttachKeeps, LockKeeps,
     CallbackReturnsKeeps, PythonYieldsKeeps, PythonResumesKeeps, PythonReentersKeeps,
     StoreKeeps, SetCallbackKeeps, SlotKeeps, DroppedKeeps, FlushKeeps DEF LogNext
<1> QED
  BY <1>1, <1>2

LEMMA LogInvAlways == LogSpec => []LogInv
BY LogInvInit, LogInvStep, PTL DEF LogSpec

(* Only Python that runs with PY_LOG_CALLBACK locked makes anyone wait for *)
(* ever (try_python_log, set_log_callback, flush_pending_log): logging     *)
(* never waits for its own thread, set_log_callback only if the callback,  *)
(* or the destructor of the one it replaced, called it again, and any      *)
(* other thread that has the lock can go on unless its Python let another  *)
(* run.  For any number of threads in C and in Python.                     *)
THEOREM LogWaits == LogSpec => []WaitsOnlyForPython
<1>1. LogInv => WaitsOnlyForPython
  <2> SUFFICES ASSUME LogInv PROVE WaitsOnlyForPython
    OBVIOUS
  <2>1. ~pendingLog /\ \A t \in Thread : pc[t] = "lock" => lock # t
    BY DEF LogInv, Holding
  <2>2. \A t \in Thread : pc[t] = "slot" /\ lock = t => t \in within
    BY DEF LogInv, Holding
  <2>3. ASSUME lock # NoThread, lock \notin within
        PROVE  pc[lock] \in InPython \cup {"flush"} /\ (gil = lock \/ pc[lock] \in InPython)
    BY <2>3 DEF LogInv, Holding, InPython
  <2> QED
    BY <2>1, <2>2, <2>3 DEF WaitsOnlyForPython
<1> QED
  BY <1>1, LogInvAlways, PTL

(* log_library_loaded logs the message once if no two calls of it are      *)
(* between test and store together, and has logged it when the import is   *)
(* over.                                                                   *)
THEOREM LogOnce == LogSpec => []LoggedOnce
<1>1. LogInv => LoggedOnce
  BY DEF LogInv, Types, Single, Progressed, LoggedOnce
<1> QED
  BY <1>1, LogInvAlways, PTL
=============================================================================
