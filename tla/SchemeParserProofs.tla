------------------------- MODULE SchemeParserProofs -------------------------
(***************************************************************************)
(* Proofs about SchemeParser: the scheme follows the nesting of the        *)
(* document, for documents of any length, any texts and any attributes.    *)
(***************************************************************************)
EXTENDS SchemeParser, SequenceTheorems, FiniteSetTheorems, WellFoundedInduction, TLAPS

(* The level of the elements of a name, the outermost being 1.             *)
Level == [BMApplicationScheme |-> 1, Resource |-> 2, DisplayObject |-> 2, Option |-> 2,
          Asset |-> 3, HitRect |-> 3, data |-> 3]

Event ==
  [is : {"start", "empty"}, name : DOMAIN Level, a : [id : Nat, sample : Sample \cup {Absent}]]
  \cup [is : {"text"}, piece : Piece]
  \cup [is : {"end"}, name : DOMAIN Level]

(* d2 is doc and the event e behind it.                                    *)
Longer(doc, d2, e) ==
  /\ doc \in Seq(Event) /\ d2 \in Seq(Event) /\ e \in Event
  /\ Len(d2) = Len(doc) + 1
  /\ d2[Len(d2)] = e
  /\ \A i \in 1 .. Len(doc) : d2[i] = doc[i]

(* Appending an event makes a document longer.                             *)
LEMMA AppendLonger ==
  ASSUME NEW doc \in Seq(Event), NEW e \in Event
  PROVE  Longer(doc, Append(doc, e), e)
BY AppendProperties DEF Longer

(* The places of both documents.                                           *)
LEMMA LongerDomain ==
  ASSUME NEW doc, NEW d2, NEW e, Longer(doc, d2, e)
  PROVE  /\ Len(doc) \in Nat
         /\ DOMAIN doc = 1 .. Len(doc)
         /\ DOMAIN d2 = 1 .. (Len(doc) + 1)
  BY DEF Longer

-----------------------------------------------------------------------------
(* How deep a document is nested.                                          *)

(* A non-empty set of natural numbers has a least and, if finite, greatest *)
(* element.                                                                *)
LEMMA LeastNumber ==
  ASSUME NEW T \in SUBSET Nat, T # {}
  PROVE  \E m \in T : \A n \in T : m <= n
<1> DEFINE R == OpToRel(<, Nat)
<1>1. IsWellFoundedOn(R, Nat)
  BY NatLessThanWellFounded
<1>2. \A n, m \in Nat : n < m => <<n, m>> \in R
  BY DEF OpToRel
<1> HIDE DEF R
<1>3. PICK m \in T : \A n \in T : <<n, m>> \notin R
  BY <1>1, WFMin
<1>4. \A n \in T : n \in Nat /\ m \in Nat /\ ~(n < m)
  BY <1>2, <1>3
<1> QED
  BY <1>4

(* The least element of a set of numbers.                                  *)
LEMMA LeastOf ==
  ASSUME NEW T \in SUBSET Nat, T # {}
  PROVE  Min(T) \in T /\ \A n \in T : Min(T) <= n
BY LeastNumber DEF Min

(* The events of a kind up to a place.                                     *)
Kinds(doc, i, kind) == {j \in 1 .. i : doc[j].is = kind}

(* One more place counts by its kind.                                      *)
LEMMA KindsStep ==
  ASSUME NEW doc, NEW i \in Nat, NEW kind
  PROVE  /\ Cardinality(Kinds(doc, i, kind)) \in Nat
         /\ Cardinality(Kinds(doc, i + 1, kind)) =
              Cardinality(Kinds(doc, i, kind)) + (IF doc[i + 1].is = kind THEN 1 ELSE 0)
         /\ Cardinality(Kinds(doc, 0, kind)) = 0
<1>1. IsFiniteSet(Kinds(doc, i, kind))
  <2>1. IsFiniteSet(1 .. i)
    BY FS_Interval
  <2>2. Kinds(doc, i, kind) \in SUBSET (1 .. i)
    BY DEF Kinds
  <2> QED
    BY <2>1, <2>2, FS_Subset
<1>2. i + 1 \notin Kinds(doc, i, kind)
  BY DEF Kinds
<1>3. Kinds(doc, i + 1, kind) =
        IF doc[i + 1].is = kind THEN Kinds(doc, i, kind) \cup {i + 1} ELSE Kinds(doc, i, kind)
  BY DEF Kinds
<1>4. Cardinality(Kinds(doc, i, kind) \cup {i + 1}) = Cardinality(Kinds(doc, i, kind)) + 1
  BY <1>1, <1>2, FS_AddElement
<1>5. Kinds(doc, 0, kind) = {}
  BY DEF Kinds
<1>6. Cardinality(Kinds(doc, i, kind)) \in Nat
  BY <1>1, FS_CardinalityType
<1> QED
  BY <1>3, <1>4, <1>5, <1>6, FS_EmptySet

Delta(e) == IF e.is = "start" THEN 1 ELSE IF e.is = "end" THEN -1 ELSE 0

(* A start makes the document deeper, an end less deep.                    *)
LEMMA DepthStep ==
  ASSUME NEW doc, NEW i \in Nat
  PROVE  /\ Depth(doc, i) \in Int
         /\ Depth(doc, i + 1) = Depth(doc, i) + Delta(doc[i + 1])
         /\ Depth(doc, 0) = 0
<1>1. \A k \in Nat : Depth(doc, k) = Cardinality(Kinds(doc, k, "start"))
                                     - Cardinality(Kinds(doc, k, "end"))
  BY DEF Depth, Kinds
<1>2. /\ Depth(doc, i) = Cardinality(Kinds(doc, i, "start")) - Cardinality(Kinds(doc, i, "end"))
      /\ Depth(doc, i + 1) = Cardinality(Kinds(doc, i + 1, "start"))
                             - Cardinality(Kinds(doc, i + 1, "end"))
      /\ Depth(doc, 0) = Cardinality(Kinds(doc, 0, "start")) - Cardinality(Kinds(doc, 0, "end"))
  BY <1>1
<1>3. /\ Cardinality(Kinds(doc, i, "start")) \in Nat /\ Cardinality(Kinds(doc, i, "end")) \in Nat
      /\ Cardinality(Kinds(doc, 0, "start")) = 0 /\ Cardinality(Kinds(doc, 0, "end")) = 0
      /\ Cardinality(Kinds(doc, i + 1, "start")) =
           Cardinality(Kinds(doc, i, "start")) + (IF doc[i + 1].is = "start" THEN 1 ELSE 0)
      /\ Cardinality(Kinds(doc, i + 1, "end")) =
           Cardinality(Kinds(doc, i, "end")) + (IF doc[i + 1].is = "end" THEN 1 ELSE 0)
  BY KindsStep
<1>4. "start" # "end"
  OBVIOUS
<1> QED
  BY <1>2, <1>3, <1>4 DEF Delta

(* The depth of a place does not depend on what follows.                   *)
LEMMA DepthStays ==
  ASSUME NEW doc, NEW d2, NEW e, Longer(doc, d2, e), NEW i \in 0 .. Len(doc)
  PROVE  Depth(d2, i) = Depth(doc, i)
<1>1. \A j \in 1 .. i : d2[j] = doc[j]
  BY LongerDomain DEF Longer
<1>2. \A kind : {j \in 1 .. i : d2[j].is = kind} = {j \in 1 .. i : doc[j].is = kind}
  BY <1>1
<1> QED
  BY <1>2 DEF Depth

(* The depth behind the new event.                                         *)
LEMMA DepthLast ==
  ASSUME NEW doc, NEW d2, NEW e, Longer(doc, d2, e)
  PROVE  Depth(d2, Len(doc) + 1) = Depth(doc, Len(doc)) + Delta(e)
<1>1. Len(doc) \in Nat /\ Len(doc) \in 0 .. Len(doc) /\ d2[Len(doc) + 1] = e
  BY LongerDomain DEF Longer
<1>2. Depth(d2, Len(doc) + 1) = Depth(d2, Len(doc)) + Delta(d2[Len(doc) + 1])
  BY <1>1, DepthStep
<1>3. Depth(d2, Len(doc)) = Depth(doc, Len(doc))
  BY <1>1, DepthStays
<1> QED
  BY <1>1, <1>2, <1>3

-----------------------------------------------------------------------------
(* Where elements end.                                                     *)

Ends(doc, i) == {j \in i .. Len(doc) : Depth(doc, j) = Depth(doc, i) - 1}

(* EndAt is the first of the places where the element may end.             *)
LEMMA EndAtEnds ==
  ASSUME NEW doc, NEW i \in Nat \ {0}
  PROVE  /\ doc[i].is = "empty" => EndAt(doc, i) = i
         /\ doc[i].is # "empty" /\ Ends(doc, i) = {} => EndAt(doc, i) = 0
         /\ doc[i].is # "empty" /\ Ends(doc, i) # {} =>
              /\ EndAt(doc, i) \in Ends(doc, i)
              /\ EndAt(doc, i) # 0
              /\ \A j \in Ends(doc, i) : EndAt(doc, i) <= j
<1>1. EndAt(doc, i) = IF doc[i].is = "empty" THEN i
                      ELSE IF Ends(doc, i) = {} THEN 0 ELSE Min(Ends(doc, i))
  BY DEF EndAt, Ends
<1>2. Ends(doc, i) \in SUBSET Nat /\ 0 \notin Ends(doc, i)
  BY DEF Ends
<1> QED
  BY <1>1, <1>2, LeastOf

(* Where an element ends does not depend on what follows.                  *)
LEMMA EndStays ==
  ASSUME NEW doc, NEW d2, NEW e, Longer(doc, d2, e), NEW i \in 1 .. Len(doc)
  PROVE  /\ EndAt(doc, i) # 0 => EndAt(d2, i) = EndAt(doc, i) /\ EndAt(doc, i) \in i .. Len(doc)
         /\ EndAt(doc, i) = 0 =>
              EndAt(d2, i) = IF Depth(d2, Len(doc) + 1) = Depth(doc, i) - 1
                             THEN Len(doc) + 1 ELSE 0
<1>1. Len(doc) \in Nat /\ i \in Nat \ {0} /\ Len(d2) = Len(doc) + 1 /\ d2[i] = doc[i]
  BY LongerDomain DEF Longer
<1>2. \A j \in i .. Len(doc) : Depth(d2, j) = Depth(doc, j)
  BY <1>1, DepthStays
<1>3. i \in i .. Len(doc)
  BY <1>1
<1>4. Ends(doc, i) \subseteq i .. Len(doc)
  BY DEF Ends
<1>5. Ends(d2, i) = Ends(doc, i) \cup {j \in {Len(doc) + 1} : Depth(d2, j) = Depth(doc, i) - 1}
  BY <1>1, <1>2, <1>3 DEF Ends
<1>6. CASE doc[i].is = "empty"
  BY <1>1, <1>6, EndAtEnds
<1>7. CASE doc[i].is # "empty" /\ Ends(doc, i) = {}
  <2>1. EndAt(doc, i) = 0
    BY <1>1, <1>7, EndAtEnds
  <2>2. CASE Depth(d2, Len(doc) + 1) = Depth(doc, i) - 1
    <3>1. Ends(d2, i) = {Len(doc) + 1}
      BY <1>5, <1>7, <2>2
    <3>2. Ends(d2, i) # {} /\ d2[i].is # "empty"
      BY <1>1, <1>7, <3>1
    <3>3. EndAt(d2, i) \in Ends(d2, i)
      BY <1>1, <3>2, EndAtEnds
    <3> QED
      BY <2>1, <2>2, <3>1, <3>3
  <2>3. CASE Depth(d2, Len(doc) + 1) # Depth(doc, i) - 1
    <3>1. Ends(d2, i) = {}
      BY <1>5, <1>7, <2>3
    <3>2. EndAt(d2, i) = 0
      BY <1>1, <1>7, <3>1, EndAtEnds
    <3> QED
      BY <2>1, <2>3, <3>2
  <2> QED
    BY <2>2, <2>3
<1>8. CASE doc[i].is # "empty" /\ Ends(doc, i) # {}
  <2>1. /\ EndAt(doc, i) \in Ends(doc, i) /\ EndAt(doc, i) # 0
        /\ \A j \in Ends(doc, i) : EndAt(doc, i) <= j
    BY <1>1, <1>8, EndAtEnds
  <2>2. Ends(d2, i) # {} /\ d2[i].is # "empty"
    BY <1>1, <1>5, <1>8
  <2>3. /\ EndAt(d2, i) \in Ends(d2, i)
        /\ \A j \in Ends(d2, i) : EndAt(d2, i) <= j
    BY <1>1, <2>2, EndAtEnds
  <2>4. EndAt(doc, i) \in Ends(d2, i) /\ EndAt(doc, i) \in i .. Len(doc)
    BY <1>4, <1>5, <2>1
  <2>5. EndAt(d2, i) <= EndAt(doc, i)
    BY <2>3, <2>4
  <2>6. EndAt(d2, i) \in Ends(doc, i)
    <3>1. EndAt(d2, i) # Len(doc) + 1
      BY <1>1, <2>4, <2>5
    <3> QED
      BY <1>5, <2>3, <3>1
  <2>7. EndAt(doc, i) <= EndAt(d2, i) /\ EndAt(d2, i) \in i .. Len(doc)
    BY <1>4, <2>1, <2>6
  <2>8. EndAt(doc, i) = EndAt(d2, i)
    BY <1>1, <2>4, <2>5, <2>7
  <2> QED
    BY <2>1, <2>4, <2>8
<1> QED
  BY <1>6, <1>7, <1>8

(* The new event is an element of its own if it is empty.                  *)
LEMMA EndOfLast ==
  ASSUME NEW doc, NEW d2, NEW e, Longer(doc, d2, e)
  PROVE  EndAt(d2, Len(doc) + 1) = IF e.is = "empty" THEN Len(doc) + 1 ELSE 0
<1>1. Len(doc) \in Nat /\ Len(d2) = Len(doc) + 1 /\ d2[Len(doc) + 1] = e
  BY LongerDomain DEF Longer
<1>2. Len(doc) + 1 \in Nat \ {0}
  BY <1>1
<1>3. Depth(d2, Len(doc) + 1) \in Int
  BY <1>2, DepthStep
<1>4. Ends(d2, Len(doc) + 1) = {}
  BY <1>1, <1>3 DEF Ends
<1> QED
  BY <1>1, <1>2, <1>4, EndAtEnds

-----------------------------------------------------------------------------
(* Which elements are open.                                                *)

StackOK(stack) ==
  /\ stack \in Seq(DOMAIN Level)
  /\ Len(stack) <= 3
  /\ Len(stack) >= 1 => stack[1] = "BMApplicationScheme"
  /\ Len(stack) >= 2 => stack[2] \in {"Resource", "DisplayObject"}
  /\ Len(stack) >= 3 => stack[2] = "Resource" /\ stack[3] = "data"

IsElement(e) == e.is \in {"start", "empty"}

(* The elements of the stack start at the places of `at`, and no others    *)
(* are open.                                                               *)
Opened(doc, stack, at) ==
  /\ at \in [1 .. Len(stack) -> 1 .. Len(doc)]
  /\ Depth(doc, Len(doc)) = Len(stack)
  /\ \A k \in 1 .. Len(stack) :
       /\ doc[at[k]].is = "start" /\ doc[at[k]].name = stack[k]
       /\ \A j \in at[k] .. Len(doc) : Depth(doc, j) >= k
  /\ \A i \in 1 .. Len(doc) : doc[i].is = "start" /\ EndAt(doc, i) = 0 =>
       \E k \in 1 .. Len(stack) : i = at[k]
  /\ \A i \in 1 .. Len(doc) : IsElement(doc[i]) => Depth(doc, i - 1) = Level[doc[i].name] - 1

(* stack2 is the stack with the name on top.                               *)
Pushed(stack, stack2, name) ==
  /\ Len(stack) \in Nat
  /\ Len(stack2) = Len(stack) + 1
  /\ stack2[Len(stack2)] = name
  /\ \A k \in 1 .. Len(stack) : stack2[k] = stack[k]

(* The level of an open element is its place on the stack.                 *)
LEMMA StackLevels ==
  ASSUME NEW stack, StackOK(stack), NEW k \in 1 .. Len(stack)
  PROVE  Level[stack[k]] = k
<1>1. Len(stack) \in Nat /\ Len(stack) <= 3
  <2>1. stack \in Seq(DOMAIN Level) /\ Len(stack) <= 3
    BY DEF StackOK
  <2> QED
    BY <2>1, LenProperties
<1>2. k \in Nat /\ 1 <= k /\ k <= Len(stack)
  BY <1>1
<1>4. k = 1 \/ k = 2 \/ k = 3
  BY <1>1, <1>2
<1>3. /\ Level["BMApplicationScheme"] = 1 /\ Level["Resource"] = 2
      /\ Level["DisplayObject"] = 2 /\ Level["data"] = 3
  BY DEF Level
<1> QED
  BY <1>1, <1>2, <1>3, <1>4 DEF StackOK

(* An element is as deep as its name says.                                 *)
LEMMA ElementDepth ==
  ASSUME NEW doc \in Seq(Event), NEW stack, NEW at, Opened(doc, stack, at),
         NEW i \in 1 .. Len(doc), IsElement(doc[i])
  PROVE  /\ doc[i].is = "start" => Depth(doc, i) = Level[doc[i].name]
         /\ Level[doc[i].name] \in 1 .. 3
         /\ Depth(doc, i - 1) = Level[doc[i].name] - 1
<1>1. i - 1 \in Nat /\ (i - 1) + 1 = i
  OBVIOUS
<1>2. Depth(doc, i) = Depth(doc, i - 1) + Delta(doc[i])
  BY <1>1, DepthStep
<1>3. doc[i] \in Event
  BY ElementOfSeq
<1>4. Level[doc[i].name] \in 1 .. 3
  <2>1. doc[i].name \in DOMAIN Level
    BY <1>3 DEF Event, IsElement
  <2>2. \A name \in DOMAIN Level : Level[name] \in 1 .. 3
    BY DEF Level
  <2> QED
    BY <2>1, <2>2
<1>5. Depth(doc, i - 1) = Level[doc[i].name] - 1
  BY DEF Opened
<1> QED
  BY <1>2, <1>4, <1>5 DEF Delta

(* Behind the start of an open element everything is deeper.               *)
LEMMA BehindOpen ==
  ASSUME NEW doc \in Seq(Event), NEW stack, StackOK(stack), NEW at, Opened(doc, stack, at),
         NEW k \in 1 .. Len(stack)
  PROVE  /\ at[k] \in 1 .. Len(doc) /\ Depth(doc, at[k]) = k
         /\ \A i \in 1 .. Len(doc) : i > at[k] /\ IsElement(doc[i]) => Level[doc[i].name] > k
<1>1. at[k] \in 1 .. Len(doc) /\ doc[at[k]].is = "start" /\ doc[at[k]].name = stack[k]
  BY DEF Opened
<1>2. Depth(doc, at[k]) = k
  BY <1>1, ElementDepth, StackLevels DEF IsElement
<1>3. ASSUME NEW i \in 1 .. Len(doc), i > at[k], IsElement(doc[i])
      PROVE  Level[doc[i].name] > k
  <2>1. i - 1 \in at[k] .. Len(doc)
    BY <1>1, <1>3, LenProperties
  <2>2. Depth(doc, i - 1) >= k
    BY <2>1 DEF Opened
  <2>3. Level[doc[i].name] \in 1 .. 3 /\ Depth(doc, i - 1) = Level[doc[i].name] - 1
    BY <1>3, ElementDepth
  <2>4. k \in Int
    OBVIOUS
  <2> QED
    BY <2>2, <2>3, <2>4
<1> QED
  BY <1>1, <1>2, <1>3

(* An element that is whole has no open one of a deeper level inside.      *)
LEMMA NoOpenInside ==
  ASSUME NEW doc \in Seq(Event), NEW stack, NEW at, Opened(doc, stack, at),
         NEW k \in 1 .. Len(stack), NEW i \in 1 .. Len(doc), IsElement(doc[i]),
         EndAt(doc, i) # 0, Level[doc[i].name] <= k
  PROVE  at[k] \notin Inside(doc, i)
<1>1. CASE doc[i].is = "empty"
  <2>1. EndAt(doc, i) = i
    BY <1>1, EndAtEnds
  <2> QED
    BY <2>1 DEF Inside
<1>2. CASE doc[i].is = "start"
  <2>1. EndAt(doc, i) \in Ends(doc, i)
    BY <1>2, EndAtEnds
  <2>2. EndAt(doc, i) \in i .. Len(doc) /\ Depth(doc, EndAt(doc, i)) = Depth(doc, i) - 1
    BY <2>1 DEF Ends
  <2>3. Depth(doc, i) = Level[doc[i].name] /\ Level[doc[i].name] \in 1 .. 3
    BY <1>2, ElementDepth
  <2>4. SUFFICES ASSUME at[k] \in Inside(doc, i) PROVE FALSE
    OBVIOUS
  <2>5. at[k] \in Int /\ EndAt(doc, i) \in at[k] .. Len(doc)
    BY <2>2, <2>4, LenProperties DEF Inside
  <2>6. Depth(doc, EndAt(doc, i)) >= k
    BY <2>5 DEF Opened
  <2> QED
    BY <2>2, <2>3, <2>6
<1> QED
  BY <1>1, <1>2 DEF IsElement

(* A start is put on the stack.                                            *)
LEMMA OpenedStart ==
  ASSUME NEW doc, NEW d2, NEW e, Longer(doc, d2, e), e.is = "start",
         NEW stack, NEW at, Opened(doc, stack, at),
         NEW stack2, Pushed(stack, stack2, e.name), Level[e.name] = Len(stack) + 1
  PROVE  \E at2 : /\ Opened(d2, stack2, at2)
                  /\ \A k \in 1 .. Len(stack) : at2[k] = at[k]
                  /\ at2[Len(stack2)] = Len(doc) + 1
<1>1. Len(doc) \in Nat /\ Len(d2) = Len(doc) + 1 /\ d2[Len(doc) + 1] = e
  BY LongerDomain DEF Longer
<1>2. Len(stack) \in Nat /\ Len(stack2) = Len(stack) + 1 /\ stack2[Len(stack) + 1] = e.name
  BY DEF Pushed
<1> DEFINE at2 == [k \in 1 .. Len(stack2) |-> IF k <= Len(stack) THEN at[k] ELSE Len(doc) + 1]
<1>3. /\ \A k \in 1 .. Len(stack) : at2[k] = at[k] /\ at[k] \in 1 .. Len(doc)
      /\ at2[Len(stack) + 1] = Len(doc) + 1
      /\ at2 \in [1 .. Len(stack2) -> 1 .. Len(d2)]
  BY <1>1, <1>2 DEF Opened
<1> HIDE DEF at2
<1>4. Depth(d2, Len(doc) + 1) = Len(stack) + 1 /\ Depth(d2, Len(doc)) = Len(stack)
  <2>1. Depth(doc, Len(doc)) = Len(stack) /\ Len(doc) \in 0 .. Len(doc)
    BY <1>1 DEF Opened
  <2>2. Depth(d2, Len(doc)) = Depth(doc, Len(doc))
    BY <2>1, DepthStays
  <2> QED
    BY <2>1, <2>2, DepthLast DEF Delta
<1>5. \A j \in 0 .. Len(doc) : Depth(d2, j) = Depth(doc, j)
  BY DepthStays
<1>6. ASSUME NEW k \in 1 .. Len(stack2)
      PROVE  /\ d2[at2[k]].is = "start" /\ d2[at2[k]].name = stack2[k]
             /\ \A j \in at2[k] .. Len(d2) : Depth(d2, j) >= k
  <2>1. CASE k \in 1 .. Len(stack)
    <3>1. at2[k] = at[k] /\ at[k] \in 1 .. Len(doc)
      BY <1>3, <2>1
    <3>2. /\ doc[at[k]].is = "start" /\ doc[at[k]].name = stack[k]
          /\ \A j \in at[k] .. Len(doc) : Depth(doc, j) >= k
      BY <2>1 DEF Opened
    <3>3. d2[at[k]] = doc[at[k]] /\ stack2[k] = stack[k]
      BY <2>1, <3>1 DEF Longer, Pushed
    <3>4. \A j \in at[k] .. Len(doc) : Depth(d2, j) >= k
      BY <1>5, <3>1, <3>2
    <3>5. \A j \in at[k] .. Len(d2) : j \in at[k] .. Len(doc) \/ j = Len(doc) + 1
      BY <1>1, <3>1
    <3>6. Depth(d2, Len(doc) + 1) >= k
      BY <1>2, <1>4, <2>1
    <3> QED
      BY <3>1, <3>2, <3>3, <3>4, <3>5, <3>6
  <2>2. CASE k = Len(stack) + 1
    <3>1. at2[k] = Len(doc) + 1 /\ d2[at2[k]] = e /\ stack2[k] = e.name
      BY <1>1, <1>2, <1>3, <2>2
    <3>2. \A j \in at2[k] .. Len(d2) : j = Len(doc) + 1
      BY <1>1, <3>1
    <3> QED
      BY <1>2, <1>4, <2>2, <3>1, <3>2
  <2> QED
    BY <1>2, <2>1, <2>2
<1>7. ASSUME NEW i \in 1 .. Len(d2), d2[i].is = "start", EndAt(d2, i) = 0
      PROVE  \E k \in 1 .. Len(stack2) : i = at2[k]
  <2>1. CASE i \in 1 .. Len(doc)
    <3>1. d2[i] = doc[i]
      BY <2>1 DEF Longer
    <3>2. EndAt(doc, i) = 0
      BY <1>7, <2>1, EndStays
    <3>3. PICK k \in 1 .. Len(stack) : i = at[k]
      BY <1>7, <2>1, <3>1, <3>2 DEF Opened
    <3> QED
      BY <1>2, <1>3, <3>3
  <2>2. CASE i = Len(doc) + 1
    BY <1>2, <1>3, <2>2
  <2> QED
    BY <1>1, <2>1, <2>2
<1>8. ASSUME NEW i \in 1 .. Len(d2), IsElement(d2[i])
      PROVE  Depth(d2, i - 1) = Level[d2[i].name] - 1
  <2>1. CASE i \in 1 .. Len(doc)
    <3>1. d2[i] = doc[i] /\ i - 1 \in 0 .. Len(doc)
      BY <1>1, <2>1 DEF Longer
    <3> QED
      BY <1>5, <1>8, <2>1, <3>1 DEF Opened
  <2>2. CASE i = Len(doc) + 1
    <3>1. d2[i] = e /\ i - 1 = Len(doc)
      BY <1>1, <2>2
    <3> QED
      BY <1>2, <1>4, <3>1
  <2> QED
    BY <1>1, <2>1, <2>2
<1>9. Opened(d2, stack2, at2)
  BY <1>1, <1>2, <1>3, <1>4, <1>6, <1>7, <1>8 DEF Opened
<1> QED
  BY <1>2, <1>3, <1>9

(* Texts and empty elements leave the stack as it is.                      *)
LEMMA OpenedFlat ==
  ASSUME NEW doc, NEW d2, NEW e, Longer(doc, d2, e), e.is \in {"text", "empty"},
         NEW stack, Len(stack) \in Nat, NEW at, Opened(doc, stack, at),
         e.is = "empty" => Level[e.name] = Len(stack) + 1
  PROVE  Opened(d2, stack, at)
<1>1. Len(doc) \in Nat /\ Len(d2) = Len(doc) + 1 /\ d2[Len(doc) + 1] = e
  BY LongerDomain DEF Longer
<1>2. \A j \in 0 .. Len(doc) : Depth(d2, j) = Depth(doc, j)
  BY DepthStays
<1>3. Depth(d2, Len(d2)) = Len(stack) /\ Depth(d2, Len(doc)) = Len(stack)
  <2>1. Depth(doc, Len(doc)) = Len(stack) /\ Len(doc) \in 0 .. Len(doc)
    BY <1>1 DEF Opened
  <2>2. Delta(e) = 0
    BY DEF Delta
  <2>3. Depth(d2, Len(doc) + 1) = Depth(doc, Len(doc)) + Delta(e)
    BY DepthLast
  <2> QED
    BY <1>1, <1>2, <2>1, <2>2, <2>3
<1>4. ASSUME NEW k \in 1 .. Len(stack)
      PROVE  /\ at[k] \in 1 .. Len(d2)
             /\ d2[at[k]].is = "start" /\ d2[at[k]].name = stack[k]
             /\ \A j \in at[k] .. Len(d2) : Depth(d2, j) >= k
  <2>1. /\ at[k] \in 1 .. Len(doc) /\ doc[at[k]].is = "start" /\ doc[at[k]].name = stack[k]
        /\ \A j \in at[k] .. Len(doc) : Depth(doc, j) >= k
    BY DEF Opened
  <2>2. d2[at[k]] = doc[at[k]]
    BY <2>1 DEF Longer
  <2>3. \A j \in at[k] .. Len(doc) : Depth(d2, j) >= k
    BY <1>2, <2>1
  <2>4. \A j \in at[k] .. Len(d2) : j \in at[k] .. Len(doc) \/ j = Len(d2)
    BY <1>1, <2>1
  <2>5. Depth(d2, Len(d2)) >= k
    BY <1>3
  <2>6. at[k] \in 1 .. Len(d2)
    BY <1>1, <2>1
  <2> QED
    BY <2>1, <2>2, <2>3, <2>4, <2>5, <2>6
<1>5. at \in [1 .. Len(stack) -> 1 .. Len(d2)]
  BY <1>4 DEF Opened
<1>6. ASSUME NEW i \in 1 .. Len(d2), d2[i].is = "start", EndAt(d2, i) = 0
      PROVE  \E k \in 1 .. Len(stack) : i = at[k]
  <2>1. i \in 1 .. Len(doc)
    BY <1>1, <1>6
  <2>2. d2[i] = doc[i]
    BY <2>1 DEF Longer
  <2>3. EndAt(doc, i) = 0
    BY <1>6, <2>1, EndStays
  <2> QED
    BY <1>6, <2>1, <2>2, <2>3 DEF Opened
<1>7. ASSUME NEW i \in 1 .. Len(d2), IsElement(d2[i])
      PROVE  Depth(d2, i - 1) = Level[d2[i].name] - 1
  <2>1. CASE i \in 1 .. Len(doc)
    <3>1. d2[i] = doc[i] /\ i - 1 \in 0 .. Len(doc)
      BY <1>1, <2>1 DEF Longer
    <3> QED
      BY <1>2, <1>7, <2>1, <3>1 DEF Opened
  <2>2. CASE i = Len(doc) + 1
    <3>1. d2[i] = e /\ i - 1 = Len(doc)
      BY <1>1, <2>2
    <3>2. e.is = "empty"
      BY <1>7, <3>1 DEF IsElement
    <3> QED
      BY <1>3, <3>1, <3>2
  <2> QED
    BY <1>1, <2>1, <2>2
<1> QED
  BY <1>3, <1>4, <1>5, <1>6, <1>7 DEF Opened

(* An end tag takes the innermost element from the stack.                  *)
LEMMA OpenedEnd ==
  ASSUME NEW doc, NEW d2, NEW e, Longer(doc, d2, e), e.is = "end",
         NEW stack, StackOK(stack), NEW at, Opened(doc, stack, at),
         NEW stack2, NEW name, Pushed(stack2, stack, name)
  PROVE  \E at2 : /\ Opened(d2, stack2, at2)
                  /\ \A k \in 1 .. Len(stack2) : at2[k] = at[k]
<1>1. Len(doc) \in Nat /\ Len(d2) = Len(doc) + 1 /\ d2[Len(doc) + 1] = e
  BY LongerDomain DEF Longer
<1>2. Len(stack2) \in Nat /\ Len(stack) = Len(stack2) + 1
  BY DEF Pushed
<1> DEFINE at2 == [k \in 1 .. Len(stack2) |-> at[k]]
<1>3. /\ \A k \in 1 .. Len(stack2) : at2[k] = at[k] /\ at[k] \in 1 .. Len(doc)
      /\ at2 \in [1 .. Len(stack2) -> 1 .. Len(d2)]
  BY <1>1, <1>2 DEF Opened
<1> HIDE DEF at2
<1>4. \A j \in 0 .. Len(doc) : Depth(d2, j) = Depth(doc, j)
  BY DepthStays
<1>5. Depth(d2, Len(d2)) = Len(stack2)
  <2>1. Depth(doc, Len(doc)) = Len(stack)
    BY DEF Opened
  <2>2. Delta(e) = -1
    BY DEF Delta
  <2>3. Depth(d2, Len(doc) + 1) = Depth(doc, Len(doc)) + Delta(e)
    BY DepthLast
  <2> QED
    BY <1>1, <1>2, <2>1, <2>2, <2>3
<1>6. ASSUME NEW k \in 1 .. Len(stack2)
      PROVE  /\ d2[at2[k]].is = "start" /\ d2[at2[k]].name = stack2[k]
             /\ \A j \in at2[k] .. Len(d2) : Depth(d2, j) >= k
  <2>1. k \in 1 .. Len(stack) /\ at2[k] = at[k] /\ at[k] \in 1 .. Len(doc)
    BY <1>2, <1>3
  <2>2. /\ doc[at[k]].is = "start" /\ doc[at[k]].name = stack[k]
        /\ \A j \in at[k] .. Len(doc) : Depth(doc, j) >= k
    BY <2>1 DEF Opened
  <2>3. d2[at[k]] = doc[at[k]] /\ stack2[k] = stack[k]
    BY <2>1 DEF Longer, Pushed
  <2>4. \A j \in at[k] .. Len(doc) : Depth(d2, j) >= k
    BY <1>4, <2>1, <2>2
  <2>5. \A j \in at[k] .. Len(d2) : j \in at[k] .. Len(doc) \/ j = Len(d2)
    BY <1>1, <2>1
  <2>6. Depth(d2, Len(d2)) >= k
    BY <1>5
  <2> QED
    BY <2>1, <2>2, <2>3, <2>4, <2>5, <2>6
<1>7. ASSUME NEW i \in 1 .. Len(d2), d2[i].is = "start", EndAt(d2, i) = 0
      PROVE  \E k \in 1 .. Len(stack2) : i = at2[k]
  <2>1. i \in 1 .. Len(doc)
    BY <1>1, <1>7
  <2>2. d2[i] = doc[i]
    BY <2>1 DEF Longer
  <2>3. EndAt(doc, i) = 0 /\ Depth(d2, Len(doc) + 1) # Depth(doc, i) - 1
    BY <1>1, <1>7, <2>1, EndStays
  <2>4. PICK k \in 1 .. Len(stack) : i = at[k]
    BY <1>7, <2>1, <2>2, <2>3 DEF Opened
  <2>5. Depth(doc, i) = k
    BY <2>4, BehindOpen DEF Longer
  <2>6. k # Len(stack)
    BY <1>1, <1>2, <1>5, <2>3, <2>5
  <2>7. k \in 1 .. Len(stack2)
    BY <1>2, <2>6
  <2> QED
    BY <1>3, <2>4, <2>7
<1>8. ASSUME NEW i \in 1 .. Len(d2), IsElement(d2[i])
      PROVE  Depth(d2, i - 1) = Level[d2[i].name] - 1
  <2>1. i \in 1 .. Len(doc)
    BY <1>1, <1>8 DEF IsElement
  <2>2. d2[i] = doc[i] /\ i - 1 \in 0 .. Len(doc)
    BY <1>1, <2>1 DEF Longer
  <2> QED
    BY <1>4, <1>8, <2>1, <2>2 DEF Opened
<1>9. Opened(d2, stack2, at2)
  BY <1>3, <1>5, <1>6, <1>7, <1>8 DEF Opened
<1> QED
  BY <1>3, <1>9

-----------------------------------------------------------------------------
(* What an event adds.                                                     *)

(* The element an end tag closes.                                          *)
Closed(e, stack, at) == IF e.is = "end" THEN {at[Len(stack)]} ELSE {}

(* Whole is what was whole, and the element the event closes.              *)
LEMMA NowWhole ==
  ASSUME NEW doc, NEW d2, NEW e, Longer(doc, d2, e),
         NEW stack, StackOK(stack), NEW at, Opened(doc, stack, at),
         e.is = "end" => stack # <<>>,
         NEW i \in 1 .. Len(doc), IsElement(doc[i])
  PROVE  EndAt(d2, i) # 0 <=> EndAt(doc, i) # 0 \/ i \in Closed(e, stack, at)
<1>1. Len(doc) \in Nat /\ i \in Nat \ {0} /\ doc \in Seq(Event)
  BY LongerDomain DEF Longer
<1>2. Len(stack) \in Nat
  BY LenProperties DEF StackOK
<1>3. Depth(d2, Len(doc) + 1) = Len(stack) + Delta(e)
  BY DepthLast DEF Opened
<1>4. CASE EndAt(doc, i) # 0
  BY <1>4, EndStays
<1>5. CASE EndAt(doc, i) = 0
  <2>1. doc[i].is = "start"
    BY <1>1, <1>5, EndAtEnds DEF IsElement
  <2>2. PICK k \in 1 .. Len(stack) : i = at[k]
    BY <1>5, <2>1 DEF Opened
  <2>3. Depth(doc, i) = k /\ k \in Nat
    BY <1>1, <2>2, BehindOpen
  <2>4. EndAt(d2, i) # 0 <=> Len(stack) + Delta(e) = k - 1
    BY <1>1, <1>3, <1>5, <2>3, EndStays
  <2>5. CASE e.is = "end"
    <3>1. Delta(e) = -1
      BY <2>5 DEF Delta
    <3>2. EndAt(d2, i) # 0 <=> k = Len(stack)
      BY <1>2, <2>3, <2>4, <3>1
    <3>3. i = at[Len(stack)] => k = Len(stack)
      <4>1. stack # <<>> /\ Len(stack) \in 1 .. Len(stack)
        BY <1>2, <2>2, <2>5
      <4>2. Depth(doc, at[Len(stack)]) = Len(stack)
        BY <1>1, <4>1, BehindOpen
      <4> QED
        BY <2>3, <4>2
    <3> QED
      BY <1>5, <2>2, <2>5, <3>2, <3>3 DEF Closed
  <2>6. CASE e.is # "end"
    <3>1. Delta(e) \in Nat
      BY <2>6 DEF Delta
    <3> QED
      BY <1>2, <1>5, <2>2, <2>3, <2>4, <2>6, <3>1 DEF Closed
  <2> QED
    BY <2>5, <2>6
<1> QED
  BY <1>4, <1>5

(* An element counts as named from its start.                              *)
LEMMA NamedLonger ==
  ASSUME NEW doc, NEW d2, NEW e, Longer(doc, d2, e), NEW name, NEW kinds
  PROVE  /\ Named(d2, name, kinds) =
              Named(doc, name, kinds)
                \cup (IF e.is \in kinds /\ e.name = name THEN {Len(doc) + 1} ELSE {})
         /\ Named(doc, name, kinds) \subseteq 1 .. Len(doc)
<1>1. /\ Len(doc) \in Nat /\ DOMAIN doc = 1 .. Len(doc) /\ DOMAIN d2 = 1 .. (Len(doc) + 1)
      /\ d2[Len(doc) + 1] = e
      /\ \A i \in 1 .. Len(doc) : d2[i] = doc[i]
  BY LongerDomain DEF Longer
<1> QED
  BY <1>1 DEF Named

(* Empty elements are whole, others when they are closed.                  *)
LEMMA WholeLonger ==
  ASSUME NEW doc, NEW d2, NEW e, Longer(doc, d2, e),
         NEW stack, StackOK(stack), NEW at, Opened(doc, stack, at),
         e.is = "end" => stack # <<>>,
         NEW name, NEW kinds \in SUBSET {"start", "empty"}
  PROVE  /\ e.is \in {"start", "text"} => Whole(d2, name, kinds) = Whole(doc, name, kinds)
         /\ e.is = "empty" =>
              Whole(d2, name, kinds) =
                Whole(doc, name, kinds)
                  \cup (IF "empty" \in kinds /\ e.name = name THEN {Len(doc) + 1} ELSE {})
         /\ e.is = "end" =>
              Whole(d2, name, kinds) =
                Whole(doc, name, kinds)
                  \cup (IF "start" \in kinds /\ stack[Len(stack)] = name
                        THEN {at[Len(stack)]} ELSE {})
<1>1. /\ Len(doc) \in Nat /\ DOMAIN doc = 1 .. Len(doc) /\ DOMAIN d2 = 1 .. (Len(doc) + 1)
      /\ d2[Len(doc) + 1] = e
      /\ \A i \in 1 .. Len(doc) : d2[i] = doc[i]
  BY LongerDomain DEF Longer
<1>2. \A i \in 1 .. Len(doc) : doc[i].is \in kinds => IsElement(doc[i])
  BY DEF IsElement
<1>3. ASSUME NEW i \in 1 .. Len(doc)
      PROVE  i \in Whole(d2, name, kinds) <=>
               \/ i \in Whole(doc, name, kinds)
               \/ i \in Closed(e, stack, at) /\ doc[i].is \in kinds /\ doc[i].name = name
  BY <1>1, <1>2, NowWhole DEF Whole, Named
<1>4. Len(doc) + 1 \in Whole(d2, name, kinds) <=>
        e.is = "empty" /\ "empty" \in kinds /\ e.name = name
  <2>1. EndAt(d2, Len(doc) + 1) # 0 <=> e.is = "empty"
    BY <1>1, EndOfLast
  <2> QED
    BY <1>1, <2>1 DEF Whole, Named
<1>5. /\ Whole(d2, name, kinds) \subseteq 1 .. (Len(doc) + 1)
      /\ Whole(doc, name, kinds) \subseteq 1 .. Len(doc)
  BY <1>1 DEF Whole, Named
<1>6. \A i \in 1 .. (Len(doc) + 1) : i \in 1 .. Len(doc) \/ i = Len(doc) + 1
  BY <1>1
<1>7. CASE e.is # "end"
  <2>1. \A i \in 1 .. Len(doc) : i \in Whole(d2, name, kinds) <=> i \in Whole(doc, name, kinds)
    BY <1>3, <1>7 DEF Closed
  <2>2. Len(doc) + 1 \notin 1 .. Len(doc)
    BY <1>1
  <2> QED
    BY <1>1, <1>4, <1>5, <1>6, <1>7, <2>1, <2>2
<1>8. CASE e.is = "end"
  <2>1. Len(stack) \in 1 .. Len(stack)
    BY <1>8, LenProperties, EmptySeq DEF StackOK
  <2>2. /\ at[Len(stack)] \in 1 .. Len(doc) /\ doc[at[Len(stack)]].is = "start"
        /\ doc[at[Len(stack)]].name = stack[Len(stack)]
    BY <2>1 DEF Opened
  <2>3. \A i \in 1 .. Len(doc) :
          i \in Whole(d2, name, kinds) <=>
            \/ i \in Whole(doc, name, kinds)
            \/ i = at[Len(stack)] /\ "start" \in kinds /\ stack[Len(stack)] = name
    BY <1>3, <1>8, <2>2 DEF Closed
  <2>4. Len(doc) + 1 \notin Whole(d2, name, kinds)
    BY <1>4, <1>8
  <2> QED
    BY <1>5, <1>6, <1>8, <2>2, <2>3, <2>4
<1> QED
  BY <1>7, <1>8

-----------------------------------------------------------------------------
(* What stays as it is while the document grows.                           *)

(* The document doc, in which the stack is open, and the event e behind it.*)
Read(doc, d2, e, stack, at) ==
  /\ Longer(doc, d2, e)
  /\ StackOK(stack)
  /\ Opened(doc, stack, at)
  /\ e.is = "end" => stack # <<>>

(* A greatest element is the maximum.                                      *)
LEMMA MaxIs ==
  ASSUME NEW T \in SUBSET Int, NEW x \in T, \A y \in T : y <= x
  PROVE  Max(T) = x
<1>1. x \in T /\ x \in Int /\ \A y \in T : y \in Int /\ x >= y
  OBVIOUS
<1>2. \E m \in T : \A y \in T : m >= y
  BY <1>1
<1>3. Max(T) \in T /\ \A y \in T : Max(T) >= y
  BY <1>2 DEF Max
<1>4. Max(T) \in Int /\ Max(T) >= x /\ x >= Max(T)
  BY <1>1, <1>3
<1> QED
  BY <1>1, <1>4

(* A stack that is not empty has an innermost element.                     *)
LEMMA TopOfStack ==
  ASSUME NEW stack, StackOK(stack)
  PROVE  /\ Len(stack) \in 0 .. 3
         /\ stack # <<>> => Len(stack) \in 1 .. Len(stack) /\ Len(stack) \in 1 .. 3
<1>1. stack \in Seq(DOMAIN Level) /\ Len(stack) <= 3
  BY DEF StackOK
<1>2. Len(stack) \in Nat
  BY <1>1, LenProperties
<1>3. stack # <<>> => Len(stack) # 0
  BY <1>1, EmptySeq
<1>4. PICK n \in Nat : n = Len(stack)
  BY <1>2
<1>5. n \in 0 .. 3 /\ (n # 0 => n \in 1 .. n /\ n \in 1 .. 3)
  <2>1. n <= 3
    BY <1>1, <1>4
  <2> QED
    BY <2>1
<1>6. stack # <<>> => n # 0
  BY <1>3, <1>4
<1> QED
  BY <1>4, <1>5, <1>6

(* The level of the innermost element is the height of the stack.          *)
LEMMA TopLevel ==
  ASSUME NEW stack, StackOK(stack), stack # <<>>
  PROVE  Len(stack) = Level[stack[Len(stack)]]
BY TopOfStack, StackLevels

(* An open element has no end, and no element of its level starts later.   *)
LEMMA OpenHasNoEnd ==
  ASSUME NEW doc \in Seq(Event), NEW stack, StackOK(stack), NEW at, Opened(doc, stack, at),
         NEW k \in 1 .. Len(stack)
  PROVE  EndAt(doc, at[k]) = 0
<1>1. /\ at[k] \in 1 .. Len(doc) /\ Depth(doc, at[k]) = k /\ k \in Nat
      /\ doc[at[k]].is # "empty"
      /\ \A j \in at[k] .. Len(doc) : Depth(doc, j) >= k
  <2>1. at[k] \in 1 .. Len(doc) /\ Depth(doc, at[k]) = k
    BY BehindOpen
  <2>2. /\ doc[at[k]].is = "start"
        /\ \A j \in at[k] .. Len(doc) : Depth(doc, j) >= k
    BY DEF Opened
  <2> QED
    BY <2>1, <2>2
<1>2. \A j \in at[k] .. Len(doc) : Depth(doc, j) \in Int
  BY <1>1, DepthStep
<1>3. Ends(doc, at[k]) = {}
  BY <1>1, <1>2 DEF Ends
<1> QED
  BY <1>1, <1>3, EndAtEnds

(* The whole elements of its level start before an open element.           *)
LEMMA OpenIsLast ==
  ASSUME NEW doc \in Seq(Event), NEW stack, StackOK(stack), NEW at, Opened(doc, stack, at),
         NEW k \in 1 .. Len(stack),
         NEW name, Level[name] = k, NEW kinds \in SUBSET {"start", "empty"}
  PROVE  \A i \in Whole(doc, name, kinds) : i < at[k]
<1> SUFFICES ASSUME NEW i \in Whole(doc, name, kinds)
             PROVE  i < at[k]
  OBVIOUS
<1>1. i \in 1 .. Len(doc) /\ IsElement(doc[i]) /\ doc[i].name = name /\ EndAt(doc, i) # 0
  <2>1. DOMAIN doc = 1 .. Len(doc)
    BY LenProperties
  <2> QED
    BY <2>1 DEF Whole, Named, IsElement
<1>2. at[k] \in 1 .. Len(doc) /\ (i > at[k] => Level[doc[i].name] > k)
  BY <1>1, BehindOpen
<1>3. EndAt(doc, at[k]) = 0
  BY OpenHasNoEnd
<1>4. k \in Int
  OBVIOUS
<1>5. ~(i > at[k]) /\ i # at[k]
  BY <1>1, <1>2, <1>3, <1>4
<1> QED
  BY <1>1, <1>2, <1>5

(* What is inside a whole element stays inside.                            *)
LEMMA WholeInside ==
  ASSUME NEW doc, NEW d2, NEW e, Longer(doc, d2, e),
         NEW i \in 1 .. Len(doc), EndAt(doc, i) # 0
  PROVE  Inside(d2, i) = Inside(doc, i) /\ Inside(doc, i) \subseteq 1 .. Len(doc)
<1>1. /\ EndAt(d2, i) = EndAt(doc, i) /\ EndAt(doc, i) \in i .. Len(doc)
      /\ Len(doc) \in Nat
  BY EndStays, LongerDomain
<1> QED
  BY <1>1 DEF Inside

(* The text of a whole data element stays.                                 *)
LEMMA TextStays ==
  ASSUME NEW doc, NEW d2, NEW e, Longer(doc, d2, e),
         NEW d \in 1 .. Len(doc), EndAt(doc, d) # 0
  PROVE  TextAt(d2, d) = TextAt(doc, d)
<1>1. /\ EndAt(d2, d) = EndAt(doc, d) /\ EndAt(doc, d) \in d .. Len(doc)
      /\ Len(doc) \in Nat
  BY EndStays, LongerDomain
<1>2. \A k \in 1 .. EndAt(doc, d) - d - 1 : d + k \in 1 .. Len(doc)
  BY <1>1
<1>3. \A k \in 1 .. EndAt(doc, d) - d - 1 : d2[d + k] = doc[d + k]
  BY <1>2 DEF Longer
<1> QED
  BY <1>1, <1>3 DEF TextAt

(* The last bitmap of whole data elements stays.                           *)
LEMMA BitmapStays ==
  ASSUME NEW doc, NEW d2, NEW e, Longer(doc, d2, e),
         NEW places, \A d \in places : d \in 1 .. Len(doc) /\ EndAt(doc, d) # 0
  PROVE  LastBitmap(d2, places) = LastBitmap(doc, places)
<1>1. \A d \in places : TextAt(d2, d) = TextAt(doc, d)
  BY TextStays
<1>2. {d \in places : Decodes(TextAt(d2, d))} = {d \in places : Decodes(TextAt(doc, d))}
  BY <1>1
<1> DEFINE good == {d \in places : Decodes(TextAt(doc, d))}
<1>3. good # {} => Max(good) \in good \/ TextAt(d2, Max(good)) = TextAt(doc, Max(good))
  <2>1. CASE good = {}
    BY <2>1
  <2>2. CASE good # {}
    <3>1. PICK n \in Nat : n = Len(doc)
      BY LongerDomain
    <3>2. good \subseteq 1 .. n
      BY <3>1
    <3>3. \E m \in good : \A y \in good : m >= y
      <4> DEFINE T == {n - d : d \in good}
      <4>1. T \in SUBSET Nat /\ T # {}
        BY <2>2, <3>2
      <4>2. PICK t \in T : \A s \in T : t <= s
        BY <4>1, LeastNumber
      <4>3. PICK m \in good : t = n - m
        BY <4>2
      <4>4. \A y \in good : n - m <= n - y
        BY <4>2, <4>3
      <4> HIDE DEF good, T
      <4>5. \A y \in good : m >= y
        BY <3>2, <4>3, <4>4
      <4> QED
        BY <4>5
    <3> QED
      BY <3>3 DEF Max
  <2> QED
    BY <2>1, <2>2
<1> QED
  BY <1>1, <1>2, <1>3 DEF LastBitmap

(* The sampling mode is said by the first event.                           *)
LEMMA SamplingStays ==
  ASSUME NEW doc, NEW d2, NEW e, Longer(doc, d2, e), doc # <<>>
  PROVE  SamplingOf(d2) = SamplingOf(doc)
<1>1. 1 \in 1 .. Len(doc) /\ d2 # <<>>
  BY EmptySeq, LenProperties DEF Longer
<1>2. d2[1] = doc[1]
  BY <1>1 DEF Longer
<1> QED
  BY <1>1, <1>2 DEF SamplingOf

(* A resource that is whole has what it had, and so has a display object.  *)
LEMMA ResourceStays ==
  ASSUME NEW doc, NEW d2, NEW e, NEW stack, NEW at, Read(doc, d2, e, stack, at),
         NEW r, r.id \in Whole(doc, "Resource", {"start"}),
         IsResource(doc, r, Inside(doc, r.id))
  PROVE  IsResource(d2, r, Inside(d2, r.id))
<1>1. /\ Longer(doc, d2, e) /\ StackOK(stack) /\ Opened(doc, stack, at)
      /\ e.is = "end" => stack # <<>>
      /\ doc \in Seq(Event)
  BY DEF Read, Longer
<1>2. /\ r.id \in 1 .. Len(doc) /\ EndAt(doc, r.id) # 0
      /\ doc[r.id].is = "start" /\ doc[r.id].name = "Resource"
  BY <1>1, LongerDomain DEF Whole, Named
<1>3. Inside(d2, r.id) = Inside(doc, r.id) /\ Inside(doc, r.id) \subseteq 1 .. Len(doc)
  BY <1>1, <1>2, WholeInside
<1> DEFINE W == Whole(doc, "data", {"start"})
           W2 == Whole(d2, "data", {"start"})
<1>4. W2 \cap Inside(doc, r.id) = W \cap Inside(doc, r.id)
  <2>1. CASE e.is # "end"
    <3>1. e.is \in {"start", "empty", "text"}
      BY <1>1, <2>1 DEF Event, Longer
    <3>2. {"start"} \in SUBSET {"start", "empty"} /\ "empty" \notin {"start"}
      OBVIOUS
    <3>3. e.is \in {"start", "text"} => W2 = W
      BY <1>1, <3>2, WholeLonger
    <3>4. e.is = "empty" => W2 = W
      <4>1. e.is = "empty" =>
              W2 = W \cup (IF "empty" \in {"start"} /\ e.name = "data"
                           THEN {Len(doc) + 1} ELSE {})
        BY <1>1, <3>2, WholeLonger
      <4> QED
        BY <4>1, <3>2
    <3> QED
      BY <3>1, <3>3, <3>4
  <2>2. CASE e.is = "end"
    <3>1. W2 = W \cup (IF stack[Len(stack)] = "data" THEN {at[Len(stack)]} ELSE {})
      BY <1>1, <2>2, WholeLonger
    <3>2. Len(stack) \in 1 .. Len(stack) /\ Len(stack) \in 1 .. 3
      BY <1>1, <2>2, TopOfStack
    <3>3. stack[Len(stack)] = "data" => at[Len(stack)] \notin Inside(doc, r.id)
      <4>1. Level[stack[Len(stack)]] = Len(stack)
        BY <1>1, <3>2, StackLevels
      <4>2. Level["data"] = 3 /\ Level["Resource"] = 2
        BY DEF Level
      <4>3. stack[Len(stack)] = "data" => Level[doc[r.id].name] <= Len(stack)
        BY <1>2, <4>1, <4>2
      <4>4. IsElement(doc[r.id])
        BY <1>2 DEF IsElement
      <4> QED
        BY <1>1, <1>2, <3>2, <4>3, <4>4, NoOpenInside
    <3> QED
      BY <3>1, <3>3
  <2> QED
    BY <2>1, <2>2
<1>5. \A d \in W \cap Inside(doc, r.id) : d \in 1 .. Len(doc) /\ EndAt(doc, d) # 0
  BY <1>3 DEF Whole
<1>6. LastBitmap(d2, W \cap Inside(doc, r.id)) = LastBitmap(doc, W \cap Inside(doc, r.id))
  BY <1>1, <1>5, BitmapStays
<1> HIDE DEF W, W2
<1>7. LastBitmap(d2, W2 \cap Inside(d2, r.id)) = LastBitmap(doc, W \cap Inside(doc, r.id))
  BY <1>3, <1>4, <1>6
<1> QED
  BY <1>7 DEF IsResource, W, W2

(* Named elements that come later are not inside.                          *)
LEMMA ObjectStays ==
  ASSUME NEW doc, NEW d2, NEW e, Longer(doc, d2, e),
         NEW o, o.id \in Whole(doc, "DisplayObject", {"start", "empty"}),
         IsObject(doc, o, Inside(doc, o.id))
  PROVE  IsObject(d2, o, Inside(d2, o.id))
<1>2. o.id \in 1 .. Len(doc) /\ EndAt(doc, o.id) # 0
  BY LongerDomain DEF Whole, Named
<1>3. Inside(d2, o.id) = Inside(doc, o.id) /\ Inside(doc, o.id) \subseteq 1 .. Len(doc)
  BY <1>2, WholeInside
<1>4. d2[o.id] = doc[o.id] /\ doc # <<>> /\ Len(doc) + 1 \notin Inside(doc, o.id)
  BY <1>2, <1>3, LongerDomain DEF Longer
<1>5. SamplingOf(d2) = SamplingOf(doc)
  BY <1>4, SamplingStays
<1>6. \A name : Named(d2, name, {"empty"}) \cap Inside(d2, o.id) =
                  Named(doc, name, {"empty"}) \cap Inside(doc, o.id)
  BY <1>3, <1>4, NamedLonger
<1> QED
  BY <1>4, <1>5, <1>6 DEF IsObject

-----------------------------------------------------------------------------
(* Lists in the order of the document.                                     *)

(* A later place goes to the end of a list.                                *)
LEMMA InOrderAppend ==
  ASSUME NEW list \in Seq(Nat), NEW places, InOrder(list, places),
         NEW x \in Nat, \A p \in places : p < x
  PROVE  Append(list, x) \in Seq(Nat) /\ InOrder(Append(list, x), places \cup {x})
<1> DEFINE l2 == Append(list, x)
<1>1. /\ l2 \in Seq(Nat) /\ Len(l2) = Len(list) + 1 /\ Len(list) \in Nat
      /\ DOMAIN list = 1 .. Len(list) /\ DOMAIN l2 = 1 .. (Len(list) + 1)
      /\ \A k \in 1 .. Len(list) : l2[k] = list[k]
      /\ l2[Len(list) + 1] = x
  BY AppendProperties, LenProperties
<1> HIDE DEF l2
<1>2. /\ {list[k] : k \in DOMAIN list} = places
      /\ \A k, l \in DOMAIN list : k < l => list[k] < list[l]
  BY DEF InOrder
<1>3. DOMAIN l2 = DOMAIN list \cup {Len(list) + 1}
  BY <1>1
<1>4. {l2[k] : k \in DOMAIN l2} = places \cup {x}
  BY <1>1, <1>2, <1>3
<1>5. ASSUME NEW k \in DOMAIN l2, NEW l \in DOMAIN l2, k < l
      PROVE  l2[k] < l2[l]
  <2>1. k \in DOMAIN list /\ l2[k] = list[k] /\ list[k] \in places
    BY <1>1, <1>2, <1>5
  <2>2. CASE l \in DOMAIN list
    BY <1>1, <1>2, <1>5, <2>1, <2>2
  <2>3. CASE l = Len(list) + 1
    BY <1>1, <2>1, <2>3
  <2> QED
    BY <1>3, <2>2, <2>3
<1>6. InOrder(l2, places \cup {x})
  BY <1>4, <1>5 DEF InOrder
<1> QED
  BY <1>1, <1>6 DEF l2

(* The ids of a longer list.                                               *)
LEMMA IdsAppend ==
  ASSUME NEW S, \A y \in S : y.id \in Nat, NEW s \in Seq(S), NEW y \in S
  PROVE  /\ Ids(s) \in Seq(Nat)
         /\ Ids(Append(s, y)) = Append(Ids(s), y.id)
<1>1. /\ Append(s, y) \in Seq(S) /\ Len(Append(s, y)) = Len(s) + 1 /\ Len(s) \in Nat
      /\ DOMAIN s = 1 .. Len(s) /\ DOMAIN Append(s, y) = 1 .. (Len(s) + 1)
      /\ \A k \in 1 .. Len(s) : Append(s, y)[k] = s[k] /\ s[k] \in S
      /\ Append(s, y)[Len(s) + 1] = y
  BY AppendProperties, LenProperties, ElementOfSeq
<1>2. Ids(s) = [k \in 1 .. Len(s) |-> s[k].id]
  BY <1>1 DEF Ids
<1>3. Ids(s) \in Seq(Nat) /\ Len(Ids(s)) = Len(s)
  BY <1>1, <1>2
<1>4. Append(Ids(s), y.id) = [k \in 1 .. (Len(s) + 1) |->
                                IF k = Len(s) + 1 THEN y.id ELSE Ids(s)[k]]
  <2>1. y.id \in Nat
    OBVIOUS
  <2> DEFINE t == Ids(s)
  <2>2. t \in Seq(Nat) /\ Len(t) = Len(s)
    BY <1>3
  <2> HIDE DEF t
  <2>3. Append(t, y.id) = [k \in 1 .. (Len(t) + 1) |-> IF k = Len(t) + 1 THEN y.id ELSE t[k]]
    <3>1. /\ Append(t, y.id) \in Seq(Nat) /\ Len(Append(t, y.id)) = Len(t) + 1
          /\ \A k \in 1 .. Len(t) : Append(t, y.id)[k] = t[k]
          /\ Append(t, y.id)[Len(t) + 1] = y.id /\ Len(t) \in Nat
      BY <2>1, <2>2, AppendProperties, LenProperties
    <3>2. DOMAIN Append(t, y.id) = 1 .. (Len(t) + 1)
      BY <3>1, LenProperties
    <3>3. Append(t, y.id) = [k \in DOMAIN Append(t, y.id) |-> Append(t, y.id)[k]]
      BY <3>1
    <3> QED
      BY <3>1, <3>2, <3>3
  <2> QED
    BY <2>2, <2>3 DEF t
<1>5. Ids(Append(s, y)) = [k \in 1 .. (Len(s) + 1) |-> Append(s, y)[k].id]
  BY <1>1 DEF Ids
<1>6. \A k \in 1 .. (Len(s) + 1) :
        Append(s, y)[k].id = IF k = Len(s) + 1 THEN y.id ELSE Ids(s)[k]
  BY <1>1, <1>2
<1>7. Ids(Append(s, y)) = Append(Ids(s), y.id)
  BY <1>4, <1>5, <1>6
<1> QED
  BY <1>3, <1>7

(* current_resource and current_display_object are at most one element: to *)
(* take them over is to append them.                                       *)
LEMMA ConcatOne ==
  ASSUME NEW S, NEW s \in Seq(S), NEW t \in Seq(S), Len(t) = 1
  PROVE  t[1] \in S /\ s \o t = Append(s, t[1])
<1>1. t[1] \in S /\ s \o t \in Seq(S) /\ Append(s, t[1]) \in Seq(S)
  <2>1. 1 \in 1 .. Len(t)
    OBVIOUS
  <2>2. t[1] \in S
    BY <2>1, ElementOfSeq
  <2>3. s \o t \in Seq(S)
    BY ConcatProperties
  <2>4. Append(s, t[1]) \in Seq(S)
    BY <2>2, AppendProperties
  <2> QED
    BY <2>2, <2>3, <2>4
<1>2. /\ Len(s) \in Nat
      /\ Len(s \o t) = Len(s) + 1 /\ Len(Append(s, t[1])) = Len(s) + 1
      /\ \A k \in 1 .. (Len(s) + 1) :
           (s \o t)[k] = IF k <= Len(s) THEN s[k] ELSE t[k - Len(s)]
      /\ \A k \in 1 .. Len(s) : Append(s, t[1])[k] = s[k]
      /\ Append(s, t[1])[Len(s) + 1] = t[1]
  BY <1>1, ConcatProperties, AppendProperties, LenProperties
<1>3. \A k \in 1 .. (Len(s) + 1) : (s \o t)[k] = Append(s, t[1])[k]
  <2>1. ASSUME NEW k \in 1 .. (Len(s) + 1)
        PROVE  (s \o t)[k] = Append(s, t[1])[k]
    <3>1. CASE k \in 1 .. Len(s)
      BY <1>2, <3>1
    <3>2. CASE k = Len(s) + 1
      <4>1. k - Len(s) = 1 /\ ~(k <= Len(s))
        BY <1>2, <3>2
      <4> QED
        BY <1>2, <3>2, <4>1
    <3> QED
      BY <1>2, <3>1, <3>2
  <2> QED
    BY <2>1
<1> QED
  BY <1>1, <1>2, <1>3, SeqEqual

-----------------------------------------------------------------------------
(* What the scheme lists.                                                  *)

SchemeResource == [id : Nat, bitmap : Seq(Piece)]
SchemeObject ==
  [id : Nat, sample : Sample \cup {"linear"}, assets : Seq(Nat), hit : Nat]

ResourcesListed(doc, list) ==
  /\ InOrder(Ids(list), Whole(doc, "Resource", {"start"}))
  /\ \A k \in DOMAIN list : IsResource(doc, list[k], Inside(doc, list[k].id))

ObjectsListed(doc, list) ==
  /\ InOrder(Ids(list), Whole(doc, "DisplayObject", {"start", "empty"}))
  /\ \A k \in DOMAIN list : IsObject(doc, list[k], Inside(doc, list[k].id))

(* What is in an ordered list of elements is at its place.                 *)
LEMMA IdsInOrder ==
  ASSUME NEW list, NEW places, InOrder(Ids(list), places), NEW k \in DOMAIN list
  PROVE  list[k].id \in places
<1>1. k \in DOMAIN Ids(list) /\ Ids(list)[k] = list[k].id
  BY DEF Ids
<1> QED
  BY <1>1 DEF InOrder

(* The resources in the scheme stay right while none is added.             *)
LEMMA ResourcesStay ==
  ASSUME NEW doc, NEW d2, NEW e, NEW stack, NEW at, Read(doc, d2, e, stack, at),
         NEW list, ResourcesListed(doc, list),
         Whole(d2, "Resource", {"start"}) = Whole(doc, "Resource", {"start"})
  PROVE  ResourcesListed(d2, list)
<1>1. ASSUME NEW k \in DOMAIN list
      PROVE  IsResource(d2, list[k], Inside(d2, list[k].id))
  <2>1. list[k].id \in Whole(doc, "Resource", {"start"})
    BY IdsInOrder DEF ResourcesListed
  <2>2. IsResource(doc, list[k], Inside(doc, list[k].id))
    BY DEF ResourcesListed
  <2> QED
    BY <2>1, <2>2, ResourceStays
<1> QED
  BY <1>1 DEF ResourcesListed

(* They are right with one more that has just become whole.                *)
LEMMA ResourcesGrow ==
  ASSUME NEW doc, NEW d2, NEW e, NEW stack, NEW at, Read(doc, d2, e, stack, at),
         NEW list \in Seq(SchemeResource), ResourcesListed(doc, list), NEW r \in SchemeResource,
         Whole(d2, "Resource", {"start"}) = Whole(doc, "Resource", {"start"}) \cup {r.id},
         \A i \in Whole(doc, "Resource", {"start"}) : i < r.id,
         IsResource(d2, r, Inside(d2, r.id))
  PROVE  ResourcesListed(d2, Append(list, r))
<1>1. /\ DOMAIN Append(list, r) = DOMAIN list \cup {Len(list) + 1}
      /\ \A k \in DOMAIN list : Append(list, r)[k] = list[k]
      /\ Append(list, r)[Len(list) + 1] = r
  BY AppendProperties, LenProperties
<1>2. ASSUME NEW k \in DOMAIN Append(list, r)
      PROVE  IsResource(d2, Append(list, r)[k], Inside(d2, Append(list, r)[k].id))
  <2>1. CASE k \in DOMAIN list
    <3>1. list[k].id \in Whole(doc, "Resource", {"start"})
      BY <2>1, IdsInOrder DEF ResourcesListed
    <3>2. IsResource(doc, list[k], Inside(doc, list[k].id))
      BY <2>1 DEF ResourcesListed
    <3>3. IsResource(d2, list[k], Inside(d2, list[k].id))
      BY <3>1, <3>2, ResourceStays
    <3> QED
      BY <1>1, <2>1, <3>3
  <2>2. CASE k = Len(list) + 1
    BY <1>1, <2>2
  <2> QED
    BY <1>1, <2>1, <2>2
<1>3. \A y \in SchemeResource : y.id \in Nat
  BY DEF SchemeResource
<1>4. Ids(list) \in Seq(Nat) /\ Ids(Append(list, r)) = Append(Ids(list), r.id) /\ r.id \in Nat
  BY <1>3, IdsAppend
<1>5. InOrder(Append(Ids(list), r.id), Whole(doc, "Resource", {"start"}) \cup {r.id})
  BY <1>4, InOrderAppend DEF ResourcesListed
<1> QED
  BY <1>2, <1>4, <1>5 DEF ResourcesListed

(* The display objects in the scheme stay right while none is added.       *)
LEMMA ObjectsStay ==
  ASSUME NEW doc, NEW d2, NEW e, Longer(doc, d2, e),
         NEW list, ObjectsListed(doc, list),
         Whole(d2, "DisplayObject", {"start", "empty"}) =
           Whole(doc, "DisplayObject", {"start", "empty"})
  PROVE  ObjectsListed(d2, list)
<1>1. ASSUME NEW k \in DOMAIN list
      PROVE  IsObject(d2, list[k], Inside(d2, list[k].id))
  <2>1. list[k].id \in Whole(doc, "DisplayObject", {"start", "empty"})
    BY IdsInOrder DEF ObjectsListed
  <2>2. IsObject(doc, list[k], Inside(doc, list[k].id))
    BY DEF ObjectsListed
  <2> QED
    BY <2>1, <2>2, ObjectStays
<1> QED
  BY <1>1 DEF ObjectsListed

(* They are right with one more that has just become whole.                *)
LEMMA ObjectsGrow ==
  ASSUME NEW doc, NEW d2, NEW e, Longer(doc, d2, e),
         NEW list \in Seq(SchemeObject), ObjectsListed(doc, list), NEW o \in SchemeObject,
         Whole(d2, "DisplayObject", {"start", "empty"}) =
           Whole(doc, "DisplayObject", {"start", "empty"}) \cup {o.id},
         \A i \in Whole(doc, "DisplayObject", {"start", "empty"}) : i < o.id,
         IsObject(d2, o, Inside(d2, o.id))
  PROVE  ObjectsListed(d2, Append(list, o))
<1>1. /\ DOMAIN Append(list, o) = DOMAIN list \cup {Len(list) + 1}
      /\ \A k \in DOMAIN list : Append(list, o)[k] = list[k]
      /\ Append(list, o)[Len(list) + 1] = o
  BY AppendProperties, LenProperties
<1>2. ASSUME NEW k \in DOMAIN Append(list, o)
      PROVE  IsObject(d2, Append(list, o)[k], Inside(d2, Append(list, o)[k].id))
  <2>1. CASE k \in DOMAIN list
    <3>1. list[k].id \in Whole(doc, "DisplayObject", {"start", "empty"})
      BY <2>1, IdsInOrder DEF ObjectsListed
    <3>2. IsObject(doc, list[k], Inside(doc, list[k].id))
      BY <2>1 DEF ObjectsListed
    <3>3. IsObject(d2, list[k], Inside(d2, list[k].id))
      BY <3>1, <3>2, ObjectStays
    <3> QED
      BY <1>1, <2>1, <3>3
  <2>2. CASE k = Len(list) + 1
    BY <1>1, <2>2
  <2> QED
    BY <1>1, <2>1, <2>2
<1>3. \A y \in SchemeObject : y.id \in Nat
  BY DEF SchemeObject
<1>4. Ids(list) \in Seq(Nat) /\ Ids(Append(list, o)) = Append(Ids(list), o.id) /\ o.id \in Nat
  BY <1>3, IdsAppend
<1>5. InOrder(Append(Ids(list), o.id),
              Whole(doc, "DisplayObject", {"start", "empty"}) \cup {o.id})
  BY <1>4, InOrderAppend DEF ObjectsListed
<1> QED
  BY <1>2, <1>4, <1>5 DEF ObjectsListed

-----------------------------------------------------------------------------
(* The elements the parser has at hand.                                    *)

(* The text of a data element that starts at p and is open.                *)
TextSince(doc, p) == [k \in 1 .. Len(doc) - p |-> doc[p + k].piece]

Behind(doc, p) == p + 1 .. Len(doc)

Current(doc, stack, at, res, obj, within, text) ==
  /\ Len(stack) >= 2 /\ stack[2] = "Resource" =>
       Len(res) = 1 /\ res[1].id = at[2] /\ IsResource(doc, res[1], Behind(doc, at[2]))
  /\ Len(stack) >= 2 /\ stack[2] = "DisplayObject" =>
       Len(obj) = 1 /\ obj[1].id = at[2] /\ IsObject(doc, obj[1], Behind(doc, at[2]))
  /\ Len(stack) = 3 => within /\ text = TextSince(doc, at[3])

(* An open resource does not change but by the end of a data element.      *)
LEMMA ResourceOpen ==
  ASSUME NEW doc, NEW d2, NEW e, NEW stack, NEW at, Read(doc, d2, e, stack, at),
         e.is # "end", NEW p \in 1 .. Len(doc),
         NEW r, IsResource(doc, r, Behind(doc, p))
  PROVE  IsResource(d2, r, Behind(d2, p))
<1>1. /\ Longer(doc, d2, e) /\ StackOK(stack) /\ Opened(doc, stack, at)
      /\ e.is \in {"start", "text", "empty"}
  BY DEF Read, Longer, Event
<1> DEFINE W == Whole(doc, "data", {"start"})
           W2 == Whole(d2, "data", {"start"})
<1>2. W2 = W
  <2>1. {"start"} \in SUBSET {"start", "empty"} /\ "empty" \notin {"start"}
    OBVIOUS
  <2>2. e.is \in {"start", "text"} => W2 = W
    BY <1>1, <2>1, WholeLonger
  <2>3. e.is = "empty" =>
          W2 = W \cup (IF "empty" \in {"start"} /\ e.name = "data" THEN {Len(doc) + 1} ELSE {})
    BY <1>1, <2>1, WholeLonger
  <2> QED
    BY <1>1, <2>1, <2>2, <2>3
<1>3. W \subseteq 1 .. Len(doc) /\ \A d \in W : EndAt(doc, d) # 0
  BY <1>1, LongerDomain DEF Whole, Named
<1>4. W \cap Behind(d2, p) = W \cap Behind(doc, p)
  BY <1>1, <1>3, LongerDomain DEF Behind, Longer
<1>5. LastBitmap(d2, W \cap Behind(doc, p)) = LastBitmap(doc, W \cap Behind(doc, p))
  BY <1>1, <1>3, BitmapStays
<1> HIDE DEF W, W2
<1>6. LastBitmap(d2, W2 \cap Behind(d2, p)) = LastBitmap(doc, W \cap Behind(doc, p))
  BY <1>2, <1>4, <1>5
<1> QED
  BY <1>6 DEF IsResource, W, W2

(* A resource that has just begun is empty.                                *)
LEMMA ResourceNew ==
  ASSUME NEW doc, NEW x
  PROVE  IsResource(doc, [id |-> x, bitmap |-> <<>>], {})
BY DEF IsResource, LastBitmap

(* An inner element starts behind an outer one.                            *)
LEMMA OpenInOrder ==
  ASSUME NEW doc \in Seq(Event), NEW stack, StackOK(stack), NEW at, Opened(doc, stack, at),
         NEW k \in 1 .. Len(stack), NEW l \in 1 .. Len(stack), k < l
  PROVE  at[k] < at[l]
<1>1. /\ at[k] \in 1 .. Len(doc) /\ Depth(doc, at[k]) = k
      /\ at[l] \in 1 .. Len(doc) /\ Depth(doc, at[l]) = l
  BY BehindOpen
<1>2. \A j \in at[l] .. Len(doc) : Depth(doc, j) >= l
  BY DEF Opened
<1>3. Len(doc) \in Nat /\ k \in Int /\ l \in Int
  BY LenProperties
<1> QED
  BY <1>1, <1>2, <1>3

(* The text of an open data element is what the events since said.         *)
LEMMA TextGrows ==
  ASSUME NEW doc, NEW d2, NEW e, Longer(doc, d2, e), e.is = "text", e.piece \in Piece,
         NEW p \in 1 .. Len(doc), NEW text \in Seq(Piece), text = TextSince(doc, p)
  PROVE  Append(text, e.piece) = TextSince(d2, p)
<1>1. /\ Len(doc) \in Nat /\ Len(d2) = Len(doc) + 1 /\ d2[Len(doc) + 1] = e
      /\ \A i \in 1 .. Len(doc) : d2[i] = doc[i]
  BY LongerDomain DEF Longer
<1>2. PICK n \in Nat : n = Len(doc) - p
  BY <1>1
<1>3. DOMAIN text = 1 .. n /\ Len(text) = n
  <2>1. DOMAIN text = 1 .. n
    BY <1>2 DEF TextSince
  <2> QED
    BY <2>1, LenProperties
<1>4. /\ Append(text, e.piece) \in Seq(Piece) /\ Len(Append(text, e.piece)) = n + 1
      /\ \A k \in 1 .. n : Append(text, e.piece)[k] = text[k]
      /\ Append(text, e.piece)[n + 1] = e.piece
  BY <1>3, AppendProperties
<1>5. DOMAIN Append(text, e.piece) = 1 .. (n + 1)
  BY <1>4, LenProperties
<1>6. Append(text, e.piece) = [k \in 1 .. (n + 1) |-> Append(text, e.piece)[k]]
  BY <1>4, <1>5
<1>7. ASSUME NEW k \in 1 .. (n + 1)
      PROVE  Append(text, e.piece)[k] = d2[p + k].piece
  <2>1. CASE k \in 1 .. n
    <3>1. p + k \in 1 .. Len(doc) /\ text[k] = doc[p + k].piece
      BY <1>1, <1>2, <2>1 DEF TextSince
    <3> QED
      BY <1>1, <1>4, <2>1, <3>1
  <2>2. CASE k = n + 1
    <3>1. p + k = Len(doc) + 1
      BY <1>1, <1>2, <2>2
    <3> QED
      BY <1>1, <1>4, <2>2, <3>1
  <2>3. n \in Nat
    BY <1>2
  <2>4. k \in 1 .. n \/ k = n + 1
    BY <2>3
  <2> QED
    BY <2>1, <2>2, <2>4
<1>8. Len(d2) - p = n + 1
  BY <1>1, <1>2
<1> QED
  BY <1>6, <1>7, <1>8 DEF TextSince

(* The innermost element, closed by an end tag, reaches up to it.          *)
LEMMA TopCloses ==
  ASSUME NEW doc, NEW d2, NEW e, NEW stack, NEW at, Read(doc, d2, e, stack, at),
         e.is = "end", NEW n, n = Len(stack)
  PROVE  /\ at[n] \in 1 .. Len(doc)
         /\ EndAt(d2, at[n]) = Len(doc) + 1
         /\ Inside(d2, at[n]) = Behind(doc, at[n])
<1>1. /\ Longer(doc, d2, e) /\ StackOK(stack) /\ Opened(doc, stack, at)
      /\ doc \in Seq(Event) /\ Len(doc) \in Nat
  BY LongerDomain DEF Read, Longer
<1>2. Len(stack) \in 1 .. Len(stack) /\ Len(stack) \in Nat
  BY TopOfStack DEF Read
<1>3. /\ at[Len(stack)] \in 1 .. Len(doc) /\ Depth(doc, at[Len(stack)]) = Len(stack)
      /\ EndAt(doc, at[Len(stack)]) = 0
  BY <1>1, <1>2, BehindOpen, OpenHasNoEnd
<1>4. Depth(d2, Len(doc) + 1) = Len(stack) - 1
  <2>1. Depth(doc, Len(doc)) = Len(stack)
    BY <1>1 DEF Opened
  <2>2. Delta(e) = -1
    BY DEF Delta
  <2> QED
    BY <1>1, <1>2, <2>1, <2>2, DepthLast
<1>5. EndAt(d2, at[Len(stack)]) = Len(doc) + 1
  BY <1>1, <1>3, <1>4, EndStays
<1> QED
  BY <1>1, <1>3, <1>5 DEF Inside, Behind

(* An end tag makes the innermost element whole and no other.              *)
LEMMA WholeCloses ==
  ASSUME NEW doc, NEW d2, NEW e, NEW stack, NEW at, Read(doc, d2, e, stack, at),
         e.is = "end", NEW n, n = Len(stack), NEW name
  PROVE  Whole(d2, name, {"start"}) =
           Whole(doc, name, {"start"}) \cup (IF stack[n] = name THEN {at[n]} ELSE {})
<1>1. /\ Longer(doc, d2, e) /\ StackOK(stack) /\ Opened(doc, stack, at)
      /\ e.is = "end" => stack # <<>>
      /\ {"start"} \in SUBSET {"start", "empty"} /\ "start" \in {"start"}
  BY DEF Read
<1> QED
  BY <1>1, WholeLonger

(* The end of a data element gives its text to the resource, if it can be  *)
(* decoded.                                                                *)
LEMMA DataCloses ==
  ASSUME NEW doc, NEW d2, NEW e, NEW stack, NEW at, Read(doc, d2, e, stack, at),
         e.is = "end", NEW n, n = Len(stack), stack[n] = "data",
         NEW text, text = TextSince(doc, at[3]),
         NEW r \in SchemeResource, IsResource(doc, r, Behind(doc, at[2])),
         NEW r2, r2 = IF Decodes(text) THEN [r EXCEPT !.bitmap = text] ELSE r
  PROVE  r2.id = r.id /\ IsResource(d2, r2, Behind(d2, at[2]))
<1>1. /\ Longer(doc, d2, e) /\ StackOK(stack) /\ Opened(doc, stack, at)
      /\ doc \in Seq(Event) /\ Len(doc) \in Nat /\ Len(d2) = Len(doc) + 1
      /\ e.is = "end" => stack # <<>>
  BY LongerDomain DEF Read, Longer
<1> DEFINE W == Whole(doc, "data", {"start"})
           W2 == Whole(d2, "data", {"start"})
<1>2. n = 3 /\ Level["data"] = 3
  BY <1>1, TopLevel DEF Read, Level
<1>3. W2 = W \cup {at[3]}
  <2>1. W2 = W \cup (IF stack[n] = "data" THEN {at[n]} ELSE {})
    BY WholeCloses
  <2> QED
    BY <1>2, <2>1
<1>4. /\ at[3] \in 1 .. Len(doc) /\ EndAt(d2, at[3]) = Len(doc) + 1
      /\ at[2] \in 1 .. Len(doc) /\ at[2] < at[3]
  <2>1. 2 \in 1 .. Len(stack) /\ 3 \in 1 .. Len(stack)
    BY <1>2
  <2>2. at[2] \in 1 .. Len(doc)
    BY <1>1, <2>1, BehindOpen
  <2>3. at[2] < at[3]
    BY <1>1, <2>1, OpenInOrder
  <2>4. at[n] \in 1 .. Len(doc) /\ EndAt(d2, at[n]) = Len(doc) + 1
    BY TopCloses
  <2> QED
    BY <1>2, <2>2, <2>3, <2>4
<1>5. \A d \in W : d < at[3]
  <2>1. 3 \in 1 .. Len(stack) /\ {"start"} \in SUBSET {"start", "empty"}
    BY <1>2
  <2> QED
    BY <1>1, <1>2, <2>1, OpenIsLast
<1>6. /\ W \subseteq 1 .. Len(doc) /\ \A d \in W : EndAt(doc, d) # 0
      /\ \A d \in W : TextAt(d2, d) = TextAt(doc, d)
  <2>1. W \subseteq 1 .. Len(doc) /\ \A d \in W : EndAt(doc, d) # 0
    BY <1>1, LongerDomain DEF Whole, Named
  <2> QED
    BY <1>1, <2>1, TextStays
<1>7. TextAt(d2, at[3]) = text
  <2>1. EndAt(d2, at[3]) - at[3] - 1 = Len(doc) - at[3]
    <3>1. at[3] \in Int /\ Len(doc) \in Int /\ EndAt(d2, at[3]) = Len(doc) + 1
      BY <1>1, <1>4
    <3>2. \A x, l \in Int : (l + 1) - x - 1 = l - x
      OBVIOUS
    <3> QED
      BY <3>1, <3>2
  <2>2. \A k \in 1 .. Len(doc) - at[3] : at[3] + k \in 1 .. Len(doc)
    BY <1>1, <1>4
  <2>3. \A k \in 1 .. Len(doc) - at[3] : d2[at[3] + k] = doc[at[3] + k]
    BY <1>1, <2>2 DEF Longer
  <2> QED
    BY <2>1, <2>3 DEF TextAt, TextSince
<1> DEFINE V == W \cap Behind(doc, at[2])
<1> HIDE DEF W, W2, V
<1>8. W2 \cap Behind(d2, at[2]) = V \cup {at[3]} /\ V \subseteq W
  <2>1. W \cap Behind(d2, at[2]) = W \cap Behind(doc, at[2])
    BY <1>1, <1>4, <1>6 DEF Behind
  <2>2. at[3] \in Behind(d2, at[2])
    BY <1>1, <1>4 DEF Behind
  <2> QED
    BY <1>3, <2>1, <2>2 DEF V
<1>9. r.bitmap = LastBitmap(doc, V) /\ r = [id |-> r.id, bitmap |-> r.bitmap]
  <2>1. r = [id |-> r.id, bitmap |-> LastBitmap(doc, V)]
    BY DEF IsResource, V, W
  <2> QED
    BY <2>1
<1>10. CASE Decodes(text)
  <2>1. r2 = [id |-> r.id, bitmap |-> text]
    BY <1>9, <1>10
  <2> DEFINE good == {d \in V \cup {at[3]} : Decodes(TextAt(d2, d))}
  <2>2. at[3] \in good /\ good \in SUBSET Int /\ \A d \in good : d <= at[3]
    <3>1. V \subseteq 1 .. Len(doc) /\ \A d \in V : d < at[3]
      BY <1>5, <1>6, <1>8
    <3>2. at[3] \in good
      BY <1>7, <1>10
    <3>3. \A d \in good : d \in Int /\ d <= at[3]
      BY <1>4, <3>1
    <3> QED
      BY <3>2, <3>3
  <2>3. LastBitmap(d2, V \cup {at[3]}) = IF good = {} THEN <<>> ELSE TextAt(d2, Max(good))
    BY DEF LastBitmap
  <2> HIDE DEF good
  <2>4. Max(good) = at[3] /\ good # {}
    BY <2>2, MaxIs
  <2>5. LastBitmap(d2, V \cup {at[3]}) = text
    BY <1>7, <2>3, <2>4
  <2>6. r2.id = r.id
    BY <2>1
  <2> QED
    BY <1>8, <2>1, <2>5, <2>6 DEF IsResource, W2
<1>11. CASE ~Decodes(text)
  <2>1. r2 = r
    BY <1>11
  <2>2. {d \in V \cup {at[3]} : Decodes(TextAt(d2, d))} = {d \in V : Decodes(TextAt(d2, d))}
    BY <1>7, <1>11
  <2>3. LastBitmap(d2, V \cup {at[3]}) = LastBitmap(d2, V)
    BY <2>2 DEF LastBitmap
  <2>4. LastBitmap(d2, V) = LastBitmap(doc, V)
    <3>1. \A d \in V : d \in 1 .. Len(doc) /\ EndAt(doc, d) # 0
      BY <1>6, <1>8
    <3> QED
      BY <1>1, <3>1, BitmapStays
  <2>5. r = [id |-> r.id, bitmap |-> LastBitmap(d2, W2 \cap Behind(d2, at[2]))]
    BY <1>8, <1>9, <2>3, <2>4
  <2> QED
    BY <2>1, <2>5 DEF IsResource, W2
<1> QED
  BY <1>10, <1>11

(* The end of a resource: it has what is inside it.                        *)
LEMMA ResourceCloses ==
  ASSUME NEW doc, NEW d2, NEW e, NEW stack, NEW at, Read(doc, d2, e, stack, at),
         e.is = "end", NEW n, n = Len(stack), stack[n] = "Resource",
         NEW r, r.id = at[n], IsResource(doc, r, Behind(doc, at[n]))
  PROVE  IsResource(d2, r, Inside(d2, r.id))
<1>1. /\ Longer(doc, d2, e) /\ StackOK(stack) /\ Opened(doc, stack, at)
      /\ Len(doc) \in Nat
      /\ e.is = "end" => stack # <<>>
  BY LongerDomain DEF Read
<1>2. Inside(d2, r.id) = Behind(doc, at[n])
  <2>1. Inside(d2, at[n]) = Behind(doc, at[n])
    BY TopCloses
  <2> QED
    BY <2>1
<1> DEFINE W == Whole(doc, "data", {"start"})
           W2 == Whole(d2, "data", {"start"})
<1>3. W2 = W
  <2>1. ASSUME NEW name, stack[n] # name
        PROVE  Whole(d2, name, {"start"}) = Whole(doc, name, {"start"})
    <3>1. Whole(d2, name, {"start"}) =
            Whole(doc, name, {"start"}) \cup (IF stack[n] = name THEN {at[n]} ELSE {})
      BY WholeCloses
    <3> QED
      BY <2>1, <3>1
  <2>2. stack[n] # "data"
    OBVIOUS
  <2> QED
    BY <2>1, <2>2
<1>4. \A d \in W : d \in 1 .. Len(doc) /\ EndAt(doc, d) # 0
  BY <1>1, LongerDomain DEF Whole, Named
<1>5. LastBitmap(d2, W \cap Behind(doc, at[n])) = LastBitmap(doc, W \cap Behind(doc, at[n]))
  BY <1>1, <1>4, BitmapStays
<1> HIDE DEF W, W2
<1>6. LastBitmap(d2, W2 \cap Inside(d2, r.id)) = LastBitmap(doc, W \cap Behind(doc, at[n]))
  BY <1>2, <1>3, <1>5
<1> QED
  BY <1>6 DEF IsResource, W, W2

(* What an open element of a document that goes on has behind it.          *)
LEMMA NamedBehind ==
  ASSUME NEW doc, NEW d2, NEW e, Longer(doc, d2, e), NEW p \in 1 .. Len(doc), NEW name
  PROVE  /\ Named(d2, name, {"empty"}) \cap Behind(d2, p) =
              (Named(doc, name, {"empty"}) \cap Behind(doc, p))
                \cup (IF e.is = "empty" /\ e.name = name THEN {Len(doc) + 1} ELSE {})
         /\ Named(doc, name, {"empty"}) \cap Behind(doc, p) \subseteq 1 .. Len(doc)
<1>1. Behind(d2, p) = Behind(doc, p) \cup {Len(doc) + 1} /\ Len(doc) \in Nat
  BY LongerDomain DEF Behind, Longer
<1>2. /\ Named(d2, name, {"empty"}) =
           Named(doc, name, {"empty"})
             \cup (IF e.is \in {"empty"} /\ e.name = name THEN {Len(doc) + 1} ELSE {})
      /\ Named(doc, name, {"empty"}) \subseteq 1 .. Len(doc)
  BY NamedLonger
<1>3. Len(doc) + 1 \notin 1 .. Len(doc)
  BY <1>1
<1>4. CASE e.is = "empty" /\ e.name = name
  <2>1. Named(d2, name, {"empty"}) = Named(doc, name, {"empty"}) \cup {Len(doc) + 1}
    BY <1>2, <1>4
  <2> QED
    BY <1>1, <1>2, <1>3, <1>4, <2>1
<1>5. CASE ~(e.is = "empty" /\ e.name = name)
  <2>1. Named(d2, name, {"empty"}) = Named(doc, name, {"empty"})
    BY <1>2, <1>5
  <2> QED
    BY <1>1, <1>2, <1>3, <1>5, <2>1
<1> QED
  BY <1>4, <1>5

(* A display object that has just begun is empty.                          *)
LEMMA ObjectNew ==
  ASSUME NEW doc, NEW d2, NEW e, Longer(doc, d2, e), doc # <<>>,
         NEW o, o = [id |-> Len(doc) + 1, sample |-> Given(e.a.sample, SamplingOf(doc)),
                     assets |-> <<>>, hit |-> 0]
  PROVE  IsObject(d2, o, {})
<1>1. d2[Len(doc) + 1] = e
  BY DEF Longer
<1>2. SamplingOf(d2) = SamplingOf(doc)
  BY SamplingStays
<1>3. Max({0} \cup (Named(d2, "HitRect", {"empty"}) \cap {})) = 0
  <2>1. {0} \cup (Named(d2, "HitRect", {"empty"}) \cap {}) = {0}
    OBVIOUS
  <2> QED
    BY <2>1, MaxIs
<1>4. InOrder(<<>>, Named(d2, "Asset", {"empty"}) \cap {})
  BY DEF InOrder
<1> QED
  BY <1>1, <1>2, <1>3, <1>4 DEF IsObject

(* An asset and a hit rectangle are put in the display object.             *)
LEMMA AssetAdds ==
  ASSUME NEW doc, NEW d2, NEW e, Longer(doc, d2, e), e.is = "empty", e.name = "Asset",
         NEW o \in SchemeObject, o.id \in 1 .. Len(doc), IsObject(doc, o, Behind(doc, o.id)),
         NEW o2, o2 = [o EXCEPT !.assets = Append(@, Len(doc) + 1)]
  PROVE  IsObject(d2, o2, Behind(d2, o.id))
<1>1. /\ Len(doc) \in Nat /\ doc # <<>> /\ d2[o.id] = doc[o.id]
      /\ Len(doc) + 1 \in Nat
  BY LongerDomain DEF Longer
<1>2. SamplingOf(d2) = SamplingOf(doc)
  BY <1>1, SamplingStays
<1> DEFINE A == Named(doc, "Asset", {"empty"}) \cap Behind(doc, o.id)
           A2 == Named(d2, "Asset", {"empty"}) \cap Behind(d2, o.id)
           H == Named(doc, "HitRect", {"empty"}) \cap Behind(doc, o.id)
           H2 == Named(d2, "HitRect", {"empty"}) \cap Behind(d2, o.id)
<1>3. A2 = A \cup (IF e.is = "empty" /\ e.name = "Asset" THEN {Len(doc) + 1} ELSE {})
      /\ A \subseteq 1 .. Len(doc)
  BY NamedBehind
<1>4. H2 = H \cup (IF e.is = "empty" /\ e.name = "HitRect" THEN {Len(doc) + 1} ELSE {})
  BY NamedBehind
<1>5. /\ o = [id |-> o.id, sample |-> Given(doc[o.id].a.sample, SamplingOf(doc)),
              assets |-> o.assets, hit |-> Max({0} \cup H)]
      /\ InOrder(o.assets, A)
  BY DEF IsObject
<1> HIDE DEF A, A2, H, H2
<1>6. A2 = A \cup {Len(doc) + 1} /\ \A i \in A : i < Len(doc) + 1
  BY <1>1, <1>3
<1>7. H2 = H
  BY <1>4
<1>8. o.assets \in Seq(Nat)
  BY DEF SchemeObject
<1>9. InOrder(Append(o.assets, Len(doc) + 1), A2)
  BY <1>1, <1>5, <1>6, <1>8, InOrderAppend
<1>10. /\ o2.id = o.id /\ o2.assets = Append(o.assets, Len(doc) + 1)
       /\ o2 = [id |-> o.id, sample |-> Given(doc[o.id].a.sample, SamplingOf(doc)),
                assets |-> o2.assets, hit |-> Max({0} \cup H)]
  BY <1>5
<1> QED
  BY <1>1, <1>2, <1>7, <1>9, <1>10 DEF IsObject, A2, H2

(* The last hit rectangle counts.                                          *)
LEMMA HitRectAdds ==
  ASSUME NEW doc, NEW d2, NEW e, Longer(doc, d2, e), e.is = "empty", e.name = "HitRect",
         NEW o \in SchemeObject, o.id \in 1 .. Len(doc), IsObject(doc, o, Behind(doc, o.id)),
         NEW o2, o2 = [o EXCEPT !.hit = Len(doc) + 1]
  PROVE  IsObject(d2, o2, Behind(d2, o.id))
<1>1. /\ Len(doc) \in Nat /\ doc # <<>> /\ d2[o.id] = doc[o.id]
      /\ Len(doc) + 1 \in Nat
  BY LongerDomain DEF Longer
<1>2. SamplingOf(d2) = SamplingOf(doc)
  BY <1>1, SamplingStays
<1> DEFINE A == Named(doc, "Asset", {"empty"}) \cap Behind(doc, o.id)
           A2 == Named(d2, "Asset", {"empty"}) \cap Behind(d2, o.id)
           H == Named(doc, "HitRect", {"empty"}) \cap Behind(doc, o.id)
           H2 == Named(d2, "HitRect", {"empty"}) \cap Behind(d2, o.id)
<1>3. A2 = A \cup (IF e.is = "empty" /\ e.name = "Asset" THEN {Len(doc) + 1} ELSE {})
  BY NamedBehind
<1>4. H2 = H \cup (IF e.is = "empty" /\ e.name = "HitRect" THEN {Len(doc) + 1} ELSE {})
      /\ H \subseteq 1 .. Len(doc)
  BY NamedBehind
<1>5. /\ o = [id |-> o.id, sample |-> Given(doc[o.id].a.sample, SamplingOf(doc)),
              assets |-> o.assets, hit |-> Max({0} \cup H)]
      /\ InOrder(o.assets, A)
  BY DEF IsObject
<1> HIDE DEF A, A2, H, H2
<1>6. A2 = A
  BY <1>3
<1>7. Max({0} \cup H2) = Len(doc) + 1
  <2>1. H2 = H \cup {Len(doc) + 1}
    BY <1>4
  <2>2. {0} \cup H2 \in SUBSET Int /\ Len(doc) + 1 \in {0} \cup H2
    BY <1>1, <1>4, <2>1
  <2>3. \A y \in {0} \cup H2 : y <= Len(doc) + 1
    BY <1>1, <1>4, <2>1
  <2> QED
    BY <2>2, <2>3, MaxIs
<1>8. /\ o2.id = o.id /\ o2.assets = o.assets
      /\ o2 = [id |-> o.id, sample |-> Given(doc[o.id].a.sample, SamplingOf(doc)),
               assets |-> o2.assets, hit |-> Len(doc) + 1]
  BY <1>5
<1> QED
  BY <1>1, <1>2, <1>5, <1>6, <1>7, <1>8 DEF IsObject, A2, H2

(* The end of a display object: it has what is inside it.                  *)
LEMMA ObjectCloses ==
  ASSUME NEW doc, NEW d2, NEW e, NEW stack, NEW at, Read(doc, d2, e, stack, at),
         e.is = "end", NEW n, n = Len(stack),
         NEW o, o.id = at[n], IsObject(doc, o, Behind(doc, at[n]))
  PROVE  IsObject(d2, o, Inside(d2, o.id))
<1>1. Longer(doc, d2, e)
  BY DEF Read
<1>2. at[n] \in 1 .. Len(doc) /\ Inside(d2, at[n]) = Behind(doc, at[n])
  BY TopCloses
<1>3. d2[at[n]] = doc[at[n]] /\ doc # <<>>
  BY <1>1, <1>2, LongerDomain DEF Longer
<1>4. SamplingOf(d2) = SamplingOf(doc)
  BY <1>1, <1>3, SamplingStays
<1>5. ASSUME NEW name
      PROVE  Named(d2, name, {"empty"}) = Named(doc, name, {"empty"})
  <2>1. Named(d2, name, {"empty"}) =
          Named(doc, name, {"empty"})
            \cup (IF e.is \in {"empty"} /\ e.name = name THEN {Len(doc) + 1} ELSE {})
    BY <1>1, NamedLonger
  <2>2. e.is \notin {"empty"}
    OBVIOUS
  <2>3. Named(d2, name, {"empty"}) = Named(doc, name, {"empty"}) \cup {}
    BY <2>1, <2>2
  <2> QED
    BY <2>3
<1> QED
  BY <1>2, <1>3, <1>4, <1>5 DEF IsObject

-----------------------------------------------------------------------------
(* The stack of the reader.                                                *)

(* A start tag pushes.                                                     *)
LEMMA PushedAppend ==
  ASSUME NEW stack \in Seq(DOMAIN Level), NEW name \in DOMAIN Level
  PROVE  Pushed(stack, Append(stack, name), name)
<1>1. Len(stack) \in Nat
  BY LenProperties
<1>2. /\ Len(Append(stack, name)) = Len(stack) + 1
      /\ Append(stack, name)[Len(stack) + 1] = name
      /\ \A k \in 1 .. Len(stack) : Append(stack, name)[k] = stack[k]
  BY AppendProperties
<1> QED
  BY <1>1, <1>2 DEF Pushed

(* An end tag pops.                                                        *)
LEMMA FrontPushed ==
  ASSUME NEW stack, StackOK(stack), stack # <<>>
  PROVE  Pushed(Front(stack), stack, Last(stack)) /\ StackOK(Front(stack))
<1>1. stack \in Seq(DOMAIN Level) /\ Len(stack) \in 1 .. 3
  BY TopOfStack DEF StackOK
<1> DEFINE f == SubSeq(stack, 1, Len(stack) - 1)
<1>2. \A i \in 1 .. Len(stack) - 1 : stack[i] \in DOMAIN Level
  <2>1. ASSUME NEW i \in 1 .. Len(stack) - 1 PROVE stack[i] \in DOMAIN Level
    <3>1. i \in 1 .. Len(stack)
      BY <1>1
    <3> QED
      BY <1>1, <3>1, ElementOfSeq
  <2> QED
    BY <2>1
<1>3. 1 \in Int /\ Len(stack) - 1 \in Int
  BY <1>1
<1>4. /\ f \in Seq(DOMAIN Level)
      /\ Len(f) = IF 1 <= Len(stack) - 1 THEN (Len(stack) - 1) - 1 + 1 ELSE 0
      /\ \A i \in 1 .. (Len(stack) - 1) - 1 + 1 : f[i] = stack[1 + i - 1]
  BY <1>2, <1>3, SubSeqProperties
<1> HIDE DEF f
<1>5. Len(f) = Len(stack) - 1 /\ \A i \in 1 .. Len(f) : f[i] = stack[i]
  <2>1. \A n \in 1 .. 3 : /\ (IF 1 <= n - 1 THEN (n - 1) - 1 + 1 ELSE 0) = n - 1
                          /\ (n - 1) - 1 + 1 = n - 1
    OBVIOUS
  <2>2. /\ (IF 1 <= Len(stack) - 1 THEN (Len(stack) - 1) - 1 + 1 ELSE 0) = Len(stack) - 1
        /\ (Len(stack) - 1) - 1 + 1 = Len(stack) - 1
    BY <1>1, <2>1
  <2>3. Len(f) = Len(stack) - 1 /\ \A i \in 1 .. Len(f) : f[i] = stack[1 + i - 1]
    BY <1>4, <2>2
  <2>4. \A i \in Int : 1 + i - 1 = i
    OBVIOUS
  <2> QED
    BY <2>3, <2>4
<1>6. Pushed(f, stack, stack[Len(stack)])
  BY <1>1, <1>5 DEF Pushed
<1>7. StackOK(f)
  <2>1. /\ Len(f) >= 1 => f[1] = stack[1] /\ Len(stack) >= 1
        /\ Len(f) >= 2 => f[2] = stack[2] /\ Len(stack) >= 2
        /\ Len(f) <= 2
    BY <1>1, <1>5
  <2> QED
    BY <1>4, <2>1 DEF StackOK
<1> QED
  BY <1>6, <1>7 DEF Front, Last, f

(* What the reader lets through next.                                      *)
LEMMA AllowedNext ==
  ASSUME StackOK(open), NEW name \in Allowed
  PROVE  /\ name \in DOMAIN Level /\ Level[name] = Len(open) + 1
         /\ StackOK(Append(open, name)) \/ name \in {"Option", "Asset", "HitRect"}
         /\ name = "BMApplicationScheme" <=> document = <<>> /\ open = <<>>
         /\ name = "data" => open[2] = "Resource"
         /\ name \in {"Asset", "HitRect"} => open[2] = "DisplayObject"
<1>1. open \in Seq(DOMAIN Level) /\ Len(open) \in 0 .. 3
  BY TopOfStack DEF StackOK
<1>2. CASE open = <<>>
  <2>1. document = <<>> /\ name = "BMApplicationScheme"
    BY <1>2 DEF Allowed
  <2>2. Len(open) = 0 /\ Level["BMApplicationScheme"] = 1
    BY <1>2 DEF Level
  <2>3. "BMApplicationScheme" \in DOMAIN Level
    BY DEF Level
  <2>4. StackOK(Append(open, name))
    <3>1. /\ Append(open, name) \in Seq(DOMAIN Level) /\ Len(Append(open, name)) = 1
          /\ Append(open, name)[1] = "BMApplicationScheme"
      BY <1>1, <2>1, <2>2, <2>3, AppendProperties
    <3> QED
      BY <3>1 DEF StackOK
  <2> QED
    BY <1>2, <2>1, <2>2, <2>3, <2>4
<1>3. CASE open # <<>>
  <2>1. /\ Len(open) \in 1 .. Len(open) /\ Len(open) \in 1 .. 3
        /\ name \in Children[open[Len(open)]]
    BY <1>3, TopOfStack DEF Allowed, Last
  <2>2. /\ Children["BMApplicationScheme"] = {"Resource", "DisplayObject", "Option"}
        /\ Children["Resource"] = {"data"}
        /\ Children["DisplayObject"] = {"Asset", "HitRect"}
        /\ Children["data"] = {}
    BY DEF Children
  <2>3. \/ name \in {"Resource", "DisplayObject", "Option"} /\ Len(open) = 1
        \/ name = "data" /\ Len(open) = 2 /\ open[2] = "Resource"
        \/ name \in {"Asset", "HitRect"} /\ Len(open) = 2 /\ open[2] = "DisplayObject"
    <3>1. CASE Len(open) = 1
      <4>1. open[1] = "BMApplicationScheme" /\ name \in Children[open[1]]
        BY <2>1, <3>1 DEF StackOK
      <4>2. name \in {"Resource", "DisplayObject", "Option"}
        BY <2>2, <4>1
      <4> QED
        BY <3>1, <4>2
    <3>2. CASE Len(open) = 2
      <4>1. open[2] \in {"Resource", "DisplayObject"} /\ name \in Children[open[2]]
        BY <2>1, <3>2 DEF StackOK
      <4>2. open[2] = "Resource" => name = "data"
        BY <2>2, <4>1
      <4>3. open[2] = "DisplayObject" => name \in {"Asset", "HitRect"}
        BY <2>2, <4>1
      <4> QED
        BY <3>2, <4>1, <4>2, <4>3
    <3>3. CASE Len(open) = 3
      <4>1. open[3] = "data" /\ name \in Children[open[3]]
        BY <2>1, <3>3 DEF StackOK
      <4> QED
        BY <2>2, <4>1
    <3> QED
      BY <2>1, <3>1, <3>2, <3>3
  <2>4. name \in DOMAIN Level /\ Level[name] = Len(open) + 1
    <3>1. \A x \in {"Resource", "DisplayObject", "Option"} : x \in DOMAIN Level /\ Level[x] = 2
      BY DEF Level
    <3>2. \A x \in {"data", "Asset", "HitRect"} : x \in DOMAIN Level /\ Level[x] = 3
      BY DEF Level
    <3>3. CASE name \in {"Resource", "DisplayObject", "Option"} /\ Len(open) = 1
      BY <3>1, <3>3
    <3>4. CASE name \in {"data", "Asset", "HitRect"} /\ Len(open) = 2
      BY <3>2, <3>4
    <3> QED
      BY <2>3, <3>3, <3>4
  <2>5. name \in {"Option", "Asset", "HitRect"} \/ StackOK(Append(open, name))
    <3>1. SUFFICES ASSUME name \notin {"Option", "Asset", "HitRect"}
                   PROVE  StackOK(Append(open, name))
      OBVIOUS
    <3>2. /\ Append(open, name) \in Seq(DOMAIN Level)
          /\ Len(Append(open, name)) = Len(open) + 1
          /\ Append(open, name)[Len(open) + 1] = name
          /\ \A k \in 1 .. Len(open) : Append(open, name)[k] = open[k]
      BY <1>1, <2>4, AppendProperties
    <3>3. Append(open, name)[1] = "BMApplicationScheme"
      BY <2>1, <3>2 DEF StackOK
    <3>4. CASE Len(open) = 1
      <4>1. Len(Append(open, name)) = 2 /\ Append(open, name)[2] = name
        BY <3>2, <3>4
      <4>2. name \in {"Resource", "DisplayObject"}
        BY <2>3, <3>1, <3>4
      <4> QED
        BY <3>2, <3>3, <4>1, <4>2 DEF StackOK
    <3>5. CASE Len(open) = 2
      <4>1. /\ Len(Append(open, name)) = 3 /\ Append(open, name)[3] = name
            /\ Append(open, name)[2] = open[2]
        BY <3>2, <3>5
      <4>2. name = "data" /\ open[2] = "Resource"
        BY <2>3, <3>1, <3>5
      <4> QED
        BY <3>2, <3>3, <4>1, <4>2 DEF StackOK
    <3> QED
      BY <2>3, <3>4, <3>5
  <2> QED
    BY <1>3, <2>3, <2>4, <2>5
<1> QED
  BY <1>2, <1>3

-----------------------------------------------------------------------------
(* The inductive invariant.                                                *)

SchemeTypes ==
  /\ document \in Seq(Event)
  /\ scheme \in [resources : Seq(SchemeResource), objects : Seq(SchemeObject),
                 options : Seq(Nat)]
  /\ sampling \in Sample \cup {"linear"}
  /\ resource \in Seq(SchemeResource) /\ object \in Seq(SchemeObject)
  /\ inData \in BOOLEAN /\ data \in Seq(Piece)

Listed(doc, sch) ==
  /\ ResourcesListed(doc, sch.resources)
  /\ ObjectsListed(doc, sch.objects)
  /\ InOrder(sch.options, Named(doc, "Option", {"empty"}))

SchemeInv ==
  /\ SchemeTypes
  /\ StackOK(open)
  /\ sampling = SamplingOf(document)
  /\ Listed(document, scheme)
  /\ \E at : /\ Opened(document, open, at)
             /\ Current(document, open, at, resource, object, inData, data)

(* What stands behind a start: the element is at hand, and empty.          *)
LEMMA StartCurrent ==
  ASSUME NEW doc, NEW d2, NEW e, NEW stack, NEW at, Read(doc, d2, e, stack, at),
         e.is = "start",
         NEW stack2, Pushed(stack, stack2, e.name), StackOK(stack2),
         NEW at2, \A k \in 1 .. Len(stack) : at2[k] = at[k], at2[Len(stack2)] = Len(doc) + 1,
         NEW res, NEW obj, NEW within, NEW text, Current(doc, stack, at, res, obj, within, text),
         NEW res2, NEW obj2, NEW within2, NEW text2,
         e.name = "Resource" =>
           Len(res2) = 1 /\ res2[1] = [id |-> Len(doc) + 1, bitmap |-> <<>>],
         e.name = "DisplayObject" =>
           /\ Len(obj2) = 1 /\ obj2[1].id = Len(doc) + 1
           /\ IsObject(d2, obj2[1], {}),
         e.name = "data" => res2 = res /\ within2 /\ text2 = <<>>
  PROVE  Current(d2, stack2, at2, res2, obj2, within2, text2)
<1>1. /\ Longer(doc, d2, e) /\ StackOK(stack) /\ Opened(doc, stack, at)
      /\ Len(doc) \in Nat /\ Len(d2) = Len(doc) + 1
      /\ doc \in Seq(Event)
  BY LongerDomain DEF Read, Longer
<1>2. /\ Len(stack2) = Len(stack) + 1 /\ Len(stack) \in Nat
      /\ stack2[Len(stack2)] = e.name
      /\ \A k \in 1 .. Len(stack) : stack2[k] = stack[k]
  BY DEF Pushed
<1>3. Len(stack2) <= 3 /\ Len(stack2) \in 1 .. Len(stack2)
  BY <1>2 DEF StackOK
<1>4. Behind(d2, Len(doc) + 1) = {}
  BY <1>1 DEF Behind
<1>5. CASE Len(stack2) = 1
  BY <1>5 DEF Current
<1>6. CASE Len(stack2) = 2
  <2>1. at2[2] = Len(doc) + 1 /\ stack2[2] = e.name
    BY <1>2, <1>6
  <2>2. stack2[2] = "Resource" =>
          /\ Len(res2) = 1 /\ res2[1].id = at2[2]
          /\ IsResource(d2, res2[1], Behind(d2, at2[2]))
    <3>1. IsResource(d2, [id |-> Len(doc) + 1, bitmap |-> <<>>], {})
      BY ResourceNew
    <3> DEFINE r == [id |-> Len(doc) + 1, bitmap |-> <<>>]
    <3>2. r.id = Len(doc) + 1
      OBVIOUS
    <3>3. e.name = "Resource" => Len(res2) = 1 /\ res2[1] = r
      OBVIOUS
    <3> HIDE DEF r
    <3> QED
      BY <1>4, <2>1, <3>1, <3>2, <3>3 DEF r
  <2>3. stack2[2] = "DisplayObject" =>
          /\ Len(obj2) = 1 /\ obj2[1].id = at2[2]
          /\ IsObject(d2, obj2[1], Behind(d2, at2[2]))
    BY <1>4, <2>1
  <2> QED
    BY <1>6, <2>2, <2>3 DEF Current
<1>7. CASE Len(stack2) = 3
  <2>1. stack2[2] = "Resource" /\ stack2[3] = "data"
    BY <1>7 DEF StackOK
  <2>2. Len(stack) >= 2 /\ 2 \in 1 .. Len(stack)
    <3>1. \A l \in Nat : l + 1 = 3 => l = 2
      OBVIOUS
    <3>2. Len(stack) = 2
      BY <1>2, <1>7, <3>1
    <3> QED
      BY <3>2
  <2>3. at2[3] = Len(doc) + 1 /\ e.name = "data"
    BY <1>2, <1>7, <2>1
  <2>4. at2[2] = at[2] /\ stack[2] = "Resource"
    BY <1>2, <2>1, <2>2
  <2>5. Len(res) = 1 /\ res[1].id = at[2] /\ IsResource(doc, res[1], Behind(doc, at[2]))
    BY <2>2, <2>4 DEF Current
  <2>6. at[2] \in 1 .. Len(doc)
    BY <1>1, <2>2, BehindOpen
  <2>7. IsResource(d2, res[1], Behind(d2, at[2]))
    BY <2>5, <2>6, ResourceOpen
  <2>8. TextSince(d2, at2[3]) = <<>>
    <3>1. 1 .. Len(d2) - at2[3] = {}
      BY <1>1, <2>3
    <3> QED
      BY <3>1 DEF TextSince
  <2>9. stack2[2] # "DisplayObject"
    BY <2>1
  <2> QED
    BY <2>3, <2>4, <2>5, <2>7, <2>8, <2>9 DEF Current
<1>8. Len(stack2) = 1 \/ Len(stack2) = 2 \/ Len(stack2) = 3
  BY <1>2, <1>3
<1> QED
  BY <1>5, <1>6, <1>7, <1>8

(* What is listed stays while nothing is whole that was not.               *)
LEMMA ListedStays ==
  ASSUME NEW doc, NEW d2, NEW e, NEW stack, NEW at, Read(doc, d2, e, stack, at),
         NEW list, NEW list2
  PROVE  /\ ResourcesListed(doc, list) /\ e.is # "end" => ResourcesListed(d2, list)
         /\ ResourcesListed(doc, list) /\ e.is = "end" /\ Last(stack) # "Resource" =>
              ResourcesListed(d2, list)
         /\ ObjectsListed(doc, list) /\ e.is \in {"start", "text"} => ObjectsListed(d2, list)
         /\ ObjectsListed(doc, list) /\ e.is = "end" /\ Last(stack) # "DisplayObject" =>
              ObjectsListed(d2, list)
         /\ ObjectsListed(doc, list) /\ e.is = "empty" /\ e.name # "DisplayObject" =>
              ObjectsListed(d2, list)
         /\ InOrder(list2, Named(doc, "Option", {"empty"}))
              /\ ~(e.is = "empty" /\ e.name = "Option") =>
              InOrder(list2, Named(d2, "Option", {"empty"}))
<1>1. /\ Longer(doc, d2, e) /\ StackOK(stack) /\ Opened(doc, stack, at)
      /\ e.is = "end" => stack # <<>>
      /\ e.is \in {"start", "text", "empty", "end"}
  BY DEF Read, Longer, Event
<1> DEFINE R == {"start"}
           O == {"start", "empty"}
<1>2. /\ R \in SUBSET {"start", "empty"} /\ O \in SUBSET {"start", "empty"}
      /\ "empty" \notin R /\ "start" \in R /\ "start" \in O /\ "empty" \in O
  OBVIOUS
<1> HIDE DEF R, O
<1>3. ASSUME NEW name, NEW kinds \in SUBSET {"start", "empty"},
             \/ e.is \in {"start", "text"}
             \/ e.is = "empty" /\ ("empty" \notin kinds \/ e.name # name)
             \/ e.is = "end" /\ Last(stack) # name
      PROVE  Whole(d2, name, kinds) = Whole(doc, name, kinds)
  <2>1. CASE e.is \in {"start", "text"}
    BY <1>1, <2>1, WholeLonger
  <2>2. CASE e.is = "empty" /\ ("empty" \notin kinds \/ e.name # name)
    <3>1. Whole(d2, name, kinds) =
            Whole(doc, name, kinds)
              \cup (IF "empty" \in kinds /\ e.name = name THEN {Len(doc) + 1} ELSE {})
      BY <1>1, <2>2, WholeLonger
    <3> QED
      BY <2>2, <3>1
  <2>3. CASE e.is = "end" /\ Last(stack) # name
    <3>1. Whole(d2, name, kinds) =
            Whole(doc, name, kinds)
              \cup (IF "start" \in kinds /\ stack[Len(stack)] = name
                    THEN {at[Len(stack)]} ELSE {})
      BY <1>1, <2>3, WholeLonger
    <3> QED
      BY <2>3, <3>1 DEF Last
  <2> QED
    BY <1>3, <2>1, <2>2, <2>3
<1>4. e.is # "end" \/ (e.is = "end" /\ Last(stack) # "Resource") =>
        Whole(d2, "Resource", R) = Whole(doc, "Resource", R)
  BY <1>1, <1>2, <1>3
<1>5. \/ e.is \in {"start", "text"}
      \/ e.is = "empty" /\ e.name # "DisplayObject"
      \/ e.is = "end" /\ Last(stack) # "DisplayObject"
      => Whole(d2, "DisplayObject", O) = Whole(doc, "DisplayObject", O)
  BY <1>1, <1>2, <1>3
<1>6. ~(e.is = "empty" /\ e.name = "Option") =>
        Named(d2, "Option", {"empty"}) = Named(doc, "Option", {"empty"})
  <2>1. Named(d2, "Option", {"empty"}) =
          Named(doc, "Option", {"empty"})
            \cup (IF e.is \in {"empty"} /\ e.name = "Option" THEN {Len(doc) + 1} ELSE {})
    BY <1>1, NamedLonger
  <2>2. ASSUME ~(e.is = "empty" /\ e.name = "Option")
        PROVE  Named(d2, "Option", {"empty"}) = Named(doc, "Option", {"empty"}) \cup {}
    BY <2>1, <2>2
  <2> QED
    BY <2>2
<1>7. ResourcesListed(doc, list) /\ Whole(d2, "Resource", R) = Whole(doc, "Resource", R) =>
        ResourcesListed(d2, list)
  BY ResourcesStay DEF R
<1>8. ObjectsListed(doc, list)
        /\ Whole(d2, "DisplayObject", O) = Whole(doc, "DisplayObject", O) =>
        ObjectsListed(d2, list)
  BY <1>1, ObjectsStay DEF O
<1> QED
  BY <1>4, <1>5, <1>6, <1>7, <1>8

-----------------------------------------------------------------------------
(* Every event keeps the invariant.                                        *)

(* The documents the reader hands out.                                     *)
LEMMA GrowingDocument ==
  ASSUME SchemeInv, NEW e \in Event, e.is = "end" => open # <<>>
  PROVE  \E at : /\ Read(document, Append(document, e), e, open, at)
                 /\ Current(document, open, at, resource, object, inData, data)
<1>1. document \in Seq(Event)
  BY DEF SchemeInv, SchemeTypes
<1>2. Longer(document, Append(document, e), e)
  BY <1>1, AppendLonger
<1>3. PICK at : /\ Opened(document, open, at)
                /\ Current(document, open, at, resource, object, inData, data)
  BY DEF SchemeInv
<1>4. StackOK(open)
  BY DEF SchemeInv
<1> QED
  BY <1>2, <1>3, <1>4 DEF Read

(* The tags of allowed elements are events, with their place as id.        *)
LEMMA ElementEvent ==
  ASSUME SchemeInv, NEW name \in Allowed, NEW a \in Attributes(name),
         NEW is \in {"start", "empty"}
  PROVE  /\ [is |-> is, name |-> name, a |-> a] \in Event
         /\ a.id = Len(document) + 1 /\ a.id \in Nat /\ Len(document) \in Nat
         /\ a.sample \in Sample \cup {Absent}
<1>1. document \in Seq(Event) /\ StackOK(open)
  BY DEF SchemeInv, SchemeTypes
<1>2. Len(document) \in Nat
  BY <1>1, LenProperties
<1>3. name \in DOMAIN Level
  BY <1>1, AllowedNext
<1>4. a \in [id : {Len(document) + 1}, sample : Sample \cup {Absent}]
  BY DEF Attributes
<1>5. a \in [id : Nat, sample : Sample \cup {Absent}] /\ a.id = Len(document) + 1
  BY <1>2, <1>4
<1> QED
  BY <1>2, <1>3, <1>5 DEF Event

(* A new display object is one of the scheme's.                            *)
LEMMA NewObjectType ==
  ASSUME SchemeInv, NEW name \in Allowed, NEW a \in Attributes(name)
  PROVE  NewObject(a) \in SchemeObject
<1>1. a.id \in Nat /\ a.sample \in Sample \cup {Absent}
  BY ElementEvent
<1>2. sampling \in Sample \cup {"linear"}
  BY DEF SchemeInv, SchemeTypes
<1>3. Given(a.sample, sampling) \in Sample \cup {"linear"}
  BY <1>1, <1>2 DEF Given
<1>4. <<>> \in Seq(Nat)
  OBVIOUS
<1> QED
  BY <1>1, <1>3, <1>4 DEF NewObject, SchemeObject

(* Only the outermost element starts an empty document.                    *)
LEMMA FirstElement ==
  ASSUME SchemeInv, NEW name \in Allowed
  PROVE  name = "BMApplicationScheme" <=> document = <<>>
<1>1. StackOK(open)
  BY DEF SchemeInv
<1>2. document = <<>> => open = <<>>
  <2>1. SUFFICES ASSUME document = <<>>, open # <<>>
                 PROVE  FALSE
    OBVIOUS
  <2>2. PICK at : Opened(document, open, at)
    BY DEF SchemeInv
  <2>3. Len(open) \in 1 .. Len(open)
    BY <1>1, <2>1, TopOfStack
  <2>4. at[Len(open)] \in 1 .. Len(document)
    BY <2>2, <2>3 DEF Opened
  <2> QED
    BY <2>1, <2>4
<1>3. name = "BMApplicationScheme" <=> document = <<>> /\ open = <<>>
  BY <1>1, AllowedNext
<1> QED
  BY <1>2, <1>3

(* The sampling mode is that of the outermost element.                     *)
LEMMA SamplingKept ==
  ASSUME NEW doc, NEW d2, NEW e, Longer(doc, d2, e), NEW mode, mode = SamplingOf(doc),
         NEW mode2, mode2 = IF doc = <<>> THEN Given(e.a.sample, mode) ELSE mode
  PROVE  mode2 = SamplingOf(d2)
<1>1. CASE doc # <<>>
  BY <1>1, SamplingStays
<1>2. CASE doc = <<>>
  <2>1. d2[1] = e /\ d2 # <<>> /\ mode = "linear"
    BY <1>2 DEF Longer, SamplingOf
  <2> QED
    BY <1>2, <2>1 DEF SamplingOf
<1> QED
  BY <1>1, <1>2

(* Event::Start: the element is pushed and becomes the one at hand.        *)
LEMMA StartKeeps ==
  ASSUME SchemeInv, NEW name \in Allowed, NEW a \in Attributes(name), StartEvent(name, a)
  PROVE  SchemeInv'
<1> DEFINE e == [is |-> "start", name |-> name, a |-> a]
<1>1. /\ SchemeTypes /\ StackOK(open) /\ sampling = SamplingOf(document)
      /\ Listed(document, scheme)
  BY DEF SchemeInv
<1>2. e \in Event /\ a.id = Len(document) + 1 /\ a.id \in Nat /\ Len(document) \in Nat
  BY ElementEvent
<1>3. document' = Append(document, e) /\ open' = Append(open, name)
  BY DEF StartEvent
<1>4. name \in {"BMApplicationScheme", "Resource", "DisplayObject", "data"}
  BY DEF StartEvent, Children
<1>5. /\ name \in DOMAIN Level /\ Level[name] = Len(open) + 1
      /\ StackOK(open')
      /\ name = "BMApplicationScheme" <=> document = <<>>
  <2>1. name \notin {"Option", "Asset", "HitRect"}
    BY <1>4
  <2> QED
    BY <1>1, <1>3, <2>1, AllowedNext, FirstElement
<1>6. e.is = "start" /\ e.name = name /\ e.a = a
  OBVIOUS
<1> HIDE DEF e
<1>7. PICK at : /\ Read(document, document', e, open, at)
                /\ Current(document, open, at, resource, object, inData, data)
  BY <1>2, <1>3, <1>6, GrowingDocument
<1>8. Longer(document, document', e) /\ Opened(document, open, at) /\ document \in Seq(Event)
      /\ document' \in Seq(Event)
  BY <1>7 DEF Read, Longer
<1>9. Pushed(open, open', e.name)
  BY <1>1, <1>3, <1>5, <1>6, PushedAppend DEF StackOK
<1>10. Len(open) \in Nat
  BY <1>1, TopOfStack
<1>11. PICK at2 : /\ Opened(document', open', at2)
                  /\ \A k \in 1 .. Len(open) : at2[k] = at[k]
                  /\ at2[Len(open')] = Len(document) + 1
  BY <1>5, <1>6, <1>8, <1>9, OpenedStart
<1>12. Listed(document', scheme)
  BY <1>1, <1>6, <1>7, ListedStays DEF Listed
<1>13. sampling' = IF document = <<>> THEN Given(e.a.sample, sampling) ELSE sampling
  <2>1. CASE name = "BMApplicationScheme"
    BY <1>5, <1>6, <2>1 DEF StartEvent, Element, BMApplicationScheme
  <2>2. CASE name = "Resource"
    BY <1>5, <2>2 DEF StartEvent, Element, Resource
  <2>3. CASE name = "DisplayObject"
    BY <1>5, <2>3 DEF StartEvent, Element, DisplayObject
  <2>4. CASE name = "data"
    BY <1>5, <2>4 DEF StartEvent, Element, DataStart
  <2> QED
    BY <1>4, <2>1, <2>2, <2>3, <2>4
<1>14. sampling' = SamplingOf(document')
  BY <1>1, <1>8, <1>13, SamplingKept
<1>15. /\ scheme' = scheme
       /\ resource' = IF name = "Resource" THEN <<[id |-> a.id, bitmap |-> <<>>]>> ELSE resource
       /\ object' = IF name = "DisplayObject" THEN <<NewObject(a)>> ELSE object
       /\ inData' = IF name = "data" THEN TRUE ELSE inData
       /\ data' = IF name = "data" THEN <<>> ELSE data
  <2>1. CASE name = "BMApplicationScheme"
    BY <2>1 DEF StartEvent, Element, BMApplicationScheme
  <2>2. CASE name = "Resource"
    BY <2>2 DEF StartEvent, Element, Resource
  <2>3. CASE name = "DisplayObject"
    BY <2>3 DEF StartEvent, Element, DisplayObject
  <2>4. CASE name = "data"
    BY <2>4 DEF StartEvent, Element, DataStart
  <2> QED
    BY <1>4, <2>1, <2>2, <2>3, <2>4
<1>16. NewObject(a) \in SchemeObject
  BY NewObjectType
<1>17. SchemeTypes'
  <2>1. [id |-> a.id, bitmap |-> <<>>] \in SchemeResource
    <3>1. <<>> \in Seq(Piece)
      OBVIOUS
    <3> QED
      BY <1>2, <3>1 DEF SchemeResource
  <2>2. resource' \in Seq(SchemeResource)
    BY <1>1, <1>15, <2>1 DEF SchemeTypes
  <2>3. object' \in Seq(SchemeObject)
    BY <1>1, <1>15, <1>16 DEF SchemeTypes
  <2>4. inData' \in BOOLEAN
    BY <1>1, <1>15 DEF SchemeTypes
  <2>5. data' \in Seq(Piece)
    <3>1. <<>> \in Seq(Piece)
      OBVIOUS
    <3> QED
      BY <1>1, <1>15, <3>1 DEF SchemeTypes
  <2>6. sampling' \in Sample \cup {"linear"}
    <3>1. a.sample \in Sample \cup {Absent}
      BY ElementEvent
    <3> QED
      BY <1>1, <1>6, <1>13, <3>1 DEF SchemeTypes, Given
  <2> QED
    BY <1>1, <1>8, <1>15, <2>2, <2>3, <2>4, <2>5, <2>6 DEF SchemeTypes
<1>18. name = "Resource" =>
         Len(resource') = 1 /\ resource'[1] = [id |-> Len(document) + 1, bitmap |-> <<>>]
  BY <1>2, <1>15
<1>19. name = "DisplayObject" =>
         /\ Len(object') = 1 /\ object'[1].id = Len(document) + 1
         /\ IsObject(document', object'[1], {})
  <2>1. SUFFICES ASSUME name = "DisplayObject"
                 PROVE  /\ Len(object') = 1 /\ object'[1].id = Len(document) + 1
                        /\ IsObject(document', object'[1], {})
    OBVIOUS
  <2>2. Len(object') = 1 /\ object'[1] = NewObject(a)
    BY <1>15, <2>1
  <2>3. document # <<>>
    BY <1>5, <2>1
  <2>4. NewObject(a) = [id |-> Len(document) + 1,
                        sample |-> Given(e.a.sample, SamplingOf(document)),
                        assets |-> <<>>, hit |-> 0]
    BY <1>1, <1>2, <1>6 DEF NewObject
  <2>5. IsObject(document', NewObject(a), {})
    BY <1>8, <2>3, <2>4, ObjectNew
  <2>6. NewObject(a).id = Len(document) + 1
    BY <2>4
  <2> QED
    BY <2>2, <2>5, <2>6
<1>20. name = "data" => resource' = resource /\ inData' /\ data' = <<>>
  BY <1>15
<1>21. Current(document', open', at2, resource', object', inData', data')
  BY <1>5, <1>6, <1>7, <1>9, <1>11, <1>18, <1>19, <1>20, StartCurrent
<1>22. Listed(document', scheme')
  BY <1>12, <1>15
<1> QED
  BY <1>5, <1>11, <1>14, <1>17, <1>21, <1>22 DEF SchemeInv

(* The empty elements and the texts within an open element.                *)
LEMMA FlatCurrent ==
  ASSUME NEW doc, NEW d2, NEW e, NEW stack, NEW at, Read(doc, d2, e, stack, at),
         e.is \in {"text", "empty"},
         NEW res, NEW obj, NEW within, NEW text, Current(doc, stack, at, res, obj, within, text),
         NEW obj2, NEW within2, NEW text2,
         Len(stack) >= 2 /\ stack[2] = "DisplayObject" =>
           Len(obj2) = 1 /\ obj2[1].id = at[2] /\ IsObject(d2, obj2[1], Behind(d2, at[2])),
         Len(stack) = 3 => within2 /\ text2 = TextSince(d2, at[3])
  PROVE  Current(d2, stack, at, res, obj2, within2, text2)
<1>1. SUFFICES ASSUME Len(stack) >= 2 /\ stack[2] = "Resource"
               PROVE  /\ Len(res) = 1 /\ res[1].id = at[2]
                      /\ IsResource(d2, res[1], Behind(d2, at[2]))
  BY DEF Current
<1>2. Len(res) = 1 /\ res[1].id = at[2] /\ IsResource(doc, res[1], Behind(doc, at[2]))
  BY <1>1 DEF Current
<1>3. at[2] \in 1 .. Len(doc)
  <2>1. StackOK(stack) /\ Opened(doc, stack, at) /\ doc \in Seq(Event)
    BY DEF Read, Longer
  <2>2. 2 \in 1 .. Len(stack)
    BY <1>1, <2>1, TopOfStack
  <2> QED
    BY <2>1, <2>2, BehindOpen
<1>4. e.is # "end"
  OBVIOUS
<1>5. IsResource(d2, res[1], Behind(d2, at[2]))
  BY <1>2, <1>3, <1>4, ResourceOpen
<1> QED
  BY <1>2, <1>5

(* An empty display object is listed at once.                              *)
LEMMA EmptyObjectListed ==
  ASSUME NEW doc, NEW d2, NEW e, NEW stack, NEW at, Read(doc, d2, e, stack, at),
         e.is = "empty", e.name = "DisplayObject", doc # <<>>,
         NEW list \in Seq(SchemeObject), ObjectsListed(doc, list), NEW o \in SchemeObject,
         o = [id |-> Len(doc) + 1, sample |-> Given(e.a.sample, SamplingOf(doc)),
              assets |-> <<>>, hit |-> 0]
  PROVE  ObjectsListed(d2, Append(list, o))
<1>1. /\ Longer(doc, d2, e) /\ StackOK(stack) /\ Opened(doc, stack, at)
      /\ e.is = "end" => stack # <<>>
      /\ Len(doc) \in Nat /\ DOMAIN doc = 1 .. Len(doc)
  BY LongerDomain DEF Read
<1>2. o.id = Len(doc) + 1
  OBVIOUS
<1>3. Whole(d2, "DisplayObject", {"start", "empty"}) =
        Whole(doc, "DisplayObject", {"start", "empty"}) \cup {o.id}
  <2>1. Whole(d2, "DisplayObject", {"start", "empty"}) =
          Whole(doc, "DisplayObject", {"start", "empty"})
            \cup (IF "empty" \in {"start", "empty"} /\ e.name = "DisplayObject"
                  THEN {Len(doc) + 1} ELSE {})
    BY <1>1, WholeLonger
  <2> QED
    BY <1>2, <2>1
<1>4. \A i \in Whole(doc, "DisplayObject", {"start", "empty"}) : i < o.id
  BY <1>1, <1>2 DEF Whole, Named
<1>5. Inside(d2, o.id) = {}
  <2>1. EndAt(d2, Len(doc) + 1) = Len(doc) + 1
    BY <1>1, EndOfLast
  <2> QED
    BY <1>1, <1>2, <2>1 DEF Inside
<1>6. IsObject(d2, o, {})
  BY <1>1, ObjectNew
<1> QED
  BY <1>1, <1>3, <1>4, <1>5, <1>6, ObjectsGrow

(* An option is listed at once.                                            *)
LEMMA OptionListed ==
  ASSUME NEW doc, NEW d2, NEW e, Longer(doc, d2, e), e.is = "empty", e.name = "Option",
         NEW list \in Seq(Nat), InOrder(list, Named(doc, "Option", {"empty"}))
  PROVE  InOrder(Append(list, Len(doc) + 1), Named(d2, "Option", {"empty"}))
<1>1. /\ Named(d2, "Option", {"empty"}) =
           Named(doc, "Option", {"empty"})
             \cup (IF e.is \in {"empty"} /\ e.name = "Option" THEN {Len(doc) + 1} ELSE {})
      /\ Named(doc, "Option", {"empty"}) \subseteq 1 .. Len(doc)
  BY NamedLonger
<1>2. Named(d2, "Option", {"empty"}) = Named(doc, "Option", {"empty"}) \cup {Len(doc) + 1}
  BY <1>1
<1>3. Len(doc) \in Nat
  BY LongerDomain
<1>4. Len(doc) + 1 \in Nat /\ \A i \in Named(doc, "Option", {"empty"}) : i < Len(doc) + 1
  BY <1>1, <1>3
<1> QED
  BY <1>2, <1>4, InOrderAppend

(* What an empty element within a display object makes of it.              *)
LEMMA ObjectAdds ==
  ASSUME NEW doc, NEW d2, NEW e, NEW stack, NEW at, Read(doc, d2, e, stack, at),
         e.is = "empty", 2 \in 1 .. Len(stack),
         NEW o \in SchemeObject, o.id = at[2], IsObject(doc, o, Behind(doc, at[2])),
         NEW o2,
         \/ e.name = "Asset" /\ o2 = [o EXCEPT !.assets = Append(@, Len(doc) + 1)]
         \/ e.name = "HitRect" /\ o2 = [o EXCEPT !.hit = Len(doc) + 1]
  PROVE  /\ o2 \in SchemeObject /\ o2.id = at[2]
         /\ IsObject(d2, o2, Behind(d2, at[2]))
<1>1. /\ Longer(doc, d2, e) /\ StackOK(stack) /\ Opened(doc, stack, at)
      /\ doc \in Seq(Event) /\ Len(doc) \in Nat
  BY LongerDomain DEF Read, Longer
<1>2. at[2] \in 1 .. Len(doc)
  BY <1>1, BehindOpen
<1>3. Len(doc) + 1 \in Nat
  BY <1>1
<1>4. CASE e.name = "Asset" /\ o2 = [o EXCEPT !.assets = Append(@, Len(doc) + 1)]
  <2>1. Append(o.assets, Len(doc) + 1) \in Seq(Nat)
    <3>1. o.assets \in Seq(Nat)
      BY DEF SchemeObject
    <3> QED
      BY <1>3, <3>1, AppendProperties
  <2>2. o2 \in SchemeObject /\ o2.id = o.id
    BY <1>4, <2>1 DEF SchemeObject
  <2>3. IsObject(d2, o2, Behind(d2, o.id))
    BY <1>1, <1>2, <1>4, AssetAdds
  <2> QED
    BY <2>2, <2>3
<1>5. CASE e.name = "HitRect" /\ o2 = [o EXCEPT !.hit = Len(doc) + 1]
  <2>2. o2 \in SchemeObject /\ o2.id = o.id
    BY <1>3, <1>5 DEF SchemeObject
  <2>3. IsObject(d2, o2, Behind(d2, o.id))
    BY <1>1, <1>2, <1>5, HitRectAdds
  <2> QED
    BY <2>2, <2>3
<1> QED
  BY <1>4, <1>5

(* Event::Empty: the element goes where it belongs, the stack stays.       *)
LEMMA EmptyKeeps ==
  ASSUME SchemeInv, NEW name \in Allowed, NEW a \in Attributes(name), EmptyEvent(name, a)
  PROVE  SchemeInv'
<1> DEFINE e == [is |-> "empty", name |-> name, a |-> a]
<1>1. /\ SchemeTypes /\ StackOK(open) /\ sampling = SamplingOf(document)
      /\ Listed(document, scheme)
  BY DEF SchemeInv
<1>2. /\ e \in Event /\ a.id = Len(document) + 1 /\ a.id \in Nat /\ Len(document) \in Nat
      /\ a.sample \in Sample \cup {Absent}
  BY ElementEvent
<1>3. document' = Append(document, e) /\ open' = open /\ open # <<>>
  BY DEF EmptyEvent
<1>4. /\ name \in DOMAIN Level /\ Level[name] = Len(open) + 1
      /\ name = "data" => open[2] = "Resource"
      /\ name \in {"Asset", "HitRect"} => open[2] = "DisplayObject"
      /\ name # "BMApplicationScheme" /\ document # <<>>
  BY <1>1, <1>3, AllowedNext, FirstElement
<1>5. name \in {"Resource", "DisplayObject", "Option", "Asset", "HitRect", "data"}
  BY <1>4 DEF Level
<1>6. e.is = "empty" /\ e.name = name /\ e.a = a
  OBVIOUS
<1> HIDE DEF e
<1>7. PICK at : /\ Read(document, document', e, open, at)
                /\ Current(document, open, at, resource, object, inData, data)
  BY <1>2, <1>3, <1>6, GrowingDocument
<1>8. Longer(document, document', e) /\ Opened(document, open, at) /\ document \in Seq(Event)
      /\ document' \in Seq(Event)
  BY <1>7 DEF Read, Longer
<1>9. Len(open) \in 0 .. 3 /\ Len(open) \in Nat
  BY <1>1, TopOfStack
<1>10. Opened(document', open', at)
  BY <1>3, <1>4, <1>6, <1>8, <1>9, OpenedFlat
<1>11. /\ sampling' = sampling
       /\ scheme' = IF name = "DisplayObject"
                    THEN [scheme EXCEPT !.objects = Append(@, NewObject(a))]
                    ELSE IF name = "Option"
                    THEN [scheme EXCEPT !.options = Append(@, a.id)] ELSE scheme
       /\ resource' = IF name = "Resource" THEN <<[id |-> a.id, bitmap |-> <<>>]>> ELSE resource
       /\ object' = IF name = "Asset"
                    THEN [i \in DOMAIN object |->
                            [object[i] EXCEPT !.assets = Append(@, a.id)]]
                    ELSE IF name = "HitRect"
                    THEN [i \in DOMAIN object |-> [object[i] EXCEPT !.hit = a.id]]
                    ELSE object
       /\ inData' = IF name = "data" THEN TRUE ELSE inData
       /\ data' = IF name = "data" THEN <<>> ELSE data
  <2>1. CASE name = "Resource"
    BY <2>1 DEF EmptyEvent, Element, Resource
  <2>2. CASE name = "DisplayObject"
    BY <2>2 DEF EmptyEvent, Element, DisplayObject
  <2>3. CASE name = "Option"
    BY <2>3 DEF EmptyEvent, Element, Option
  <2>4. CASE name = "Asset"
    BY <2>4 DEF EmptyEvent, Element, Asset
  <2>5. CASE name = "HitRect"
    BY <2>5 DEF EmptyEvent, Element, HitRect
  <2>6. CASE name = "data"
    BY <2>6 DEF EmptyEvent, Element, DataStart
  <2> QED
    BY <1>5, <2>1, <2>2, <2>3, <2>4, <2>5, <2>6
<1>12. NewObject(a) \in SchemeObject
  BY NewObjectType
<1>13. object' \in Seq(SchemeObject)
  <2>1. object \in Seq(SchemeObject) /\ DOMAIN object = 1 .. Len(object) /\ Len(object) \in Nat
        /\ \A i \in 1 .. Len(object) : object[i] \in SchemeObject
    BY <1>1, ElementOfSeq, LenProperties DEF SchemeTypes
  <2>2. CASE name = "Asset"
    <3>1. \A i \in 1 .. Len(object) :
            [object[i] EXCEPT !.assets = Append(@, a.id)] \in SchemeObject
      <4>1. ASSUME NEW o \in SchemeObject
            PROVE  [o EXCEPT !.assets = Append(@, a.id)] \in SchemeObject
        <5>1. Append(o.assets, a.id) \in Seq(Nat)
          <6>1. o.assets \in Seq(Nat)
            BY DEF SchemeObject
          <6> QED
            BY <1>2, <6>1, AppendProperties
        <5> QED
          BY <5>1 DEF SchemeObject
      <4> QED
        BY <2>1, <4>1
    <3>2. object' = [i \in 1 .. Len(object) |-> [object[i] EXCEPT !.assets = Append(@, a.id)]]
      BY <1>11, <2>1, <2>2
    <3> QED
      BY <2>1, <3>1, <3>2
  <2>3. CASE name = "HitRect"
    <3>1. \A i \in 1 .. Len(object) : [object[i] EXCEPT !.hit = a.id] \in SchemeObject
      BY <1>2, <2>1 DEF SchemeObject
    <3>2. object' = [i \in 1 .. Len(object) |-> [object[i] EXCEPT !.hit = a.id]]
      BY <1>11, <2>1, <2>3
    <3> QED
      BY <2>1, <3>1, <3>2
  <2>4. CASE name \notin {"Asset", "HitRect"}
    BY <1>11, <2>1, <2>4
  <2> QED
    BY <2>2, <2>3, <2>4
<1>14. /\ scheme'.resources = scheme.resources
       /\ scheme'.objects = IF name = "DisplayObject" THEN Append(scheme.objects, NewObject(a))
                            ELSE scheme.objects
       /\ scheme'.options = IF name = "Option" THEN Append(scheme.options, a.id)
                            ELSE scheme.options
       /\ scheme' \in [resources : Seq(SchemeResource), objects : Seq(SchemeObject),
                       options : Seq(Nat)]
  <2>1. /\ scheme.objects \in Seq(SchemeObject) /\ scheme.options \in Seq(Nat)
        /\ scheme.resources \in Seq(SchemeResource)
    BY <1>1 DEF SchemeTypes
  <2>2. /\ Append(scheme.objects, NewObject(a)) \in Seq(SchemeObject)
        /\ Append(scheme.options, a.id) \in Seq(Nat)
    BY <1>2, <1>12, <2>1, AppendProperties
  <2>3. scheme = [resources |-> scheme.resources, objects |-> scheme.objects,
                  options |-> scheme.options]
    BY <1>1 DEF SchemeTypes
  <2> QED
    BY <1>11, <2>1, <2>2, <2>3
<1>15. SchemeTypes'
  <2>1. resource' \in Seq(SchemeResource)
    <3>1. [id |-> a.id, bitmap |-> <<>>] \in SchemeResource
      <4>1. <<>> \in Seq(Piece)
        OBVIOUS
      <4> QED
        BY <1>2, <4>1 DEF SchemeResource
    <3> QED
      BY <1>1, <1>11, <3>1 DEF SchemeTypes
  <2>2. data' \in Seq(Piece)
    <3>1. <<>> \in Seq(Piece)
      OBVIOUS
    <3> QED
      BY <1>1, <1>11, <3>1 DEF SchemeTypes
  <2>3. inData' \in BOOLEAN /\ sampling' \in Sample \cup {"linear"}
    BY <1>1, <1>11 DEF SchemeTypes
  <2> QED
    BY <1>8, <1>13, <1>14, <2>1, <2>2, <2>3 DEF SchemeTypes
<1>16. sampling' = SamplingOf(document')
  BY <1>1, <1>4, <1>8, <1>11, SamplingStays
<1>17. Listed(document', scheme')
  <2>1. ResourcesListed(document', scheme'.resources)
    BY <1>1, <1>6, <1>7, <1>14, ListedStays DEF Listed
  <2>2. ObjectsListed(document', scheme'.objects)
    <3>1. CASE name = "DisplayObject"
      <4>1. NewObject(a) = [id |-> Len(document) + 1,
                            sample |-> Given(e.a.sample, SamplingOf(document)),
                            assets |-> <<>>, hit |-> 0]
        BY <1>1, <1>2, <1>6 DEF NewObject
      <4>2. scheme.objects \in Seq(SchemeObject) /\ ObjectsListed(document, scheme.objects)
        BY <1>1 DEF SchemeTypes, Listed
      <4>3. ObjectsListed(document', Append(scheme.objects, NewObject(a)))
        BY <1>4, <1>6, <1>7, <1>12, <3>1, <4>1, <4>2, EmptyObjectListed
      <4> QED
        BY <1>14, <3>1, <4>3
    <3>2. CASE name # "DisplayObject"
      BY <1>1, <1>6, <1>7, <1>14, <3>2, ListedStays DEF Listed
    <3> QED
      BY <3>1, <3>2
  <2>3. InOrder(scheme'.options, Named(document', "Option", {"empty"}))
    <3>1. CASE name = "Option"
      <4>1. scheme.options \in Seq(Nat)
            /\ InOrder(scheme.options, Named(document, "Option", {"empty"}))
        BY <1>1 DEF SchemeTypes, Listed
      <4>2. InOrder(Append(scheme.options, Len(document) + 1),
                    Named(document', "Option", {"empty"}))
        BY <1>6, <1>8, <3>1, <4>1, OptionListed
      <4> QED
        BY <1>2, <1>14, <3>1, <4>2
    <3>2. CASE name # "Option"
      BY <1>1, <1>6, <1>7, <1>14, <3>2, ListedStays DEF Listed
    <3> QED
      BY <3>1, <3>2
  <2> QED
    BY <2>1, <2>2, <2>3 DEF Listed
<1>18. Current(document', open', at, resource', object', inData', data')
  <2>1. CASE name \in {"Resource", "DisplayObject", "Option"}
    <3>1. Level[name] = 2
      BY <2>1 DEF Level
    <3>2. \A l \in Nat : 2 = l + 1 => ~(l >= 2) /\ l # 3
      OBVIOUS
    <3>3. ~(Len(open) >= 2) /\ Len(open) # 3
      BY <1>4, <1>9, <3>1, <3>2
    <3> QED
      BY <1>3, <3>3 DEF Current
  <2>2. CASE name \in {"Asset", "HitRect", "data"}
    <3>1. Level[name] = 3
      BY <2>2 DEF Level
    <3>2. \A l \in Nat : 3 = l + 1 => l >= 2 /\ l # 3 /\ 2 \in 1 .. l
      OBVIOUS
    <3>3. Len(open) >= 2 /\ Len(open) # 3 /\ 2 \in 1 .. Len(open)
      BY <1>4, <1>9, <3>1, <3>2
    <3>4. resource' = resource
      BY <1>11, <2>2
    <3>5. open[2] = "DisplayObject" =>
            /\ Len(object') = 1 /\ object'[1].id = at[2]
            /\ IsObject(document', object'[1], Behind(document', at[2]))
      <4>1. SUFFICES ASSUME open[2] = "DisplayObject"
                     PROVE  /\ Len(object') = 1 /\ object'[1].id = at[2]
                            /\ IsObject(document', object'[1], Behind(document', at[2]))
        OBVIOUS
      <4>2. name \in {"Asset", "HitRect"}
        BY <1>4, <2>2, <4>1
      <4>3. /\ Len(object) = 1 /\ object[1].id = at[2]
            /\ IsObject(document, object[1], Behind(document, at[2]))
        BY <1>7, <3>3, <4>1 DEF Current
      <4>4. DOMAIN object = 1 .. 1 /\ object[1] \in SchemeObject
        <5>1. object \in Seq(SchemeObject)
          BY <1>1 DEF SchemeTypes
        <5>2. DOMAIN object = 1 .. Len(object) /\ (1 \in 1 .. Len(object) =>
                object[1] \in SchemeObject)
          BY <5>1, LenProperties, ElementOfSeq
        <5> QED
          BY <4>3, <5>2
      <4>5. /\ DOMAIN object' = 1 .. 1
            /\ \/ name = "Asset" /\ object'[1] =
                    [object[1] EXCEPT !.assets = Append(@, Len(document) + 1)]
               \/ name = "HitRect" /\ object'[1] = [object[1] EXCEPT !.hit = Len(document) + 1]
        BY <1>2, <1>11, <4>2, <4>4
      <4>6. Len(object') = 1
        BY <1>13, <4>5, LenProperties
      <4>7. object'[1].id = at[2] /\ IsObject(document', object'[1], Behind(document', at[2]))
        BY <1>6, <1>7, <3>3, <4>3, <4>4, <4>5, ObjectAdds
      <4> QED
        BY <4>6, <4>7
    <3>6. Current(document', open, at, resource, object', inData', data')
      BY <1>6, <1>7, <3>3, <3>5, FlatCurrent
    <3> QED
      BY <1>3, <3>4, <3>6
  <2> QED
    BY <1>5, <2>1, <2>2
<1> QED
  BY <1>1, <1>3, <1>10, <1>15, <1>16, <1>17, <1>18 DEF SchemeInv

(* Event::Text: the text is that of the open data element.                 *)
LEMMA TextKeeps ==
  ASSUME SchemeInv, NEW piece \in Piece, TextEvent(piece)
  PROVE  SchemeInv'
<1> DEFINE e == [is |-> "text", piece |-> piece]
<1>1. /\ SchemeTypes /\ StackOK(open) /\ sampling = SamplingOf(document)
      /\ Listed(document, scheme)
  BY DEF SchemeInv
<1>2. e \in Event /\ e.is = "text" /\ e.piece = piece
  BY DEF Event
<1>3. document' = Append(document, e) /\ open' = open /\ open # <<>> /\ Last(open) = "data"
  BY DEF TextEvent
<1>4. /\ UNCHANGED <<scheme, sampling, resource, object, inData>>
      /\ data' = IF inData THEN Append(data, piece) ELSE data
  BY DEF TextEvent, Text
<1> HIDE DEF e
<1>5. PICK at : /\ Read(document, document', e, open, at)
                /\ Current(document, open, at, resource, object, inData, data)
  BY <1>2, <1>3, GrowingDocument
<1>6. Longer(document, document', e) /\ Opened(document, open, at) /\ document \in Seq(Event)
      /\ document' \in Seq(Event)
  BY <1>5 DEF Read, Longer
<1>7. Len(open) \in 1 .. Len(open) /\ Len(open) \in Nat
  BY <1>1, <1>3, TopOfStack
<1>8. Opened(document', open', at)
  BY <1>2, <1>3, <1>6, <1>7, OpenedFlat
<1>9. Len(open) = 3
  <2>1. Level["data"] = 3
    BY DEF Level
  <2> QED
    BY <1>1, <1>3, <2>1, TopLevel DEF Last
<1>10. inData /\ data = TextSince(document, at[3])
  BY <1>5, <1>9 DEF Current
<1>11. data \in Seq(Piece) /\ data' = Append(data, e.piece) /\ data' \in Seq(Piece)
  <2>1. data \in Seq(Piece) /\ data' = Append(data, piece)
    BY <1>1, <1>4, <1>10 DEF SchemeTypes
  <2> QED
    BY <1>2, <2>1, AppendProperties
<1>12. data' = TextSince(document', at[3])
  <2>1. 3 \in 1 .. Len(open)
    BY <1>9
  <2>2. at[3] \in 1 .. Len(document)
    BY <1>1, <1>6, <2>1, BehindOpen
  <2> QED
    BY <1>2, <1>6, <1>10, <1>11, <2>2, TextGrows
<1>13. open[2] # "DisplayObject"
  BY <1>1, <1>9 DEF StackOK
<1>14. Current(document', open, at, resource, object, inData, data')
  <2>1. Len(open) = 3 => inData /\ data' = TextSince(document', at[3])
    BY <1>10, <1>12
  <2>2. Len(open) >= 2 /\ open[2] = "DisplayObject" =>
          /\ Len(object) = 1 /\ object[1].id = at[2]
          /\ IsObject(document', object[1], Behind(document', at[2]))
    BY <1>13
  <2>3. e.is \in {"text", "empty"}
    BY <1>2
  <2> QED
    BY <1>5, <2>1, <2>2, <2>3, FlatCurrent
<1>15. SchemeTypes'
  BY <1>1, <1>4, <1>6, <1>11 DEF SchemeTypes
<1>16. sampling' = SamplingOf(document')
  <2>1. document # <<>>
    <3>1. at[Len(open)] \in 1 .. Len(document)
      BY <1>6, <1>7 DEF Opened
    <3> QED
      BY <3>1
  <2> QED
    BY <1>1, <1>4, <1>6, <2>1, SamplingStays
<1>17. Listed(document', scheme')
  <2>1. Listed(document', scheme)
    BY <1>1, <1>2, <1>5, ListedStays DEF Listed
  <2> QED
    BY <1>4, <2>1
<1>18. Current(document', open', at, resource', object', inData', data')
  BY <1>3, <1>4, <1>14
<1> QED
  BY <1>1, <1>3, <1>8, <1>15, <1>16, <1>17, <1>18 DEF SchemeInv

(* The end of a section lists it.                                          *)
LEMMA ResourceListed ==
  ASSUME NEW doc, NEW d2, NEW e, NEW stack, NEW at, Read(doc, d2, e, stack, at),
         e.is = "end", NEW n, n = Len(stack), stack[n] = "Resource",
         NEW list \in Seq(SchemeResource), ResourcesListed(doc, list),
         NEW r \in SchemeResource, r.id = at[n], IsResource(doc, r, Behind(doc, at[n]))
  PROVE  ResourcesListed(d2, Append(list, r))
<1>1. /\ Longer(doc, d2, e) /\ StackOK(stack) /\ Opened(doc, stack, at)
      /\ doc \in Seq(Event) /\ stack # <<>>
  BY DEF Read, Longer
<1>2. n \in 1 .. Len(stack) /\ n = Level[stack[n]]
  BY <1>1, TopOfStack, TopLevel
<1>3. \A i \in Whole(doc, "Resource", {"start"}) : i < r.id
  <2>1. {"start"} \in SUBSET {"start", "empty"}
    OBVIOUS
  <2> QED
    BY <1>1, <1>2, <2>1, OpenIsLast
<1>4. Whole(d2, "Resource", {"start"}) = Whole(doc, "Resource", {"start"}) \cup {r.id}
  <2>1. \A name : Whole(d2, name, {"start"}) =
                    Whole(doc, name, {"start"}) \cup (IF stack[n] = name THEN {at[n]} ELSE {})
    BY WholeCloses
  <2>2. \A name : stack[n] = name =>
          Whole(d2, name, {"start"}) = Whole(doc, name, {"start"}) \cup {at[n]}
    BY <2>1
  <2> QED
    BY <2>2
<1>5. IsResource(d2, r, Inside(d2, r.id))
  BY ResourceCloses
<1> QED
  BY <1>3, <1>4, <1>5, ResourcesGrow

(* Likewise a display object.                                              *)
LEMMA ObjectListed ==
  ASSUME NEW doc, NEW d2, NEW e, NEW stack, NEW at, Read(doc, d2, e, stack, at),
         e.is = "end", NEW n, n = Len(stack), stack[n] = "DisplayObject",
         NEW list \in Seq(SchemeObject), ObjectsListed(doc, list),
         NEW o \in SchemeObject, o.id = at[n], IsObject(doc, o, Behind(doc, at[n]))
  PROVE  ObjectsListed(d2, Append(list, o))
<1>1. /\ Longer(doc, d2, e) /\ StackOK(stack) /\ Opened(doc, stack, at)
      /\ doc \in Seq(Event) /\ stack # <<>>
  BY DEF Read, Longer
<1>2. n \in 1 .. Len(stack) /\ n = Level[stack[n]]
  BY <1>1, TopOfStack, TopLevel
<1> DEFINE O == {"start", "empty"}
<1>3. \A i \in Whole(doc, "DisplayObject", O) : i < o.id
  <2>1. O \in SUBSET {"start", "empty"}
    OBVIOUS
  <2> QED
    BY <1>1, <1>2, <2>1, OpenIsLast
<1>4. Whole(d2, "DisplayObject", O) = Whole(doc, "DisplayObject", O) \cup {o.id}
  <2>1. /\ O \in SUBSET {"start", "empty"} /\ "start" \in O
        /\ e.is = "end" => stack # <<>>
    BY <1>1
  <2> HIDE DEF O
  <2>2. Whole(d2, "DisplayObject", O) =
          Whole(doc, "DisplayObject", O)
            \cup (IF "start" \in O /\ stack[Len(stack)] = "DisplayObject"
                  THEN {at[Len(stack)]} ELSE {})
    BY <1>1, <2>1, WholeLonger
  <2> QED
    BY <2>1, <2>2
<1>5. IsObject(d2, o, Inside(d2, o.id))
  BY ObjectCloses
<1> QED
  BY <1>1, <1>3, <1>4, <1>5, ObjectsGrow

(* Event::End: the element at hand is the one that ends, whole from now    *)
(* on.                                                                     *)
LEMMA EndKeeps ==
  ASSUME SchemeInv, EndEvent
  PROVE  SchemeInv'
<1> DEFINE e == [is |-> "end", name |-> Last(open)]
<1>1. /\ SchemeTypes /\ StackOK(open) /\ sampling = SamplingOf(document)
      /\ Listed(document, scheme)
  BY DEF SchemeInv
<1>2. document' = Append(document, e) /\ open' = Front(open) /\ open # <<>>
  BY DEF EndEvent
<1>3. /\ Len(open) \in 1 .. Len(open) /\ Len(open) \in 1 .. 3
      /\ Len(open) = Level[Last(open)] /\ Last(open) = open[Len(open)]
      /\ Last(open) \in DOMAIN Level
  <2>1. open \in Seq(DOMAIN Level)
    BY <1>1 DEF StackOK
  <2>2. Len(open) \in 1 .. Len(open) /\ Len(open) \in 1 .. 3
    BY <1>1, <1>2, TopOfStack
  <2>3. open[Len(open)] \in DOMAIN Level
    BY <2>1, <2>2, ElementOfSeq
  <2> QED
    BY <1>1, <1>2, <2>2, <2>3, TopLevel DEF Last
<1>4. e \in Event /\ e.is = "end"
  BY <1>3 DEF Event
<1>5. Last(open) \in {"BMApplicationScheme", "Resource", "DisplayObject", "data"}
  <2>1. CASE Len(open) = 1
    BY <1>1, <2>1 DEF StackOK, Last
  <2>2. CASE Len(open) = 2
    BY <1>1, <2>2 DEF StackOK, Last
  <2>3. CASE Len(open) = 3
    BY <1>1, <2>3 DEF StackOK, Last
  <2> QED
    BY <1>3, <2>1, <2>2, <2>3
<1> HIDE DEF e
<1>6. PICK at : /\ Read(document, document', e, open, at)
                /\ Current(document, open, at, resource, object, inData, data)
  BY <1>2, <1>4, GrowingDocument
<1>7. Longer(document, document', e) /\ Opened(document, open, at) /\ document \in Seq(Event)
      /\ document' \in Seq(Event)
  BY <1>6 DEF Read, Longer
<1>8. Pushed(open', open, Last(open)) /\ StackOK(open')
  BY <1>1, <1>2, FrontPushed
<1>9. PICK at2 : /\ Opened(document', open', at2)
                 /\ \A k \in 1 .. Len(open') : at2[k] = at[k]
  BY <1>1, <1>4, <1>7, <1>8, OpenedEnd
<1>10. document # <<>>
  <2>1. at[Len(open)] \in 1 .. Len(document)
    BY <1>3, <1>7 DEF Opened
  <2> QED
    BY <2>1
<1>11. SamplingOf(document') = SamplingOf(document)
  BY <1>7, <1>10, SamplingStays
<1>12. Len(open') \in Nat /\ Len(open) = Len(open') + 1
  BY <1>8 DEF Pushed
<1>13. CASE Last(open) = "BMApplicationScheme"
  <2>1. UNCHANGED parserVars
    BY <1>13 DEF EndEvent, EndOf
  <2>2. Len(open) = 1
    BY <1>3, <1>13 DEF Level
  <2>3. ~(Len(open') >= 2) /\ Len(open') # 3
    <3>1. \A l \in Nat : 1 = l + 1 => ~(l >= 2) /\ l # 3
      OBVIOUS
    <3> QED
      BY <1>12, <2>2, <3>1
  <2>4. Current(document', open', at2, resource', object', inData', data')
    BY <2>3 DEF Current
  <2>5. Listed(document', scheme)
    BY <1>1, <1>4, <1>6, <1>13, ListedStays DEF Listed
  <2> QED
    BY <1>1, <1>7, <1>8, <1>9, <1>11, <2>1, <2>4, <2>5 DEF SchemeInv, SchemeTypes, parserVars
<1>14. CASE Last(open) = "Resource"
  <2>1. /\ scheme' = [scheme EXCEPT !.resources = @ \o resource] /\ resource' = <<>>
        /\ UNCHANGED <<sampling, object, inData, data>>
    BY <1>14 DEF EndEvent, EndOf, ResourceEnd
  <2>2. Len(open) = 2 /\ open[2] = "Resource"
    BY <1>3, <1>14 DEF Level
  <2>3. ~(Len(open') >= 2) /\ Len(open') # 3
    <3>1. \A l \in Nat : 2 = l + 1 => ~(l >= 2) /\ l # 3
      OBVIOUS
    <3> QED
      BY <1>12, <2>2, <3>1
  <2>4. Current(document', open', at2, resource', object', inData', data')
    BY <2>3 DEF Current
  <2>5. /\ Len(resource) = 1 /\ resource[1].id = at[Len(open)]
        /\ IsResource(document, resource[1], Behind(document, at[Len(open)]))
    BY <1>6, <2>2 DEF Current
  <2>6. /\ scheme.resources \in Seq(SchemeResource) /\ resource \in Seq(SchemeResource)
        /\ scheme.objects \in Seq(SchemeObject) /\ scheme.options \in Seq(Nat)
        /\ scheme = [resources |-> scheme.resources, objects |-> scheme.objects,
                     options |-> scheme.options]
    BY <1>1 DEF SchemeTypes
  <2>7. /\ resource[1] \in SchemeResource
        /\ scheme.resources \o resource = Append(scheme.resources, resource[1])
    BY <2>5, <2>6, ConcatOne
  <2>8. ResourcesListed(document', Append(scheme.resources, resource[1]))
    <3>1. ResourcesListed(document, scheme.resources)
      BY <1>1 DEF Listed
    <3>2. open[Len(open)] = "Resource"
      BY <1>3, <1>14
    <3> QED
      BY <1>4, <1>6, <2>5, <2>6, <2>7, <3>1, <3>2, ResourceListed
  <2>9. /\ scheme'.resources = Append(scheme.resources, resource[1])
        /\ scheme'.objects = scheme.objects /\ scheme'.options = scheme.options
        /\ scheme' = [resources |-> scheme'.resources, objects |-> scheme'.objects,
                      options |-> scheme'.options]
    BY <2>1, <2>6, <2>7
  <2>10. /\ ObjectsListed(document', scheme.objects)
         /\ InOrder(scheme.options, Named(document', "Option", {"empty"}))
    BY <1>1, <1>4, <1>6, <1>14, ListedStays DEF Listed
  <2>11. Listed(document', scheme')
    BY <2>8, <2>9, <2>10 DEF Listed
  <2>12. SchemeTypes'
    <3>1. Append(scheme.resources, resource[1]) \in Seq(SchemeResource)
      BY <2>6, <2>7, AppendProperties
    <3>2. scheme' \in [resources : Seq(SchemeResource), objects : Seq(SchemeObject),
                       options : Seq(Nat)]
      BY <2>6, <2>9, <3>1
    <3>3. resource' \in Seq(SchemeResource)
      BY <2>1
    <3> QED
      BY <1>1, <1>7, <2>1, <3>2, <3>3 DEF SchemeTypes
  <2> QED
    BY <1>1, <1>8, <1>9, <1>11, <2>1, <2>4, <2>11, <2>12 DEF SchemeInv
<1>15. CASE Last(open) = "DisplayObject"
  <2>1. /\ scheme' = [scheme EXCEPT !.objects = @ \o object] /\ object' = <<>>
        /\ UNCHANGED <<sampling, resource, inData, data>>
    BY <1>15 DEF EndEvent, EndOf, DisplayObjectEnd
  <2>2. Len(open) = 2 /\ open[2] = "DisplayObject"
    BY <1>3, <1>15 DEF Level
  <2>3. ~(Len(open') >= 2) /\ Len(open') # 3
    <3>1. \A l \in Nat : 2 = l + 1 => ~(l >= 2) /\ l # 3
      OBVIOUS
    <3> QED
      BY <1>12, <2>2, <3>1
  <2>4. Current(document', open', at2, resource', object', inData', data')
    BY <2>3 DEF Current
  <2>5. /\ Len(object) = 1 /\ object[1].id = at[Len(open)]
        /\ IsObject(document, object[1], Behind(document, at[Len(open)]))
    BY <1>6, <2>2 DEF Current
  <2>6. /\ scheme.resources \in Seq(SchemeResource) /\ object \in Seq(SchemeObject)
        /\ scheme.objects \in Seq(SchemeObject) /\ scheme.options \in Seq(Nat)
        /\ scheme = [resources |-> scheme.resources, objects |-> scheme.objects,
                     options |-> scheme.options]
    BY <1>1 DEF SchemeTypes
  <2>7. /\ object[1] \in SchemeObject
        /\ scheme.objects \o object = Append(scheme.objects, object[1])
    BY <2>5, <2>6, ConcatOne
  <2>8. ObjectsListed(document', Append(scheme.objects, object[1]))
    <3>1. ObjectsListed(document, scheme.objects)
      BY <1>1 DEF Listed
    <3>2. open[Len(open)] = "DisplayObject"
      BY <1>3, <1>15
    <3> QED
      BY <1>4, <1>6, <2>5, <2>6, <2>7, <3>1, <3>2, ObjectListed
  <2>9. /\ scheme'.objects = Append(scheme.objects, object[1])
        /\ scheme'.resources = scheme.resources /\ scheme'.options = scheme.options
        /\ scheme' = [resources |-> scheme'.resources, objects |-> scheme'.objects,
                      options |-> scheme'.options]
    BY <2>1, <2>6, <2>7
  <2>10. /\ ResourcesListed(document', scheme.resources)
         /\ InOrder(scheme.options, Named(document', "Option", {"empty"}))
    BY <1>1, <1>4, <1>6, <1>15, ListedStays DEF Listed
  <2>11. Listed(document', scheme')
    BY <2>8, <2>9, <2>10 DEF Listed
  <2>12. SchemeTypes'
    <3>1. Append(scheme.objects, object[1]) \in Seq(SchemeObject)
      BY <2>6, <2>7, AppendProperties
    <3>2. scheme' \in [resources : Seq(SchemeResource), objects : Seq(SchemeObject),
                       options : Seq(Nat)]
      BY <2>6, <2>9, <3>1
    <3>3. object' \in Seq(SchemeObject)
      BY <2>1
    <3> QED
      BY <1>1, <1>7, <2>1, <3>2, <3>3 DEF SchemeTypes
  <2> QED
    BY <1>1, <1>8, <1>9, <1>11, <2>1, <2>4, <2>11, <2>12 DEF SchemeInv
<1>16. CASE Last(open) = "data"
  <2>1. /\ inData' = FALSE
        /\ resource' = [i \in DOMAIN resource |->
             IF Decodes(data) THEN [resource[i] EXCEPT !.bitmap = data] ELSE resource[i]]
        /\ UNCHANGED <<scheme, sampling, object, data>>
    BY <1>16 DEF EndEvent, EndOf, DataEnd
  <2>2. Len(open) = 3 /\ open[2] = "Resource"
    <3>1. Len(open) = 3
      BY <1>3, <1>16 DEF Level
    <3> QED
      BY <1>1, <3>1 DEF StackOK
  <2>3. /\ Len(open') >= 2 /\ Len(open') # 3 /\ open'[2] = "Resource" /\ at2[2] = at[2]
    <3>1. \A l \in Nat : 3 = l + 1 => l >= 2 /\ l # 3 /\ 2 \in 1 .. l
      OBVIOUS
    <3>2. Len(open') >= 2 /\ Len(open') # 3 /\ 2 \in 1 .. Len(open')
      BY <1>12, <2>2, <3>1
    <3>3. open[2] = open'[2]
      BY <1>8, <3>2 DEF Pushed
    <3> QED
      BY <1>9, <2>2, <3>2, <3>3
  <2>4. /\ Len(resource) = 1 /\ resource[1].id = at[2]
        /\ IsResource(document, resource[1], Behind(document, at[2]))
        /\ data = TextSince(document, at[3])
    BY <1>6, <2>2 DEF Current
  <2>5. /\ resource \in Seq(SchemeResource) /\ DOMAIN resource = 1 .. 1
        /\ resource[1] \in SchemeResource /\ data \in Seq(Piece)
    <3>1. resource \in Seq(SchemeResource) /\ data \in Seq(Piece)
      BY <1>1 DEF SchemeTypes
    <3>2. DOMAIN resource = 1 .. Len(resource)
          /\ (1 \in 1 .. Len(resource) => resource[1] \in SchemeResource)
      BY <3>1, LenProperties, ElementOfSeq
    <3> QED
      BY <2>4, <3>1, <3>2
  <2>6. PICK r2 : r2 = IF Decodes(data) THEN [resource[1] EXCEPT !.bitmap = data]
                       ELSE resource[1]
    OBVIOUS
  <2>7. r2 \in SchemeResource
    BY <2>5, <2>6 DEF SchemeResource
  <2>8. resource' = [i \in 1 .. 1 |-> r2]
    BY <2>1, <2>5, <2>6
  <2>9. resource' \in Seq(SchemeResource) /\ Len(resource') = 1 /\ resource'[1] = r2
    BY <2>7, <2>8
  <2>10. r2.id = resource[1].id /\ IsResource(document', r2, Behind(document', at[2]))
    <3>1. open[Len(open)] = "data"
      BY <1>3, <1>16
    <3> QED
      BY <1>4, <1>6, <2>4, <2>5, <2>6, <3>1, DataCloses
  <2>11. Current(document', open', at2, resource', object', inData', data')
    BY <2>3, <2>4, <2>9, <2>10 DEF Current
  <2>12. Listed(document', scheme')
    <3>1. Listed(document', scheme)
      BY <1>1, <1>4, <1>6, <1>16, ListedStays DEF Listed
    <3> QED
      BY <2>1, <3>1
  <2>13. SchemeTypes'
    BY <1>1, <1>7, <2>1, <2>9 DEF SchemeTypes
  <2> QED
    BY <1>1, <1>8, <1>9, <1>11, <2>1, <2>11, <2>12, <2>13 DEF SchemeInv
<1> QED
  BY <1>5, <1>13, <1>14, <1>15, <1>16

-----------------------------------------------------------------------------
(* The theorem.                                                            *)

(* Nothing is said by an empty document.                                   *)
LEMMA EmptyDocument ==
  ASSUME NEW doc, doc = <<>>, NEW sch, sch = EmptyScheme
  PROVE  /\ Listed(doc, sch) /\ SamplingOf(doc) = "linear"
         /\ \E at : /\ Opened(doc, <<>>, at)
                    /\ Current(doc, <<>>, at, <<>>, <<>>, FALSE, <<>>)
<1>1. Len(doc) = 0 /\ DOMAIN doc = {} /\ Len(<<>>) = 0
  OBVIOUS
<1>2. /\ sch.resources = <<>> /\ sch.objects = <<>> /\ sch.options = <<>>
  BY DEF EmptyScheme
<1>3. /\ Ids(<<>>) = <<>> /\ DOMAIN <<>> = {}
  BY DEF Ids
<1>4. \A name, kinds : Whole(doc, name, kinds) = {} /\ Named(doc, name, kinds) = {}
  BY <1>1 DEF Whole, Named
<1>5. InOrder(<<>>, {})
  BY DEF InOrder
<1>6. Listed(doc, sch)
  BY <1>2, <1>3, <1>4, <1>5 DEF Listed, ResourcesListed, ObjectsListed
<1>7. Depth(doc, 0) = 0
  BY DepthStep
<1> DEFINE at == [k \in 1 .. 0 |-> 0]
<1>8. Opened(doc, <<>>, at)
  BY <1>1, <1>7 DEF Opened
<1>9. Current(doc, <<>>, at, <<>>, <<>>, FALSE, <<>>)
  BY <1>1 DEF Current
<1>10. SamplingOf(doc) = "linear"
  BY DEF SamplingOf
<1> QED
  BY <1>6, <1>8, <1>9, <1>10

(* The empty sequences have their types.                                   *)
LEMMA EmptyTypes ==
  /\ <<>> \in Seq(Event) /\ <<>> \in Seq(SchemeResource) /\ <<>> \in Seq(SchemeObject)
  /\ <<>> \in Seq(Piece) /\ StackOK(<<>>)
  /\ EmptyScheme \in [resources : Seq(SchemeResource), objects : Seq(SchemeObject),
                      options : Seq(Nat)]
BY DEF EmptyScheme, StackOK

(* parse begins with an empty scheme and nothing at hand.                  *)
LEMMA InitInv ==
  ASSUME ParserInit
  PROVE  SchemeInv
<1>1. /\ document = <<>> /\ open = <<>> /\ scheme = EmptyScheme /\ sampling = "linear"
      /\ resource = <<>> /\ object = <<>> /\ inData = FALSE /\ data = <<>>
  BY DEF ParserInit
<1>2. SchemeTypes /\ StackOK(open)
  BY <1>1, EmptyTypes DEF SchemeTypes
<1>3. /\ Listed(document, scheme) /\ SamplingOf(document) = "linear"
      /\ \E at : /\ Opened(document, <<>>, at)
                 /\ Current(document, <<>>, at, <<>>, <<>>, FALSE, <<>>)
  BY <1>1, EmptyDocument
<1> QED
  BY <1>1, <1>2, <1>3 DEF SchemeInv

(* So does the next document.                                              *)
LEMMA AnewInv ==
  ASSUME Anew
  PROVE  SchemeInv'
<1>1. /\ document' = <<>> /\ open' = <<>> /\ scheme' = EmptyScheme /\ sampling' = "linear"
      /\ resource' = <<>> /\ object' = <<>> /\ inData' = FALSE /\ data' = <<>>
  BY DEF Anew
<1>2. SchemeTypes' /\ StackOK(open')
  BY <1>1, EmptyTypes DEF SchemeTypes
<1>3. /\ Listed(document', scheme') /\ SamplingOf(document') = "linear"
      /\ \E at : /\ Opened(document', <<>>, at)
                 /\ Current(document', <<>>, at, <<>>, <<>>, FALSE, <<>>)
  BY <1>1, EmptyDocument
<1> QED
  BY <1>1, <1>2, <1>3 DEF SchemeInv

(* Every step of the parser keeps the invariant: each event by its lemma,  *)
(* and a new document starts anew.                                         *)
LEMMA StepInv ==
  ASSUME SchemeInv, [ParserNext]_schemeVars
  PROVE  SchemeInv'
<1>1. CASE \E name \in Allowed : \E a \in Attributes(name) : StartEvent(name, a)
  BY <1>1, StartKeeps
<1>2. CASE \E name \in Allowed : \E a \in Attributes(name) : EmptyEvent(name, a)
  BY <1>2, EmptyKeeps
<1>3. CASE \E piece \in Piece : TextEvent(piece)
  BY <1>3, TextKeeps
<1>4. CASE EndEvent
  BY <1>4, EndKeeps
<1>5. CASE UNCHANGED <<document, open, parserVars>>
  BY <1>5 DEF SchemeInv, SchemeTypes, parserVars
<1>6. CASE Anew
  BY <1>6, AnewInv
<1> QED
  BY <1>1, <1>2, <1>3, <1>4, <1>5, <1>6 DEF ParserNext, Eof, Malformed, NextDocument, schemeVars

(* At every point of every document, of any length and with any texts and  *)
(* attributes, the scheme of BMApplicationSchemeParser::parse holds        *)
(* exactly the elements that are whole, in the order of the document, each *)
(* with what is inside it, although the parser keeps no stack.             *)
THEOREM SchemeCorrect == ParserSpec => []SchemeFollowsNesting
<1>1. ParserInit => SchemeInv
  BY InitInv
<1>2. SchemeInv /\ [ParserNext]_schemeVars => SchemeInv'
  BY StepInv
<1>3. SchemeInv => SchemeFollowsNesting
  BY DEF SchemeInv, Listed, ResourcesListed, ObjectsListed, SchemeFollowsNesting
<1> QED
  BY <1>1, <1>2, <1>3, PTL DEF ParserSpec
=============================================================================
