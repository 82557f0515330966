---------------------------- MODULE ArrayProofs ----------------------------
(***************************************************************************)
(* Theorems about ArrayAtom for every set of atoms.                        *)
(*                                                                         *)
(* Ownership is argued about one set of trees at a time: Owned(h, r, els)  *)
(* says that the atoms of h are the roots r and the elements of the        *)
(* arrays, each in one place.  Every call is one or two of four changes to *)
(* such trees: a root is made, moved into an array, moved out of one, or   *)
(* goes with all below it.  A copy in progress is argued about with the    *)
(* function that leads from each atom of it to its original.               *)
(***************************************************************************)
EXTENDS ArrayAtom, SequenceTheorems, TLAPS

-----------------------------------------------------------------------------
(***************************************************************************)
(* What Append and RemoveAt, the two ways the elements of an array change, *)
(* do to a sequence and to the order in it.                                *)
(***************************************************************************)

\* Where the elements of a sequence are once the i-th is removed.
LEMMA RemoveAtElements ==
  ASSUME NEW S, NEW s \in Seq(S), NEW i \in DOMAIN s
  PROVE  /\ RemoveAt(s, i) \in Seq(S)
         /\ Len(RemoveAt(s, i)) = Len(s) - 1
         /\ \A j \in 1..Len(s) - 1 : RemoveAt(s, i)[j] = IF j < i THEN s[j] ELSE s[j + 1]
<1>1. Len(s) \in Nat /\ i \in 1..Len(s) /\ \A j \in 1..Len(s) : s[j] \in S
  BY LenProperties, ElementOfSeq
<1> DEFINE front == SubSeq(s, 1, i - 1)  back == SubSeq(s, i + 1, Len(s))
<1>2. front \in Seq(S) /\ Len(front) = i - 1 /\ \A j \in 1..i - 1 : front[j] = s[j]
  BY <1>1, SMT
<1>3. back \in Seq(S) /\ Len(back) = Len(s) - i /\ \A j \in 1..Len(s) - i : back[j] = s[i + j]
  BY <1>1, SMT
<1>4. RemoveAt(s, i) = front \o back
  BY DEF RemoveAt
<1>5. /\ front \o back \in Seq(S)
      /\ Len(front \o back) = Len(front) + Len(back)
      /\ \A j \in 1..Len(front) + Len(back) :
           (front \o back)[j] = IF j <= Len(front) THEN front[j] ELSE back[j - Len(front)]
  BY <1>2, <1>3, ConcatProperties
<1> HIDE DEF front, back
<1>6. /\ RemoveAt(s, i) \in Seq(S)
      /\ Len(RemoveAt(s, i)) = Len(s) - 1
  BY <1>1, <1>2, <1>3, <1>4, <1>5, SMT
<1>7. ASSUME NEW j \in 1..Len(s) - 1
      PROVE  RemoveAt(s, i)[j] = IF j < i THEN s[j] ELSE s[j + 1]
  <2>1. RemoveAt(s, i)[j] = IF j <= i - 1 THEN front[j] ELSE back[j - (i - 1)]
    <3>1. j \in 1..Len(front) + Len(back) /\ Len(front) = i - 1
      BY <1>1, <1>2, <1>3, SMT
    <3> QED
      BY <3>1, <1>4, <1>5
  <2>2. CASE j < i
    BY <2>1, <2>2, <1>1, <1>2, SMT
  <2>3. CASE ~(j < i)
    <3>1. j - (i - 1) \in 1..Len(s) - i /\ i + (j - (i - 1)) = j + 1 /\ ~(j <= i - 1)
      BY <2>3, <1>1, SMT
    <3> QED
      BY <3>1, <2>1, <2>3, <1>3
  <2> QED
    BY <2>2, <2>3
<1> QED
  BY <1>6, <1>7

\* What is appended comes after everything.
LEMMA AppendOrder ==
  ASSUME NEW T, NEW s \in Seq(T), NEW n \in T, NEW x, NEW y, Before(s, x, y)
  PROVE  Before(Append(s, n), x, y)
<1>1. /\ DOMAIN s \subseteq DOMAIN Append(s, n)
      /\ \A j \in DOMAIN s : Append(s, n)[j] = s[j]
  BY LenProperties, AppendProperties, SMT
<1> QED
  BY <1>1 DEF Before

\* The elements around the removed one stay in order.
LEMMA RemoveOrder ==
  ASSUME NEW T, NEW s \in Seq(T), NEW i \in DOMAIN s,
         NEW x, NEW y, x # s[i], y # s[i], Before(s, x, y)
  PROVE  Before(RemoveAt(s, i), x, y)
<1> DEFINE t == RemoveAt(s, i)  new(m) == IF m < i THEN m ELSE m - 1
<1>1. PICK j, k \in DOMAIN s : j < k /\ s[j] = x /\ s[k] = y
  BY DEF Before
<1>2. j # i /\ k # i
  BY <1>1
<1>3. /\ Len(s) \in Nat /\ DOMAIN s = 1..Len(s) /\ DOMAIN t = 1..Len(s) - 1
      /\ \A m \in 1..Len(s) - 1 : t[m] = IF m < i THEN s[m] ELSE s[m + 1]
  <2>1. /\ t \in Seq(T) /\ Len(t) = Len(s) - 1
        /\ \A m \in 1..Len(s) - 1 : t[m] = IF m < i THEN s[m] ELSE s[m + 1]
    BY RemoveAtElements
  <2> HIDE DEF t
  <2>2. /\ Len(s) \in Nat /\ DOMAIN s = 1..Len(s) /\ DOMAIN t = 1..Len(t)
    BY <2>1, LenProperties
  <2> QED
    BY <2>1, <2>2
<1> HIDE DEF t
<1>4. ASSUME NEW m \in DOMAIN s, m # i
      PROVE  new(m) \in DOMAIN t /\ t[new(m)] = s[m]
  <2>1. CASE m < i
    BY <1>3, <1>4, <2>1, SMT
  <2>2. CASE ~(m < i)
    <3>1. new(m) \in 1..Len(s) - 1 /\ ~(new(m) < i) /\ new(m) + 1 = m
      BY <1>3, <1>4, <2>2, SMT
    <3> QED
      BY <3>1, <1>3
  <2> QED
    BY <2>1, <2>2
<1>5. new(j) < new(k)
  BY <1>1, <1>2, <1>3, SMT
<1>6. new(j) \in DOMAIN t /\ new(k) \in DOMAIN t /\ t[new(j)] = x /\ t[new(k)] = y
  BY <1>1, <1>2, <1>4
<1> HIDE DEF new
<1> QED
  BY <1>5, <1>6 DEF Before, t

-----------------------------------------------------------------------------

HasSlot(els, S, x) == \E a \in S : \E i \in DOMAIN els[a] : els[a][i] = x

Owned(h, r, els) ==
  /\ h \subseteq Atoms /\ r \subseteq h
  /\ els \in [Arrays -> Seq(h)]
  /\ \A x \in h \ r : HasSlot(els, Arrays, x)
  /\ \A a \in Arrays : \A i \in DOMAIN els[a] :
       /\ a \in h /\ els[a][i] \in h \ r
       /\ \A b \in Arrays : \A j \in DOMAIN els[b] :
            els[a][i] = els[b][j] => a = b /\ i = j

(***************************************************************************)
(* The four changes.                                                       *)
(***************************************************************************)

\* A new atom is a root.
LEMMA MakeRoot ==
  ASSUME NEW h, NEW r, NEW els, Owned(h, r, els), NEW c \in Atoms, c \notin h
  PROVE  Owned(h \cup {c}, r \cup {c}, els)
<1>1. \A a \in Arrays : els[a] \in Seq(h \cup {c})
  <2> SUFFICES ASSUME NEW a \in Arrays PROVE els[a] \in Seq(h \cup {c})
    OBVIOUS
  <2>1. els[a] \in Seq(h)
    BY DEF Owned
  <2> QED
    BY <2>1, SeqMonotonic
<1>2. els \in [Arrays -> Seq(h \cup {c})]
  BY <1>1 DEF Owned
<1> QED
  BY <1>2 DEF Owned, HasSlot

\* A root becomes the last element of an array.
LEMMA MoveIn ==
  ASSUME NEW h, NEW r, NEW els, Owned(h, r, els), NEW a \in Arrays \cap h, NEW x \in r
  PROVE  Owned(h, r \ {x}, [els EXCEPT ![a] = Append(@, x)])
<1> DEFINE new == [els EXCEPT ![a] = Append(@, x)]
<1>1. \A b \in Arrays : els[b] \in Seq(h)
  BY DEF Owned
<1>2. x \in h
  BY DEF Owned
<1>3. /\ new[a] \in Seq(h) /\ DOMAIN els[a] \subseteq DOMAIN new[a]
      /\ \A i \in DOMAIN els[a] : new[a][i] = els[a][i]
      /\ Len(els[a]) + 1 \in DOMAIN new[a] /\ new[a][Len(els[a]) + 1] = x
      /\ \A i \in DOMAIN new[a] : i \in DOMAIN els[a] \/ i = Len(els[a]) + 1
  <2>1. els[a] \in Seq(h) /\ new[a] = Append(els[a], x)
    BY <1>1 DEF Owned
  <2> HIDE DEF new
  <2> QED
    BY <1>2, <2>1, AppendProperties, LenProperties, SMT
<1>4. \A b \in Arrays \ {a} : new[b] = els[b]
  BY DEF Owned
<1>5. new \in [Arrays -> Seq(h)]
  BY <1>1, <1>3, <1>4 DEF Owned
<1> HIDE DEF new
<1>6. \A b \in Arrays : \A i \in DOMAIN new[b] :
        \/ i \in DOMAIN els[b] /\ new[b][i] = els[b][i] /\ new[b][i] \in h \ r
        \/ b = a /\ i = Len(els[a]) + 1 /\ new[b][i] = x
  BY <1>3, <1>4 DEF Owned
<1>7. \A y \in h \ (r \ {x}) : HasSlot(new, Arrays, y)
  <2> TAKE y \in h \ (r \ {x})
  <2>1. CASE y = x
    BY <1>3, <2>1 DEF HasSlot
  <2>2. CASE y \in h \ r
    <3>1. PICK b \in Arrays : \E i \in DOMAIN els[b] : els[b][i] = y
      BY <2>2 DEF Owned, HasSlot
    <3> QED
      BY <1>3, <1>4, <3>1 DEF HasSlot
  <2> QED
    BY <2>1, <2>2
<1>8. ASSUME NEW b \in Arrays, NEW i \in DOMAIN new[b]
      PROVE  /\ b \in h /\ new[b][i] \in h \ (r \ {x})
             /\ \A c \in Arrays : \A j \in DOMAIN new[c] :
                  new[b][i] = new[c][j] => b = c /\ i = j
  <2>1. b \in h /\ new[b][i] \in h \ (r \ {x})
    BY <1>2, <1>6 DEF Owned
  <2>2. ASSUME NEW c \in Arrays, NEW j \in DOMAIN new[c], new[b][i] = new[c][j]
        PROVE  b = c /\ i = j
    <3>1. CASE i \in DOMAIN els[b] /\ new[b][i] = els[b][i] /\ new[b][i] \in h \ r
      <4>1. j \in DOMAIN els[c] /\ new[c][j] = els[c][j]
        <5>1. new[c][j] # x
          BY <2>2, <3>1
        <5> QED
          BY <1>6, <5>1
      <4>2. els[b][i] = els[c][j]
        BY <2>2, <3>1, <4>1
      <4>3. \A k \in DOMAIN els[b] : \A m \in DOMAIN els[c] :
              els[b][k] = els[c][m] => b = c /\ k = m
        BY DEF Owned
      <4> QED
        BY <3>1, <4>1, <4>2, <4>3
    <3>2. CASE b = a /\ i = Len(els[a]) + 1 /\ new[b][i] = x
      BY <1>6, <2>2, <3>2
    <3> QED
      BY <1>6, <3>1, <3>2
  <2> QED
    BY <2>1, <2>2
<1>9. h \subseteq Atoms /\ r \ {x} \subseteq h
  BY DEF Owned
<1> QED
  BY <1>5, <1>7, <1>8, <1>9 DEF Owned, new

\* An element becomes a root.
LEMMA MoveOut ==
  ASSUME NEW h, NEW r, NEW els, Owned(h, r, els), NEW a \in Arrays, NEW i \in DOMAIN els[a]
  PROVE  Owned(h, r \cup {els[a][i]}, [els EXCEPT ![a] = RemoveAt(@, i)])
<1> DEFINE new == [els EXCEPT ![a] = RemoveAt(@, i)]
           old(b, j) == IF b = a /\ ~(j < i) THEN j + 1 ELSE j
<1>1. \A b \in Arrays : els[b] \in Seq(h)
  BY DEF Owned
<1>2. /\ new[a] = RemoveAt(els[a], i)
      /\ \A b \in Arrays \ {a} : new[b] = els[b]
  BY DEF Owned
<1>3. /\ Len(els[a]) \in Nat /\ DOMAIN els[a] = 1..Len(els[a])
      /\ new[a] \in Seq(h) /\ DOMAIN new[a] = 1..Len(els[a]) - 1
      /\ \A j \in 1..Len(els[a]) - 1 : new[a][j] = IF j < i THEN els[a][j] ELSE els[a][j + 1]
  <2>1. els[a] \in Seq(h)
    BY <1>1
  <2> HIDE DEF new
  <2> QED
    BY <1>2, <2>1, RemoveAtElements, LenProperties
<1>4. new \in [Arrays -> Seq(h)]
  BY <1>1, <1>2, <1>3 DEF Owned
<1> HIDE DEF new
<1>5. \A b \in Arrays : \A j \in DOMAIN new[b] :
        /\ old(b, j) \in DOMAIN els[b] /\ new[b][j] = els[b][old(b, j)]
        /\ b = a => old(b, j) # i
  <2> TAKE b \in Arrays
  <2> TAKE j \in DOMAIN new[b]
  <2>1. CASE b # a
    BY <1>2, <2>1
  <2>2. CASE b = a
    <3>1. j \in 1..Len(els[a]) - 1 /\ i \in 1..Len(els[a])
      BY <1>3, <2>2
    <3>2. CASE j < i
      BY <1>3, <2>2, <3>1, <3>2, SMT
    <3>3. CASE ~(j < i)
      <4>1. j + 1 \in 1..Len(els[a]) /\ j + 1 # i
        BY <1>3, <3>1, <3>3, SMT
      <4> QED
        BY <1>3, <2>2, <3>1, <3>3, <4>1
    <3> QED
      BY <3>2, <3>3
  <2> QED
    BY <2>1, <2>2
<1>6. \A b \in Arrays : \A j, k \in DOMAIN new[b] : old(b, j) = old(b, k) => j = k
  <2> TAKE b \in Arrays
  <2>1. CASE b # a
    BY <2>1
  <2>2. CASE b = a
    BY <1>3, <2>2, SMT
  <2> QED
    BY <2>1, <2>2
<1>7. \A x \in h \ (r \cup {els[a][i]}) : HasSlot(new, Arrays, x)
  <2> TAKE x \in h \ (r \cup {els[a][i]})
  <2>0. PICK b \in Arrays : \E j \in DOMAIN els[b] : els[b][j] = x
    BY DEF Owned, HasSlot
  <2>1. PICK j \in DOMAIN els[b] : els[b][j] = x
    BY <2>0
  <2>2. CASE b # a
    BY <1>2, <2>1, <2>2 DEF HasSlot
  <2>3. CASE b = a
    <3>1. j \in 1..Len(els[a]) /\ i \in 1..Len(els[a]) /\ j # i
      BY <1>3, <2>1, <2>3
    <3>2. CASE j < i
      <4>1. j \in 1..Len(els[a]) - 1
        BY <1>3, <3>1, <3>2, SMT
      <4> QED
        BY <1>3, <2>1, <2>3, <3>2, <4>1 DEF HasSlot
    <3>3. CASE ~(j < i)
      <4>1. j - 1 \in 1..Len(els[a]) - 1 /\ ~(j - 1 < i) /\ (j - 1) + 1 = j
        BY <1>3, <3>1, <3>3, SMT
      <4>2. new[a][j - 1] = x /\ j - 1 \in DOMAIN new[a]
        BY <1>3, <2>1, <2>3, <4>1
      <4> QED
        BY <4>2 DEF HasSlot
    <3> QED
      BY <3>2, <3>3
  <2> QED
    BY <2>2, <2>3
<1> HIDE DEF old
<1>8. ASSUME NEW b \in Arrays, NEW j \in DOMAIN new[b]
      PROVE  /\ b \in h /\ new[b][j] \in h \ (r \cup {els[a][i]})
             /\ \A c \in Arrays : \A k \in DOMAIN new[c] :
                  new[b][j] = new[c][k] => b = c /\ j = k
  <2>1. b \in h /\ new[b][j] \in h \ r
    BY <1>5 DEF Owned
  <2>2. new[b][j] # els[a][i]
    BY <1>5 DEF Owned
  <2>3. ASSUME NEW c \in Arrays, NEW k \in DOMAIN new[c], new[b][j] = new[c][k]
        PROVE  b = c /\ j = k
    <3>1. b = c /\ old(b, j) = old(c, k)
      BY <1>5, <2>3 DEF Owned
    <3> QED
      BY <1>6, <3>1
  <2> QED
    BY <2>1, <2>2, <2>3
<1>9. h \subseteq Atoms /\ r \cup {els[a][i]} \subseteq h
  BY DEF Owned
<1> QED
  BY <1>4, <1>7, <1>8, <1>9 DEF Owned, new

\* Roots go with all below them.
LEMMA Fell ==
  ASSUME NEW h, NEW r, NEW els, Owned(h, r, els), NEW gone \in SUBSET h, NEW R \in SUBSET r,
         R \subseteq gone,
         \A a \in gone \cap Arrays : \A i \in DOMAIN els[a] : els[a][i] \in gone,
         \A x \in gone \ R : HasSlot(els, gone \cap Arrays, x)
  PROVE  Owned(h \ gone, r \ R, Without(gone, els))
<1> DEFINE new == Without(gone, els)
<1>1. /\ \A a \in Arrays \cap gone : new[a] = <<>>
      /\ \A a \in Arrays \ gone : new[a] = els[a]
  BY DEF Without
<1>2. \A a \in Arrays \ gone : \A i \in DOMAIN els[a] : els[a][i] \in h \ gone
  <2> SUFFICES ASSUME NEW a \in Arrays \ gone, NEW i \in DOMAIN els[a], els[a][i] \in gone
               PROVE  FALSE
    BY DEF Owned
  <2>1. els[a][i] \notin R
    BY DEF Owned
  <2>2. HasSlot(els, gone \cap Arrays, els[a][i])
    BY <2>1
  <2> QED
    BY <2>2 DEF Owned, HasSlot
<1>3. new \in [Arrays -> Seq(h \ gone)]
  <2> SUFFICES ASSUME NEW a \in Arrays PROVE new[a] \in Seq(h \ gone)
    BY DEF Without
  <2>1. CASE a \in gone
    <3>1. new[a] = <<>>
      BY <1>1, <2>1
    <3> QED
      BY <3>1, EmptySeq
  <2>2. CASE a \notin gone
    <3>1. els[a] \in Seq(h) /\ new[a] = els[a]
      BY <1>1, <2>2 DEF Owned
    <3>2. \A i \in 1..Len(els[a]) : els[a][i] \in h \ gone
      BY <1>2, <2>2, <3>1, LenProperties
    <3>3. els[a] = [i \in 1..Len(els[a]) |-> els[a][i]] /\ Len(els[a]) \in Nat
      BY <3>1, LenProperties
    <3>4. els[a] \in [1..Len(els[a]) -> h \ gone]
      BY <3>2, <3>3
    <3> QED
      BY <3>1, <3>3, <3>4, SeqDef
  <2> QED
    BY <2>1, <2>2
<1>4. \A a \in Arrays : \A i \in DOMAIN new[a] : a \notin gone /\ i \in DOMAIN els[a]
  BY <1>1
<1> HIDE DEF new
<1>5. r \ R \subseteq h \ gone
  BY DEF Owned, HasSlot
<1>6. \A x \in (h \ gone) \ (r \ R) : HasSlot(new, Arrays, x)
  <2> TAKE x \in (h \ gone) \ (r \ R)
  <2>1. PICK a \in Arrays : \E i \in DOMAIN els[a] : els[a][i] = x
    BY DEF Owned, HasSlot
  <2>2. a \notin gone
    BY <2>1
  <2> QED
    BY <1>1, <2>1, <2>2 DEF HasSlot
<1>7. \A a \in Arrays : \A i \in DOMAIN new[a] :
        /\ a \in h \ gone /\ new[a][i] \in (h \ gone) \ (r \ R)
        /\ \A b \in Arrays : \A j \in DOMAIN new[b] :
             new[a][i] = new[b][j] => a = b /\ i = j
  BY <1>1, <1>2, <1>4 DEF Owned
<1> QED
  BY <1>3, <1>5, <1>6, <1>7 DEF Owned, new

(***************************************************************************)
(* The inductive invariant, and what it says of a subtree.                 *)
(***************************************************************************)

Forest == Owned(heap, held \cup Copies, elements)
Calls  == /\ copying \in Seq(Frame) /\ held \cap Copies = {}
          /\ \A i, j \in DOMAIN copying : copying[i].to = copying[j].to => i = j
          /\ fault \in {"none", "erases end()"}
ArrayInv == Forest /\ Calls

\* A subtree holds its root and what its arrays own, and nothing else.
LEMMA SubtreeFacts ==
  ASSUME Forest, NEW x \in heap
  PROVE  /\ x \in Subtree(x) /\ Subtree(x) \subseteq heap
         /\ \A a \in Subtree(x) \cap Arrays : \A i \in DOMAIN elements[a] :
              elements[a][i] \in Subtree(x)
         /\ \A y \in Subtree(x) \ {x} : HasSlot(elements, Subtree(x) \cap Arrays, y)
<1>1. x \in Subtree(x) /\ Subtree(x) \subseteq heap
  BY DEF Subtree
<1>2. \A a \in Arrays : \A i \in DOMAIN elements[a] : elements[a][i] \in heap
  BY DEF Forest, Owned
<1>3. \A S \in SUBSET heap : x \in S /\ OwnsItsElements(S) => Subtree(x) \subseteq S
  BY DEF Subtree
<1>4. ASSUME NEW a \in Subtree(x) \cap Arrays, NEW i \in DOMAIN elements[a]
      PROVE  elements[a][i] \in Subtree(x)
  <2>1. ASSUME NEW S \in SUBSET heap, x \in S, OwnsItsElements(S)
        PROVE  elements[a][i] \in S
    <3>1. a \in S
      BY <1>3, <2>1
    <3> QED
      BY <1>2, <2>1, <3>1 DEF OwnsItsElements, IsElement
  <2> QED
    BY <1>2, <2>1 DEF Subtree
<1>5. ASSUME NEW y \in Subtree(x) \ {x}, ~HasSlot(elements, Subtree(x) \cap Arrays, y)
      PROVE  FALSE
  <2> DEFINE S == Subtree(x) \ {y}
  <2>1. S \in SUBSET heap /\ x \in S
    BY <1>1
  <2>2. OwnsItsElements(S)
    <3> SUFFICES ASSUME NEW a \in S \cap Arrays, NEW z \in heap, IsElement(a, z)
                 PROVE  z \in S
      BY DEF OwnsItsElements
    <3>1. z \in Subtree(x)
      BY <1>4 DEF IsElement
    <3>2. z # y
      BY <1>5 DEF IsElement, HasSlot
    <3> QED
      BY <3>1, <3>2
  <2> QED
    BY <1>3, <2>1, <2>2
<1> QED
  BY <1>1, <1>4, <1>5

\* Taking one element out of an array changes nothing else.
LEMMA OtherSlots ==
  ASSUME NEW h, NEW els \in [Arrays -> Seq(h)], NEW a \in Arrays, NEW i \in DOMAIN els[a]
  PROVE  /\ \A b \in Arrays : \A j \in DOMAIN [els EXCEPT ![a] = RemoveAt(@, i)][b] :
              \E k \in DOMAIN els[b] : [els EXCEPT ![a] = RemoveAt(@, i)][b][j] = els[b][k]
         /\ \A S \in SUBSET Arrays : \A y : (y # els[a][i] /\ HasSlot(els, S, y))
              => HasSlot([els EXCEPT ![a] = RemoveAt(@, i)], S, y)
<1> DEFINE new == [els EXCEPT ![a] = RemoveAt(@, i)]
<1>1. /\ new[a] = RemoveAt(els[a], i)
      /\ \A b \in Arrays \ {a} : new[b] = els[b]
  OBVIOUS
<1>2. /\ Len(els[a]) \in Nat /\ DOMAIN els[a] = 1..Len(els[a])
      /\ DOMAIN new[a] = 1..Len(els[a]) - 1
      /\ \A j \in 1..Len(els[a]) - 1 : new[a][j] = IF j < i THEN els[a][j] ELSE els[a][j + 1]
  <2>1. els[a] \in Seq(h)
    OBVIOUS
  <2> HIDE DEF new
  <2> QED
    BY <1>1, <2>1, RemoveAtElements, LenProperties
<1> HIDE DEF new
<1>3. ASSUME NEW b \in Arrays, NEW j \in DOMAIN new[b]
      PROVE  \E k \in DOMAIN els[b] : new[b][j] = els[b][k]
  <2>1. CASE b # a
    BY <1>1, <2>1
  <2>2. CASE b = a
    <3>1. j \in 1..Len(els[a]) /\ j + 1 \in 1..Len(els[a])
      BY <1>2, <2>2, SMT
    <3> QED
      BY <1>2, <2>2, <3>1
  <2> QED
    BY <2>1, <2>2
<1>4. ASSUME NEW S \in SUBSET Arrays, NEW y, y # els[a][i], HasSlot(els, S, y)
      PROVE  HasSlot(new, S, y)
  <2>1. PICK b \in S : \E j \in DOMAIN els[b] : els[b][j] = y
    BY <1>4 DEF HasSlot
  <2>2. PICK j \in DOMAIN els[b] : els[b][j] = y
    BY <2>1
  <2>3. CASE b # a
    BY <1>1, <2>2, <2>3 DEF HasSlot
  <2>4. CASE b = a
    <3>1. j # i /\ j \in 1..Len(els[a]) /\ i \in 1..Len(els[a])
      BY <1>2, <1>4, <2>2, <2>4
    <3>2. CASE j < i
      <4>1. j \in 1..Len(els[a]) - 1
        BY <1>2, <3>1, <3>2, SMT
      <4> QED
        BY <1>2, <2>2, <2>4, <3>2, <4>1 DEF HasSlot
    <3>3. CASE ~(j < i)
      <4>1. j - 1 \in 1..Len(els[a]) - 1 /\ ~(j - 1 < i) /\ (j - 1) + 1 = j
        BY <1>2, <3>1, <3>3, SMT
      <4>2. new[a][j - 1] = y /\ j - 1 \in DOMAIN new[a]
        BY <1>2, <2>2, <2>4, <4>1
      <4> QED
        BY <2>4, <4>2 DEF HasSlot
    <3> QED
      BY <3>2, <3>3
  <2> QED
    BY <2>3, <2>4
<1> QED
  BY <1>3, <1>4 DEF new

\* The copies in progress, from one call of the copy constructor to another.
LEMMA Constructors ==
  ASSUME Calls
  PROVE  /\ Copies \subseteq Arrays
         /\ copying # <<>> => /\ to \in Copies /\ to = copying[1].to
                              /\ Head(copying) \in Frame
         /\ (copying # <<>> /\ copying' = Tail(copying)) =>
              /\ copying' \in Seq(Frame) /\ Copies' = Copies \ {to}
              /\ \A i, j \in DOMAIN copying' : copying'[i].to = copying'[j].to => i = j
<1>1. copying \in Seq(Frame)
  BY DEF Calls
<1>2. /\ Len(copying) \in Nat /\ DOMAIN copying = 1..Len(copying)
      /\ \A i \in DOMAIN copying : copying[i] \in Frame
  BY <1>1, LenProperties, ElementOfSeq
<1>3. Copies \subseteq Arrays
  BY <1>2 DEF Copies, Frame
<1>4. ASSUME copying # <<>>
      PROVE  /\ to \in Copies /\ to = copying[1].to /\ Head(copying) \in Frame
             /\ 1 \in DOMAIN copying
  <2>1. 1 \in 1..Len(copying) /\ Head(copying) = copying[1]
    BY <1>1, <1>4, EmptySeq, SMT
  <2> QED
    BY <1>2, <2>1 DEF to, Copies
<1>5. ASSUME copying # <<>>, copying' = Tail(copying)
      PROVE  /\ copying' \in Seq(Frame) /\ Copies' = Copies \ {to}
             /\ \A i, j \in DOMAIN copying' : copying'[i].to = copying'[j].to => i = j
  <2>1. /\ copying' \in Seq(Frame) /\ DOMAIN copying' = 1..Len(copying) - 1
        /\ \A i \in 1..Len(copying) - 1 : copying'[i] = copying[i + 1]
    BY <1>1, <1>5, HeadTailProperties, LenProperties
  <2>2. \A i \in DOMAIN copying' : i + 1 \in DOMAIN copying /\ i + 1 # 1
    BY <1>2, <2>1, SMT
  <2>3. \A i \in DOMAIN copying : i = 1 \/ (i - 1 \in DOMAIN copying' /\ (i - 1) + 1 = i)
    BY <1>2, <2>1, SMT
  <2>4. Copies' = Copies \ {to}
    <3>1. ASSUME NEW i \in DOMAIN copying'
          PROVE  copying'[i].to \in Copies /\ copying'[i].to # to
      <4>1. i + 1 \in DOMAIN copying /\ i + 1 # 1 /\ copying'[i] = copying[i + 1]
        BY <2>1, <2>2
      <4>2. copying[i + 1].to # copying[1].to
        <5>1. \A j, k \in DOMAIN copying : copying[j].to = copying[k].to => j = k
          BY DEF Calls
        <5>2. 1 \in DOMAIN copying
          BY <1>4, <1>5
        <5> QED
          BY <4>1, <5>1, <5>2
      <4>3. to = copying[1].to
        BY <1>4, <1>5
      <4> QED
        BY <4>1, <4>2, <4>3 DEF Copies
    <3>2. ASSUME NEW i \in DOMAIN copying, copying[i].to # to
          PROVE  copying[i].to \in Copies'
      <4>1. i - 1 \in DOMAIN copying' /\ (i - 1) + 1 = i
        BY <1>4, <1>5, <2>3, <3>2
      <4>2. copying'[i - 1] = copying[i]
        BY <2>1, <4>1
      <4> QED
        BY <4>1, <4>2 DEF Copies
    <3> QED
      BY <3>1, <3>2 DEF Copies
  <2>5. \A i, j \in DOMAIN copying' : copying'[i].to = copying'[j].to => i = j
    <3> TAKE i, j \in DOMAIN copying'
    <3>1. i + 1 \in DOMAIN copying /\ j + 1 \in DOMAIN copying
          /\ copying'[i] = copying[i + 1] /\ copying'[j] = copying[j + 1]
      BY <2>1, <2>2
    <3>2. copying'[i].to = copying'[j].to => i + 1 = j + 1
      BY <3>1 DEF Calls
    <3> QED
      BY <1>2, <2>1, <3>2, SMT
  <2> QED
    BY <2>1, <2>4, <2>5
<1> QED
  BY <1>3, <1>4, <1>5

\* A constructor begins: its copy is a new root.
LEMMA Constructor ==
  ASSUME Calls, NEW f \in Frame, f.to \notin held \cup Copies,
         copying' = <<f>> \o copying
  PROVE  /\ copying' \in Seq(Frame) /\ Copies' = Copies \cup {f.to}
         /\ \A i, j \in DOMAIN copying' : copying'[i].to = copying'[j].to => i = j
<1>1. /\ copying \in Seq(Frame)
      /\ <<f>> \in Seq(Frame) /\ Len(<<f>>) = 1 /\ <<f>>[1] = f
  <2>1. copying \in Seq(Frame)
    BY DEF Calls
  <2>2. <<f>> \in Seq(Frame) /\ Len(<<f>>) = 1 /\ <<f>>[1] = f
    OBVIOUS
  <2> QED
    BY <2>1, <2>2
<1>2. Len(copying) \in Nat /\ DOMAIN copying = 1..Len(copying)
  BY <1>1, LenProperties
<1>3. /\ copying' \in Seq(Frame) /\ DOMAIN copying' = 1..Len(copying) + 1
      /\ \A i \in 1..Len(copying) + 1 : copying'[i] = IF i <= 1 THEN <<f>>[i] ELSE copying[i - 1]
  <2>1. /\ copying' \in Seq(Frame) /\ Len(copying') = 1 + Len(copying)
        /\ \A i \in 1..1 + Len(copying) : copying'[i] = IF i <= 1 THEN <<f>>[i] ELSE copying[i - 1]
    BY <1>1, ConcatProperties
  <2>2. 1 + Len(copying) = Len(copying) + 1 /\ DOMAIN copying' = 1..Len(copying')
    BY <1>2, <2>1, LenProperties, SMT
  <2> QED
    BY <2>1, <2>2
<1>4. /\ 1 \in DOMAIN copying' /\ copying'[1] = f
      /\ \A i \in DOMAIN copying' \ {1} : i - 1 \in DOMAIN copying /\ copying'[i] = copying[i - 1]
      /\ \A i \in DOMAIN copying : i + 1 \in DOMAIN copying' \ {1} /\ (i + 1) - 1 = i
  BY <1>1, <1>2, <1>3, SMT
<1>5. Copies' = Copies \cup {f.to}
  <2>1. Copies' \subseteq Copies \cup {f.to}
    BY <1>4 DEF Copies
  <2>2. f.to \in Copies'
    BY <1>4 DEF Copies
  <2>3. ASSUME NEW i \in DOMAIN copying PROVE copying[i].to \in Copies'
    <3>1. i + 1 \in DOMAIN copying' /\ copying'[i + 1] = copying[i]
      BY <1>4
    <3> QED
      BY <3>1 DEF Copies
  <2> QED
    BY <2>1, <2>2, <2>3 DEF Copies
<1>6. \A i, j \in DOMAIN copying' : copying'[i].to = copying'[j].to => i = j
  <2> SUFFICES ASSUME NEW i \in DOMAIN copying', NEW j \in DOMAIN copying',
                      copying'[i].to = copying'[j].to
               PROVE  i = j
    OBVIOUS
  <2>0. copying'[i].to = copying'[j].to
    OBVIOUS
  <2>1. \A k \in DOMAIN copying' \ {1} : copying'[k].to \in Copies
    BY <1>4 DEF Copies
  <2>2. CASE i = 1 \/ j = 1
    BY <1>4, <2>1, <2>2
  <2>3. CASE i # 1 /\ j # 1
    <3>0. \A k, m \in DOMAIN copying : copying[k].to = copying[m].to => k = m
      BY DEF Calls
    <3>2. /\ i - 1 \in DOMAIN copying /\ copying'[i] = copying[i - 1]
          /\ j - 1 \in DOMAIN copying /\ copying'[j] = copying[j - 1]
      BY <1>4, <2>3
    <3>1. i - 1 = j - 1
      BY <2>0, <3>0, <3>2
    <3> QED
      BY <1>2, <1>3, <3>1, SMT
  <2> QED
    BY <2>2, <2>3
<1> QED
  BY <1>3, <1>5, <1>6

(***************************************************************************)
(* Every call keeps the invariant.                                         *)
(***************************************************************************)

\* The owned trees and the calls in progress, put together for a new state.
LEMMA NextInv ==
  ASSUME Owned(heap', held' \cup Copies', elements'),
         copying' \in Seq(Frame), held' \cap Copies' = {},
         \A i, j \in DOMAIN copying' : copying'[i].to = copying'[j].to => i = j,
         fault' \in {"none", "erases end()"}
  PROVE  ArrayInv'
BY DEF ArrayInv, Forest, Calls

\* What a step leaves alone when it changes no constructor.
LEMMA SameCalls ==
  ASSUME ArrayInv, UNCHANGED copying
  PROVE  /\ Copies' = Copies /\ copying' \in Seq(Frame) /\ held \cap Copies = {}
         /\ \A i, j \in DOMAIN copying' : copying'[i].to = copying'[j].to => i = j
         /\ Copies \subseteq heap /\ held \subseteq heap
         /\ fault \in {"none", "erases end()"}
<1>1. Calls
  BY DEF ArrayInv
<1>2. Copies' = Copies
  BY DEF Copies
<1>3. Copies \subseteq heap /\ held \subseteq heap
  BY DEF ArrayInv, Forest, Owned
<1> QED
  BY <1>1, <1>2, <1>3 DEF Calls

LEMMA NewStep == ASSUME ArrayInv, NEW x \in Atoms, New(x) PROVE ArrayInv'
<1>1. Owned(heap \cup {x}, (held \cup Copies) \cup {x}, elements)
  BY MakeRoot DEF ArrayInv, Forest, New
<1>2. (held \cup Copies) \cup {x} = held' \cup Copies' /\ held' \cap Copies' = {}
  BY SameCalls DEF New
<1>3. Owned(heap', held' \cup Copies', elements')
  BY <1>1, <1>2 DEF New
<1> QED
  BY <1>2, <1>3, SameCalls, NextInv DEF New

LEMMA DropStep == ASSUME ArrayInv, NEW x \in Atoms, Drop(x) PROVE ArrayInv'
<1>1. x \in heap /\ x \in held \cup Copies /\ x \notin Copies
  BY SameCalls DEF Drop
<1>2. Owned(heap \ Subtree(x), (held \cup Copies) \ {x}, Without(Subtree(x), elements))
  <2>1. Owned(heap, held \cup Copies, elements)
    BY DEF ArrayInv, Forest
  <2> QED
    BY <1>1, <2>1, Fell, SubtreeFacts DEF ArrayInv
<1>3. (held \cup Copies) \ {x} = held' \cup Copies' /\ held' \cap Copies' = {}
  BY <1>1, SameCalls DEF Drop
<1>4. Owned(heap', held' \cup Copies', elements')
  BY <1>2, <1>3 DEF Drop
<1> QED
  BY <1>3, <1>4, SameCalls, NextInv DEF Drop

LEMMA AddStep ==
  ASSUME ArrayInv, NEW a \in Atoms, NEW x \in Atoms, Add(a, x) PROVE ArrayInv'
<1>1. a \in Arrays \cap heap /\ x \in held \cup Copies /\ x \notin Copies
  BY SameCalls DEF Add, IsArray
<1>2. Owned(heap, (held \cup Copies) \ {x}, [elements EXCEPT ![a] = Append(@, x)])
  BY <1>1, MoveIn DEF ArrayInv, Forest
<1>3. (held \cup Copies) \ {x} = held' \cup Copies' /\ held' \cap Copies' = {}
  BY <1>1, SameCalls DEF Add
<1>4. Owned(heap', held' \cup Copies', elements')
  BY <1>2, <1>3 DEF Add, add
<1> QED
  BY <1>3, <1>4, SameCalls, NextInv DEF Add

\* A new atom that goes into an array at once.
LEMMA MadeInside ==
  ASSUME ArrayInv, NEW a \in Arrays \cap heap, NEW x \in Atoms, x \notin heap,
         add(a, x), heap' = heap \cup {x}, UNCHANGED <<held, copying, fault>>
  PROVE  ArrayInv'
<1>1. Owned(heap \cup {x}, (held \cup Copies) \cup {x}, elements)
  BY MakeRoot DEF ArrayInv, Forest
<1>2. Owned(heap \cup {x}, ((held \cup Copies) \cup {x}) \ {x},
            [elements EXCEPT ![a] = Append(@, x)])
  BY <1>1, MoveIn
<1>3. ((held \cup Copies) \cup {x}) \ {x} = held' \cup Copies' /\ held' \cap Copies' = {}
  BY SameCalls
<1>4. Owned(heap', held' \cup Copies', elements')
  BY <1>2, <1>3 DEF add
<1> QED
  BY <1>3, <1>4, SameCalls, NextInv

LEMMA AddValueStep ==
  ASSUME ArrayInv, NEW a \in Atoms, NEW x \in Atoms, AddValue(a, x) PROVE ArrayInv'
<1>1. CASE IsArray(a)
  BY <1>1, MadeInside DEF AddValue, IsArray
<1>2. CASE ~IsArray(a)
  <2>1. Owned(heap', held' \cup Copies', elements') /\ held' \cap Copies' = {}
    BY <1>2, SameCalls DEF AddValue, ArrayInv, Forest
  <2> QED
    BY <2>1, SameCalls, NextInv DEF AddValue
<1> QED
  BY <1>1, <1>2

\* erase takes an element and all below it, or meets end() and changes nothing.
LEMMA EraseStep ==
  ASSUME ArrayInv, NEW a \in Arrays, NEW i \in 0..Len(elements[a]), erase(a, i),
         UNCHANGED <<held, copying>>
  PROVE  ArrayInv'
<1>1. CASE i = Len(elements[a])
  <2>1. Owned(heap', held' \cup Copies', elements') /\ held' \cap Copies' = {}
    BY <1>1, SameCalls DEF erase, ArrayInv, Forest
  <2> QED
    BY <1>1, <2>1, SameCalls, NextInv DEF erase
<1>2. CASE i # Len(elements[a])
  <2> DEFINE e    == elements[a][i + 1]
             gone == Subtree(e)
             els  == [elements EXCEPT ![a] = RemoveAt(@, i + 1)]
  <2>0. Owned(heap, held \cup Copies, elements)
    BY DEF ArrayInv, Forest
  <2>1. i + 1 \in DOMAIN elements[a]
    <3>1. elements[a] \in Seq(heap)
      BY <2>0 DEF Owned
    <3> QED
      BY <1>2, <3>1, LenProperties, SMT
  <2>2. e \in heap \ (held \cup Copies)
    BY <2>0, <2>1 DEF Owned
  <2>3. Owned(heap, (held \cup Copies) \cup {e}, els)
    BY <2>0, <2>1, MoveOut
  <2>4. elements \in [Arrays -> Seq(heap)]
    BY <2>0 DEF Owned
  <2>5. /\ \A b \in Arrays : \A j \in DOMAIN els[b] :
             \E k \in DOMAIN elements[b] : els[b][j] = elements[b][k]
        /\ \A S \in SUBSET Arrays : \A y : (y # e /\ HasSlot(elements, S, y)) => HasSlot(els, S, y)
    BY <2>1, <2>4, OtherSlots
  <2>6. /\ e \in gone /\ gone \subseteq heap
        /\ \A b \in gone \cap Arrays : \A j \in DOMAIN elements[b] : elements[b][j] \in gone
        /\ \A y \in gone \ {e} : HasSlot(elements, gone \cap Arrays, y)
    BY <2>2, SubtreeFacts DEF ArrayInv
  <2>10. fault' = fault /\ heap' = heap \ gone /\ elements' = Without(gone, els)
    BY <1>2 DEF erase
  <2> HIDE DEF e, gone, els
  <2>7. Owned(heap \ gone, ((held \cup Copies) \cup {e}) \ {e}, Without(gone, els))
    <3>1. \A b \in gone \cap Arrays : \A j \in DOMAIN els[b] : els[b][j] \in gone
      BY <2>5, <2>6
    <3>2. \A y \in gone \ {e} : HasSlot(els, gone \cap Arrays, y)
      BY <2>5, <2>6
    <3> QED
      BY <2>3, <2>6, <3>1, <3>2, Fell
  <2>8. ((held \cup Copies) \cup {e}) \ {e} = held' \cup Copies' /\ held' \cap Copies' = {}
    BY <2>2, SameCalls
  <2>9. Owned(heap', held' \cup Copies', elements')
    BY <2>7, <2>8, <2>10
  <2> QED
    BY <2>8, <2>9, <2>10, SameCalls, NextInv
<1> QED
  BY <1>1, <1>2

LEMMA DelStep ==
  ASSUME ArrayInv, NEW a \in Arrays, NEW i \in 0..Len(elements[a]), DelAt(a, i)
  PROVE  ArrayInv'
<1>1. CASE i >= Len(elements[a])
  <2>1. Owned(heap', held' \cup Copies', elements') /\ held' \cap Copies' = {}
    BY <1>1, SameCalls DEF DelAt, ArrayInv, Forest
  <2> QED
    BY <1>1, <2>1, SameCalls, NextInv DEF DelAt
<1>2. CASE ~(i >= Len(elements[a]))
  BY <1>2, EraseStep DEF DelAt
<1> QED
  BY <1>1, <1>2

LEMMA DelAtomStep ==
  ASSUME ArrayInv, NEW a \in Atoms, NEW x \in Atoms, DelAtom(a, x) PROVE ArrayInv'
<1>1. PICK i \in 0..Len(elements[a]) : erase(a, i)
  BY DEF DelAtom
<1> QED
  BY <1>1, EraseStep DEF DelAtom, IsArray

LEMMA BeginCopyStep ==
  ASSUME ArrayInv, NEW a \in Arrays, NEW c \in Arrays, BeginCopy(a, c) PROVE ArrayInv'
<1> DEFINE f == [from |-> a, to |-> c]
<1>1. Owned(heap \cup {c}, (held \cup Copies) \cup {c}, elements)
  BY MakeRoot, ArrayAssumption DEF ArrayInv, Forest, BeginCopy
<1>2. c \notin held \cup Copies /\ held \cap Copies = {}
  <2>1. held \cup Copies \subseteq heap
    BY DEF ArrayInv, Forest, Owned
  <2> QED
    BY <2>1 DEF BeginCopy, ArrayInv, Calls
<1>3. f \in Frame /\ f.to = c
  BY DEF Frame
<1>4. copying' = <<f>> \o copying
  BY DEF BeginCopy, Idle
<1> HIDE DEF f
<1>5. /\ copying' \in Seq(Frame) /\ Copies' = Copies \cup {c}
      /\ \A i, j \in DOMAIN copying' : copying'[i].to = copying'[j].to => i = j
  BY <1>2, <1>3, <1>4, Constructor DEF ArrayInv
<1>6. (held \cup Copies) \cup {c} = held' \cup Copies' /\ held' \cap Copies' = {}
  BY <1>2, <1>5 DEF BeginCopy
<1>7. Owned(heap', held' \cup Copies', elements')
  BY <1>1, <1>6 DEF BeginCopy
<1> QED
  BY <1>5, <1>6, <1>7, NextInv DEF BeginCopy, ArrayInv, Calls

LEMMA CopyLeafStep == ASSUME ArrayInv, NEW c \in Atoms, CopyLeaf(c) PROVE ArrayInv'
<1>1. to \in Arrays \cap heap
  <2>1. to \in Copies /\ Copies \subseteq Arrays
    BY Constructors DEF CopyLeaf, ArrayInv
  <2>2. Copies \subseteq heap
    BY DEF ArrayInv, Forest, Owned
  <2> QED
    BY <2>1, <2>2
<1> QED
  BY <1>1, MadeInside DEF CopyLeaf

LEMMA CopyArrayStep == ASSUME ArrayInv, NEW c \in Atoms, CopyArray(c) PROVE ArrayInv'
<1> DEFINE f == [from |-> current, to |-> c]
<1>1. Owned(heap \cup {c}, (held \cup Copies) \cup {c}, elements)
  BY MakeRoot DEF ArrayInv, Forest, CopyArray
<1>2. c \notin held \cup Copies /\ held \cap Copies = {}
  <2>1. held \cup Copies \subseteq heap
    BY DEF ArrayInv, Forest, Owned
  <2> QED
    BY <2>1 DEF CopyArray, ArrayInv, Calls
<1>3. f \in Frame /\ f.to = c
  BY DEF Frame, CopyArray
<1>4. copying' = <<f>> \o copying
  BY DEF CopyArray
<1> HIDE DEF f
<1>5. /\ copying' \in Seq(Frame) /\ Copies' = Copies \cup {c}
      /\ \A i, j \in DOMAIN copying' : copying'[i].to = copying'[j].to => i = j
  BY <1>2, <1>3, <1>4, Constructor DEF ArrayInv
<1>6. (held \cup Copies) \cup {c} = held' \cup Copies' /\ held' \cap Copies' = {}
  BY <1>2, <1>5 DEF CopyArray
<1>7. Owned(heap', held' \cup Copies', elements')
  BY <1>1, <1>6 DEF CopyArray
<1> QED
  BY <1>5, <1>6, <1>7, NextInv DEF CopyArray, ArrayInv, Calls

\* Every copy in progress goes with all that was copied into it.
LEMMA CopyThrowsStep == ASSUME ArrayInv, CopyThrows PROVE ArrayInv'
<1> DEFINE gone == UNION {Subtree(copying[i].to) : i \in DOMAIN copying}
<1>1. /\ heap' = heap \ gone /\ elements' = Without(gone, elements)
      /\ copying' = <<>> /\ held' = held /\ fault' = fault
  BY DEF CopyThrows
<1>2. \A x \in gone : \E c \in Copies : x \in Subtree(c)
  BY DEF Copies
<1>3. \A c \in Copies : Subtree(c) \subseteq gone
  BY DEF Copies
<1> HIDE DEF gone
<1>4. Owned(heap, held \cup Copies, elements)
  BY DEF ArrayInv, Forest
<1>5. Copies \subseteq heap /\ held \cap Copies = {}
  BY <1>4 DEF Owned, ArrayInv, Calls
<1>6. \A c \in Copies :
        /\ c \in Subtree(c) /\ Subtree(c) \subseteq heap
        /\ \A a \in Subtree(c) \cap Arrays : \A i \in DOMAIN elements[a] :
             elements[a][i] \in Subtree(c)
        /\ \A y \in Subtree(c) \ {c} : HasSlot(elements, Subtree(c) \cap Arrays, y)
  BY <1>5, SubtreeFacts DEF ArrayInv
<1>7. gone \in SUBSET heap /\ Copies \subseteq gone
  BY <1>2, <1>3, <1>6
<1>8. \A a \in gone \cap Arrays : \A i \in DOMAIN elements[a] : elements[a][i] \in gone
  BY <1>2, <1>3, <1>6
<1>9. ASSUME NEW y \in gone \ Copies PROVE HasSlot(elements, gone \cap Arrays, y)
  <2>1. PICK c \in Copies : y \in Subtree(c)
    BY <1>2
  <2>2. HasSlot(elements, Subtree(c) \cap Arrays, y)
    BY <1>6, <2>1
  <2> QED
    BY <1>3, <2>2 DEF HasSlot
<1>10. Owned(heap \ gone, (held \cup Copies) \ Copies, Without(gone, elements))
  <2>1. Copies \in SUBSET (held \cup Copies)
    OBVIOUS
  <2> QED
    BY <1>4, <1>7, <1>8, <1>9, <2>1, Fell
<1>11. copying' \in Seq(Frame) /\ DOMAIN copying' = {} /\ Copies' = {}
  BY <1>1, EmptySeq DEF Copies
<1>12. (held \cup Copies) \ Copies = held' \cup Copies' /\ held' \cap Copies' = {}
  BY <1>1, <1>5, <1>11
<1>13. Owned(heap', held' \cup Copies', elements')
  BY <1>1, <1>10, <1>12
<1> QED
  BY <1>1, <1>11, <1>12, <1>13, NextInv DEF ArrayInv, Calls

LEMMA NestedReturnsStep == ASSUME ArrayInv, NestedReturns PROVE ArrayInv'
<1>1. Calls /\ Owned(heap, held \cup Copies, elements)
  BY DEF ArrayInv, Forest
<1>2. copying # <<>> /\ 2 \in DOMAIN copying
  <2>1. copying \in Seq(Frame) /\ Len(copying) > 1
    BY <1>1 DEF Calls, NestedReturns
  <2> QED
    BY <2>1, LenProperties, EmptySeq, SMT
<1>3. /\ to \in Copies /\ Copies \subseteq Arrays /\ held \cap Copies = {}
      /\ copying' \in Seq(Frame) /\ Copies' = Copies \ {to}
      /\ \A i, j \in DOMAIN copying' : copying'[i].to = copying'[j].to => i = j
  BY <1>1, <1>2, Constructors DEF NestedReturns, Calls
<1> DEFINE a == copying[2].to
<1>4. a \in Arrays \cap heap
  BY <1>1, <1>2, <1>3 DEF Copies, Owned
<1>5. elements' = [elements EXCEPT ![a] = Append(@, to)]
  BY DEF NestedReturns
<1> HIDE DEF a
<1>6. Owned(heap, (held \cup Copies) \ {to}, [elements EXCEPT ![a] = Append(@, to)])
  BY <1>1, <1>3, <1>4, MoveIn
<1>7. (held \cup Copies) \ {to} = held' \cup Copies' /\ held' \cap Copies' = {}
  BY <1>3 DEF NestedReturns
<1>8. Owned(heap', held' \cup Copies', elements')
  BY <1>5, <1>6, <1>7 DEF NestedReturns
<1> QED
  BY <1>1, <1>3, <1>7, <1>8, NextInv DEF NestedReturns, Calls

LEMMA CopyReturnsStep == ASSUME ArrayInv, CopyReturns PROVE ArrayInv'
<1>1. Calls /\ Owned(heap, held \cup Copies, elements)
  BY DEF ArrayInv, Forest
<1>2. copying # <<>> /\ copying' = <<>> /\ \A i \in DOMAIN copying : i = 1
  <2>1. copying \in Seq(Frame) /\ Len(copying) = 1 /\ copying' = <<>>
    BY <1>1 DEF Calls, CopyReturns
  <2> QED
    BY <2>1, LenProperties, EmptySeq, SMT
<1>3. to \in Copies /\ to = copying[1].to
  BY <1>1, <1>2, Constructors
<1>4. Copies = {to}
  BY <1>2, <1>3 DEF Copies
<1>5. copying' \in Seq(Frame) /\ DOMAIN copying' = {} /\ Copies' = {}
  BY <1>2, EmptySeq DEF Copies
<1>6. held \cup Copies = held' \cup Copies' /\ held' \cap Copies' = {}
  BY <1>4, <1>5 DEF CopyReturns
<1>7. Owned(heap', held' \cup Copies', elements')
  BY <1>1, <1>6 DEF CopyReturns
<1> QED
  BY <1>1, <1>5, <1>6, <1>7, NextInv DEF CopyReturns, Calls

(***************************************************************************)
(* The theorems.                                                           *)
(***************************************************************************)

LEMMA ArrayInvInductive ==
  /\ Init => ArrayInv
  /\ ArrayInv /\ [Next]_vars => ArrayInv'
<1>1. ASSUME Init PROVE ArrayInv
  <2>1. Copies = {} /\ DOMAIN copying = {} /\ copying \in Seq(Frame)
    BY <1>1, EmptySeq DEF Init, Copies
  <2>2. elements \in [Arrays -> Seq(heap)] /\ \A a \in Arrays : DOMAIN elements[a] = {}
    BY <1>1, EmptySeq DEF Init
  <2>3. Owned(heap, held \cup Copies, elements)
    BY <1>1, <2>1, <2>2 DEF Init, Owned
  <2> QED
    BY <1>1, <2>1, <2>3 DEF Init, ArrayInv, Forest, Calls
<1>2. ASSUME ArrayInv, Next PROVE ArrayInv'
  <2>1. ASSUME NEW x \in Atoms, New(x) \/ Drop(x) \/ CopyLeaf(x) \/ CopyArray(x)
        PROVE  ArrayInv'
    BY <1>2, <2>1, NewStep, DropStep, CopyLeafStep, CopyArrayStep
  <2>2. ASSUME NEW a \in Atoms, NEW x \in Atoms, Add(a, x) \/ AddValue(a, x) \/ DelAtom(a, x)
        PROVE  ArrayInv'
    BY <1>2, <2>2, AddStep, AddValueStep, DelAtomStep
  <2>3. ASSUME NEW a \in Arrays, NEW c \in Arrays, BeginCopy(a, c) PROVE ArrayInv'
    BY <1>2, <2>3, BeginCopyStep
  <2>4. ASSUME NEW a \in Arrays, NEW i \in 0..Len(elements[a]), DelAt(a, i) PROVE ArrayInv'
    BY <1>2, <2>4, DelStep
  <2>5. ASSUME CopyThrows \/ NestedReturns \/ CopyReturns PROVE ArrayInv'
    BY <1>2, <2>5, CopyThrowsStep, NestedReturnsStep, CopyReturnsStep
  <2> QED
    BY <1>2, <2>1, <2>2, <2>3, <2>4, <2>5 DEF Next
<1>3. ASSUME ArrayInv, UNCHANGED vars PROVE ArrayInv'
  <2>1. Owned(heap', held' \cup Copies', elements') /\ held' \cap Copies' = {}
    BY <1>3, SameCalls DEF vars, ArrayInv, Forest
  <2> QED
    BY <1>3, <2>1, SameCalls, NextInv DEF vars
<1> QED
  BY <1>1, <1>2, <1>3

\* The state is well formed, for every set of atoms.
THEOREM TypeCorrect == Spec => []TypeOK
<1>1. ArrayInv => TypeOK
  BY DEF ArrayInv, Forest, Calls, Owned, TypeOK
<1> QED
  BY <1>1, ArrayInvInductive, PTL DEF Spec

\* Every atom has exactly one owner, whatever is added, deleted, copied or
\* unwound out of a copy at any depth (array_t::add, del, clone).
THEOREM AtomsHaveOneOwner == Spec => []OneOwner
<1>1. ASSUME ArrayInv PROVE OneOwner
  <2>1. Owned(heap, held \cup Copies, elements) /\ Calls
    BY <1>1 DEF ArrayInv, Forest
  <2>2. heap = held \cup Copies \cup {x \in heap : \E a \in Arrays : IsElement(a, x)}
    BY <2>1 DEF Owned, HasSlot, IsElement
  <2> QED
    BY <2>1, <2>2 DEF OneOwner, Owned, Calls
<1> QED
  BY <1>1, ArrayInvInductive, PTL DEF Spec

(***************************************************************************)
(* What a copy leaves alone.  The trees of the copies in progress and those *)
(* of the application have no atom in common: the first atom of a copy's   *)
(* tree that one of the application's led to would have two owners.        *)
(***************************************************************************)

\* A tree of the application holds nothing of a copy in progress.
LEMMA TreesApart ==
  ASSUME ArrayInv, NEW x \in held, NEW c \in Copies
  PROVE  Subtree(x) \cap Subtree(c) = {}
<1>1. Owned(heap, held \cup Copies, elements) /\ held \cap Copies = {}
  BY DEF ArrayInv, Forest, Calls
<1>2. x \in heap /\ c \in heap /\ x # c
  BY <1>1 DEF Owned
<1>3. /\ x \in Subtree(x) /\ Subtree(x) \subseteq heap
      /\ \A a \in Subtree(x) \cap Arrays : \A i \in DOMAIN elements[a] :
           elements[a][i] \in Subtree(x)
      /\ \A y \in Subtree(c) \ {c} : HasSlot(elements, Subtree(c) \cap Arrays, y)
  BY <1>2, SubtreeFacts DEF ArrayInv
<1>4. \A a \in Arrays : \A i \in DOMAIN elements[a] : elements[a][i] \notin held \cup Copies
  BY <1>1 DEF Owned
<1> DEFINE S == Subtree(x) \ Subtree(c)
<1>5. x \in S
  BY <1>2, <1>3, <1>4 DEF HasSlot
<1>6. OwnsItsElements(S)
  <2> SUFFICES ASSUME NEW a \in S \cap Arrays, NEW i \in DOMAIN elements[a],
                      elements[a][i] \in Subtree(c)
               PROVE  FALSE
    BY <1>3 DEF OwnsItsElements, IsElement
  <2>1. elements[a][i] \in Subtree(c) \ {c}
    BY <1>4
  <2>2. PICK b \in Subtree(c) \cap Arrays : \E j \in DOMAIN elements[b] :
               elements[b][j] = elements[a][i]
    BY <1>3, <2>1 DEF HasSlot
  <2>3. a = b
    BY <1>1, <2>2 DEF Owned
  <2> QED
    BY <2>2, <2>3
<1>7. S \in SUBSET heap
  BY <1>3
<1>8. Subtree(x) \subseteq S
  BY <1>5, <1>6, <1>7 DEF Subtree
<1> QED
  BY <1>8

\* Nothing a copy constructor does, nor the exception that unwinds all of
\* them, changes anything the application owns (array_t::clone).
THEOREM CopyingHarmsNothing == Spec => OriginalsStayWhole
<1>1. ASSUME ArrayInv, Next, copying # <<>>, NEW x \in held
      PROVE  /\ Subtree(x) \subseteq heap'
             /\ \A a \in Subtree(x) \cap Arrays : elements'[a] = elements[a]
  <2>1. Subtree(x) \subseteq heap /\ elements \in [Arrays -> Seq(heap)] /\ Copies \subseteq heap
    BY <1>1 DEF Subtree, ArrayInv, Forest, Owned
  <2>2. \A c \in Copies : c \notin Subtree(x) /\ Subtree(x) \cap Subtree(c) = {}
    BY <1>1, <2>1, TreesApart, SubtreeFacts DEF ArrayInv
  <2>3. to \in Copies
    BY <1>1, Constructors DEF ArrayInv
  <2>4. ASSUME NEW c \in Atoms, CopyLeaf(c) \/ CopyArray(c)
        PROVE  /\ heap \subseteq heap'
               /\ \A a \in Arrays \ Copies : elements'[a] = elements[a]
    BY <2>1, <2>3, <2>4 DEF CopyLeaf, CopyArray, add
  <2>5. CASE CopyThrows
    <3> DEFINE gone == UNION {Subtree(copying[i].to) : i \in DOMAIN copying}
    <3>1. heap' = heap \ gone /\ elements' = Without(gone, elements)
      BY <2>5 DEF CopyThrows
    <3>2. Subtree(x) \cap gone = {}
      BY <2>2 DEF Copies
    <3> HIDE DEF gone
    <3> QED
      BY <2>1, <3>1, <3>2 DEF Without
  <2>6. CASE NestedReturns
    <3>1. 2 \in DOMAIN copying
      <4>1. copying \in Seq(Frame) /\ Len(copying) > 1
        BY <1>1, <2>6 DEF ArrayInv, Calls, NestedReturns
      <4> QED
        BY <4>1, LenProperties, SMT
    <3>2. copying[2].to \in Copies
      BY <3>1 DEF Copies
    <3> QED
      BY <2>1, <2>2, <2>6, <3>2 DEF NestedReturns
  <2>7. CASE CopyReturns
    BY <2>1, <2>7 DEF CopyReturns
  <2>8. CopyThrows \/ NestedReturns \/ CopyReturns \/ \E c \in Atoms : CopyLeaf(c) \/ CopyArray(c)
    BY <1>1 DEF Next, Idle, New, Drop, Add, AddValue, DelAtom, BeginCopy, DelAt
  <2> QED
    BY <2>1, <2>2, <2>4, <2>5, <2>6, <2>7, <2>8
<1>2. ArrayInv /\ [Next]_vars =>
        [copying # <<>> =>
           \A x \in held : /\ Subtree(x) \subseteq heap'
                           /\ \A a \in Subtree(x) \cap Arrays : elements'[a] = elements[a]]_vars
  BY <1>1
<1> QED
  BY <1>2, ArrayInvInductive, PTL DEF Spec, OriginalsStayWhole

(***************************************************************************)
(* Order.                                                                  *)
(***************************************************************************)

Kept(a)     == elements'[a] = elements[a]
Extended(a) == \E x \in Atoms : elements'[a] = Append(elements[a], x)
Reduced(a)  == \E i \in DOMAIN elements[a] :
                 elements'[a] = RemoveAt(elements[a], i) /\ elements[a][i] \notin heap'

\* What erase does to the array it is called on and to the others.
LEMMA EraseShapes ==
  ASSUME ArrayInv, NEW b \in Arrays, NEW i \in 0..Len(elements[b]), erase(b, i),
         NEW a \in Arrays \cap heap'
  PROVE  Kept(a) \/ Reduced(a)
<1>1. CASE i = Len(elements[b])
  BY <1>1 DEF erase, Kept
<1>2. CASE i # Len(elements[b])
  <2> DEFINE e    == elements[b][i + 1]
             gone == Subtree(e)
             els  == [elements EXCEPT ![b] = RemoveAt(@, i + 1)]
  <2>1. elements[b] \in Seq(heap) /\ elements \in [Arrays -> Seq(heap)]
    BY DEF ArrayInv, Forest, Owned
  <2>2. i + 1 \in DOMAIN elements[b]
    BY <1>2, <2>1, LenProperties, SMT
  <2>3. e \in heap
    BY <2>2 DEF ArrayInv, Forest, Owned
  <2>4. e \in gone
    BY <2>3, SubtreeFacts DEF ArrayInv
  <2>5. heap' = heap \ gone /\ elements' = Without(gone, els)
    BY <1>2 DEF erase
  <2>6. els[a] = (IF a = b THEN RemoveAt(elements[b], i + 1) ELSE elements[a])
    BY <2>1
  <2> HIDE DEF gone, els
  <2>7. elements'[a] = els[a]
    BY <2>5 DEF Without
  <2> QED
    BY <2>2, <2>4, <2>5, <2>6, <2>7 DEF Kept, Reduced
<1> QED
  BY <1>1, <1>2

LEMMA NextShapes ==
  ASSUME ArrayInv, Next, NEW a \in Arrays \cap heap \cap heap'
  PROVE  Kept(a) \/ Extended(a) \/ Reduced(a)
<1>0. elements \in [Arrays -> Seq(heap)] /\ heap \subseteq Atoms
  BY DEF ArrayInv, Forest, Owned
<1>1. ASSUME NEW b, NEW x \in Atoms, add(b, x) PROVE Kept(a) \/ Extended(a)
  BY <1>0, <1>1 DEF add, Kept, Extended
<1>2. ASSUME NEW x \in Atoms, New(x) \/ Drop(x) \/ CopyLeaf(x) \/ CopyArray(x)
      PROVE  Kept(a) \/ Extended(a)
  BY <1>1, <1>2 DEF New, Drop, CopyLeaf, CopyArray, Kept, Without
<1>3. ASSUME NEW b \in Atoms, NEW x \in Atoms, Add(b, x) \/ AddValue(b, x) \/ DelAtom(b, x)
      PROVE  Kept(a) \/ Extended(a) \/ Reduced(a)
  <2>1. CASE Add(b, x) \/ AddValue(b, x)
    BY <1>1, <2>1 DEF Add, AddValue, Kept
  <2>2. CASE DelAtom(b, x)
    BY <2>2, EraseShapes DEF DelAtom, IsArray
  <2> QED
    BY <1>3, <2>1, <2>2
<1>4. ASSUME NEW b \in Arrays, NEW c \in Arrays, BeginCopy(b, c) PROVE Kept(a)
  BY <1>4 DEF BeginCopy, Kept
<1>5. ASSUME NEW b \in Arrays, NEW i \in 0..Len(elements[b]), DelAt(b, i)
      PROVE  Kept(a) \/ Reduced(a)
  BY <1>5, EraseShapes DEF DelAt, Kept
<1>6. CASE CopyThrows \/ CopyReturns
  BY <1>6 DEF CopyThrows, CopyReturns, Kept, Without
<1>7. CASE NestedReturns
  <2>1. copying # <<>>
    <3>1. copying \in Seq(Frame) /\ Len(copying) > 1
      BY <1>7 DEF ArrayInv, Calls, NestedReturns
    <3> QED
      BY <3>1, EmptySeq, SMT
  <2>2. to \in Atoms
    BY <2>1, Constructors, ArrayAssumption DEF ArrayInv
  <2> QED
    BY <1>0, <1>7, <2>2 DEF NestedReturns, Kept, Extended
<1> QED
  BY <1>2, <1>3, <1>4, <1>5, <1>6, <1>7 DEF Next

\* Elements that stay in an array keep their order, whatever is added, erased
\* or copied meanwhile (array_t::add, del, clone).
THEOREM ElementsStayInOrder == Spec => ElementsKeepTheirOrder
<1>1. ASSUME ArrayInv, Next PROVE OrderKept
  <2> SUFFICES ASSUME NEW a \in Arrays \cap heap \cap heap', NEW x \in heap \cap heap',
                      NEW y \in heap \cap heap', Before(elements[a], x, y)
               PROVE  Before(elements'[a], x, y)
    BY DEF OrderKept
  <2>1. elements[a] \in Seq(Atoms)
    <3>1. elements[a] \in Seq(heap) /\ heap \subseteq Atoms
      BY <1>1 DEF ArrayInv, Forest, Owned
    <3> QED
      BY <3>1, SeqMonotonic
  <2>2. CASE Kept(a)
    BY <2>2 DEF Kept
  <2>3. CASE Extended(a)
    BY <2>1, <2>3, AppendOrder DEF Extended
  <2>4. CASE Reduced(a)
    BY <2>1, <2>4, RemoveOrder DEF Reduced
  <2> QED
    BY <1>1, <2>2, <2>3, <2>4, NextShapes
<1>2. ArrayInv /\ [Next]_vars => [OrderKept]_vars
  BY <1>1
<1> QED
  BY <1>2, ArrayInvInductive, PTL DEF Spec, ElementsKeepTheirOrder

(***************************************************************************)
(* Copies.                                                                 *)
(***************************************************************************)

\* m leads from each atom copied so far to its original, where roots are the
\* copies no array owns yet: what is copied is a prefix of the original, and
\* all of it below the roots.
Mirrors(els, roots, m) ==
  /\ roots \subseteq DOMAIN m
  /\ \A y \in DOMAIN m :
       /\ m[y] \notin DOMAIN m /\ (y \in Arrays <=> m[y] \in Arrays)
       /\ y \in roots \/ HasSlot(els, DOMAIN m \cap Arrays, y)
       /\ y \in Arrays =>
            /\ Len(els[y]) <= Len(els[m[y]])
            /\ y \in roots \/ Len(els[y]) = Len(els[m[y]])
            /\ \A i \in DOMAIN els[y] :
                 els[y][i] \in DOMAIN m /\ m[els[y][i]] = els[m[y]][i]

\* Each constructor in progress copies its original, and all but the innermost
\* are at the element the one within copies.
Nested(els, frames, m) ==
  \A i \in DOMAIN frames :
    LET done == Len(els[frames[i].to])
    IN  /\ m[frames[i].to] = frames[i].from
        /\ i > 1 => /\ done < Len(els[frames[i].from])
                    /\ frames[i - 1].from = els[frames[i].from][done + 1]

CopyOf(m) == m \in [DOMAIN m -> heap] /\ DOMAIN m \subseteq heap
             /\ Mirrors(elements, Copies, m) /\ Nested(elements, copying, m)
CopyInv   == ArrayInv /\ \E m \in UNION {[D -> heap] : D \in SUBSET heap} : CopyOf(m)

\* A copy is made of o.
LEMMA MirrorMade ==
  ASSUME NEW els, NEW roots, NEW m, Mirrors(els, roots, m),
         NEW c, c \notin DOMAIN m, \A y \in DOMAIN m : m[y] # c,
         NEW o, o # c, o \notin DOMAIN m, c \in Arrays <=> o \in Arrays,
         c \in Arrays => Len(els[c]) = 0 /\ DOMAIN els[c] = {} /\ Len(els[o]) \in Nat,
         NEW new, DOMAIN new = DOMAIN m \cup {c}, new[c] = o,
         \A y \in DOMAIN m : new[y] = m[y]
  PROVE  Mirrors(els, roots \cup {c}, new)
<1>1. /\ DOMAIN new = DOMAIN m \cup {c} /\ new[c] = o
      /\ \A y \in DOMAIN m : new[y] = m[y]
  OBVIOUS
<1>2. roots \cup {c} \subseteq DOMAIN new
  BY <1>1 DEF Mirrors
<1>3. ASSUME NEW y \in DOMAIN m
      PROVE  /\ new[y] \notin DOMAIN new /\ (y \in Arrays <=> new[y] \in Arrays)
             /\ y \in roots \cup {c} \/ HasSlot(els, DOMAIN new \cap Arrays, y)
             /\ y \in Arrays =>
                  /\ Len(els[y]) <= Len(els[new[y]])
                  /\ y \in roots \cup {c} \/ Len(els[y]) = Len(els[new[y]])
                  /\ \A i \in DOMAIN els[y] :
                       els[y][i] \in DOMAIN new /\ new[els[y][i]] = els[new[y]][i]
  <2>1. /\ m[y] \notin DOMAIN m /\ (y \in Arrays <=> m[y] \in Arrays)
        /\ y \in roots \/ HasSlot(els, DOMAIN m \cap Arrays, y)
        /\ y \in Arrays =>
             /\ Len(els[y]) <= Len(els[m[y]])
             /\ y \in roots \/ Len(els[y]) = Len(els[m[y]])
             /\ \A i \in DOMAIN els[y] :
                  els[y][i] \in DOMAIN m /\ m[els[y][i]] = els[m[y]][i]
    BY <1>3 DEF Mirrors
  <2>2. HasSlot(els, DOMAIN m \cap Arrays, y) => HasSlot(els, DOMAIN new \cap Arrays, y)
    BY <1>1 DEF HasSlot
  <2> QED
    BY <1>1, <2>1, <2>2
<1>4. /\ new[c] \notin DOMAIN new /\ (c \in Arrays <=> new[c] \in Arrays)
      /\ c \in Arrays => Len(els[c]) <= Len(els[new[c]]) /\ DOMAIN els[c] = {}
  BY <1>1
<1>5. ASSUME NEW y \in DOMAIN new
      PROVE  /\ new[y] \notin DOMAIN new /\ (y \in Arrays <=> new[y] \in Arrays)
             /\ y \in roots \cup {c} \/ HasSlot(els, DOMAIN new \cap Arrays, y)
             /\ y \in Arrays =>
                  /\ Len(els[y]) <= Len(els[new[y]])
                  /\ y \in roots \cup {c} \/ Len(els[y]) = Len(els[new[y]])
                  /\ \A i \in DOMAIN els[y] :
                       els[y][i] \in DOMAIN new /\ new[els[y][i]] = els[new[y]][i]
  <2>1. CASE y = c
    BY <1>4, <2>1
  <2>2. CASE y \in DOMAIN m
    BY <1>3, <2>2
  <2> QED
    BY <1>1, <2>1, <2>2
<1> QED
  BY <1>2, <1>5 DEF Mirrors

\* A copy that is complete becomes the last element of the copy it belongs to.
LEMMA MirrorAdded ==
  ASSUME NEW h, NEW els \in [Arrays -> Seq(h)], NEW roots, NEW m, Mirrors(els, roots, m),
         NEW t \in roots \cap Arrays, NEW x \in roots, x \in h, x # t,
         Len(els[t]) < Len(els[m[t]]), m[x] = els[m[t]][Len(els[t]) + 1],
         x \in Arrays => Len(els[x]) = Len(els[m[x]]),
         NEW new, new = [els EXCEPT ![t] = Append(@, x)]
  PROVE  Mirrors(new, roots \ {x}, m)
<1>1. /\ new[t] = Append(els[t], x) /\ \A y \in Arrays \ {t} : new[y] = els[y]
      /\ t \in DOMAIN m /\ x \in DOMAIN m
  BY DEF Mirrors
<1>2. /\ Len(els[t]) \in Nat /\ DOMAIN els[t] = 1..Len(els[t])
      /\ Len(new[t]) = Len(els[t]) + 1 /\ DOMAIN new[t] = 1..Len(els[t]) + 1
      /\ \A i \in 1..Len(els[t]) : new[t][i] = els[t][i]
      /\ new[t][Len(els[t]) + 1] = x
  <2>1. els[t] \in Seq(h)
    OBVIOUS
  <2> QED
    BY <1>1, <2>1, AppendProperties, LenProperties
<1>3. \A y \in Arrays : Len(els[y]) \in Nat
  <2> SUFFICES ASSUME NEW y \in Arrays PROVE Len(els[y]) \in Nat
    OBVIOUS
  <2>1. els[y] \in Seq(h)
    OBVIOUS
  <2> QED
    BY <2>1, LenProperties
<1>4. ASSUME NEW y, HasSlot(els, DOMAIN m \cap Arrays, y)
      PROVE  HasSlot(new, DOMAIN m \cap Arrays, y)
  <2>1. PICK a \in DOMAIN m \cap Arrays : \E i \in DOMAIN els[a] : els[a][i] = y
    BY <1>4 DEF HasSlot
  <2>2. PICK i \in DOMAIN els[a] : els[a][i] = y
    BY <2>1
  <2>3. i \in DOMAIN new[a] /\ new[a][i] = y
    <3>1. CASE a = t
      BY <1>2, <2>2, <3>1
    <3>2. CASE a # t
      BY <1>1, <2>2, <3>2
    <3> QED
      BY <3>1, <3>2
  <2> QED
    BY <2>3 DEF HasSlot
<1>5. ASSUME NEW y \in DOMAIN m
      PROVE  /\ m[y] \notin DOMAIN m /\ (y \in Arrays <=> m[y] \in Arrays)
             /\ y \in roots \ {x} \/ HasSlot(new, DOMAIN m \cap Arrays, y)
             /\ y \in Arrays =>
                  /\ Len(new[y]) <= Len(new[m[y]])
                  /\ y \in roots \ {x} \/ Len(new[y]) = Len(new[m[y]])
                  /\ \A i \in DOMAIN new[y] :
                       new[y][i] \in DOMAIN m /\ m[new[y][i]] = new[m[y]][i]
  <2>1. /\ m[y] \notin DOMAIN m /\ (y \in Arrays <=> m[y] \in Arrays)
        /\ y \in roots \/ HasSlot(els, DOMAIN m \cap Arrays, y)
        /\ y \in Arrays =>
             /\ Len(els[y]) <= Len(els[m[y]])
             /\ y \in roots \/ Len(els[y]) = Len(els[m[y]])
             /\ \A i \in DOMAIN els[y] :
                  els[y][i] \in DOMAIN m /\ m[els[y][i]] = els[m[y]][i]
    BY <1>5 DEF Mirrors
  <2>2. y \in Arrays => new[m[y]] = els[m[y]]
    BY <1>1, <2>1
  <2>3. y \in roots \ {x} \/ HasSlot(new, DOMAIN m \cap Arrays, y)
    <3>1. CASE y = x
      <4>1. Len(els[t]) + 1 \in DOMAIN new[t] /\ t \in DOMAIN m \cap Arrays
        BY <1>1, <1>2
      <4> QED
        BY <1>2, <3>1, <4>1 DEF HasSlot
    <3>2. CASE y # x
      BY <1>4, <2>1, <3>2
    <3> QED
      BY <3>1, <3>2
  <2>4. CASE y # t
    <3>1. y \in Arrays => new[y] = els[y]
      BY <1>1, <2>4
    <3>2. y \in Arrays /\ y = x => Len(new[y]) = Len(new[m[y]])
      BY <2>2, <3>1
    <3> QED
      BY <2>1, <2>2, <2>3, <3>1, <3>2
  <2>5. CASE y = t
    <3>1. y \in roots \ {x} /\ y \in Arrays /\ m[t] \in Arrays
      BY <2>1, <2>5
    <3>2. Len(els[m[t]]) \in Nat
      BY <1>3, <3>1
    <3>3. Len(new[y]) <= Len(new[m[y]])
      BY <1>2, <2>2, <2>5, <3>2
    <3>4. ASSUME NEW i \in DOMAIN new[y]
          PROVE  new[y][i] \in DOMAIN m /\ m[new[y][i]] = new[m[y]][i]
      <4>1. CASE i = Len(els[t]) + 1
        BY <1>1, <1>2, <2>2, <2>5, <4>1
      <4>2. CASE i # Len(els[t]) + 1
        <5>1. i \in DOMAIN els[t] /\ new[y][i] = els[y][i]
          BY <1>2, <2>5, <3>4, <4>2
        <5> QED
          BY <2>1, <2>2, <2>5, <5>1
      <4> QED
        BY <4>1, <4>2
    <3> QED
      BY <2>1, <2>3, <3>1, <3>3, <3>4
  <2> QED
    BY <2>4, <2>5
<1>6. roots \ {x} \subseteq DOMAIN m
  BY DEF Mirrors
<1> QED
  BY <1>5, <1>6 DEF Mirrors

\* What the innermost constructor is about to copy, and that it is no copy.
LEMMA NextElement ==
  ASSUME ArrayInv, NEW m, CopyOf(m), copying # <<>>
  PROVE  /\ to \in Copies \cap Arrays /\ to \in DOMAIN m /\ m[to] = from
         /\ from \in (heap \cap Arrays) \ DOMAIN m /\ 1 \in DOMAIN copying
         /\ Len(elements[to]) \in Nat /\ Len(elements[from]) \in Nat
         /\ DOMAIN elements[from] = 1..Len(elements[from])
         /\ ~Finished => /\ Len(elements[to]) < Len(elements[from])
                         /\ current \in heap \ DOMAIN m
<1>1. Calls /\ Owned(heap, held \cup Copies, elements) /\ elements \in [Arrays -> Seq(heap)]
  BY DEF ArrayInv, Forest, Owned
<1>2. to \in Copies /\ Copies \subseteq Arrays /\ to = copying[1].to
  BY <1>1, Constructors
<1>3. 1 \in DOMAIN copying /\ from = copying[1].from
  <2>1. copying \in Seq(Frame)
    BY <1>1 DEF Calls
  <2> QED
    BY <2>1, HeadTailProperties, EmptySeq, LenProperties DEF from
<1>4. m[to] = from /\ to \in DOMAIN m /\ m[to] \notin DOMAIN m /\ m[to] \in heap
      /\ (to \in Arrays <=> m[to] \in Arrays)
  BY <1>2, <1>3 DEF CopyOf, Nested, Mirrors
<1>5. from \in (heap \cap Arrays) \ DOMAIN m
  BY <1>2, <1>4
<1>6. /\ elements[to] \in Seq(heap) /\ elements[from] \in Seq(heap)
      /\ Len(elements[to]) \in Nat /\ Len(elements[from]) \in Nat
      /\ DOMAIN elements[from] = 1..Len(elements[from])
  <2>1. elements[to] \in Seq(heap) /\ elements[from] \in Seq(heap)
    BY <1>1, <1>2, <1>5
  <2> QED
    BY <2>1, LenProperties
<1>7. Len(elements[to]) <= Len(elements[from])
  BY <1>2, <1>4 DEF CopyOf, Mirrors
<1>8. ASSUME ~Finished
      PROVE  Len(elements[to]) < Len(elements[from]) /\ current \in heap \ DOMAIN m
  <2>1. Len(elements[to]) < Len(elements[from])
    BY <1>6, <1>7, <1>8 DEF Finished
  <2>2. Len(elements[to]) + 1 \in DOMAIN elements[from]
    BY <1>6, <2>1
  <2>3. current \in heap \ (held \cup Copies)
    BY <1>1, <1>5, <2>2 DEF Owned, current
  <2>4. current \notin DOMAIN m
    <3> SUFFICES ASSUME current \in DOMAIN m PROVE FALSE
      OBVIOUS
    <3>1. HasSlot(elements, DOMAIN m \cap Arrays, current)
      BY <2>3 DEF CopyOf, Mirrors
    <3>2. PICK a \in DOMAIN m \cap Arrays : \E i \in DOMAIN elements[a] : elements[a][i] = current
      BY <3>1 DEF HasSlot
    <3>3. a = from
      BY <1>1, <1>5, <2>2, <3>2 DEF Owned, current
    <3> QED
      BY <1>5, <3>2, <3>3
  <2> QED
    BY <2>1, <2>3, <2>4
<1> QED
  BY <1>2, <1>3, <1>4, <1>5, <1>6, <1>8

\* An atom that is not allocated has no elements.
LEMMA NoElements ==
  ASSUME ArrayInv, NEW c \in Arrays \ heap
  PROVE  Len(elements[c]) = 0 /\ DOMAIN elements[c] = {}
<1>1. elements[c] \in Seq(heap) /\ DOMAIN elements[c] = {}
  BY DEF ArrayInv, Forest, Owned
<1>2. Len(elements[c]) \in Nat /\ DOMAIN elements[c] = 1..Len(elements[c])
  BY <1>1, LenProperties
<1>3. \A n \in Nat : 1 \notin 1..n => n = 0
  BY SMT
<1> QED
  BY <1>1, <1>2, <1>3

\* A constructor begins, of the outermost copy or of one within.
LEMMA CopyBegins ==
  ASSUME ArrayInv, NEW m, CopyOf(m), NEW o \in heap \ DOMAIN m, NEW c \in Atoms \ heap,
         c \in Arrays, o \in Arrays,
         copying' = <<[from |-> o, to |-> c]>> \o copying,
         copying # <<>> => /\ Len(elements[to]) < Len(elements[from])
                           /\ o = elements[from][Len(elements[to]) + 1],
         heap' = heap \cup {c}, UNCHANGED <<held, elements>>
  PROVE  \E new \in UNION {[D -> heap'] : D \in SUBSET heap'} : CopyOf(new)'
<1> DEFINE new == [y \in DOMAIN m \cup {c} |-> IF y = c THEN o ELSE m[y]]
           f   == [from |-> o, to |-> c]
<1>1. /\ Calls /\ Owned(heap, held \cup Copies, elements)
      /\ elements \in [Arrays -> Seq(heap)] /\ copying \in Seq(Frame)
  BY DEF ArrayInv, Forest, Owned, Calls
<1>2. f \in Frame /\ f.to = c /\ f.from = o /\ c \notin held \cup Copies
  BY <1>1 DEF Frame, Owned
<1>3. copying' = <<f>> \o copying
  OBVIOUS
<1> HIDE DEF f
<1>4. Copies' = Copies \cup {c} /\ copying' \in Seq(Frame)
  BY <1>1, <1>2, <1>3, Constructor
<1>5. /\ Len(copying) \in Nat /\ Len(copying') = Len(copying) + 1
      /\ DOMAIN copying = 1..Len(copying) /\ DOMAIN copying' = 1..Len(copying) + 1
      /\ copying'[1] = f /\ \A i \in 2..Len(copying) + 1 : copying'[i] = copying[i - 1]
  <2>1. <<f>> \in Seq(Frame) /\ Len(<<f>>) = 1 /\ <<f>>[1] = f
    BY <1>2
  <2>2. /\ Len(copying') = 1 + Len(copying)
        /\ \A i \in 1..1 + Len(copying) :
             copying'[i] = IF i <= 1 THEN <<f>>[i] ELSE copying[i - 1]
    BY <1>1, <1>3, <2>1, ConcatProperties
  <2> QED
    BY <1>1, <1>4, <2>1, <2>2, LenProperties
<1>6. /\ m \in [DOMAIN m -> heap] /\ DOMAIN m \subseteq heap
      /\ Mirrors(elements, Copies, m) /\ Nested(elements, copying, m)
  BY DEF CopyOf
<1>7. /\ DOMAIN new = DOMAIN m \cup {c} /\ new[c] = o
      /\ \A y \in DOMAIN m : new[y] = m[y] /\ m[y] # c
  BY <1>6
<1>8. /\ new \in [DOMAIN new -> heap'] /\ DOMAIN new \subseteq heap'
  BY <1>6
<1>9. Mirrors(elements', Copies', new)
  <2>1. Len(elements[c]) = 0 /\ DOMAIN elements[c] = {} /\ Len(elements[o]) \in Nat
    <3>1. elements[o] \in Seq(heap)
      BY <1>1
    <3> QED
      BY <3>1, NoElements, LenProperties
  <2>2. c \notin DOMAIN m /\ o # c
    BY <1>6
  <2> HIDE DEF new
  <2>3. /\ \A y \in DOMAIN m : m[y] # c /\ new[y] = m[y]
        /\ o \notin DOMAIN m /\ (c \in Arrays <=> o \in Arrays)
        /\ c \in Arrays => Len(elements[c]) = 0 /\ DOMAIN elements[c] = {} /\ Len(elements[o]) \in Nat
    BY <1>7, <2>1
  <2>4. Mirrors(elements, Copies \cup {c}, new)
    BY <1>6, <1>7, <2>2, <2>3, MirrorMade
  <2> QED
    BY <1>4, <2>4
<1> HIDE DEF new
<1>10. Nested(elements', copying', new)
  <2> SUFFICES ASSUME NEW i \in DOMAIN copying'
               PROVE  /\ new[copying'[i].to] = copying'[i].from
                      /\ i > 1 =>
                           /\ Len(elements[copying'[i].to]) < Len(elements[copying'[i].from])
                           /\ copying'[i - 1].from
                                = elements[copying'[i].from][Len(elements[copying'[i].to]) + 1]
    BY DEF Nested
  <2>1. CASE i = 1
    BY <1>2, <1>5, <1>7, <2>1
  <2>2. CASE i # 1
    <3>1. i - 1 \in DOMAIN copying /\ copying'[i] = copying[i - 1]
      BY <1>5, <2>2
    <3>2. copying[i - 1].to \in DOMAIN m
      BY <1>6, <3>1 DEF Mirrors, Copies
    <3>3. new[copying'[i].to] = copying'[i].from
      BY <1>6, <1>7, <3>1, <3>2 DEF Nested
    <3>4. CASE i = 2
      <4>1. copying # <<>> /\ copying'[i] = Head(copying)
        <5>1. 1 \in DOMAIN copying /\ copying'[i] = copying[1]
          BY <3>1, <3>4
        <5> QED
          BY <1>1, <1>5, <5>1, HeadTailProperties, EmptySeq
      <4>2. copying'[i - 1].from = o
        BY <1>2, <1>5, <3>4
      <4> QED
        BY <3>3, <4>1, <4>2 DEF to, from
    <3>5. CASE i # 2
      <4>1. i - 1 > 1 /\ (i - 1) - 1 \in DOMAIN copying /\ i - 1 \in 2..Len(copying) + 1
        BY <1>5, <2>2, <3>5
      <4>2. copying'[i - 1] = copying[(i - 1) - 1]
        BY <1>5, <4>1
      <4> QED
        BY <1>6, <3>1, <3>3, <4>1, <4>2 DEF Nested
    <3> QED
      BY <3>4, <3>5
  <2> QED
    BY <2>1, <2>2
<1>11. CopyOf(new)'
  <2>1. new' = new
    OBVIOUS
  <2> QED
    BY <1>8, <1>9, <1>10 DEF CopyOf
<1> QED
  BY <1>8, <1>11

LEMMA NoMirror ==
  ASSUME NEW els, NEW m, DOMAIN m = {}
  PROVE  Mirrors(els, {}, m) /\ Nested(els, <<>>, m)
<1>1. DOMAIN <<>> = {}
  OBVIOUS
<1> QED
  BY <1>1 DEF Mirrors, Nested

LEMMA NoCopies ==
  ASSUME copying' = <<>>
  PROVE  \E new \in UNION {[D -> heap'] : D \in SUBSET heap'} : CopyOf(new)'
<1> DEFINE new == [y \in {} |-> y]
<1>1. new \in [{} -> heap'] /\ DOMAIN new = {} /\ {} \in SUBSET heap'
  OBVIOUS
<1>2. Copies' = {}
  BY DEF Copies
<1> HIDE DEF new
<1>3. Mirrors(elements', {}, new) /\ Nested(elements', <<>>, new)
  BY <1>1, NoMirror
<1>4. CopyOf(new)'
  BY <1>1, <1>2, <1>3 DEF CopyOf
<1> QED
  BY <1>1, <1>4

LEMMA BeginCopyMirror ==
  ASSUME ArrayInv, NEW a \in Arrays, NEW c \in Arrays, BeginCopy(a, c)
  PROVE  \E new \in UNION {[D -> heap'] : D \in SUBSET heap'} : CopyOf(new)'
<1> DEFINE m == [y \in {} |-> y]
<1>1. m \in [DOMAIN m -> heap] /\ DOMAIN m = {}
  OBVIOUS
<1>2. copying = <<>> /\ Copies = {}
  BY DEF BeginCopy, Idle, Copies
<1> HIDE DEF m
<1>3. CopyOf(m)
  BY <1>1, <1>2, NoMirror DEF CopyOf
<1>4. a \in heap \ DOMAIN m /\ c \in Atoms \ heap
  BY <1>1, ArrayAssumption DEF BeginCopy, IsArray
<1>5. copying' = <<[from |-> a, to |-> c]>> \o copying
  BY <1>2, ConcatEmptySeq DEF BeginCopy
<1> QED
  BY <1>2, <1>3, <1>4, <1>5, CopyBegins DEF BeginCopy

LEMMA CopyArrayMirror ==
  ASSUME ArrayInv, NEW m, CopyOf(m), NEW c \in Atoms, CopyArray(c)
  PROVE  \E new \in UNION {[D -> heap'] : D \in SUBSET heap'} : CopyOf(new)'
<1>1. copying # <<>> /\ ~Finished
  BY DEF CopyArray
<1>2. current \in heap \ DOMAIN m /\ current \in Arrays /\ Len(elements[to]) < Len(elements[from])
  BY <1>1, NextElement DEF CopyArray
<1>3. current = elements[from][Len(elements[to]) + 1]
  BY DEF current
<1>4. /\ c \in Arrays \ heap /\ heap' = heap \cup {c} /\ UNCHANGED <<held, elements>>
      /\ copying' = <<[from |-> current, to |-> c]>> \o copying
  BY DEF CopyArray
<1> QED
  BY <1>1, <1>2, <1>3, <1>4, CopyBegins

LEMMA CopyLeafMirror ==
  ASSUME ArrayInv, NEW m, CopyOf(m), NEW c \in Atoms, CopyLeaf(c)
  PROVE  \E new \in UNION {[D -> heap'] : D \in SUBSET heap'} : CopyOf(new)'
<1>o. PICK o : o = current
  OBVIOUS
<1> DEFINE new == [y \in DOMAIN m \cup {c} |-> IF y = c THEN o ELSE m[y]]
<1>1. copying # <<>> /\ ~Finished /\ current \notin Arrays /\ c \notin heap \cup Arrays
  BY DEF CopyLeaf
<1>2. /\ to \in Copies \cap Arrays /\ to \in DOMAIN m /\ m[to] = from
      /\ from \in (heap \cap Arrays) \ DOMAIN m
      /\ Len(elements[to]) < Len(elements[from]) /\ current \in heap \ DOMAIN m
  BY <1>1, NextElement
<1>3. /\ heap' = heap \cup {c} /\ copying' = copying
      /\ elements' = [elements EXCEPT ![to] = Append(@, c)]
  BY DEF CopyLeaf, add
<1>4. Copies' = Copies
  BY <1>3 DEF Copies
<1>5. /\ m \in [DOMAIN m -> heap] /\ DOMAIN m \subseteq heap
      /\ Mirrors(elements, Copies, m) /\ Nested(elements, copying, m)
  BY DEF CopyOf
<1>6. /\ DOMAIN new = DOMAIN m \cup {c} /\ new[c] = o
      /\ \A y \in DOMAIN m : new[y] = m[y] /\ m[y] # c
      /\ new \in [DOMAIN new -> heap'] /\ DOMAIN new \subseteq heap'
  BY <1>1, <1>2, <1>3, <1>5, <1>o
<1>a. o = current /\ o = elements[from][Len(elements[to]) + 1]
  BY <1>o DEF current
<1> HIDE DEF new
<1>7. Mirrors(elements, Copies \cup {c}, new)
  <2>1. o # c /\ o \notin DOMAIN m /\ (c \in Arrays <=> o \in Arrays) /\ c \notin DOMAIN m /\ new[c] = o
    BY <1>1, <1>2, <1>5, <1>6, <1>a
  <2> QED
    BY <1>1, <1>5, <1>6, <2>1, MirrorMade
<1>8. elements \in [Arrays -> Seq(heap \cup {c})] /\ Owned(heap, held \cup Copies, elements)
  <2>1. Owned(heap, held \cup Copies, elements)
    BY DEF ArrayInv, Forest
  <2>2. ASSUME NEW y \in Arrays PROVE elements[y] \in Seq(heap \cup {c})
    <3>1. elements[y] \in Seq(heap)
      BY <2>1 DEF Owned
    <3> QED
      BY <3>1, SeqMonotonic
  <2> QED
    BY <2>1, <2>2 DEF Owned
<1>b. c \notin Copies
  BY <1>1, <1>8 DEF Owned
<1>9. Mirrors(elements', Copies, new)
  <2>1. /\ c # to /\ to \in Copies \cup {c} /\ (Copies \cup {c}) \ {c} = Copies
        /\ new[to] = from /\ new[c] = elements[new[to]][Len(elements[to]) + 1]
        /\ Len(elements[to]) < Len(elements[new[to]])
        /\ to \in (Copies \cup {c}) \cap Arrays /\ c \in Copies \cup {c} /\ c \in heap \cup {c}
    BY <1>1, <1>2, <1>6, <1>a, <1>b
  <2>2. Mirrors(elements', (Copies \cup {c}) \ {c}, new)
    BY <1>1, <1>3, <1>7, <1>8, <2>1, MirrorAdded
  <2> QED
    BY <2>1, <2>2
<1>10. Nested(elements', copying', new)
  <2> SUFFICES ASSUME NEW i \in DOMAIN copying
               PROVE  /\ new[copying[i].to] = copying[i].from
                      /\ i > 1 =>
                           /\ Len(elements'[copying[i].to]) < Len(elements'[copying[i].from])
                           /\ copying[i - 1].from
                                = elements'[copying[i].from][Len(elements'[copying[i].to]) + 1]
    BY <1>3 DEF Nested
  <2>1. copying[i].to \in DOMAIN m /\ new[copying[i].to] = copying[i].from
    BY <1>5, <1>6 DEF Nested, Mirrors, Copies
  <2>2. ASSUME i > 1
        PROVE  elements'[copying[i].to] = elements[copying[i].to]
               /\ elements'[copying[i].from] = elements[copying[i].from]
    <3>1. 1 \in DOMAIN copying /\ to = copying[1].to /\ copying \in Seq(Frame)
      BY <1>1, NextElement, Constructors DEF ArrayInv, Calls
    <3>2. copying[i].to # to
      <4>1. \A j, k \in DOMAIN copying : copying[j].to = copying[k].to => j = k
        BY DEF ArrayInv, Calls
      <4>2. i # 1
        BY <2>2
      <4> QED
        BY <3>1, <4>1, <4>2
    <3>3. copying[i].from # to
      <4>1. copying[i].from \notin DOMAIN m
        BY <1>5, <2>1 DEF Nested, Mirrors
      <4> QED
        BY <1>2, <4>1
    <3>4. copying[i].to \in Arrays /\ copying[i].from \in Arrays
      <4>1. copying[i] \in Frame
        BY <3>1, ElementOfSeq, LenProperties
      <4> QED
        BY <4>1 DEF Frame
    <3> QED
      BY <1>3, <1>8, <3>2, <3>3, <3>4
  <2> QED
    BY <1>5, <2>1, <2>2 DEF Nested
<1>11. CopyOf(new)'
  BY <1>3, <1>4, <1>6, <1>9, <1>10 DEF CopyOf
<1> QED
  BY <1>6, <1>11

LEMMA NestedReturnsMirror ==
  ASSUME ArrayInv, NEW m, CopyOf(m), NestedReturns
  PROVE  \E new \in UNION {[D -> heap'] : D \in SUBSET heap'} : CopyOf(new)'
<1>1. /\ Calls /\ copying \in Seq(Frame) /\ Len(copying) > 1 /\ Finished
      /\ Owned(heap, held \cup Copies, elements) /\ elements \in [Arrays -> Seq(heap)]
  BY DEF ArrayInv, Forest, Calls, Owned, NestedReturns
<1>2. /\ copying # <<>> /\ Len(copying) \in Nat /\ DOMAIN copying = 1..Len(copying)
      /\ 1 \in DOMAIN copying /\ 2 \in DOMAIN copying
      /\ copying' = Tail(copying)
      /\ DOMAIN copying' = 1..Len(copying) - 1
      /\ \A i \in DOMAIN copying' : copying'[i] = copying[i + 1]
  <2>1. copying # <<>> /\ Len(copying) \in Nat /\ DOMAIN copying = 1..Len(copying)
    BY <1>1, LenProperties, EmptySeq, SMT
  <2>2. copying' = Tail(copying)
    BY DEF NestedReturns
  <2>3. Tail(copying) \in Seq(Frame) /\ Len(Tail(copying)) = Len(copying) - 1
        /\ \A i \in 1..Len(Tail(copying)) : Tail(copying)[i] = copying[i + 1]
    BY <1>1, <2>1, HeadTailProperties
  <2>4. DOMAIN Tail(copying) = 1..Len(copying) - 1
    BY <2>3, LenProperties
  <2> QED
    BY <1>1, <2>1, <2>2, <2>3, <2>4
<1>t. PICK t : t = copying[2].to
  OBVIOUS
<1>3. /\ to \in Copies \cap Arrays /\ m[to] = from /\ to = copying[1].to
      /\ Copies' = Copies \ {to} /\ from = copying[1].from
  <2>1. from = copying[1].from
    BY <1>1, <1>2, HeadTailProperties DEF from
  <2> QED
    BY <1>1, <1>2, <2>1, NextElement, Constructors
<1>4. /\ t \in Copies \cap Arrays /\ t # to
  <2>1. \A j, k \in DOMAIN copying : copying[j].to = copying[k].to => j = k
    BY <1>1 DEF Calls
  <2>2. t # to
    BY <1>2, <1>3, <1>t, <2>1
  <2> QED
    BY <1>1, <1>2, <1>t, <2>2, Constructors DEF Copies
<1>5. /\ m \in [DOMAIN m -> heap] /\ DOMAIN m \subseteq heap
      /\ Mirrors(elements, Copies, m) /\ Nested(elements, copying, m)
  BY DEF CopyOf
<1>6. /\ heap' = heap /\ elements' = [elements EXCEPT ![t] = Append(@, to)]
  BY <1>t DEF NestedReturns
<1>7. /\ Len(elements[t]) < Len(elements[m[t]]) /\ m[to] = elements[m[t]][Len(elements[t]) + 1]
      /\ m[t] = copying[2].from
  <2>1. 2 > 1 /\ 2 - 1 = 1
    OBVIOUS
  <2>2. /\ m[copying[2].to] = copying[2].from
        /\ Len(elements[copying[2].to]) < Len(elements[copying[2].from])
        /\ copying[2 - 1].from = elements[copying[2].from][Len(elements[copying[2].to]) + 1]
    BY <1>2, <1>5, <2>1 DEF Nested
  <2> QED
    BY <1>3, <1>t, <2>1, <2>2
<1>8. Len(elements[to]) = Len(elements[m[to]])
  BY <1>1, <1>3 DEF Finished
<1>9. Mirrors(elements', Copies', m)
  <2>1. to \in heap
    BY <1>1, <1>3 DEF Owned
  <2> QED
    BY <1>1, <1>3, <1>4, <1>5, <1>6, <1>7, <1>8, <2>1, MirrorAdded
<1>10. Nested(elements', copying', m)
  <2> SUFFICES ASSUME NEW i \in DOMAIN copying'
               PROVE  /\ m[copying'[i].to] = copying'[i].from
                      /\ i > 1 =>
                           /\ Len(elements'[copying'[i].to]) < Len(elements'[copying'[i].from])
                           /\ copying'[i - 1].from
                                = elements'[copying'[i].from][Len(elements'[copying'[i].to]) + 1]
    BY DEF Nested
  <2>1. i + 1 \in DOMAIN copying /\ copying'[i] = copying[i + 1] /\ (i + 1) - 1 = i
    BY <1>2
  <2>2. m[copying[i + 1].to] = copying[i + 1].from
    BY <1>5, <2>1 DEF Nested
  <2>3. ASSUME i > 1
        PROVE  /\ elements'[copying'[i].to] = elements[copying[i + 1].to]
               /\ elements'[copying'[i].from] = elements[copying[i + 1].from]
               /\ copying'[i - 1] = copying[(i + 1) - 1]
    <3>1. i - 1 \in DOMAIN copying' /\ (i - 1) + 1 = (i + 1) - 1 /\ i + 1 # 2
      BY <1>2, <2>3
    <3>2. copying[i + 1].to # t
      <4>1. \A j, k \in DOMAIN copying : copying[j].to = copying[k].to => j = k
        BY <1>1 DEF Calls
      <4> QED
        BY <1>2, <1>t, <2>1, <3>1, <4>1
    <3>3. copying[i + 1].from # t
      <4>1. copying[i + 1].to \in DOMAIN m /\ t \in DOMAIN m
        BY <1>4, <1>5, <2>1 DEF Mirrors, Copies
      <4> QED
        BY <1>5, <2>2, <4>1 DEF Mirrors
    <3>4. copying[i + 1].to \in Arrays /\ copying[i + 1].from \in Arrays
      <4>1. copying[i + 1] \in Frame
        BY <1>1, <1>2, <2>1, ElementOfSeq
      <4> QED
        BY <4>1 DEF Frame
    <3> QED
      BY <1>1, <1>2, <1>6, <2>1, <3>1, <3>2, <3>3, <3>4
  <2>4. i > 1 => /\ Len(elements[copying[i + 1].to]) < Len(elements[copying[i + 1].from])
                 /\ copying[(i + 1) - 1].from
                      = elements[copying[i + 1].from][Len(elements[copying[i + 1].to]) + 1]
    BY <1>2, <1>5, <2>1 DEF Nested
  <2> QED
    BY <2>1, <2>2, <2>3, <2>4
<1>11. CopyOf(m)'
  BY <1>5, <1>6, <1>9, <1>10 DEF CopyOf
<1> QED
  BY <1>5, <1>6, <1>11

LEMMA CopyInvInductive ==
  /\ Init => CopyInv
  /\ CopyInv /\ [Next]_vars => CopyInv'
<1>1. ASSUME Init PROVE CopyInv
  <2> DEFINE m == [y \in {} |-> y]
  <2>1. m \in [{} -> heap] /\ DOMAIN m = {} /\ {} \in SUBSET heap
    OBVIOUS
  <2>2. copying = <<>> /\ Copies = {}
    BY <1>1 DEF Init, Copies
  <2> HIDE DEF m
  <2>3. CopyOf(m)
    BY <2>1, <2>2, NoMirror DEF CopyOf
  <2> QED
    BY <1>1, <2>1, <2>3, ArrayInvInductive DEF CopyInv
<1>2. ASSUME CopyInv, [Next]_vars PROVE CopyInv'
  <2>1. ArrayInv /\ ArrayInv'
    BY <1>2, ArrayInvInductive DEF CopyInv
  <2>2. PICK m \in UNION {[D -> heap] : D \in SUBSET heap} : CopyOf(m)
    BY <1>2 DEF CopyInv
  <2>3. CASE copying' = <<>>
    BY <2>1, <2>3, NoCopies DEF CopyInv
  <2>4. CASE UNCHANGED vars
    <3>1. CopyOf(m)'
      BY <2>2, <2>4 DEF vars, CopyOf, Copies
    <3> QED
      BY <2>1, <2>2, <2>4, <3>1 DEF CopyInv, vars
  <2>5. ASSUME NEW a \in Arrays, NEW c \in Arrays, BeginCopy(a, c) PROVE CopyInv'
    BY <2>1, <2>5, BeginCopyMirror DEF CopyInv
  <2>6. ASSUME NEW c \in Atoms, CopyLeaf(c) \/ CopyArray(c) PROVE CopyInv'
    BY <2>1, <2>2, <2>6, CopyLeafMirror, CopyArrayMirror DEF CopyInv
  <2>7. CASE NestedReturns
    BY <2>1, <2>2, <2>7, NestedReturnsMirror DEF CopyInv
  <2>8. CASE CopyThrows \/ CopyReturns
    BY <2>3, <2>8 DEF CopyThrows, CopyReturns
  <2>9. ASSUME NEW x \in Atoms, New(x) \/ Drop(x) PROVE CopyInv'
    BY <2>3, <2>9 DEF New, Drop, Idle
  <2>10. ASSUME NEW a \in Atoms, NEW x \in Atoms, Add(a, x) \/ AddValue(a, x) \/ DelAtom(a, x)
         PROVE  CopyInv'
    BY <2>3, <2>10 DEF Add, AddValue, DelAtom, Idle
  <2>11. ASSUME NEW a \in Arrays, NEW i \in 0..Len(elements[a]), DelAt(a, i) PROVE CopyInv'
    BY <2>3, <2>11 DEF DelAt, Idle
  <2> QED
    BY <1>2, <2>4, <2>5, <2>6, <2>7, <2>8, <2>9, <2>10, <2>11 DEF Next
<1> QED
  BY <1>1, <1>2

\* What m says of the whole tree once a constructor is done.
LEMMA MirrorComplete ==
  ASSUME ArrayInv, NEW m, CopyOf(m), copying # <<>>, Finished
  PROVE  SameForm(to, from) /\ Subtree(to) \cap Subtree(from) = {}
<1>1. /\ to \in Copies \cap Arrays /\ to \in DOMAIN m /\ m[to] = from
      /\ from \in (heap \cap Arrays) \ DOMAIN m
  BY NextElement
<1>2. /\ Forest /\ Owned(heap, held \cup Copies, elements)
      /\ DOMAIN m \subseteq heap /\ Mirrors(elements, Copies, m)
  BY DEF ArrayInv, Forest, CopyOf
<1>3. /\ to \in Subtree(to) /\ Subtree(to) \subseteq heap
      /\ \A a \in Subtree(to) \cap Arrays : \A i \in DOMAIN elements[a] :
           elements[a][i] \in Subtree(to)
      /\ \A y \in Subtree(to) \ {to} : HasSlot(elements, Subtree(to) \cap Arrays, y)
  BY <1>1, <1>2, SubtreeFacts
<1>4. /\ from \in Subtree(from) /\ Subtree(from) \subseteq heap
      /\ \A a \in Subtree(from) \cap Arrays : \A i \in DOMAIN elements[a] :
           elements[a][i] \in Subtree(from)
  BY <1>1, <1>2, SubtreeFacts
<1>5. \A x, S : x \in S /\ S \subseteq heap /\ OwnsItsElements(S) => Subtree(x) \subseteq S
  BY DEF Subtree
<1>6. Subtree(to) \subseteq {y \in DOMAIN m : m[y] \in Subtree(from)}
  <2> DEFINE S == {y \in DOMAIN m : m[y] \in Subtree(from)}
  <2>1. to \in S /\ S \subseteq heap
    BY <1>1, <1>2, <1>4
  <2>2. ASSUME NEW y \in S \cap Arrays, NEW x \in heap, IsElement(y, x)
        PROVE  x \in S
    <3>1. PICK i \in DOMAIN elements[y] : elements[y][i] = x
      BY <2>2 DEF IsElement
    <3>2. /\ x \in DOMAIN m /\ m[x] = elements[m[y]][i] /\ m[y] \in Arrays
          /\ Len(elements[y]) <= Len(elements[m[y]])
      BY <1>2, <3>1 DEF Mirrors
    <3>3. i \in DOMAIN elements[m[y]]
      <4>1. elements[y] \in Seq(heap) /\ elements[m[y]] \in Seq(heap)
        BY <1>2, <3>2 DEF Owned
      <4>2. DOMAIN elements[y] = 1..Len(elements[y]) /\ Len(elements[y]) \in Nat
            /\ DOMAIN elements[m[y]] = 1..Len(elements[m[y]]) /\ Len(elements[m[y]]) \in Nat
        BY <4>1, LenProperties
      <4> QED
        BY <3>1, <3>2, <4>2
    <3> QED
      BY <1>4, <3>2, <3>3
  <2>3. OwnsItsElements(S)
    BY <2>2 DEF OwnsItsElements
  <2> HIDE DEF S
  <2>4. Subtree(to) \subseteq S
    BY <1>5, <2>1, <2>3
  <2> QED
    BY <2>4 DEF S
<1>7. Subtree(from) \subseteq heap \ DOMAIN m
  <2> DEFINE S == heap \ DOMAIN m
  <2>1. ASSUME NEW y \in S \cap Arrays, NEW x \in heap, IsElement(y, x)
        PROVE  x \in S
    <3> SUFFICES ASSUME x \in DOMAIN m PROVE FALSE
      OBVIOUS
    <3>1. PICK i \in DOMAIN elements[y] : elements[y][i] = x
      BY <2>1 DEF IsElement
    <3>2. x \notin Copies
      BY <1>2, <3>1 DEF Owned
    <3>3. PICK a \in DOMAIN m \cap Arrays : \E j \in DOMAIN elements[a] : elements[a][j] = x
      BY <1>2, <3>2 DEF Mirrors, HasSlot
    <3> QED
      BY <1>2, <3>1, <3>3 DEF Owned
  <2>2. OwnsItsElements(S)
    BY <2>1 DEF OwnsItsElements
  <2> QED
    BY <1>1, <1>5, <2>2
<1>8. \A y \in Subtree(to) \ {to} : y \notin Copies
  BY <1>2, <1>3 DEF Owned, HasSlot
<1> DEFINE new == [y \in Subtree(to) |-> m[y]]
<1>9. new \in [Subtree(to) -> Subtree(from)] /\ new[to] = from
  BY <1>1, <1>3, <1>6
<1>10. ASSUME NEW z \in Subtree(to)
       PROVE  /\ z \in Arrays <=> new[z] \in Arrays
              /\ z \in Arrays =>
                   /\ Len(elements[z]) = Len(elements[new[z]])
                   /\ \A i \in DOMAIN elements[z] : new[elements[z][i]] = elements[new[z]][i]
  <2>1. z \in DOMAIN m /\ new[z] = m[z]
    BY <1>6
  <2>2. /\ z \in Arrays <=> m[z] \in Arrays
        /\ z \in Arrays =>
             /\ z \in Copies \/ Len(elements[z]) = Len(elements[m[z]])
             /\ \A i \in DOMAIN elements[z] : m[elements[z][i]] = elements[m[z]][i]
    BY <1>2, <2>1 DEF Mirrors
  <2>3. z \in Arrays => Len(elements[z]) = Len(elements[m[z]])
    BY <1>1, <1>8, <2>2 DEF Finished
  <2>4. z \in Arrays => \A i \in DOMAIN elements[z] : new[elements[z][i]] = m[elements[z][i]]
    BY <1>3
  <2> QED
    BY <2>1, <2>2, <2>3, <2>4
<1> HIDE DEF new
<1>11. SameForm(to, from)
  BY <1>9, <1>10 DEF SameForm
<1> QED
  BY <1>6, <1>7, <1>11

\* When a copy constructor is done, at any depth, what it made has the form of
\* the original all the way down and no atom in common with it (array_t::clone).
THEOREM CopiesAreAlike == Spec => []CopiesHaveTheShape
<1>1. CopyInv => CopiesHaveTheShape
  BY MirrorComplete DEF CopyInv, CopiesHaveTheShape
<1> QED
  BY <1>1, CopyInvInductive, PTL DEF Spec
=============================================================================
