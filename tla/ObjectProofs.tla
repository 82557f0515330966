---------------------------- MODULE ObjectProofs ----------------------------
(***************************************************************************)
(* Theorems about ObjectAtom for every set of objects, keys and atoms.     *)
(***************************************************************************)
EXTENDS ObjectAtom, SequenceTheorems, TLAPS

-----------------------------------------------------------------------------
(***************************************************************************)
(* What Append and RemoveAt, the two ways the keys of an object change, do *)
(* to a sequence and to the order in it.                                   *)
(***************************************************************************)

\* Where the elements of a sequence are once the i-th is removed.
LEMMA RemoveAtElements ==
  ASSUME NEW S, NEW s \in Seq(S), NEW i \in DOMAIN s
  PROVE  /\ RemoveAt(s, i) \in Seq(S)
         /\ Len(RemoveAt(s, i)) = Len(s) - 1
         /\ \A j \in 1..Len(s) - 1 : RemoveAt(s, i)[j] = IF j < i THEN s[j] ELSE s[j + 1]
<1>1. Len(s) \in Nat /\ i \in 1..Len(s) /\ \A j \in 1..Len(s) : s[j] \in S
  BY LenProperties, ElementOfSeq
<1> DEFINE front == SubSeq(s, 1, i - 1)  back == SubSeq(s, i + 1, Len(s))
<1>2. front \in Seq(S) /\ Len(front) = i - 1 /\ \A j \in 1..i - 1 : front[j] = s[j]
  BY <1>1, SMT
<1>3. back \in Seq(S) /\ Len(back) = Len(s) - i /\ \A j \in 1..Len(s) - i : back[j] = s[i + j]
  BY <1>1, SMT
<1>4. RemoveAt(s, i) = front \o back
  BY DEF RemoveAt
<1>5. /\ front \o back \in Seq(S)
      /\ Len(front \o back) = Len(front) + Len(back)
      /\ \A j \in 1..Len(front) + Len(back) :
           (front \o back)[j] = IF j <= Len(front) THEN front[j] ELSE back[j - Len(front)]
  BY <1>2, <1>3, ConcatProperties
<1> HIDE DEF front, back
<1>6. /\ RemoveAt(s, i) \in Seq(S)
      /\ Len(RemoveAt(s, i)) = Len(s) - 1
  BY <1>1, <1>2, <1>3, <1>4, <1>5, SMT
<1>7. ASSUME NEW j \in 1..Len(s) - 1
      PROVE  RemoveAt(s, i)[j] = IF j < i THEN s[j] ELSE s[j + 1]
  <2>1. RemoveAt(s, i)[j] = IF j <= i - 1 THEN front[j] ELSE back[j - (i - 1)]
    <3>1. j \in 1..Len(front) + Len(back) /\ Len(front) = i - 1
      BY <1>1, <1>2, <1>3, SMT
    <3> QED
      BY <3>1, <1>4, <1>5
  <2>2. CASE j < i
    BY <2>1, <2>2, <1>1, <1>2, SMT
  <2>3. CASE ~(j < i)
    <3>1. j - (i - 1) \in 1..Len(s) - i /\ i + (j - (i - 1)) = j + 1 /\ ~(j <= i - 1)
      BY <2>3, <1>1, SMT
    <3> QED
      BY <3>1, <2>1, <2>3, <1>3
  <2> QED
    BY <2>2, <2>3
<1> QED
  BY <1>6, <1>7

\* What is appended comes after everything.
LEMMA AppendOrder ==
  ASSUME NEW T, NEW s \in Seq(T), NEW n \in T, NEW x, NEW y, Before(s, x, y)
  PROVE  Before(Append(s, n), x, y)
<1>1. /\ DOMAIN s \subseteq DOMAIN Append(s, n)
      /\ \A j \in DOMAIN s : Append(s, n)[j] = s[j]
  BY LenProperties, AppendProperties, SMT
<1> QED
  BY <1>1 DEF Before

\* The elements around the removed one stay in order.
LEMMA RemoveOrder ==
  ASSUME NEW T, NEW s \in Seq(T), NEW i \in DOMAIN s,
         NEW x, NEW y, x # s[i], y # s[i], Before(s, x, y)
  PROVE  Before(RemoveAt(s, i), x, y)
<1> DEFINE t == RemoveAt(s, i)  new(m) == IF m < i THEN m ELSE m - 1
<1>1. PICK j, k \in DOMAIN s : j < k /\ s[j] = x /\ s[k] = y
  BY DEF Before
<1>2. j # i /\ k # i
  BY <1>1
<1>3. /\ Len(s) \in Nat /\ DOMAIN s = 1..Len(s) /\ DOMAIN t = 1..Len(s) - 1
      /\ \A m \in 1..Len(s) - 1 : t[m] = IF m < i THEN s[m] ELSE s[m + 1]
  <2>1. /\ t \in Seq(T) /\ Len(t) = Len(s) - 1
        /\ \A m \in 1..Len(s) - 1 : t[m] = IF m < i THEN s[m] ELSE s[m + 1]
    BY RemoveAtElements
  <2> HIDE DEF t
  <2>2. /\ Len(s) \in Nat /\ DOMAIN s = 1..Len(s) /\ DOMAIN t = 1..Len(t)
    BY <2>1, LenProperties
  <2> QED
    BY <2>1, <2>2
<1> HIDE DEF t
<1>4. ASSUME NEW m \in DOMAIN s, m # i
      PROVE  new(m) \in DOMAIN t /\ t[new(m)] = s[m]
  <2>1. CASE m < i
    BY <1>3, <1>4, <2>1, SMT
  <2>2. CASE ~(m < i)
    <3>1. new(m) \in 1..Len(s) - 1 /\ ~(new(m) < i) /\ new(m) + 1 = m
      BY <1>3, <1>4, <2>2, SMT
    <3> QED
      BY <3>1, <1>3
  <2> QED
    BY <2>1, <2>2
<1>5. new(j) < new(k)
  BY <1>1, <1>2, <1>3, SMT
<1>6. new(j) \in DOMAIN t /\ new(k) \in DOMAIN t /\ t[new(j)] = x /\ t[new(k)] = y
  BY <1>1, <1>2, <1>4
<1> HIDE DEF new
<1> QED
  BY <1>5, <1>6 DEF Before, t

-----------------------------------------------------------------------------

\* No key has a NUL inside: each reads through c_str() as itself.
NulFree == \A k \in Keys : CStr[k] = k

\* The map holds one node for a key.
UniqueKeys == \A o \in Objects : \A n, m \in children[o] : n.key = m.key => n = m

\* Who owns what, and what points where; the calls in progress are apart.
DataOK ==
  /\ heap \subseteq Atoms /\ held \subseteq heap
  /\ children \in [Objects -> SUBSET Node]
  /\ mapKeys \in [Objects -> Seq(Node)]

Sound == DataOK /\ UniqueKeys /\ KeysListed /\ OneOwner

(***************************************************************************)
(* Listings.                                                               *)
(***************************************************************************)

\* Appending a new element, or removing the i-th, keeps a listing one.
LEMMA AppendListing ==
  ASSUME NEW T, NEW s \in Seq(T), NEW S, NEW n \in T, n \notin S, Listing(s, S)
  PROVE  Listing(Append(s, n), S \cup {n})
<1>1. /\ Len(s) \in Nat /\ DOMAIN s = 1..Len(s)
      /\ DOMAIN Append(s, n) = 1..Len(s) + 1
      /\ \A j \in 1..Len(s) : Append(s, n)[j] = s[j]
      /\ Append(s, n)[Len(s) + 1] = n
  BY LenProperties, AppendProperties, SMT
<1> QED
  BY <1>1, SMT DEF Listing

LEMMA RemoveListing ==
  ASSUME NEW T, NEW s \in Seq(T), NEW S, NEW i \in DOMAIN s, Listing(s, S)
  PROVE  Listing(RemoveAt(s, i), S \ {s[i]})
<1> DEFINE t == RemoveAt(s, i)
<1>1. Len(s) \in Nat /\ DOMAIN s = 1..Len(s) /\ i \in 1..Len(s)
  BY LenProperties
<1>2. /\ t \in Seq(T) /\ DOMAIN t = 1..Len(s) - 1
      /\ \A j \in 1..Len(s) - 1 : t[j] = IF j < i THEN s[j] ELSE s[j + 1]
  BY RemoveAtElements, LenProperties
<1> HIDE DEF t
<1>3. \A n \in S \ {s[i]} : \E j \in DOMAIN t : t[j] = n
  <2> TAKE n \in S \ {s[i]}
  <2>1. PICK j \in 1..Len(s) : s[j] = n
    BY <1>1 DEF Listing
  <2>2. j < i \/ j > i
    BY <2>1, <1>1, SMT
  <2>3. CASE j < i
    BY <2>1, <2>3, <1>1, <1>2, SMT
  <2>4. CASE j > i
    <3>1. j - 1 \in 1..Len(s) - 1 /\ ~(j - 1 < i) /\ (j - 1) + 1 = j
      BY <2>1, <2>4, <1>1, SMT
    <3> QED
      BY <3>1, <2>1, <1>2
  <2> QED
    BY <2>2, <2>3, <2>4
<1>4. \A j \in DOMAIN t : t[j] \in S \ {s[i]}
  BY <1>1, <1>2, SMT DEF Listing
<1>5. ASSUME NEW j \in DOMAIN t, NEW k \in DOMAIN t, t[j] = t[k]
      PROVE  j = k
  <2> DEFINE old(m) == IF m < i THEN m ELSE m + 1
  <2>1. /\ old(j) \in DOMAIN s /\ old(k) \in DOMAIN s
        /\ old(j) = old(k) => j = k
    BY <1>1, <1>2, SMT
  <2>2. t[j] = s[old(j)] /\ t[k] = s[old(k)]
    BY <1>2
  <2> QED
    BY <1>5, <2>1, <2>2 DEF Listing
<1> QED
  BY <1>3, <1>4, <1>5 DEF Listing, t

(***************************************************************************)
(* What calls do to the objects keeps them sound.                          *)
(***************************************************************************)

\* The application's atoms come and go.
LEMMA HeldStep ==
  ASSUME Sound, UNCHANGED <<children, mapKeys>>,
         heap' \subseteq Atoms, held' \subseteq heap', heap' \ held' = heap \ held
  PROVE  Sound'
<1>1. \A o \in Objects : AtomsOf(o)' = AtomsOf(o)
  BY DEF AtomsOf
<1>2. DataOK' /\ UniqueKeys' /\ KeysListed'
  BY DEF Sound, DataOK, UniqueKeys, KeysListed
<1>3. \A o \in Objects : AtomsOf(o) \cap held = {} /\ AtomsOf(o) \subseteq heap \ held
  BY DEF Sound, OneOwner
<1>4. \A o \in Objects : AtomsOf(o)' \cap held' = {}
  BY <1>1, <1>3
<1>5. heap' = held' \cup UNION {AtomsOf(o)' : o \in Objects}
  <2>1. heap \ held = UNION {AtomsOf(o) : o \in Objects}
    BY <1>3 DEF Sound, OneOwner
  <2> QED
    BY <1>1, <2>1
<1>6. OneOwner'
  BY <1>4, <1>5 DEF Sound, OneOwner
<1> QED
  BY <1>2, <1>6 DEF Sound

\* A node is added to an object whose key it has not, with an atom of the
\* application's or a new one.
LEMMA AddStep ==
  ASSUME Sound, NEW o \in Objects, NEW k \in Keys, NEW a \in Atoms,
         ~exists(o, k), a \in held \/ a \notin heap, add(o, k, a),
         heap' = heap \cup {a}, held' = held \ {a}
  PROVE  Sound'
<1> DEFINE n == [key |-> k, atom |-> a]
<1>1. n \in Node /\ n.key = k /\ n.atom = a
  BY DEF Node
<1>2. \A p \in Objects : /\ children[p] \subseteq Node /\ mapKeys[p] \in Seq(Node)
                         /\ AtomsOf(p) \subseteq heap \ held
  BY DEF Sound, DataOK, OneOwner
<1>3. /\ children' = [children EXCEPT ![o] = @ \cup {n}]
      /\ mapKeys' = [mapKeys EXCEPT ![o] = Append(@, n)]
  BY DEF add
<1>4. /\ \A p \in Objects : children'[p] = IF p = o THEN children[p] \cup {n} ELSE children[p]
      /\ \A p \in Objects : mapKeys'[p] = IF p = o THEN Append(mapKeys[p], n) ELSE mapKeys[p]
  BY <1>3 DEF Sound, DataOK
<1>5. Append(mapKeys[o], n) \in Seq(Node)
  BY <1>1, <1>2, AppendProperties
<1>6. /\ \A m \in children[o] : m.key # k
      /\ \A p \in Objects : \A m \in children[p] : m.atom # a
      /\ n \notin children[o]
  BY <1>1, <1>2 DEF exists, find, AtomsOf
<1> HIDE DEF n
<1>7. DataOK'
  BY <1>1, <1>2, <1>3, <1>5 DEF Sound, DataOK
<1>8. ASSUME NEW p \in Objects, NEW x \in children'[p], NEW y \in children'[p], x.key = y.key
      PROVE  x = y
  <2>1. CASE p = o
    <3>1. x \in children[o] \cup {n} /\ y \in children[o] \cup {n}
      BY <2>1, <1>4
    <3>2. \A m \in children[o] : m.key # n.key
      BY <1>1, <1>6
    <3>3. \A m, l \in children[o] : m.key = l.key => m = l
      BY DEF Sound, UniqueKeys
    <3> QED
      BY <3>1, <3>2, <3>3, <1>8
  <2>2. CASE p # o
    BY <2>2, <1>4, <1>8 DEF Sound, UniqueKeys
  <2> QED
    BY <2>1, <2>2
<1>9. KeysListed'
  <2>1. Listing(Append(mapKeys[o], n), children[o] \cup {n})
    BY <1>1, <1>2, <1>6, AppendListing DEF Sound, KeysListed
  <2> QED
    BY <2>1, <1>4 DEF Sound, KeysListed
<1>10. OneOwner'
  <2>1. \A p \in Objects : AtomsOf(p)' = IF p = o THEN AtomsOf(p) \cup {a} ELSE AtomsOf(p)
    BY <1>1, <1>4 DEF AtomsOf
  <2>2. \A p \in Objects : AtomsOf(p)' \cap held' = {}
    BY <2>1, <1>2
  <2>3. heap' = held' \cup UNION {AtomsOf(p)' : p \in Objects}
    <3>1. heap = held \cup UNION {AtomsOf(p) : p \in Objects}
      BY DEF Sound, OneOwner
    <3>2. UNION {AtomsOf(p)' : p \in Objects} = {a} \cup UNION {AtomsOf(p) : p \in Objects}
      BY <2>1
    <3> QED
      BY <3>1, <3>2
  <2>4. ASSUME NEW p \in Objects, NEW q \in Objects, NEW x \in children'[p],
               NEW y \in children'[q], x.atom = y.atom
        PROVE  p = q /\ x = y
    <3>1. x \in children[p] \/ (p = o /\ x = n)
      <4>1. x \in IF p = o THEN children[p] \cup {n} ELSE children[p]
        BY <1>4, <2>4
      <4> QED
        BY <4>1
    <3>2. y \in children[q] \/ (q = o /\ y = n)
      <4>1. y \in IF q = o THEN children[q] \cup {n} ELSE children[q]
        BY <1>4, <2>4
      <4> QED
        BY <4>1
    <3>3. CASE x \in children[p] /\ y \in children[q]
      BY <2>4, <3>3 DEF Sound, OneOwner
    <3>4. CASE (p = o /\ x = n) \/ (q = o /\ y = n)
      BY <2>4, <3>1, <3>2, <3>4, <1>1, <1>6
    <3> QED
      BY <3>1, <3>2, <3>3, <3>4
  <2> QED
    BY <2>2, <2>3, <2>4 DEF OneOwner
<1>11. UniqueKeys'
  BY <1>8 DEF UniqueKeys
<1> QED
  BY <1>7, <1>9, <1>10, <1>11 DEF Sound

\* Nodes D leave an object together with their atoms and their entries.
LEMMA RemoveStep ==
  ASSUME Sound, NEW o \in Objects, NEW D \in SUBSET children[o], NEW s \in Seq(Node),
         Listing(s, children[o] \ D),
         children' = [children EXCEPT ![o] = @ \ D], mapKeys' = [mapKeys EXCEPT ![o] = s],
         heap' = heap \ {n.atom : n \in D}, UNCHANGED held
  PROVE  Sound'
<1>1. /\ \A p \in Objects : children'[p] = IF p = o THEN children[p] \ D ELSE children[p]
      /\ \A p \in Objects : mapKeys'[p] = IF p = o THEN s ELSE mapKeys[p]
  BY DEF Sound, DataOK
<1>2. \A p \in Objects : AtomsOf(p)' = AtomsOf(p) \ {n.atom : n \in D}
  <2> TAKE p \in Objects
  <2>1. \A x \in children[p], y \in D : x.atom = y.atom => p = o /\ x = y
    BY DEF Sound, OneOwner
  <2>2. AtomsOf(p)' = {n.atom : n \in children'[p]} /\ AtomsOf(p) = {n.atom : n \in children[p]}
    BY DEF AtomsOf
  <2>3. CASE p = o
    <3>1. children'[p] = children[p] \ D
      BY <1>1, <2>3
    <3> QED
      BY <2>1, <2>2, <3>1
  <2>4. CASE p # o
    <3>1. children'[p] = children[p]
      BY <1>1, <2>4
    <3> QED
      BY <2>1, <2>2, <2>4, <3>1
  <2> QED
    BY <2>3, <2>4
<1>3. \A p \in Objects : AtomsOf(p) \cap held = {}
  BY DEF Sound, OneOwner
<1>4. {n.atom : n \in D} \cap held = {}
  BY <1>3 DEF AtomsOf
<1>5. OneOwner'
  <2>1. heap = held \cup UNION {AtomsOf(p) : p \in Objects}
    BY DEF Sound, OneOwner
  <2>2. UNION {AtomsOf(p)' : p \in Objects}
          = (UNION {AtomsOf(p) : p \in Objects}) \ {n.atom : n \in D}
    BY <1>2
  <2>3. heap' = held' \cup UNION {AtomsOf(p)' : p \in Objects}
    BY <2>1, <2>2, <1>4
  <2>4. \A p \in Objects : AtomsOf(p)' \cap held' = {}
    BY <1>2, <1>3
  <2>5. \A p, q \in Objects : \A x \in children'[p], y \in children'[q] :
          x.atom = y.atom => p = q /\ x = y
    BY <1>1 DEF Sound, OneOwner
  <2> QED
    BY <2>3, <2>4, <2>5 DEF OneOwner
<1>6. UniqueKeys'
  BY <1>1 DEF Sound, UniqueKeys
<1>7. KeysListed'
  BY <1>1 DEF Sound, KeysListed
<1>8. DataOK'
  BY <1>1, <1>4 DEF Sound, DataOK
<1> QED
  BY <1>5, <1>6, <1>7, <1>8 DEF Sound

LEMMA DestroyStep ==
  ASSUME Sound, NEW o \in Objects, destroy(o), UNCHANGED held
  PROVE  Sound'
<1>1. Listing(<<>>, {}) /\ <<>> \in Seq(Node)
  BY DEF Listing
<1>2. children[o] \ children[o] = {}
  OBVIOUS
<1>3. /\ children' = [children EXCEPT ![o] = @ \ children[o]]
      /\ mapKeys' = [mapKeys EXCEPT ![o] = <<>>]
      /\ heap' = heap \ {n.atom : n \in children[o]}
  BY <1>2 DEF destroy, AtomsOf
<1> QED
  BY <1>1, <1>2, <1>3, RemoveStep

\* del finds the entry of the node it removes, and reads live keys only.
LEMMA DelShape ==
  ASSUME Sound, NulFree, NEW o \in Objects, NEW k \in Keys, del(o, k)
  PROVE  \/ UNCHANGED <<heap, children, mapKeys, fault>>
         \/ \E i \in DOMAIN mapKeys[o] :
              /\ mapKeys[o][i] \in children[o]
              /\ children' = [children EXCEPT ![o] = @ \ {mapKeys[o][i]}]
              /\ mapKeys' = [mapKeys EXCEPT ![o] = RemoveAt(mapKeys[o], i)]
              /\ heap' = heap \ {x.atom : x \in {mapKeys[o][i]}}
              /\ fault' = "none"
<1>1. CASE k = EmptyKey \/ ~exists(o, k)
  BY <1>1 DEF del
<1>2. CASE ~(k = EmptyKey \/ ~exists(o, k))
  <2>1. PICK n \in children[o] : n.key = k
    BY <1>2 DEF exists, find
  <2>2. find(o, k) = {n}
    BY <2>1 DEF find, Sound, UniqueKeys
  <2>3. \A i \in DOMAIN mapKeys[o] : mapKeys[o][i] \in children[o] /\ mapKeys[o][i] \in Node
    BY DEF Sound, KeysListed, Listing, DataOK
  <2>4. \A i \in matching(o, k) : i \in DOMAIN mapKeys[o] /\ mapKeys[o][i] = n
    <3> TAKE i \in matching(o, k)
    <3>1. i \in DOMAIN mapKeys[o] /\ CStr[mapKeys[o][i].key] = k
      BY DEF matching
    <3>2. mapKeys[o][i].key = k
      BY <3>1, <2>3 DEF NulFree, Node
    <3> QED
      BY <3>1, <3>2, <2>1, <2>3 DEF Sound, UniqueKeys
  <2>5. matching(o, k) # {}
    <3>1. PICK i \in DOMAIN mapKeys[o] : mapKeys[o][i] = n
      BY <2>1 DEF Sound, KeysListed, Listing
    <3> QED
      BY <3>1, <2>1 DEF matching, NulFree
  <2>6. PICK i \in matching(o, k) :
          /\ fault' = IF readsFreed(o, i) THEN "reads a freed key" ELSE "none"
          /\ erase(o, k, i)
    BY <1>2, <2>5 DEF del
  <2>7. mapKeys[o] \in Seq(Node) /\ i \in DOMAIN mapKeys[o] /\ mapKeys[o][i] = n
    BY <2>4 DEF Sound, DataOK
  <2>8. ~readsFreed(o, i)
    <3>1. 1..i \subseteq DOMAIN mapKeys[o]
      BY <2>7, LenProperties, SMT
    <3> QED
      BY <3>1, <2>3 DEF readsFreed
  <2> QED
    BY <2>1, <2>2, <2>6, <2>7, <2>8 DEF erase
<1> QED
  BY <1>1, <1>2

LEMMA DelStep ==
  ASSUME Sound, NulFree, fault = "none", NEW o \in Objects, NEW k \in Keys, del(o, k)
  PROVE  Sound' /\ fault' = "none"
<1>1. CASE UNCHANGED <<heap, children, mapKeys, fault>>
  BY <1>1, HeldStep DEF del, Sound, DataOK
<1>2. ASSUME NEW i \in DOMAIN mapKeys[o], mapKeys[o][i] \in children[o],
             children' = [children EXCEPT ![o] = @ \ {mapKeys[o][i]}],
             mapKeys' = [mapKeys EXCEPT ![o] = RemoveAt(mapKeys[o], i)],
             heap' = heap \ {x.atom : x \in {mapKeys[o][i]}}
      PROVE  Sound'
  <2>1. mapKeys[o] \in Seq(Node) /\ Listing(mapKeys[o], children[o])
    BY DEF Sound, DataOK, KeysListed
  <2>2. Listing(RemoveAt(mapKeys[o], i), children[o] \ {mapKeys[o][i]})
    BY <2>1, RemoveListing
  <2>3. RemoveAt(mapKeys[o], i) \in Seq(Node)
    BY <2>1, RemoveAtElements
  <2>4. held' = held
    BY DEF del
  <2> QED
    BY <1>2, <2>2, <2>3, <2>4, RemoveStep
<1> QED
  BY <1>1, <1>2, DelShape

(***************************************************************************)
(* The invariant.                                                          *)
(***************************************************************************)

ObjectInv == TypeOK /\ UniqueKeys /\ KeysListed /\ OneOwner /\ fault = "none"

LEMMA InvSound ==
  ASSUME ObjectInv
  PROVE  Sound /\ fault = "none" /\ held \subseteq heap /\ heap \subseteq Atoms
BY DEF ObjectInv, Sound, DataOK, TypeOK

\* What TypeOK says beside DataOK.
CallsOK ==
  /\ built \subseteq Objects
  /\ cloning \in {NotCloning} \cup (Objects \X Objects)

LEMMA InvFromParts ==
  /\ (Sound /\ CallsOK /\ fault = "none") <=> ObjectInv
  /\ (Sound' /\ CallsOK' /\ fault' = "none") <=> ObjectInv'
BY DEF ObjectInv, Sound, DataOK, TypeOK, CallsOK

LEMMA InitInv == Init => ObjectInv
<1> SUFFICES ASSUME Init PROVE ObjectInv
  OBVIOUS
<1>1. \A o \in Objects : children[o] = {} /\ mapKeys[o] = <<>>
  BY DEF Init
<1>2. <<>> \in Seq(Node) /\ DOMAIN <<>> = {}
  BY SMT
<1>3. DataOK
  BY <1>2 DEF Init, DataOK
<1>4. UniqueKeys
  BY <1>1 DEF UniqueKeys
<1>5. KeysListed
  BY <1>1, <1>2 DEF KeysListed, Listing
<1>6. OneOwner
  <2>1. \A o \in Objects : AtomsOf(o) = {}
    BY <1>1 DEF AtomsOf
  <2> QED
    BY <2>1, <1>1 DEF OneOwner, Init
<1> QED
  BY <1>3, <1>4, <1>5, <1>6, InvFromParts DEF Sound, CallsOK, Init

\* No call disturbs the parts that are not about the objects' contents.
LEMMA NextCalls ==
  ASSUME ObjectInv, Next
  PROVE  CallsOK'
<1>1. CallsOK
  BY InvFromParts
<1>2. cloning # NotCloning => copy \in Objects
  BY <1>1 DEF CallsOK, copy, NotCloning
<1>3. built' \subseteq Objects
  BY <1>1, <1>2 DEF Next, New, Drop, CloneChild, Construct, Destroy, BeginClone, del,
                    AddUnique, AddRaw, AddValue, CloneThrows, CloneReturns, CallsOK
<1>4. cloning' \in {NotCloning} \cup (Objects \X Objects)
  <2>1. cloning' \in {NotCloning, cloning} \/ \E o, p \in Objects : cloning' = <<o, p>>
    BY DEF Next, New, Drop, CloneChild, Construct, Destroy, BeginClone, del,
                      AddUnique, AddRaw, AddValue, CloneThrows, CloneReturns
  <2> QED
    BY <2>1, <1>1 DEF CallsOK
<1> QED
  BY <1>3, <1>4 DEF CallsOK

LEMMA NextSound ==
  ASSUME NulFree, ObjectInv, Next
  PROVE  Sound' /\ fault' = "none"
<1>1. Sound /\ fault = "none" /\ held \subseteq heap /\ heap \subseteq Atoms
  BY InvSound
<1>2. cloning # NotCloning => original \in Objects /\ copy \in Objects
  BY DEF ObjectInv, TypeOK, original, copy, NotCloning
<1>3. \A o \in Objects : children[o] \subseteq Node
  BY <1>1 DEF Sound, DataOK
<1>4. ASSUME NEW a \in Atoms, New(a)
      PROVE  Sound' /\ fault' = "none"
  BY <1>1, <1>4, HeldStep DEF New
<1>5. ASSUME NEW a \in Atoms, Drop(a)
      PROVE  Sound' /\ fault' = "none"
  BY <1>1, <1>5, HeldStep DEF Drop
<1>6. ASSUME NEW a \in Atoms, CloneChild(a)
      PROVE  Sound' /\ fault' = "none"
  <2>1. cloning # NotCloning /\ a \notin heap /\ heap' = heap \cup {a} /\ held' = held
    BY <1>6 DEF CloneChild
  <2>2. PICK n \in pending : add(copy, n.key, a)
    BY <1>6 DEF CloneChild
  <2>3. copy \in Objects /\ n.key \in Keys /\ ~exists(copy, n.key)
    BY <1>2, <1>3, <2>1, <2>2 DEF pending, Node
  <2>4. held' = held \ {a}
    BY <1>1, <2>1
  <2>5. Sound'
    BY <1>1, <2>1, <2>2, <2>3, <2>4, AddStep
  <2> QED
    BY <1>1, <1>6, <2>5 DEF CloneChild
<1>7. ASSUME NEW o \in Objects, Construct(o)
      PROVE  Sound' /\ fault' = "none"
  BY <1>1, <1>7, HeldStep DEF Construct
<1>8. ASSUME NEW o \in Objects, Destroy(o)
      PROVE  Sound' /\ fault' = "none"
  BY <1>1, <1>8, DestroyStep DEF Destroy
<1>9. ASSUME NEW o \in Objects, NEW p \in Objects, BeginClone(o, p)
      PROVE  Sound' /\ fault' = "none"
  BY <1>1, <1>9, HeldStep DEF BeginClone
<1>10. ASSUME NEW o \in Objects, NEW k \in Keys, del(o, k)
       PROVE  Sound' /\ fault' = "none"
  BY <1>1, <1>10, DelStep
<1>11. ASSUME NEW o \in Objects, NEW k \in Keys, NEW a \in Atoms, AddUnique(o, k, a)
       PROVE  Sound' /\ fault' = "none"
  <2>1. CASE exists(o, k)
    BY <1>1, <1>11, <2>1, HeldStep DEF AddUnique, Refuse
  <2>2. CASE ~exists(o, k)
    <3>1. a \in held /\ add(o, k, a) /\ held' = held \ {a} /\ heap' = heap \cup {a}
      BY <1>1, <1>11, <2>2 DEF AddUnique
    <3> QED
      BY <1>1, <1>11, <2>2, <3>1, AddStep DEF AddUnique
  <2> QED
    BY <2>1, <2>2
<1>12. ASSUME NEW o \in Objects, NEW k \in Keys, NEW a \in Atoms, AddRaw(o, k, a)
       PROVE  Sound' /\ fault' = "none"
  <2>1. CASE exists(o, k)
    BY <1>1, <1>12, <2>1, HeldStep DEF AddRaw, Refuse
  <2>2. CASE ~exists(o, k)
    <3>1. a \in held /\ add(o, k, a) /\ held' = held \ {a} /\ heap' = heap \cup {a}
      BY <1>1, <1>12, <2>2 DEF AddRaw
    <3> QED
      BY <1>1, <1>12, <2>2, <3>1, AddStep DEF AddRaw
  <2> QED
    BY <2>1, <2>2
<1>13. ASSUME NEW o \in Objects, NEW k \in Keys, NEW a \in Atoms, AddValue(o, k, a)
       PROVE  Sound' /\ fault' = "none"
  <2>1. CASE exists(o, k)
    BY <1>1, <1>13, <2>1, HeldStep DEF AddValue, Refuse
  <2>2. CASE ~exists(o, k)
    <3>1. a \notin heap /\ add(o, k, a) /\ held' = held \ {a} /\ heap' = heap \cup {a}
      BY <1>1, <1>13, <2>2 DEF AddValue
    <3> QED
      BY <1>1, <1>13, <2>2, <3>1, AddStep DEF AddValue
  <2> QED
    BY <2>1, <2>2
<1>14. ASSUME CloneThrows
       PROVE  Sound' /\ fault' = "none"
  BY <1>1, <1>2, <1>14, DestroyStep DEF CloneThrows
<1>15. ASSUME CloneReturns
       PROVE  Sound' /\ fault' = "none"
  BY <1>1, <1>15, HeldStep DEF CloneReturns
<1> QED
  BY <1>4, <1>5, <1>6, <1>7, <1>8, <1>9, <1>10, <1>11, <1>12, <1>13, <1>14, <1>15 DEF Next

LEMMA InvHolds ==
  ASSUME NulFree
  PROVE  Spec => []ObjectInv
<1>1. Init => ObjectInv
  BY InitInv
<1>2. ObjectInv /\ [Next]_vars => ObjectInv'
  <2> SUFFICES ASSUME ObjectInv, [Next]_vars PROVE ObjectInv'
    OBVIOUS
  <2>1. CASE Next
    BY <2>1, NextCalls, NextSound, InvFromParts
  <2>2. CASE UNCHANGED vars
    BY <2>2 DEF vars, ObjectInv, TypeOK, UniqueKeys, KeysListed, OneOwner, AtomsOf
  <2> QED
    BY <2>1, <2>2
<1> QED
  BY <1>1, <1>2, PTL DEF Spec

\* The state is well formed, for every set of objects and atoms.
THEOREM TypeCorrect ==
  ASSUME NulFree
  PROVE  Spec => []TypeOK
<1>1. ObjectInv => TypeOK
  BY DEF ObjectInv
<1> QED
  BY <1>1, InvHolds, PTL

\* keys() lists the members of every object exactly, whatever calls were made
\* (object_t::add, del, clone), as long as no key has a NUL inside.
THEOREM KeysAreListed ==
  ASSUME NulFree
  PROVE  Spec => []KeysListed
<1>1. ObjectInv => KeysListed
  BY DEF ObjectInv
<1> QED
  BY <1>1, InvHolds, PTL

\* No atom leaks, is deleted twice or is shared, through refused adds, del,
\* copies and copies that throw.
THEOREM AtomsHaveOneOwner ==
  ASSUME NulFree
  PROVE  Spec => []OneOwner
<1>1. ObjectInv => OneOwner
  BY DEF ObjectInv
<1> QED
  BY <1>1, InvHolds, PTL

\* object_t::del never erases mapKeys.end() nor compares a freed key.
THEOREM DelIsDefined ==
  ASSUME NulFree
  PROVE  Spec => []NoUndefinedBehaviour
<1>1. ObjectInv => NoUndefinedBehaviour
  BY DEF ObjectInv, NoUndefinedBehaviour
<1> QED
  BY <1>1, InvHolds, PTL

(***************************************************************************)
(* The order of keys().                                                    *)
(***************************************************************************)

\* The four things a call can do to the members of an object.
Kept(o)    == mapKeys'[o] = mapKeys[o]
Extended(o) == \E n \in Node : mapKeys'[o] = Append(mapKeys[o], n)
Emptied(o) == children'[o] = {}
Reduced(o) == \E i \in DOMAIN mapKeys[o] : /\ mapKeys'[o] = RemoveAt(mapKeys[o], i)
                                           /\ mapKeys[o][i] \notin children'[o]

LEMMA NextShapes ==
  ASSUME NulFree, ObjectInv, Next, NEW o \in Objects
  PROVE  Kept(o) \/ Extended(o) \/ Emptied(o) \/ Reduced(o)
<1>1. Sound
  BY InvSound
<1>2. cloning # NotCloning => copy \in Objects
  BY DEF ObjectInv, TypeOK, copy, NotCloning
<1>3. mapKeys \in [Objects -> Seq(Node)] /\ children \in [Objects -> SUBSET Node]
  BY <1>1 DEF Sound, DataOK
<1>4. CASE UNCHANGED mapKeys
  BY <1>4 DEF Kept
<1>5. ASSUME NEW p \in Objects, NEW k \in Keys, NEW a \in Atoms, add(p, k, a)
      PROVE  Kept(o) \/ Extended(o)
  <2>1. [key |-> k, atom |-> a] \in Node
    BY DEF Node
  <2> QED
    BY <1>3, <1>5, <2>1 DEF add, Kept, Extended
<1>6. ASSUME NEW p \in Objects, destroy(p)
      PROVE  Kept(o) \/ Emptied(o)
  BY <1>3, <1>6 DEF destroy, Kept, Emptied
<1>7. ASSUME NEW p \in Objects, NEW k \in Keys, del(p, k)
      PROVE  Kept(o) \/ Reduced(o)
  <2>1. CASE UNCHANGED mapKeys
    BY <2>1 DEF Kept
  <2>2. CASE \E i \in DOMAIN mapKeys[p] :
               /\ children' = [children EXCEPT ![p] = @ \ {mapKeys[p][i]}]
               /\ mapKeys' = [mapKeys EXCEPT ![p] = RemoveAt(mapKeys[p], i)]
    BY <1>3, <2>2 DEF Kept, Reduced
  <2> QED
    BY <1>1, <1>7, <2>1, <2>2, DelShape
<1>8. ASSUME NEW a \in Atoms, CloneChild(a)
      PROVE  Kept(o) \/ Extended(o)
  <2>1. PICK n \in pending : add(copy, n.key, a)
    BY <1>8 DEF CloneChild
  <2>2. cloning # NotCloning /\ n.key \in Keys
    BY <1>2, <1>3, <1>8, <2>1 DEF CloneChild, pending, Node, ObjectInv, TypeOK, original, NotCloning
  <2> QED
    BY <1>2, <1>5, <2>1, <2>2
<1> QED
  BY <1>2, <1>4, <1>5, <1>6, <1>7, <1>8
     DEF Next, New, Drop, Construct, Destroy, BeginClone, AddUnique, AddRaw, AddValue, Refuse,
         CloneThrows, CloneReturns

\* The entries of keys() that no call removed stay in the order of their
\* insertion.
THEOREM KeysStayInOrder ==
  ASSUME NulFree
  PROVE  Spec => KeysKeepTheirOrder
<1>1. ASSUME ObjectInv, Next
      PROVE  OrderKept
  <2> SUFFICES ASSUME NEW o \in Objects, NEW x \in children[o] \cap children'[o],
                      NEW y \in children[o] \cap children'[o], Before(mapKeys[o], x, y)
               PROVE  Before(mapKeys'[o], x, y)
    BY DEF OrderKept
  <2>1. mapKeys[o] \in Seq(Node)
    BY <1>1 DEF ObjectInv, TypeOK
  <2>2. CASE Kept(o) \/ Emptied(o)
    BY <2>2 DEF Kept, Emptied
  <2>3. CASE Extended(o)
    BY <2>1, <2>3, AppendOrder DEF Extended
  <2>4. CASE Reduced(o)
    BY <2>1, <2>4, RemoveOrder DEF Reduced
  <2> QED
    BY <1>1, <2>2, <2>3, <2>4, NextShapes
<1>2. ObjectInv /\ [Next]_vars => [OrderKept]_vars
  BY <1>1
<1> QED
  BY <1>2, InvHolds, PTL DEF Spec, KeysKeepTheirOrder
(***************************************************************************)
(* The keys of a copy.                                                     *)
(***************************************************************************)

\* An object that is not built has no members but those a clone in progress
\* gave it, whose keys are keys of the original.
CopyInv ==
  /\ \A o \in Objects \ built : (cloning = NotCloning \/ o # copy) => children[o] = {}
  /\ cloning # NotCloning =>
       original \in built /\ copy \notin built /\ KeysOf(copy) \subseteq KeysOf(original)

\* Calls that run while no clone does.
LEMMA IdleCopyInv ==
  ASSUME CopyInv, cloning = NotCloning, cloning' = NotCloning, built' = built,
         NEW p \in built, \A o \in Objects : o # p => children'[o] = children[o]
  PROVE  CopyInv'
BY DEF CopyInv

LEMMA NextCopyInv ==
  ASSUME ObjectInv, CopyInv, Next
  PROVE  CopyInv'
<1>1. /\ children \in [Objects -> SUBSET Node]
      /\ cloning \in {NotCloning} \cup (Objects \X Objects)
  BY DEF ObjectInv, TypeOK
<1>2. cloning # NotCloning => original \in Objects /\ copy \in Objects
  BY <1>1 DEF original, copy
<1>3. CASE UNCHANGED <<children, built, cloning>>
  BY <1>3 DEF CopyInv, KeysOf, original, copy
<1>4. ASSUME NEW p \in Objects, NEW k \in Keys, NEW a \in Atoms, add(p, k, a),
             p \in built, cloning = NotCloning, UNCHANGED <<built, cloning>>
      PROVE  CopyInv'
  <2>1. \A o \in Objects : o # p => children'[o] = children[o]
    BY <1>1, <1>4 DEF add
  <2> QED
    BY <1>4, <2>1, IdleCopyInv
<1>5. ASSUME NEW p \in Objects, NEW k \in Keys, del(p, k)
      PROVE  CopyInv'
  <2>1. /\ p \in built /\ cloning = NotCloning /\ UNCHANGED <<built, cloning>>
        /\ children' = children \/ children' = [children EXCEPT ![p] = @ \ find(p, k)]
    BY <1>5 DEF del, Idle, erase
  <2>2. \A o \in Objects : o # p => children'[o] = children[o]
    BY <1>1, <2>1
  <2> QED
    BY <2>1, <2>2, IdleCopyInv
<1>6. ASSUME NEW p \in Objects, Construct(p)
      PROVE  CopyInv'
  BY <1>6 DEF Construct, Idle, CopyInv
<1>7. ASSUME NEW p \in Objects, Destroy(p)
      PROVE  CopyInv'
  <2>1. /\ children' = [children EXCEPT ![p] = {}] /\ built' = built \ {p}
        /\ cloning = NotCloning /\ cloning' = cloning
    BY <1>7 DEF Destroy, destroy, Idle
  <2>2. \A o \in Objects : children'[o] = IF o = p THEN {} ELSE children[o]
    BY <1>1, <2>1
  <2> QED
    BY <2>1, <2>2 DEF CopyInv
<1>8. ASSUME NEW o \in Objects, NEW p \in Objects, BeginClone(o, p)
      PROVE  CopyInv'
  <2>1. /\ UNCHANGED <<children, built>> /\ cloning = NotCloning /\ cloning' = <<o, p>>
        /\ o \in built /\ p \notin built
    BY <1>8 DEF BeginClone, Idle
  <2>2. children[p] = {}
    BY <2>1 DEF CopyInv
  <2>3. copy' = p /\ original' = o
    BY <2>1 DEF copy, original
  <2>4. (KeysOf(copy) \subseteq KeysOf(original))'
    BY <2>1, <2>2, <2>3 DEF KeysOf
  <2> QED
    BY <2>1, <2>3, <2>4 DEF CopyInv
<1>9. ASSUME NEW a \in Atoms, CloneChild(a)
      PROVE  CopyInv'
  <2>1. PICK n \in pending : add(copy, n.key, a)
    BY <1>9 DEF CloneChild
  <2>2. /\ cloning # NotCloning /\ UNCHANGED <<built, cloning>>
        /\ original' = original /\ copy' = copy /\ original # copy
    BY <1>9 DEF CloneChild, original, copy, CopyInv
  <2> DEFINE m == [key |-> n.key, atom |-> a]
  <2>3. \A o \in Objects : children'[o] = IF o = copy THEN children[o] \cup {m} ELSE children[o]
    BY <1>1, <2>1 DEF add
  <2>4. n \in children[original] /\ m.key = n.key
    BY <2>1 DEF pending
  <2> HIDE DEF m
  <2>5. (KeysOf(copy) \subseteq KeysOf(original))'
    BY <1>2, <2>2, <2>3, <2>4 DEF CopyInv, KeysOf
  <2> QED
    BY <2>2, <2>3, <2>5 DEF CopyInv
<1>10. CASE CloneThrows
  <2>1. /\ cloning # NotCloning /\ cloning' = NotCloning /\ built' = built
        /\ children' = [children EXCEPT ![copy] = {}]
    BY <1>10 DEF CloneThrows, destroy
  <2>2. \A o \in Objects : children'[o] = IF o = copy THEN {} ELSE children[o]
    BY <1>1, <2>1
  <2> QED
    BY <2>1, <2>2 DEF CopyInv
<1>11. CASE CloneReturns
  BY <1>11 DEF CloneReturns, CopyInv
<1> QED
  BY <1>3, <1>4, <1>5, <1>6, <1>7, <1>8, <1>9, <1>10, <1>11
     DEF Next, New, Drop, AddUnique, AddRaw, AddValue, Refuse, Idle

\* A copy that JSONObject's copy constructor completed has exactly the keys
\* of its original (object_t::clone).
THEOREM CopiesHaveAllKeys ==
  ASSUME NulFree
  PROVE  Spec => CopiesAreComplete
<1> DEFINE Complete == \A p \in Objects : (p \in built' \ built /\ cloning # NotCloning) =>
                         {n.key : n \in children'[p]} = {n.key : n \in children'[original]}
<1>1. Init => CopyInv
  BY DEF Init, CopyInv
<1>2. ASSUME ObjectInv, CopyInv, Next
      PROVE  Complete
  <2> SUFFICES ASSUME NEW p \in Objects, p \in built' \ built, cloning # NotCloning
               PROVE  {n.key : n \in children'[p]} = {n.key : n \in children'[original]}
    OBVIOUS
  <2>1. CloneReturns
    BY <1>2 DEF Next, New, Drop, CloneChild, Construct, Destroy, BeginClone, del, AddUnique,
                AddRaw, AddValue, CloneThrows, Idle
  <2>2. p = copy /\ children' = children /\ pending = {}
    BY <2>1 DEF CloneReturns
  <2>3. KeysOf(original) \subseteq KeysOf(copy)
    BY <2>2 DEF pending, exists, find, KeysOf
  <2>4. KeysOf(copy) = KeysOf(original)
    BY <1>2, <2>3 DEF CopyInv
  <2> QED
    BY <2>2, <2>4 DEF KeysOf
<1>3. ObjectInv /\ CopyInv /\ [Next]_vars => CopyInv'
  <2> SUFFICES ASSUME ObjectInv, CopyInv, [Next]_vars PROVE CopyInv'
    OBVIOUS
  <2>1. CASE UNCHANGED vars
    BY <2>1 DEF vars, CopyInv, KeysOf, original, copy
  <2> QED
    BY <2>1, NextCopyInv
<1>4. ObjectInv /\ CopyInv /\ [Next]_vars => [Complete]_vars
  BY <1>2
<1> QED
  BY <1>1, <1>3, <1>4, InvHolds, PTL DEF Spec, CopiesAreComplete
=============================================================================
