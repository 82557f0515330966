----------------------------- MODULE ObjectAtom -----------------------------
(***************************************************************************)
(* JSONObject and the object_t behind it (src/jsonObject.cxx): a std::map  *)
(* that owns its child atoms, and mapKeys, a vector of char pointers into  *)
(* the keys of the map's nodes, which keys() hands out.  The two are kept  *)
(* in step by hand, and the pointers are compared as C strings.            *)
(*                                                                         *)
(* Atoms are identified by their address, which the allocator may use      *)
(* again.  A node of the map is a key and the atom it owns; a char pointer *)
(* is represented by the node whose key it points into.                    *)
(***************************************************************************)
EXTENDS SequenceOrder

CONSTANTS Objects, Keys, Atoms,
          EmptyKey,  \* ""
          CStr,      \* CStr[k]: what k reads as through c_str(), up to its first NUL
          Rank,      \* Rank[k]: the place of k in the order of std::string
          Opaque     \* the atoms of a type that clone does not know, as the
                     \* tests' JSONBad (test/testJSONObject.cpp:21)

ASSUME ObjectAssumption ==
  /\ EmptyKey \in Keys
  /\ CStr \in [Keys -> Keys] /\ CStr[EmptyKey] = EmptyKey
  /\ Rank \in [Keys -> Nat]
  /\ \A k, m \in Keys : Rank[k] = Rank[m] => k = m
  /\ Opaque \subseteq Atoms

Node       == [key : Keys, atom : Atoms]
NotCloning == <<>>

VARIABLES heap,      \* the atoms that are allocated
          held,      \* those the application still owns
          built,     \* the objects whose constructor has returned
          children,  \* object_t::children
          mapKeys,   \* object_t::mapKeys
          cloning,   \* the copy being made: its original and itself
          fault      \* the undefined behaviour met, if any

vars == <<heap, held, built, children, mapKeys, cloning, fault>>

Init ==
  /\ heap = {} /\ held = {} /\ built = {}
  /\ children = [o \in Objects |-> {}] /\ mapKeys = [o \in Objects |-> <<>>]
  /\ cloning = NotCloning /\ fault = "none"

\* No call is in progress and the program is still defined.
Idle == cloning = NotCloning /\ fault = "none"

find(o, k)   == {n \in children[o] : n.key = k}
exists(o, k) == find(o, k) # {}
KeysOf(o)    == {n.key : n \in children[o]}
AtomsOf(o)   == {n.atom : n \in children[o]}

-----------------------------------------------------------------------------
(* The application's own atoms                                             *)

New(a) ==
  /\ Idle /\ a \notin heap
  /\ heap' = heap \cup {a} /\ held' = held \cup {a}
  /\ UNCHANGED <<built, children, mapKeys, cloning, fault>>

Drop(a) ==
  /\ Idle /\ a \in held
  /\ heap' = heap \ {a} /\ held' = held \ {a}
  /\ UNCHANGED <<built, children, mapKeys, cloning, fault>>

-----------------------------------------------------------------------------
(* object_t::add and its callers                                           *)

\* object_t::add of a key that is not there yet.
add(o, k, a) ==
  LET n == [key |-> k, atom |-> a]
  IN  /\ children' = [children EXCEPT ![o] = @ \cup {n}]
      /\ mapKeys' = [mapKeys EXCEPT ![o] = Append(@, n)]

Refuse == UNCHANGED <<children, mapKeys>>

\* Faulty variant: the refused atom is released as well.
AddUniqueReleases(o, k, a) ==
  /\ Idle /\ o \in built /\ a \in held
  /\ held' = held \ {a}
  /\ IF exists(o, k) THEN Refuse ELSE add(o, k, a)
  /\ UNCHANGED <<heap, built, cloning, fault>>

\* add(key, std::unique_ptr &&): a refused atom stays with its owner.
AddUnique(o, k, a) ==
  /\ Idle /\ o \in built /\ a \in held
  /\ IF exists(o, k) THEN Refuse /\ UNCHANGED held
                     ELSE add(o, k, a) /\ held' = held \ {a}
  /\ UNCHANGED <<heap, built, cloning, fault>>

\* Faulty variant: the refused atom is deleted and the caller keeps it.
AddRawKeeps(o, k, a) ==
  /\ Idle /\ o \in built /\ a \in held
  /\ IF exists(o, k) THEN Refuse /\ heap' = heap \ {a} /\ UNCHANGED held
                     ELSE add(o, k, a) /\ UNCHANGED heap /\ held' = held \ {a}
  /\ UNCHANGED <<built, cloning, fault>>

\* add(key, JSONAtom *) takes the atom whatever happens: a refused one is
\* deleted with the temporary unique_ptr.
AddRaw(o, k, a) ==
  /\ Idle /\ o \in built /\ a \in held
  /\ held' = held \ {a}
  /\ IF exists(o, k) THEN Refuse /\ heap' = heap \ {a}
                     ELSE add(o, k, a) /\ UNCHANGED heap
  /\ UNCHANGED <<built, cloning, fault>>

\* add(key, value), addArray(key) and addObject(key) make the atom themselves
\* and, when it is refused, destroy it again.
AddValue(o, k, a) ==
  /\ Idle /\ o \in built /\ a \notin heap
  /\ IF exists(o, k) THEN Refuse /\ UNCHANGED heap
                     ELSE add(o, k, a) /\ heap' = heap \cup {a}
  /\ UNCHANGED <<held, built, cloning, fault>>

-----------------------------------------------------------------------------
(* object_t::del                                                           *)

\* The entries of mapKeys that compare equal to k as C strings.
matching(o, k) == {i \in DOMAIN mapKeys[o] : CStr[mapKeys[o][i].key] = k}

\* Comparing them in order up to the i-th reads the keys they point into.
readsFreed(o, i) == \E j \in 1..i : mapKeys[o][j] \notin children[o]

\* Faulty variants: the entry stays; the last entry takes its place.
eraseNodeOnly(o, k, i) ==
  /\ children' = [children EXCEPT ![o] = @ \ find(o, k)]
  /\ heap' = heap \ {n.atom : n \in find(o, k)}
  /\ UNCHANGED mapKeys

eraseBySwap(o, k, i) ==
  /\ mapKeys' = [mapKeys EXCEPT ![o] = Front([mapKeys[o] EXCEPT ![i] = Last(mapKeys[o])])]
  /\ children' = [children EXCEPT ![o] = @ \ find(o, k)]
  /\ heap' = heap \ {n.atom : n \in find(o, k)}

erase(o, k, i) ==
  /\ mapKeys' = [mapKeys EXCEPT ![o] = RemoveAt(@, i)]
  /\ children' = [children EXCEPT ![o] = @ \ find(o, k)]
  /\ heap' = heap \ {n.atom : n \in find(o, k)}

del(o, k) ==
  /\ Idle /\ o \in built
  /\ UNCHANGED <<held, built, cloning>>
  /\ IF k = EmptyKey \/ ~exists(o, k) THEN UNCHANGED <<heap, children, mapKeys, fault>>
     ELSE \/ /\ matching(o, k) = {}
             /\ fault' = "erases end()" /\ UNCHANGED <<heap, children, mapKeys>>
          \/ \E i \in matching(o, k) :
               /\ \A j \in matching(o, k) : i <= j
               /\ fault' = IF readsFreed(o, i) THEN "reads a freed key" ELSE "none"
               /\ erase(o, k, i)

-----------------------------------------------------------------------------
(* Construction, copy construction and destruction                         *)

Construct(o) ==
  /\ Idle /\ o \notin built
  /\ built' = built \cup {o}
  /\ UNCHANGED <<heap, held, children, mapKeys, cloning, fault>>

\* What ~object_t leaves of o: its nodes go, and their atoms with them.
destroy(o) ==
  /\ heap' = heap \ AtomsOf(o)
  /\ children' = [children EXCEPT ![o] = {}]
  /\ mapKeys' = [mapKeys EXCEPT ![o] = <<>>]

Destroy(o) ==
  /\ Idle /\ o \in built
  /\ destroy(o) /\ built' = built \ {o}
  /\ UNCHANGED <<held, cloning, fault>>

\* JSONObject(JSONObject &): an empty object, then object_t::clone.
BeginClone(o, p) ==
  /\ Idle /\ o \in built /\ p \notin built
  /\ cloning' = <<o, p>>
  /\ UNCHANGED <<heap, held, built, children, mapKeys, fault>>

original == cloning[1]
copy     == cloning[2]

\* The children the loop of clone has not come to, and the next one of them.
pending    == {n \in children[original] : ~exists(copy, n.key)}
IsNext(n)  == n \in pending /\ \A m \in pending : Rank[n.key] <= Rank[m.key]

CloneChild(a) ==
  /\ cloning # NotCloning /\ a \notin heap \cup Opaque
  /\ \E n \in pending : IsNext(n) /\ n.atom \notin Opaque /\ add(copy, n.key, a)
  /\ heap' = heap \cup {a}
  /\ UNCHANGED <<held, built, cloning, fault>>

\* Faulty variant: the exception is swallowed and what was copied is kept.
CloneGivesUp ==
  /\ cloning # NotCloning
  /\ \E n \in pending : IsNext(n) /\ n.atom \in Opaque
  /\ built' = built \cup {copy} /\ cloning' = NotCloning
  /\ UNCHANGED <<heap, held, children, mapKeys, fault>>

\* A child of unknown type throws JSON_OBJECT_BAD_KEY out of clone.  The
\* constructor had delegated, so the half made copy is destroyed.
CloneThrows ==
  /\ cloning # NotCloning
  /\ \E n \in pending : IsNext(n) /\ n.atom \in Opaque
  /\ destroy(copy) /\ cloning' = NotCloning
  /\ UNCHANGED <<held, built, fault>>

CloneReturns ==
  /\ cloning # NotCloning /\ pending = {}
  /\ built' = built \cup {copy} /\ cloning' = NotCloning
  /\ UNCHANGED <<heap, held, children, mapKeys, fault>>

Next ==
  \/ \E a \in Atoms : New(a) \/ Drop(a) \/ CloneChild(a)
  \/ \E o \in Objects : Construct(o) \/ Destroy(o)
  \/ \E o, p \in Objects : BeginClone(o, p)
  \/ \E o \in Objects, k \in Keys : del(o, k)
  \/ \E o \in Objects, k \in Keys, a \in Atoms :
       AddUnique(o, k, a) \/ AddRaw(o, k, a) \/ AddValue(o, k, a)
  \/ CloneThrows \/ CloneReturns

Spec == Init /\ [][Next]_vars

-----------------------------------------------------------------------------
(* Properties                                                              *)

\* The state is well formed.
TypeOK ==
  /\ heap \subseteq Atoms /\ held \subseteq heap /\ built \subseteq Objects
  /\ children \in [Objects -> SUBSET Node]
  /\ mapKeys \in [Objects -> Seq(Node)]
  /\ cloning \in {NotCloning} \cup (Objects \X Objects)
  /\ fault \in {"none", "erases end()", "reads a freed key"}

\* s lists the elements of S, each once.
Listing(s, S) ==
  /\ \A n \in S : \E i \in DOMAIN s : s[i] = n
  /\ \A i \in DOMAIN s : s[i] \in S
  /\ \A i, j \in DOMAIN s : s[i] = s[j] => i = j

\* keys() lists every member of the object exactly once and nothing else: no
\* pointer into a node that was erased, whatever was added, refused, deleted,
\* copied or unwound before (object_t::add, del, clone).
KeysListed == \A o \in Objects : Listing(mapKeys[o], children[o])

\* Every allocated atom has exactly one owner, the application or one node of
\* one object: nothing leaks when add refuses an atom or clone throws,
\* nothing is deleted twice, and a copy shares no atom with its original.
OneOwner ==
  /\ heap = held \cup UNION {AtomsOf(o) : o \in Objects}
  /\ \A o \in Objects : AtomsOf(o) \cap held = {}
  /\ \A o, p \in Objects : \A n \in children[o], m \in children[p] :
       n.atom = m.atom => o = p /\ n = m

\* No call of del erases mapKeys.end() or compares a key that was freed:
\* testDel (test/testJSONObject.cpp:142) deletes what it added.
NoUndefinedBehaviour == fault = "none"

\* A copy that was made has every key of its original.
CopiesAreComplete ==
  [][ \A p \in Objects : (p \in built' \ built /\ cloning # NotCloning) =>
        {n.key : n \in children'[p]} = {n.key : n \in children'[original]} ]_vars

\* The entries that stay listed by keys() keep their order.
OrderKept ==
  \A o \in Objects : \A x, y \in children[o] \cap children'[o] :
    Before(mapKeys[o], x, y) => Before(mapKeys'[o], x, y)
KeysKeepTheirOrder == [][OrderKept]_vars
=============================================================================
