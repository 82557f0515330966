----------------------------- MODULE ArrayAtom -----------------------------
(***************************************************************************)
(* JSONArray and the array_t behind it (src/jsonArray.cxx): a vector that  *)
(* owns its elements, which may be arrays that own theirs.  Atoms are      *)
(* identified by their address, which the allocator may use again.         *)
(* Deleting an atom deletes the tree below it; copying an array copies     *)
(* that tree depth first, one constructor within the other.                *)
(***************************************************************************)
EXTENDS SequenceOrder

CONSTANTS Atoms,
          Arrays,     \* the addresses that hold arrays when they are allocated
          Opaque      \* those of a type that clone does not know, as the tests'
                      \* JSONBad (test/testJSONArray.cpp:18)

ASSUME ArrayAssumption ==
  Arrays \subseteq Atoms /\ Opaque \subseteq Atoms \ Arrays

VARIABLES heap,      \* the atoms that are allocated
          held,      \* those the application owns, in a unique_ptr or on its stack
          elements,  \* array_t::children
          copying,   \* the copy constructors in progress, innermost first
          fault      \* the undefined behaviour met, if any

vars == <<heap, held, elements, copying, fault>>

Frame == [from : Arrays, to : Arrays]

Init ==
  /\ heap = {} /\ held = {}
  /\ elements = [x \in Arrays |-> <<>>]
  /\ copying = <<>> /\ fault = "none"

\* No call is in progress and the program is still defined.
Idle == copying = <<>> /\ fault = "none"

IsArray(x)      == x \in heap \cap Arrays
IsElement(a, x) == \E i \in DOMAIN elements[a] : elements[a][i] = x

\* x and all it owns: the smallest set with x that owns all of its own.
OwnsItsElements(S) == \A y \in S \cap Arrays : \A x \in heap : IsElement(y, x) => x \in S
Subtree(x) == LET trees == {S \in SUBSET heap : x \in S /\ OwnsItsElements(S)}
              IN  {y \in heap : \A S \in trees : y \in S}

\* The elements of the arrays once the atoms of gone were deleted.
Without(gone, els) == [x \in Arrays |-> IF x \in gone THEN <<>> ELSE els[x]]

-----------------------------------------------------------------------------
(* The application's own atoms                                             *)

New(x) ==
  /\ Idle /\ x \notin heap
  /\ heap' = heap \cup {x} /\ held' = held \cup {x}
  /\ UNCHANGED <<elements, copying, fault>>

\* Its unique_ptr lets go of the atom: ~JSONArray and all below it.
Drop(x) ==
  /\ Idle /\ x \in held
  /\ heap' = heap \ Subtree(x) /\ held' = held \ {x}
  /\ elements' = Without(Subtree(x), elements)
  /\ UNCHANGED <<copying, fault>>

-----------------------------------------------------------------------------
(* add                                                                     *)

add(a, x) == elements' = [elements EXCEPT ![a] = Append(@, x)]

\* Faulty variant: the array keeps a pointer to what the caller still owns.
AddBorrows(a, x) ==
  /\ Idle /\ IsArray(a) /\ x \in held /\ a \notin Subtree(x)
  /\ add(a, x)
  /\ UNCHANGED <<heap, held, copying, fault>>

\* add(std::unique_ptr &&) and add(JSONAtom *) take the atom over.  An array
\* is not put into itself or into what it owns: it would then own itself.
Add(a, x) ==
  /\ Idle /\ IsArray(a) /\ x \in held /\ a \notin Subtree(x)
  /\ add(a, x) /\ held' = held \ {x}
  /\ UNCHANGED <<heap, copying, fault>>

\* add(value), addArray() and addObject() make the atom themselves.  Called
\* on a JSONAtom that is no array they throw JSONTypeError first.
AddValue(a, x) ==
  /\ Idle /\ a \in heap /\ x \notin heap \cup Opaque
  /\ IF IsArray(a) THEN add(a, x) /\ heap' = heap \cup {x}
                   ELSE UNCHANGED <<elements, heap>>
  /\ UNCHANGED <<held, copying, fault>>

-----------------------------------------------------------------------------
(* del                                                                     *)

\* Faulty variants: what the element owns is left behind; the last element
\* takes the place of the erased one.
eraseShallow(a, i) ==
  IF i = Len(elements[a])
  THEN fault' = "erases end()" /\ UNCHANGED <<heap, elements>>
  ELSE /\ heap' = heap \ {elements[a][i + 1]}
       /\ elements' = Without({elements[a][i + 1]}, [elements EXCEPT ![a] = RemoveAt(@, i + 1)])
       /\ UNCHANGED fault

eraseBySwap(a, i) ==
  IF i = Len(elements[a])
  THEN fault' = "erases end()" /\ UNCHANGED <<heap, elements>>
  ELSE LET gone == Subtree(elements[a][i + 1])
           swapped == Front([elements[a] EXCEPT ![i + 1] = Last(elements[a])])
       IN  /\ heap' = heap \ gone
           /\ elements' = Without(gone, [elements EXCEPT ![a] = swapped])
           /\ UNCHANGED fault

\* children.erase(children.begin() + i); i may be that of end().
erase(a, i) ==
  IF i = Len(elements[a])
  THEN fault' = "erases end()" /\ UNCHANGED <<heap, elements>>
  ELSE LET gone == Subtree(elements[a][i + 1])
       IN  /\ heap' = heap \ gone
           /\ elements' = Without(gone, [elements EXCEPT ![a] = RemoveAt(@, i + 1)])
           /\ UNCHANGED fault

\* del(size_t): an index out of bounds throws JSON_ARRAY_OOB.  All of those
\* are alike, so one past the end stands for them.
DelAt(a, i) ==
  /\ Idle /\ IsArray(a) /\ i <= Len(elements[a])
  /\ IF i >= Len(elements[a]) THEN UNCHANGED <<heap, elements, fault>> ELSE erase(a, i)
  /\ UNCHANGED <<held, copying>>

\* del(const JSONAtom &) erases what find_if finds.  The atom may be any: of
\* one that is no element find_if finds end(), and that is erased.
DelAtom(a, x) ==
  /\ Idle /\ IsArray(a) /\ x \in heap
  /\ \E i \in 0..Len(elements[a]) :
       /\ \A j \in 1..i : elements[a][j] # x
       /\ i < Len(elements[a]) => elements[a][i + 1] = x
       /\ erase(a, i)
  /\ UNCHANGED <<held, copying>>

-----------------------------------------------------------------------------
(* JSONArray(JSONArray &) and array_t::clone                               *)

from == Head(copying).from
to   == Head(copying).to

\* Faulty variant: the last element is not copied.
FinishedEarly == Len(elements[to]) + 1 >= Len(elements[from])

\* The loop has come to as many elements as were added to the copy.
Finished == Len(elements[to]) = Len(elements[from])
current  == elements[from][Len(elements[to]) + 1]

BeginCopy(a, c) ==
  /\ Idle /\ IsArray(a) /\ c \in Arrays \ heap
  /\ heap' = heap \cup {c} /\ copying' = <<[from |-> a, to |-> c]>>
  /\ UNCHANGED <<held, elements, fault>>

\* Faulty variant: the copy is given the original's element, by add(JSONAtom *).
CopyLeafShares(c) ==
  /\ copying # <<>> /\ ~Finished /\ current \notin Arrays \cup Opaque
  /\ c \notin heap \cup Arrays \cup Opaque
  /\ add(to, current)
  /\ UNCHANGED <<heap, held, copying, fault>>

CopyLeaf(c) ==
  /\ copying # <<>> /\ ~Finished /\ current \notin Arrays \cup Opaque
  /\ c \notin heap \cup Arrays \cup Opaque
  /\ heap' = heap \cup {c} /\ add(to, c)
  /\ UNCHANGED <<held, copying, fault>>

\* An element that is an array is copied by a constructor of its own.
CopyArray(c) ==
  /\ copying # <<>> /\ ~Finished /\ current \in Arrays /\ c \in Arrays \ heap
  /\ heap' = heap \cup {c} /\ copying' = <<[from |-> current, to |-> c]>> \o copying
  /\ UNCHANGED <<held, elements, fault>>

\* JSON_ARRAY_BAD_ATOM leaves every constructor in progress; each of them had
\* delegated, so the copies are destroyed from the inside out.
CopyThrows ==
  /\ copying # <<>> /\ ~Finished /\ current \in Opaque
  /\ LET gone == UNION {Subtree(copying[i].to) : i \in DOMAIN copying}
     IN  heap' = heap \ gone /\ elements' = Without(gone, elements)
  /\ copying' = <<>>
  /\ UNCHANGED <<held, fault>>

NestedReturns ==
  /\ Len(copying) > 1 /\ Finished
  /\ elements' = [elements EXCEPT ![copying[2].to] = Append(@, to)]
  /\ copying' = Tail(copying)
  /\ UNCHANGED <<heap, held, fault>>

CopyReturns ==
  /\ Len(copying) = 1 /\ Finished
  /\ held' = held \cup {to} /\ copying' = <<>>
  /\ UNCHANGED <<heap, elements, fault>>

Next ==
  \/ \E x \in Atoms : New(x) \/ Drop(x) \/ CopyLeaf(x) \/ CopyArray(x)
  \/ \E a, x \in Atoms : Add(a, x) \/ AddValue(a, x) \/ DelAtom(a, x)
  \/ \E a, c \in Arrays : BeginCopy(a, c)
  \/ \E a \in Arrays : \E i \in 0..Len(elements[a]) : DelAt(a, i)
  \/ CopyThrows \/ NestedReturns \/ CopyReturns

Spec == Init /\ [][Next]_vars

-----------------------------------------------------------------------------
(* Properties                                                              *)

\* The state is well formed.
TypeOK ==
  /\ heap \subseteq Atoms /\ held \subseteq heap
  /\ elements \in [Arrays -> Seq(heap)]
  /\ copying \in Seq(Frame)
  /\ fault \in {"none", "erases end()"}

\* What is owned from outside the trees: by the application, or by the
\* constructors of a copy in progress.
Copies == {copying[i].to : i \in DOMAIN copying}

\* Every allocated atom has exactly one owner, and an atom that is not
\* allocated has none: a place in one array, the application, or a copy in
\* progress.  Nothing leaks, dangles or is deleted twice whatever is added,
\* erased with all it owns, copied, or unwound out of a copy at any depth
\* (array_t::add, del, clone).
OneOwner ==
  /\ heap = held \cup Copies \cup {x \in heap : \E a \in Arrays : IsElement(a, x)}
  /\ held \cap Copies = {}
  /\ \A i, j \in DOMAIN copying : copying[i].to = copying[j].to => i = j
  /\ \A a \in Arrays : \A i \in DOMAIN elements[a] :
       /\ a \in heap /\ elements[a][i] \notin held \cup Copies
       /\ \A b \in Arrays : \A j \in DOMAIN elements[b] :
            elements[a][i] = elements[b][j] => a = b /\ i = j

\* The tree below x is that below y with other atoms.
SameForm(x, y) ==
  \E m \in [Subtree(x) -> Subtree(y)] :
    /\ m[x] = y
    /\ \A z \in Subtree(x) :
         /\ z \in Arrays <=> m[z] \in Arrays
         /\ z \in Arrays =>
              /\ Len(elements[z]) = Len(elements[m[z]])
              /\ \A i \in DOMAIN elements[z] : m[elements[z][i]] = elements[m[z]][i]

\* When a copy constructor is done, the outermost or a nested one, its copy
\* has the form of the original all the way down and shares no atom with it
\* (array_t::clone, testDuplicate).
CopiesHaveTheShape ==
  (copying # <<>> /\ Finished) => SameForm(to, from) /\ Subtree(to) \cap Subtree(from) = {}

\* No step of a copy constructor changes what the application owns, nor does
\* the exception that unwinds them all: the original and all other trees keep
\* every atom, and every array in them its elements.  JSONArray(JSONArray &)
\* takes the original by a reference that is not const, and what the unwinding
\* destroys is found through pointers (array_t::clone, testDuplicate).
OriginalsStayWhole ==
  [][copying # <<>> =>
       \A x \in held : /\ Subtree(x) \subseteq heap'
                       /\ \A a \in Subtree(x) \cap Arrays : elements'[a] = elements[a]]_vars

\* Elements that stay in an array keep their order.
OrderKept ==
  \A a \in Arrays \cap heap \cap heap' : \A x, y \in heap \cap heap' :
    (Before(elements[a], x, y) /\ IsElement(a, x)' /\ IsElement(a, y)')
      => Before(elements'[a], x, y)
ElementsKeepTheirOrder == [][OrderKept]_vars
=============================================================================
