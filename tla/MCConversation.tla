--------------------------- MODULE MCConversation ---------------------------
(***************************************************************************)
(* An instance of Conversation for TLC: integers of eight bits at both     *)
(* ends of their range, arrays of every length up to what is needed.       *)
(***************************************************************************)
EXTENDS Conversation

Str(chars)  == <<"string", chars>>
Arr(items)  == <<"array", items>>
Obj(pairs)  == <<"object", pairs>>
Null        == <<"literal", <<"n", "u", "l", "l">>>>
Half        == <<"float", <<"0", ".", "5", "0">>>>

Scalars == {Null, Half, Str(<<"a">>), Str(<<>>), Str(<<"a", "newline", "b">>)}
           \cup {<<"int", n>> : n \in {-128, -15, 0, 7, 10, 127}}
Nested  == {Arr(<<>>), Obj(<<>>), Arr(<<Null>>), Obj(<<<<<<"a">>, Arr(<<<<"int", 1>>>>)>>>>)}
\* The second key holds an escaped quote, as parseJSON leaves it.
Keys    == <<<<"a">>, <<"backslash", "quote">>>>

SomeTrees ==
  {NoTree, Str(<<"a">>), Arr(<<>>), Obj(<<>>), Arr(<<Arr(<<>>), Obj(<<>>), Null>>),
   Obj(<<<<<<>>, Null>>>>)}
  \cup {Arr(<<x>>) : x \in Scalars \cup Nested}
  \cup {Arr(<<x, y>>) : x \in Scalars, y \in {Null, <<"int", -128>>}}
  \cup {Obj(<<<<Keys[1], x>>>>) : x \in Scalars \cup Nested}
  \cup {Obj(<<<<Keys[1], x>>, <<Keys[2], y>>>>) : x \in {Null, <<"int", 10>>}, y \in {Half, Arr(<<>>)}}

SomeSinks == {OpenFile(<<>>, "both"), OpenSocket}
             \cup {OpenMemory([i \in 1..n |-> "nul"]) : n \in 0..26}

SomeChunks == {call.chars : call \in UNION {Range(store(t)) : t \in SomeTrees \ {NoTree}}}

AllKinds   == StreamKinds
NoText     == {<<>>}
=============================================================================
