----------------------------- MODULE JsonParser -----------------------------
(***************************************************************************)
(* How settings.json becomes a tree (3rd/json.hpp, called by settings.cpp  *)
(* :35): the parser without recursion, its stack of arrays and objects,    *)
(* and the handler of its events that builds the tree through pointers     *)
(* into it.                                                                *)
(*                                                                         *)
(* A token is one value of the lexer; which one comes is open until        *)
(* get_token asks.  A value of the tree is a node, named by its number; an *)
(* overwritten value is a node that nothing leads to.  `step' is the       *)
(* position of an element in its array or the key of a member.             *)
(***************************************************************************)
EXTENDS Integers, Sequences, SequencesExt

CONSTANTS
  Strings,     \* string tokens, keys among them
  Scalars,     \* the literals and numbers
  MaxTokens    \* bound of the model on the length of a text

ASSUME ParserAssumption ==
  /\ Strings \intersect Scalars = {}
  /\ (Strings \union Scalars) \intersect
       {"{", "}", "[", "]", ":", ",", "end_of_input", "bad"} = {}

VARIABLES
  at,              \* where sax_parse_internal is
  last_token,
  tokens,          \* the tokens the lexer has returned
  states,          \* the stack of the parser: TRUE is an array
  nodes,           \* the values made so far
  root,
  ref_stack,       \* the arrays and objects that are open
  object_element   \* the place of the next value in an object

tree == <<nodes, root, ref_stack, object_element>>
parser == <<at, last_token, tokens, states>>
parserVars == <<parser, tree>>

\* "bad" is a parse_error of the lexer or a number out of range.
Tokens == Strings \union Scalars \union
          {"{", "}", "[", "]", ":", ",", "end_of_input", "bad"}

\* An array or object that begins is a token of the tree, too.
ValueTokens == Strings \union Scalars \union {"{", "["}

Child == [step : Strings \union {ToString(n) : n \in Nat}, node : Nat]

Node == [token : ValueTokens, children : Seq(Child)]

ParserTypeOK ==
  /\ at \in {"value", "first_element", "first_key", "first_separator", "key",
            "separator", "next", "end", "done", "error"}
  /\ last_token \in Tokens
  /\ tokens \in Seq(Tokens)
  /\ states \in Seq(BOOLEAN)
  /\ nodes \in Seq(Node)
  /\ root \in 0..Len(nodes)
  /\ ref_stack \in Seq(1..Len(nodes))
  /\ object_element \in [node : 0..Len(nodes), child : Nat]

\* get_token.
GetToken ==
  /\ Len(tokens) < MaxTokens
  /\ last_token' \in Tokens
  /\ tokens' = Append(tokens, last_token')

ParserInit ==
  /\ at = "value"
  /\ last_token \in Tokens
  /\ tokens = <<last_token>>
  /\ states = <<>>
  /\ nodes = <<>>
  /\ root = 0
  /\ ref_stack = <<>>
  /\ object_element = [node |-> 0, child |-> 0]

-----------------------------------------------------------------------------
(***************************************************************************)
(* json_sax_dom_parser.  Node 0 is the null that key puts at a new key.    *)
(***************************************************************************)
IsArray(n) == nodes[n].token = "["

NewNode == Len(nodes) + 1

\* The tree with the new value hung in its place.
Hung(token) ==
  LET made == Append(nodes, [token |-> token, children |-> <<>>])
      n == Last(ref_stack)
      element == [step |-> ToString(Len(nodes[n].children)), node |-> NewNode]
  IN IF ref_stack = <<>> THEN made
     ELSE IF IsArray(n)
       THEN [made EXCEPT ![n].children = Append(@, element)]
     ELSE [made EXCEPT ![object_element.node].children[object_element.child].node = NewNode]

\* handle_value
HandleValue(token) ==
  /\ nodes' = Hung(token)
  /\ root' = IF ref_stack = <<>> THEN NewNode ELSE root

\* start_array, start_object
StartStructure(token) ==
  /\ HandleValue(token)
  /\ ref_stack' = Append(ref_stack, NewNode)
  /\ UNCHANGED object_element

\* Mutant: an array that ends stays open.
LeaveOpen == UNCHANGED tree

\* end_array, end_object
EndStructure ==
  /\ ref_stack' = Front(ref_stack)
  /\ UNCHANGED <<nodes, root, object_element>>

\* key: operator[] finds the key or makes a null for it.
Key(k) ==
  LET n == Last(ref_stack)
      members == nodes[n].children
  IN /\ \/ /\ \A c \in DOMAIN members : members[c].step # k
           /\ nodes' = [nodes EXCEPT ![n].children = Append(@, [step |-> k, node |-> 0])]
           /\ object_element' = [node |-> n, child |-> Len(members) + 1]
        \/ \E c \in DOMAIN members :
             /\ members[c].step = k
             /\ object_element' = [node |-> n, child |-> c]
             /\ UNCHANGED nodes
     /\ UNCHANGED <<root, ref_stack>>

-----------------------------------------------------------------------------
(***************************************************************************)
(* sax_parse_internal, from one call of get_token to the next.             *)
(***************************************************************************)
ParseError ==
  /\ at' = "error"
  /\ UNCHANGED <<last_token, tokens, states, tree>>

\* A value is complete.  With an empty stack the parser wants the end of the
\* input, otherwise the next token of the array or object.
AfterValue ==
  /\ at' = IF states' = <<>> THEN "end" ELSE "next"
  /\ GetToken

BeginStructure ==
  /\ at = "value" /\ last_token \in {"[", "{"}
  /\ StartStructure(last_token)
  /\ GetToken
  /\ at' = IF last_token = "[" THEN "first_element" ELSE "first_key"
  /\ UNCHANGED states

Scalar ==
  /\ at = "value" /\ last_token \in Strings \union Scalars
  /\ HandleValue(last_token)
  /\ UNCHANGED <<states, ref_stack, object_element>>
  /\ AfterValue

NoValue ==
  /\ at = "value" /\ last_token \notin Strings \union Scalars \union {"[", "{"}
  /\ ParseError

EmptyStructure ==
  /\ \/ at = "first_element" /\ last_token = "]"
     \/ at = "first_key" /\ last_token = "}"
  /\ EndStructure
  /\ UNCHANGED states
  /\ AfterValue

FirstElement ==
  /\ at = "first_element" /\ last_token # "]"
  /\ states' = Append(states, TRUE)
  /\ at' = "value"
  /\ UNCHANGED <<last_token, tokens, tree>>

\* The key of the first member, or of a later one.
ReadKey ==
  /\ at \in {"first_key", "key"} /\ last_token \in Strings
  /\ Key(last_token)
  /\ GetToken
  /\ at' = IF at = "key" THEN "separator" ELSE "first_separator"
  /\ UNCHANGED states

NoKey ==
  /\ \/ at = "first_key" /\ last_token \notin Strings \union {"}"}
     \/ at = "key" /\ last_token \notin Strings
  /\ ParseError

Separator ==
  /\ at \in {"first_separator", "separator"} /\ last_token = ":"
  /\ states' = IF at = "separator" THEN states ELSE Append(states, FALSE)
  /\ GetToken
  /\ at' = "value"
  /\ UNCHANGED tree

NoSeparator ==
  /\ at \in {"first_separator", "separator"} /\ last_token # ":"
  /\ ParseError

InArray == Last(states)

\* Mutant: the comma of an object may be followed by its end.
CommaBeforeEnd ==
  /\ at = "next" /\ last_token = ","
  /\ GetToken
  /\ at' = IF last_token' = "}" /\ ~InArray THEN "next"
           ELSE IF InArray THEN "value" ELSE "key"
  /\ UNCHANGED <<states, tree>>

Comma ==
  /\ at = "next" /\ last_token = ","
  /\ GetToken
  /\ at' = IF InArray THEN "value" ELSE "key"
  /\ UNCHANGED <<states, tree>>

Closing == IF InArray THEN "]" ELSE "}"

CloseStructure ==
  /\ at = "next" /\ last_token = Closing
  /\ EndStructure
  /\ states' = Front(states)
  /\ AfterValue

\* Mutant: what follows the first member of an object must be its end.
OnlyMember ==
  /\ at = "next" /\ last_token # Closing /\ (InArray => last_token # ",")
  /\ ParseError

NotClosed ==
  /\ at = "next" /\ last_token \notin {",", Closing}
  /\ ParseError

\* parse is strict: the input must end here.
EndOfText ==
  /\ at = "end"
  /\ at' = IF last_token = "end_of_input" THEN "done" ELSE "error"
  /\ UNCHANGED <<last_token, tokens, states, tree>>

ParserNext ==
  \/ BeginStructure \/ Scalar \/ NoValue
  \/ EmptyStructure \/ FirstElement
  \/ ReadKey \/ NoKey \/ Separator \/ NoSeparator
  \/ Comma \/ CloseStructure \/ NotClosed
  \/ EndOfText

ParserSpec == ParserInit /\ [][ParserNext]_parserVars

-----------------------------------------------------------------------------
(***************************************************************************)
(* Properties.                                                             *)
(***************************************************************************)

\* Each open array or object is the value its parent ends with, or a member of
\* it: nothing was appended to an array, and no member overwritten, below an
\* open one.
Linked ==
  \A k \in 2..Len(ref_stack) :
    LET members == nodes[ref_stack[k - 1]].children
    IN IF IsArray(ref_stack[k - 1])
         THEN members # <<>> /\ members[Len(members)].node = ref_stack[k]
         ELSE \E c \in DOMAIN members : members[c].node = ref_stack[k]

\* The next value of an object goes to a member of the innermost one.
AwaitsMember ==
  \/ at \in {"first_separator", "separator"}
  \/ at = "value" /\ ref_stack # <<>> /\ ~IsArray(Last(ref_stack))

ElementInside ==
  AwaitsMember =>
    /\ object_element.node = Last(ref_stack)
    /\ object_element.child \in DOMAIN nodes[Last(ref_stack)].children

\* The parser's stack and the tree's tell the same levels: each is an array for
\* both or an object for both.
LevelsAgree ==
  /\ at \in {"value", "next", "key", "separator", "end", "done"} =>
       Len(states) = Len(ref_stack)
  /\ \A k \in 1..Len(states) : k <= Len(ref_stack) /\ (states[k] <=> IsArray(ref_stack[k]))

\* No pointer of ref_stack or object_element dangles, and the parser is in the
\* array or object that the tree is built in (json.hpp:5486, 10474).
RefsAlive == Linked /\ ElementInside /\ LevelsAgree

(***************************************************************************)
(* The inductive invariant of the proofs in Json_proofs.                   *)
(***************************************************************************)
\* Values are numbered as they are made, so that no two levels are one node.
Nested ==
  /\ \A k \in 1..Len(ref_stack) : nodes[ref_stack[k]].token \in {"[", "{"}
  /\ \A j, k \in 1..Len(ref_stack) : j < k => ref_stack[j] < ref_stack[k]

\* Where the parser has not pushed the level that the tree has opened, and what
\* that level is.
Placed ==
  /\ at \in {"first_element", "first_key", "first_separator"} =>
       Len(ref_stack) = Len(states) + 1
  /\ at = "first_element" => IsArray(Last(ref_stack))
  /\ at \in {"first_key", "first_separator", "key", "separator"} =>
       ref_stack # <<>> /\ ~IsArray(Last(ref_stack))
  /\ at = "next" => states # <<>>
  /\ at \in {"end", "done"} => states = <<>>

ParserInv == ParserTypeOK /\ Nested /\ Placed /\ RefsAlive

=============================================================================
