----------------------------- MODULE JsonPlaces -----------------------------
(***************************************************************************)
(* The inductive invariant of TreeIsText.  `where' tells for a node where  *)
(* its value begins in the text, and `item' for an open array or object    *)
(* where its present element or member does.  GrammarInv says that there   *)
(* are such places at which every text that continues the tokens read so   *)
(* far means what the tree holds: what has ended means what its node does, *)
(* what is open means what it holds and what comes, and if one that is     *)
(* open fails, the text does.  After an error no text is left.             *)
(***************************************************************************)
EXTENDS JsonGrammar

\* The elements and the members of a text from token n on.
Elements(input, n) == Items(input)[n].elements

Members(input, n) == Items(input)[n].members

\* A text that continues the tokens read so far.
StartsAsRead(input) ==
  /\ input \in Seq(Tokens)
  /\ Len(tokens) <= Len(input)
  /\ \A n \in 1..Len(tokens) : input[n] = tokens[n]

\* The number of open arrays and objects, and of the tokens read.
Depth == Len(ref_stack)

Read == Len(tokens)

\* Arrays and objects whose first element or member the parser has come to.
Entered(k) == k = Depth => at \notin {"first_element", "first_key"}

\* The present element or member stands in the tree.
IsHung(k) == k < Depth \/ at = "next"

\* The array or object did not end yet.
IsOpen(n) == \E k \in 1..Depth : ref_stack[k] = n

\* The value of the present element or member.
Inner(item, k) == IF IsArray(ref_stack[k]) THEN item[k] ELSE item[k] + 2

\* A child's number: children are made after their parents.
IsNumber(n, parent) == n \in Nat /\ parent < n /\ n <= Len(nodes)

IsFinished(n, parent) == IsNumber(n, parent) /\ ~IsOpen(n)

\* Where the values begin, and the place of the present one.
Located(where, item) ==
  /\ where \in [1..Len(nodes) -> 1..Read]
  /\ item \in [1..Depth -> 1..Read]
  /\ \A n \in 1..Len(nodes) : tokens[where[n]] = nodes[n].token
  /\ nodes # <<>> => root = 1 /\ where[1] = 1
  /\ ref_stack # <<>> => ref_stack[1] = 1
  /\ tokens # <<>> /\ last_token = tokens[Read]

\* An object has one member of a key.
KeysDiffer ==
  \A n \in 1..Len(nodes) : nodes[n].token = "{" =>
    \A c, d \in DOMAIN nodes[n].children :
      nodes[n].children[c].step = nodes[n].children[d].step => c = d

\* All children of what has ended are values made after it.
ChildrenFollow ==
  \A n \in 1..Len(nodes) : ~IsOpen(n) =>
    \A c \in DOMAIN nodes[n].children : IsNumber(nodes[n].children[c].node, n)

\* The number of elements in front of the present one.
Before(k) ==
  IF IsHung(k) THEN Len(nodes[ref_stack[k]].children) - 1
  ELSE Len(nodes[ref_stack[k]].children)

\* The members of other keys than the present one.
Others(item, k) ==
  {c \in DOMAIN nodes[ref_stack[k]].children :
     nodes[ref_stack[k]].children[c].step # tokens[item[k]]}

\* Everything below an open array or object is finished, the present element or
\* member apart.
RestFinished(item, k) ==
  LET n == ref_stack[k]
      children == nodes[n].children
  IN IF IsArray(n)
       THEN /\ Before(k) \in Nat
            /\ \A c \in 1..Before(k) : IsFinished(children[c].node, n)
       ELSE \A c \in Others(item, k) : IsFinished(children[c].node, n)

\* The present element or member, once it is in the tree.
HangsAt(where, item, k, m) ==
  LET n == ref_stack[k]
      children == nodes[n].children
  IN /\ IsNumber(m, n)
     /\ where[m] = Inner(item, k)
     /\ IF IsArray(n) THEN children[Len(children)].node = m
        ELSE /\ tokens[item[k]] \in Strings /\ tokens[item[k] + 1] = ":"
             /\ \E c \in DOMAIN children :
                  children[c].step = tokens[item[k]] /\ children[c].node = m

\* The present element or member of level k: the level above it, or the value just
\* read.
Hangs(where, item, k) ==
  /\ k < Depth => HangsAt(where, item, k, ref_stack[k + 1])
  /\ k = Depth /\ at = "next" =>
       \E m \in 1..Len(nodes) : HangsAt(where, item, k, m) /\ ~IsOpen(m)

\* Where the parser is in the present element or member.
Stands(where, item) ==
  /\ at = "value" /\ ref_stack = <<>> => Read = 1 /\ nodes = <<>>
  /\ at = "value" /\ ref_stack # <<>> => Inner(item, Depth) = Read
  /\ at \in {"first_element", "first_key"} =>
       /\ where[Last(ref_stack)] = Read - 1
       /\ nodes[Last(ref_stack)].children = <<>>
  /\ at \in {"first_separator", "separator"} => item[Depth] = Read - 1
  /\ at = "key" => item[Depth] = Read
  /\ AwaitsMember =>
       /\ tokens[item[Depth]] \in Strings
       /\ nodes[Last(ref_stack)].children[object_element.child].step = tokens[item[Depth]]
       /\ at = "value" => tokens[item[Depth] + 1] = ":"
  /\ at \in {"end", "done"} => nodes # <<>> /\ ref_stack = <<>>

\* What the invariant says of the tree and the tokens read alone.
Shape(where, item) ==
  /\ Located(where, item)
  /\ KeysDiffer
  /\ ChildrenFollow
  /\ \A k \in 1..Depth : Entered(k) => RestFinished(item, k) /\ Hangs(where, item, k)
  /\ Stands(where, item)

\* What each node means if `input' is what comes.
Means(input, where) == [n \in 1..Len(nodes) |-> Value(input, where[n]).meaning]

\* What has ended means in the tree what it means in the text.
FinishedMean(input, where) ==
  \A n \in 1..Len(nodes) : ~IsOpen(n) =>
    Value(input, where[n]).meaning = MeaningBy(Means(input, where), n)

\* What an array means of which `held' is behind us and the element at `first' is next.
ArrayMeans(input, begin, first, held) ==
  /\ Value(input, begin).next = Elements(input, first).next
  /\ Value(input, begin).meaning = Meaning("[", held \o Elements(input, first).meaning)

\* What an object means: what comes, and what is behind us of other keys.
ObjectMeans(input, begin, first, held) ==
  LET rest == Members(input, first)
      kept == {m \in held : ~Overridden(m[1], rest.meaning)}
  IN /\ Value(input, begin).next = rest.next
     /\ rest.next # 0 =>
          Value(input, begin).meaning = Meaning("{", rest.meaning \union kept)

\* What the finished elements, and the finished members of other keys, mean.
HeldElements(input, where, k) ==
  LET n == ref_stack[k]
  IN [c \in 1..Before(k) |-> Value(input, where[nodes[n].children[c].node]).meaning]

HeldMembers(input, where, item, k) ==
  LET n == ref_stack[k]
  IN {<<nodes[n].children[c].step, Value(input, where[nodes[n].children[c].node]).meaning>> :
        c \in Others(item, k)}

\* An open array or object means what it holds and what comes.
GoesOn(input, where, item, k) ==
  IF IsArray(ref_stack[k])
    THEN ArrayMeans(input, where[ref_stack[k]], item[k], HeldElements(input, where, k))
    ELSE ObjectMeans(input, where[ref_stack[k]], item[k], HeldMembers(input, where, item, k))

\* An array or object that fails fails the text.
FailsAll(input, begin) == Value(input, begin).next = 0 => Value(input, 1).next = 0

\* How much of the text is read.
HasRead(input, item) ==
  /\ at = "next" => Value(input, Inner(item, Depth)).next = Read
  /\ at \in {"end", "done"} => Value(input, 1).next = Read
  /\ at = "done" => tokens[Read] = "end_of_input"

\* What the invariant says of a text that continues the tokens read.
Agrees(input, where, item) ==
  /\ FinishedMean(input, where)
  /\ \A k \in 1..Depth : FailsAll(input, where[ref_stack[k]])
  /\ \A k \in 1..Depth : Entered(k) => GoesOn(input, where, item, k)
  /\ HasRead(input, item)

\* The values stand where `where' and `item' tell, whatever is still to come.
Reads(where, item) ==
  /\ Shape(where, item)
  /\ \A input : StartsAsRead(input) => Agrees(input, where, item)

\* The inductive invariant: the parser's place in the tree is its place in the text,
\* and after an error no text is left.
GrammarInv ==
  /\ at # "error" => \E where, item : Reads(where, item)
  /\ at = "error" => \A input : StartsAsRead(input) => ~IsText(input)

=============================================================================
