----------------------------- MODULE JsonGrammar -----------------------------
(***************************************************************************)
(* What JsonParser has to agree with: the grammar of a JSON text, and the  *)
(* tree that it means, by recursion over the tokens the lexer has          *)
(* returned.                                                               *)
(***************************************************************************)
EXTENDS JsonParser

(***************************************************************************)
(* The grammar of RFC 8259.  What begins with token n of a text is told by *)
(* the token after it, 0 if there is nothing of the kind, and by what it   *)
(* means: an array a sequence, an object a set of pairs of a key and a     *)
(* value.  Of two members with one key the later counts.                   *)
(***************************************************************************)
ASSUME EndAssumption == "none" \notin Strings \union Scalars

\* Beyond the end of a text there is no token.
Token(input, n) == IF n \in DOMAIN input THEN input[n] ELSE "none"

Failed(meaning) == [next |-> 0, meaning |-> meaning]

Meaning(token, children) == [token |-> token, children |-> children]

\* A value, by what `items' tells of elements and members further on.
ValueBy(input, items, n) ==
  LET t == Token(input, n)
      after == Token(input, n + 1)
      inside == items[n + 1]
      Made(children, next) == [next |-> next, meaning |-> Meaning(t, children)]
  IN CASE t \in Strings \union Scalars -> Made(<<>>, n + 1)
       [] t = "[" /\ after = "]" -> Made(<<>>, n + 2)
       [] t = "[" /\ after # "]" -> Made(inside.elements.meaning, inside.elements.next)
       [] t = "{" /\ after = "}" -> Made({}, n + 2)
       [] t = "{" /\ after # "}" -> Made(inside.members.meaning, inside.members.next)
       [] OTHER -> Failed(<<>>)

\* The elements of an array from one of them on.
ElementsBy(input, items, n) ==
  LET v == ValueBy(input, items, n)
      rest == items[v.next + 1].elements
  IN CASE Token(input, v.next) = "]" -> [next |-> v.next + 1, meaning |-> <<v.meaning>>]
       [] Token(input, v.next) = "," ->
            [next |-> rest.next, meaning |-> <<v.meaning>> \o rest.meaning]
       [] OTHER -> Failed(<<>>)

Overridden(key, members) == \E m \in members : m[1] = key

\* A member in front of others.
Joined(key, value, members) ==
  IF Overridden(key, members) THEN members ELSE members \union {<<key, value>>}

\* The members of an object from one of them on.
MembersBy(input, items, n) ==
  LET v == ValueBy(input, items, n + 2)
      rest == items[v.next + 1].members
  IN IF Token(input, n) \notin Strings \/ Token(input, n + 1) # ":" THEN Failed({})
     ELSE CASE Token(input, v.next) = "}" ->
                 [next |-> v.next + 1, meaning |-> {<<Token(input, n), v.meaning>>}]
            [] Token(input, v.next) = "," ->
                 [next |-> rest.next,
                  meaning |-> Joined(Token(input, n), v.meaning, rest.meaning)]
            [] OTHER -> Failed({})

Items(input) ==
  LET items[n \in Nat] == [elements |-> ElementsBy(input, items, n),
                           members |-> MembersBy(input, items, n)]
  IN items

Value(input, n) == ValueBy(input, Items(input), n)

IsText(input) == Token(input, Value(input, 1).next) = "end_of_input"

\* What a node means if `built' tells of the nodes below it.
MeaningBy(built, n) ==
  LET children == nodes[n].children
  IN Meaning(nodes[n].token,
       IF nodes[n].token = "{"
         THEN {<<children[c].step, built[children[c].node]>> : c \in DOMAIN children}
         ELSE [c \in DOMAIN children |-> built[children[c].node]])

Built == LET built[n \in DOMAIN nodes] == MeaningBy(built, n) IN built

(***************************************************************************)
(* Properties.                                                             *)
(***************************************************************************)

\* The arrays and objects a text that has begun leaves open, the innermost first.
Unclosed(input) ==
  LET Seen(open, t) == IF t \in {"[", "{"} THEN <<t>> \o open
                       ELSE IF t \in {"]", "}"} /\ open # <<>> THEN Tail(open)
                       ELSE open
  IN FoldLeft(Seen, <<>>, input)

\* What may be wanting to a value or a member that has begun.
Rests == {<<>>} \union
         UNION {{<<s>>, <<":", s>>, <<s, ":", s>>} : s \in Strings \union Scalars}

\* The shortest endings of a text that has begun: what the innermost array or object still
\* wants, then its end and the ends of those around it.
Endings(input) ==
  LET open == Unclosed(input)
      ends == [k \in DOMAIN open |-> IF open[k] = "[" THEN "]" ELSE "}"]
  IN {r \o ends \o <<"end_of_input">> : r \in Rests}

\* No text goes on as `input' does, with nothing more or with the shortest ending.
NoTextBegins(input) ==
  /\ ~IsText(input)
  /\ \A e \in Endings(input) \intersect Seq(Tokens) : ~IsText(input \o e)

\* The parser without recursion accepts texts of the grammar only, and the tree it has
\* built then means what the text means, the last of two members with one key included.
\* It refuses no text: after an error nothing that could follow makes one of what it read.
TreeIsText ==
  /\ at = "done" => IsText(tokens) /\ Built[root] = Value(tokens, 1).meaning
  /\ at = "error" => NoTextBegins(tokens)

=============================================================================
