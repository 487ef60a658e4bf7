------------------------------- MODULE MCJson -------------------------------
(***************************************************************************)
(* The two halves of json.hpp the program uses, each from its own initial  *)
(* states: strings that are written and read (JsonText), and texts that    *)
(* are parsed (JsonParser).  The other half rests.                         *)
(***************************************************************************)
EXTENDS JsonText, JsonGrammar

TextRests ==
  /\ pc = "done" /\ given = "text" /\ error_handler = "strict" /\ ensure_ascii = FALSE
  /\ source = <<>> /\ i = 0 /\ state = 0 /\ codepoint = 0 /\ string_buffer = <<>>
  /\ bytes_after_last_accept = 0 /\ undumped_chars = 0 /\ peak = 0
  /\ text = <<>> /\ pos = 0 /\ token_buffer = <<>> /\ result = "none"

ParserRests ==
  /\ at = "rests" /\ last_token = "none" /\ tokens = <<>> /\ states = <<>>
  /\ nodes = <<>> /\ root = 0 /\ ref_stack = <<>>
  /\ object_element = [node |-> 0, child |-> 0]

MCInit == (Init /\ ParserRests) \/ (ParserInit /\ TextRests)

MCNext ==
  \/ Next /\ UNCHANGED parserVars
  \/ ParserNext /\ UNCHANGED vars

MCSpec ==
  MCInit /\ [][MCNext]_<<vars, parserVars>> /\ WF_vars(DumpByte \/ EndDump)

\* A byte of every class that decode tells apart, and those with an escape.
AllBytes == {1, 10, Quote, 65, 128, 144, 160, 193, 194, 224, 225, 237, 240, 241, 244}
Few == {1, 128, 144, 194, 224, 240}
Long == {65, 144, 225, 241}

OfLength(bytes, n) == [1..n -> bytes]

MCSources ==
  UNION {OfLength(AllBytes, n) : n \in 0..3} \union OfLength(Few, 4) \union OfLength(Long, 5)

\* \u0041, \u00e9, \u20AC, the two halves of a pair, and two that are no number.
Escapes == {<<92, 117>> \o d : d \in {
  <<48, 48, 52, 49>>, <<48, 48, 101, 57>>, <<50, 48, 65, 67>>,
  <<100, 56, 51, 100>>, <<68, 69, 48, 48>>, <<48, 103, 48, 48>>, <<48, 48>>}}

\* Bytes with and without a good continuation, and escapes of one letter.
Pieces == Escapes \union {
  <<65>>, <<1>>, <<Quote>>, <<92, 110>>, <<92, 47>>, <<92, 120>>, <<92>>, <<193, 129>>,
  <<195, 169>>, <<224, 128, 128>>, <<226, 130, 172>>, <<237, 160, 128>>,
  <<240, 143, 128, 128>>, <<240, 159, 152, 128>>, <<244, 144, 128, 128>>}

MCTexts ==
  {p \o e : p \in Pieces, e \in {<<>>, <<Quote>>}} \union
  {p \o q \o <<Quote>> : p, q \in Pieces} \union
  {p \o q \o r \o <<Quote>> : p \in Escapes, q \in Escapes, r \in Pieces}
=============================================================================
