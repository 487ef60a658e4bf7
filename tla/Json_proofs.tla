---------------------------- MODULE Json_proofs ----------------------------
(***************************************************************************)
(* Proofs about the text half of json.hpp (JsonText) and its parser        *)
(* (JsonParser): the lexer reads what the serializer has written, what it  *)
(* accepts is UTF-8, string_buffer is never overrun, the pointers of the   *)
(* parser's callbacks stay good, and the tree they build is the one that   *)
(* the text means (JsonGrammar).                                           *)
(***************************************************************************)
EXTENDS JsonText, JsonPlaces, SequenceTheorems, FiniteSetTheorems, TLAPS

\* A byte has a class, and a class a payload.
LEMMA TypeOfByte == \A b \in Byte : Type(b) \in 0..11
BY DEF Type, Byte

LEMMA Moduli == \A t \in 0..11 : Payload[t] \in Nat /\ Payload[t] > 0
BY DEF Payload

\* Where the automaton goes from a sequence, and with how many bytes missing.
LEMMA FirstState == \A b \in Byte : Decode(0, b) \in 0..8
BY TypeOfByte DEF Decode, First

LEMMA LaterState ==
  \A s \in 2..8, b \in Byte : Decode(s, b) \in {1, Remaining(s)}
BY DEF Decode

LEMMA CodepointTyped ==
  ASSUME codepoint \in Int, NEW b \in Byte
  PROVE  CodepointWith(b) \in Int
<1>1. 64 * codepoint + (b % 64) \in Int
  BY DEF Byte
<1>2. b % Payload[Type(b)] \in Int
  BY TypeOfByte, Moduli DEF Byte
<1> QED BY <1>1, <1>2 DEF CodepointWith

\* What is written for a code point: one byte, an escape of two, or six for
\* each half.
LEMMA EscapeTyped ==
  ASSUME NEW n \in Int
  PROVE  Escape(n) \in Seq(Int) /\ Len(Escape(n)) = 6
<1>1. \A d \in Int : HexDigit(d) \in Int
  BY DEF HexDigit
<1>2. n \div 4096 \in Int /\ (n \div 256) % 16 \in Int /\ (n \div 16) % 16 \in Int
      /\ n % 16 \in Int
  OBVIOUS
<1> QED BY <1>1, <1>2 DEF Escape, Backslash, LetterU

LEMMA SixBytesEach == 6 + 6 = 12
OBVIOUS

LEMMA LenConcat ==
  \A s, t \in Seq(Int) : s \o t \in Seq(Int) /\ Len(s \o t) = Len(s) + Len(t)
OBVIOUS

LEMMA DumpedTyped ==
  ASSUME NEW c \in Int, NEW b \in Byte
  PROVE  /\ Dumped(c, b) \in Seq(Int)
         /\ Len(Dumped(c, b)) \in 1..12
         /\ ~ensure_ascii => Len(Dumped(c, b)) \in 1..6
<1>1. CASE c \in Short
  <2>1. Letter(c) \in Int
    BY <1>1 DEF Letter
  <2> QED BY <1>1, <2>1 DEF Dumped, Backslash
<1>2. CASE c \notin Short /\ ~(c <= 31 \/ (ensure_ascii /\ c >= 127))
  BY <1>2 DEF Dumped, Byte
<1>3. CASE c \notin Short /\ (c <= 31 \/ (ensure_ascii /\ c >= 127))
  <2>1. CASE c <= 65535
    <3>1. Dumped(c, b) = Escape(c)
      BY <1>3, <2>1 DEF Dumped
    <3> QED BY <3>1, EscapeTyped
  <2>2. CASE ~(c <= 65535)
    <3>1. /\ 55232 + c \div 1024 \in Int
          /\ 56320 + (c % 1024) \in Int
      OBVIOUS
    <3>2. Dumped(c, b) = Escape(55232 + c \div 1024) \o Escape(56320 + (c % 1024))
      BY <1>3, <2>2 DEF Dumped
    <3>3. ensure_ascii
      BY <1>3, <2>2
    <3>4. PICK hi \in Seq(Int), lo \in Seq(Int) :
            /\ hi = Escape(55232 + c \div 1024) /\ Len(hi) = 6
            /\ lo = Escape(56320 + (c % 1024)) /\ Len(lo) = 6
      BY <3>1, EscapeTyped
    <3>5. Dumped(c, b) = hi \o lo
      BY <3>2, <3>4
    <3>6. hi \o lo \in Seq(Int) /\ Len(hi \o lo) = Len(hi) + Len(lo)
      BY LenConcat, Zenon
    <3>7. Len(Dumped(c, b)) = 12
      <4>1. Len(hi) = 6 /\ Len(lo) = 6
        BY <3>4
      <4>2. Len(hi) + Len(lo) = 6 + 6
        BY <4>1, Zenon
      <4> QED BY <3>5, <3>6, <4>2, SixBytesEach, Zenon
    <3>8. Dumped(c, b) \in Seq(Int)
      BY <3>5, <3>6, Zenon
    <3> QED BY <3>3, <3>7, <3>8
  <2> QED BY <2>1, <2>2
<1> QED BY <1>1, <1>2, <1>3

-----------------------------------------------------------------------------
(***************************************************************************)
(* The inductive invariant.  Behind the last accepted byte lie the bytes   *)
(* of the sequence that is being read, no more than its state has seen,    *)
(* and none if they will be escaped; and at that byte there was room for   *)
(* 13 more.                                                                *)
(***************************************************************************)
BytesSeen ==
  /\ state = 0 => undumped_chars = 0
  /\ state \in 3..5 => undumped_chars <= 2
  /\ state \in 6..8 => undumped_chars <= 1

RoomLeft ==
  /\ bytes_after_last_accept + 13 <= BufferSize
  /\ Len(string_buffer) =
       bytes_after_last_accept + (IF ensure_ascii THEN 0 ELSE undumped_chars)

IInv == TypeOK /\ BytesSeen /\ RoomLeft /\ BufferFits

LEMMA InitIInv == Init => IInv
<1> SUFFICES ASSUME Init PROVE IInv
  OBVIOUS
<1>1. source \in Seq(Byte) /\ text \in Seq(Int)
  <2>1. \A t \in Seq(Byte) : t \in Seq(Int)
    <3>1. Byte \subseteq Int
      BY DEF Byte
    <3> QED BY <3>1, SeqMonotonic, Zenon
  <2>2. source \in Sources \union {<<>>} /\ text \in Texts \union {<<>>}
    BY DEF Init
  <2>3. <<>> \in Seq(Byte)
    OBVIOUS
  <2>4. source \in Seq(Byte) /\ text \in Seq(Byte)
    BY <2>2, <2>3, TextAssumption, Zenon
  <2> QED BY <2>1, <2>4
<1>2. TypeOK
  <2>1. Len(source) \in Nat
    BY <1>1
  <2>2. i = 0 /\ string_buffer = <<>> /\ bytes_after_last_accept = 0 /\ state = 0
        /\ undumped_chars = 0 /\ codepoint = 0 /\ peak = 0 /\ pos = 0 /\ result = "none"
    BY DEF Init
  <2>3. i \in 0..Len(source)
    BY <2>1, <2>2
  <2>4. /\ pc \in {"dump", "thrown", "scan", "done"} /\ given \in {"value", "text"}
        /\ error_handler \in {"strict", "ignore"} /\ ensure_ascii \in BOOLEAN
    BY DEF Init
  <2> QED BY <1>1, <2>2, <2>3, <2>4 DEF TypeOK
<1>3. BytesSeen /\ RoomLeft /\ BufferFits
  <2>1. CASE ensure_ascii
    BY <2>1, TextAssumption DEF Init, BytesSeen, RoomLeft, BufferFits
  <2>2. CASE ~ensure_ascii
    BY <2>2, TextAssumption DEF Init, BytesSeen, RoomLeft, BufferFits
  <2> QED BY <2>1, <2>2
<1> QED BY <1>2, <1>3 DEF IInv

\* What fits behind the last accepted byte, counted without the strings.
LEMMA Room ==
  ASSUME NEW last \in Nat, NEW more \in Nat, NEW size \in Nat, last + 13 <= size
  PROVE  /\ \A n : n = last + more => n \in Nat /\ n >= last
         /\ \A n : n = last + more /\ more <= 13 => n <= size
OBVIOUS

LEMMA AcceptKeeps ==
  ASSUME IInv, NEW b \in Byte, pc = "dump", i < Len(source), AcceptByte(b),
         UNCHANGED <<call, lexer>>
  PROVE  IInv'
<1> DEFINE c == CodepointWith(b)
           buffer == string_buffer \o Dumped(c, b)
<1> USE DEF IInv
<1>1. c \in Int
  BY CodepointTyped DEF TypeOK
<1>2. /\ Dumped(c, b) \in Seq(Int)
      /\ Len(Dumped(c, b)) \in 1..12
      /\ ~ensure_ascii => Len(Dumped(c, b)) \in 1..6
  BY <1>1, DumpedTyped
<1>3. buffer \in Seq(Int) /\ Len(buffer) = Len(string_buffer) + Len(Dumped(c, b))
  BY <1>2 DEF TypeOK
<1>4. Used(c, b) \in Int /\ Used(c, b) <= BufferSize
  <2>1. /\ Len(string_buffer) \in Nat /\ undumped_chars \in 0..3
        /\ bytes_after_last_accept \in Nat /\ bytes_after_last_accept + 13 <= BufferSize
        /\ BufferSize \in Nat
    BY TextAssumption DEF TypeOK, RoomLeft
  <2> DEFINE d == Len(Dumped(c, b))
             end == IF d > 2 THEN 1 ELSE 0
             seen == IF ensure_ascii THEN 0 ELSE undumped_chars
             last == bytes_after_last_accept
  <2>2. d \in 1..12 /\ end \in 0..1 /\ seen \in 0..3 /\ (seen = 0 \/ d \in 1..6)
    BY <1>2, <2>1
  <2>3. Used(c, b) = (last + seen) + d + end
    BY DEF Used, RoomLeft
  <2> HIDE DEF d, end, seen, last
  <2>4. seen + d + end \in Nat /\ seen + d + end <= 13
    BY <2>2
  <2>5. last \in Nat /\ last + 13 <= BufferSize
    BY <2>1 DEF last
  <2>6. Used(c, b) = last + (seen + d + end)
    BY <2>2, <2>3, <2>5
  <2> QED BY <2>1, <2>4, <2>5, <2>6, Room
<1>5. /\ codepoint' = c /\ state' = 0 /\ undumped_chars' = 0 /\ i' = i + 1 /\ pc' = pc
      /\ bytes_after_last_accept' = Len(string_buffer')
      /\ peak' = IF Used(c, b) > peak THEN Used(c, b) ELSE peak
      /\ \/ MustFlush(buffer) /\ string_buffer' = <<>> /\ text' = text \o buffer
         \/ ~MustFlush(buffer) /\ string_buffer' = buffer /\ text' = text
  BY DEF AcceptByte
<1>6. peak' \in Int /\ peak' <= BufferSize
  BY <1>4, <1>5 DEF TypeOK, BufferFits
<1>7. string_buffer' \in Seq(Int) /\ Len(string_buffer') + 13 <= BufferSize
      /\ text' \in Seq(Int)
  <2>1. CASE MustFlush(buffer)
    <3>1. string_buffer' = <<>> /\ text' = text \o buffer
      BY <1>5, <2>1
    <3> QED BY <1>3, <3>1, TextAssumption DEF TypeOK
  <2>2. CASE ~MustFlush(buffer)
    <3>1. string_buffer' = buffer /\ text' = text
      BY <1>5, <2>2
    <3>2. BufferSize - Len(buffer) >= 13
      BY <1>3, <2>2, TextAssumption DEF MustFlush, TypeOK
    <3> QED BY <1>3, <3>1, <3>2, TextAssumption DEF TypeOK
  <2> QED BY <2>1, <2>2
<1>8. TypeOK'
  BY <1>1, <1>5, <1>6, <1>7 DEF TypeOK, call, lexer
<1> QED BY <1>5, <1>6, <1>7, <1>8 DEF BytesSeen, RoomLeft, BufferFits, call

LEMMA RejectKeeps ==
  ASSUME IInv, NEW b \in Byte, pc = "dump", i < Len(source), RejectByte(b),
         UNCHANGED <<call, lexer>>
  PROVE  IInv'
<1> USE DEF IInv
<1>1. CASE pc' = "thrown" /\ UNCHANGED <<dumper, text>>
  BY <1>1 DEF TypeOK, BytesSeen, RoomLeft, BufferFits, call, dumper, lexer
<1>2. CASE /\ i' = IF undumped_chars > 0 THEN i ELSE i + 1
           /\ string_buffer' = SubSeq(string_buffer, 1, bytes_after_last_accept)
           /\ state' = 0 /\ undumped_chars' = 0 /\ codepoint' = CodepointWith(b)
           /\ UNCHANGED <<pc, bytes_after_last_accept, peak, text>>
  <2>1. string_buffer' \in Seq(Int) /\ Len(string_buffer') = bytes_after_last_accept
    BY <1>2 DEF TypeOK
  <2>2. i' \in 0..Len(source)
    BY <1>2 DEF TypeOK
  <2>3. TypeOK'
    BY <1>2, <2>1, <2>2, CodepointTyped DEF TypeOK, call, lexer
  <2> QED BY <1>2, <2>1, <2>3 DEF TypeOK, BytesSeen, RoomLeft, BufferFits, call
<1> QED BY <1>1, <1>2 DEF RejectByte

LEMMA KeepKeeps ==
  ASSUME IInv, NEW b \in Byte, pc = "dump", i < Len(source), KeepByte(b),
         UNCHANGED <<call, lexer>>
  PROVE  IInv'
<1> USE DEF IInv
<1>1. codepoint' \in Int
  BY CodepointTyped DEF TypeOK, KeepByte
<1>2. /\ state' \in 2..8
      /\ undumped_chars' \in 1..3
      /\ state' \in 3..5 => undumped_chars' <= 2
      /\ state' \in 6..8 => undumped_chars' <= 1
  <2>1. state' = Decode(state, b) /\ state' \notin {0, 1}
        /\ undumped_chars' = undumped_chars + 1
    BY DEF KeepByte
  <2>2. CASE state = 0
    <3>1. undumped_chars' = 1
      BY <2>1, <2>2 DEF BytesSeen
    <3>2. state' \in 2..8
      BY <2>1, <2>2, FirstState
    <3> QED BY <3>1, <3>2
  <2>3. CASE state # 0
    <3>1. state \in 2..8 /\ state' = Remaining(state)
      BY <2>1, <2>3, LaterState DEF TypeOK
    <3>2. state # 2
      BY <2>1, <3>1 DEF Remaining
    <3>3. CASE state \in 3..5
      <4>1. state' = 2 \/ state' = 2
        BY <3>1, <3>3 DEF Remaining
      <4> QED BY <2>1, <3>3, <4>1 DEF TypeOK, BytesSeen
    <3>4. CASE state \in 6..8
      <4>1. state' = 3
        BY <3>1, <3>4 DEF Remaining
      <4> QED BY <2>1, <3>4, <4>1 DEF TypeOK, BytesSeen
    <3> QED BY <3>1, <3>2, <3>3, <3>4
  <2> QED BY <2>2, <2>3
<1>3. /\ string_buffer' \in Seq(Int)
      /\ Len(string_buffer') =
           bytes_after_last_accept + (IF ensure_ascii THEN 0 ELSE undumped_chars')
  <2>1. CASE ensure_ascii
    BY <2>1 DEF KeepByte, TypeOK, RoomLeft
  <2>2. CASE ~ensure_ascii
    <3>1. string_buffer' = Append(string_buffer, b) /\ undumped_chars' = undumped_chars + 1
      BY <2>2 DEF KeepByte
    <3>2. b \in Int
      BY DEF Byte
    <3> QED BY <2>2, <3>1, <3>2 DEF TypeOK, RoomLeft
  <2> QED BY <2>1, <2>2
<1>4. /\ Len(string_buffer') \in Nat /\ Len(string_buffer') <= BufferSize
      /\ Len(string_buffer') >= bytes_after_last_accept
  <2>1. /\ bytes_after_last_accept \in Nat /\ bytes_after_last_accept + 13 <= BufferSize
        /\ BufferSize \in Nat /\ ensure_ascii \in BOOLEAN
    BY TextAssumption DEF TypeOK, RoomLeft
  <2>2. CASE ensure_ascii
    BY <1>3, <2>1, <2>2
  <2>3. CASE ~ensure_ascii
    <3>1. Len(string_buffer') = bytes_after_last_accept + undumped_chars'
      BY <1>3, <2>3
    <3>2. undumped_chars' \in Nat /\ undumped_chars' <= 13
      BY <1>2
    <3> QED BY <2>1, <3>1, <3>2, Room, Zenon
  <2> QED BY <2>2, <2>3
<1>5. peak' \in Int /\ peak' <= BufferSize
  <2>1. peak' = IF Len(string_buffer') > peak THEN Len(string_buffer') ELSE peak
    BY DEF KeepByte
  <2> QED BY <1>4, <2>1 DEF TypeOK, BufferFits
<1>6. /\ i' \in 0..Len(source)
      /\ UNCHANGED <<pc, bytes_after_last_accept, text>>
  BY DEF KeepByte, TypeOK
<1>7. TypeOK'
  <2>1. bytes_after_last_accept' \in 0..Len(string_buffer')
    BY <1>6, <1>4 DEF TypeOK
  <2>2. state' \in {0} \union 2..8 /\ undumped_chars' \in 0..3
    BY <1>2
  <2>3. string_buffer' \in Seq(Int) /\ peak' \in Int
    BY <1>3, <1>5
  <2> QED BY <1>1, <1>6, <2>1, <2>2, <2>3 DEF TypeOK, call, lexer
<1> QED BY <1>2, <1>3, <1>5, <1>6, <1>7 DEF BytesSeen, RoomLeft, BufferFits, call

LEMMA EndKeeps == IInv /\ EndDump => IInv'
<1> SUFFICES ASSUME IInv, EndDump PROVE IInv'
  OBVIOUS
<1>1. /\ SubSeq(string_buffer, 1, bytes_after_last_accept) \in Seq(Int)
      /\ <<Quote>> \in Seq(Int)
  BY DEF IInv, TypeOK, Quote
<1>2. text' \in Seq(Int) /\ pc' \in {"scan", "thrown"}
  <2>1. text \in Seq(Int) /\ string_buffer \in Seq(Int)
    BY DEF IInv, TypeOK
  <2>2. \/ text' = text \o string_buffer \o <<Quote>> /\ pc' = "scan"
        \/ /\ text' = text \o SubSeq(string_buffer, 1, bytes_after_last_accept) \o <<Quote>>
           /\ pc' = "scan"
        \/ text' = text /\ pc' = "thrown"
    BY DEF EndDump
  <2>3. \A s \in Seq(Int) : text \o s \o <<Quote>> \in Seq(Int)
    BY <1>1, <2>1, LenConcat, Zenon
  <2> QED BY <1>1, <2>1, <2>2, <2>3
<1>3. UNCHANGED <<call, dumper, lexer>>
  BY DEF EndDump
<1> QED
  BY <1>2, <1>3
  DEF IInv, TypeOK, BytesSeen, RoomLeft, BufferFits, call, dumper, lexer

\* The lexer leaves the serializer alone.
LEMMA ScanKeeps == IInv /\ ScanCharacter => IInv'
<1> SUFFICES ASSUME IInv, ScanCharacter PROVE IInv'
  OBVIOUS
<1>1. ASSUME NEW bytes, NEW length \in Nat, Add(bytes, length)
      PROVE  pc' = pc /\ pos' \in Nat /\ result' = result
  BY <1>1 DEF IInv, TypeOK, Add
<1>2. ASSUME NEW token \in {"value_string", "parse_error"}, End(token)
      PROVE  pc' = "done" /\ pos' = pos /\ result' = token
  BY <1>2 DEF End
<1> DEFINE Scanned ==
       /\ pc' \in {pc, "done"} /\ pos' \in Nat
       /\ result' \in {result, "value_string", "parse_error"}
<1>3. Scanned
  <2>1. CASE ClosingQuote
    BY <1>2, <2>1 DEF ClosingQuote, IInv, TypeOK
  <2>2. CASE Forbidden
    BY <1>2, <2>2 DEF Forbidden, IInv, TypeOK
  <2>3. CASE Plain
    BY <1>1, <2>3 DEF Plain
  <2>4. CASE EscapedLetter
    BY <1>1, <1>2, <2>4 DEF EscapedLetter, IInv, TypeOK
  <2>5. CASE EscapedCodepoint
    BY <1>1, <1>2, <2>5 DEF EscapedCodepoint, IInv, TypeOK
  <2>6. CASE Multibyte
    <3>1. Len(Following(Ahead(1))) \in Nat
      BY <2>6 DEF Multibyte, Following
    <3>2. \/ \E bytes : Add(bytes, Len(Following(Ahead(1))) + 1)
          \/ End("parse_error")
      BY <2>6 DEF Multibyte
    <3> QED BY <1>1, <1>2, <3>1, <3>2 DEF IInv, TypeOK
  <2> QED BY <2>1, <2>2, <2>3, <2>4, <2>5, <2>6 DEF ScanCharacter
<1>4. UNCHANGED <<call, dumper, text>>
  BY DEF ScanCharacter
<1> QED
  BY <1>3, <1>4 DEF IInv, TypeOK, BytesSeen, RoomLeft, BufferFits, call, dumper

LEMMA IInvInductive == IInv /\ [Next]_vars => IInv'
<1> SUFFICES ASSUME IInv, [Next]_vars PROVE IInv'
  OBVIOUS
<1>1. CASE DumpByte
  <2>1. source[i + 1] \in Byte /\ pc = "dump" /\ i < Len(source) /\ UNCHANGED <<call, lexer>>
    BY <1>1 DEF DumpByte, IInv, TypeOK
  <2>2. \/ AcceptByte(source[i + 1])
        \/ RejectByte(source[i + 1])
        \/ KeepByte(source[i + 1])
    BY <1>1 DEF DumpByte
  <2> QED BY <2>1, <2>2, AcceptKeeps, RejectKeeps, KeepKeeps
<1>2. CASE EndDump
  BY <1>2, EndKeeps
<1>3. CASE ScanCharacter
  BY <1>3, ScanKeeps
<1>4. CASE UNCHANGED vars
  BY <1>4 DEF vars, IInv, TypeOK, BytesSeen, RoomLeft, BufferFits, call, dumper, lexer
<1> QED BY <1>1, <1>2, <1>3, <1>4 DEF Next

-----------------------------------------------------------------------------
\* For any strings, texts and size of the buffer: the counters of dump_escaped
\* keep their range; no sequence holds more than three bytes that are not
\* dumped.
THEOREM TypeCorrect == Spec => []TypeOK
<1>1. IInv => TypeOK
  BY DEF IInv
<1> QED BY InitIInv, IInvInductive, <1>1, PTL DEF Spec

\* For any strings and any buffer of 13 bytes or more: what is put into
\* string_buffer, and the NUL of snprintf, stay within it (json.hpp:15919).
THEOREM BufferNeverOverrun == Spec => []BufferFits
<1>1. IInv => BufferFits
  BY DEF IInv
<1> QED BY InitIInv, IInvInductive, <1>1, PTL DEF Spec

\* A byte that is read again has at least one kept before it to pay for it.
LEMMA DumpStep ==
  TypeOK /\ pc = "dump" /\ Next => Left \in Nat /\ (pc' = "dump" => Left' < Left)
<1> SUFFICES ASSUME TypeOK, pc = "dump", Next
             PROVE  Left \in Nat /\ (pc' = "dump" => Left' < Left)
  OBVIOUS
<1>1. /\ Len(source) \in Nat /\ i \in Nat /\ i <= Len(source)
      /\ undumped_chars \in Nat
  BY DEF TypeOK
<1>2. Left \in Nat
  BY <1>1 DEF Left
<1>3. ASSUME DumpByte, pc' = "dump" PROVE Left' < Left
  <2>1. source' = source
    BY <1>3 DEF DumpByte, call
  <2>2. \/ i' = i + 1 /\ undumped_chars' \in {0, undumped_chars + 1}
        \/ i' = i /\ undumped_chars' = 0 /\ undumped_chars > 0
    <3>1. CASE AcceptByte(source[i + 1])
      BY <3>1 DEF AcceptByte
    <3>2. CASE RejectByte(source[i + 1])
      BY <1>3, <3>2 DEF RejectByte
    <3>3. CASE KeepByte(source[i + 1])
      BY <3>3 DEF KeepByte
    <3> QED BY <1>3, <3>1, <3>2, <3>3 DEF DumpByte
  <2> QED BY <1>1, <2>1, <2>2 DEF Left
<1>4. CASE EndDump
  BY <1>2, <1>4 DEF EndDump
<1>5. ~ScanCharacter
  BY DEF ScanCharacter
<1> QED BY <1>2, <1>3, <1>4, <1>5 DEF Next

\* For any string: dump_escaped cannot read bytes again for ever (the safety half
\* of DumpEnds).
THEOREM DumpOnlyRunsDown == Spec => DumpRunsDown
<1>1. TypeOK /\ [Next]_vars =>
        [pc = "dump" => Left \in Nat /\ (pc' = "dump" => Left' < Left)]_vars
  BY DumpStep
<1> QED BY TypeCorrect, <1>1, PTL DEF Spec, DumpRunsDown

-----------------------------------------------------------------------------
(***************************************************************************)
(* Characters. A sequence of bytes is UTF-8 if it can be cut into          *)
(* characters, and what the lexer adds to token_buffer is one character    *)
(* each time.                                                              *)
(***************************************************************************)

\* The first byte of a sequence tells its length, and is no byte that continues one.
LEMMA FirstByte ==
  ASSUME NEW s, NEW a, NEW n \in 1..4, SequenceAt(s, a, n)
  PROVE  /\ s[a] \in 0..127 <=> n = 1
         /\ s[a] \in 194..223 <=> n = 2
         /\ s[a] \in 224..239 <=> n = 3
         /\ s[a] \in 240..244 <=> n = 4
         /\ s[a] \in Nat /\ s[a] \notin 128..193
<1> DEFINE first == s[a]
<1>1. \/ n = 1 /\ first \in 0..127
      \/ n = 2 /\ first \in 194..223
      \/ n = 3 /\ first \in 224..239
      \/ n = 4 /\ first \in 240..244
  BY DEF SequenceAt
<1> HIDE DEF first
<1>2. /\ first \in 0..127 <=> n = 1
      /\ first \in 194..223 <=> n = 2
      /\ first \in 224..239 <=> n = 3
      /\ first \in 240..244 <=> n = 4
      /\ first \in Nat /\ first \notin 128..193
  <2>1. CASE n = 1
    BY <1>1, <2>1
  <2>2. CASE n = 2
    BY <1>1, <2>2
  <2>3. CASE n = 3
    BY <1>1, <2>3
  <2>4. CASE n = 4
    BY <1>1, <2>4
  <2> QED BY <2>1, <2>2, <2>3, <2>4
<1> QED BY <1>2 DEF first

\* A place begins at most one character.
LEMMA OneLength ==
  ASSUME NEW s, NEW a, NEW n \in 1..4, NEW m \in 1..4, SequenceAt(s, a, n), SequenceAt(s, a, m)
  PROVE  n = m
BY FirstByte

\* A sequence is one wherever it stands.
LEMMA SequenceMoved ==
  ASSUME NEW s, NEW t, NEW a \in Int, NEW b \in Int, NEW n \in 1..4, SequenceAt(s, a, n),
         b + n - 1 <= Len(t), \A k \in 0..(n - 1) : t[b + k] = s[a + k]
  PROVE  SequenceAt(t, b, n)
<1>1. ASSUME NEW k \in (b + 1)..(b + n - 1) PROVE t[k] \in 128..191
  <2>1. PICK j \in 0..(n - 1) : k = b + j /\ a + j \in (a + 1)..(a + n - 1)
    <3>1. k - b \in 0..(n - 1) /\ k = b + (k - b) /\ a + (k - b) \in (a + 1)..(a + n - 1)
      OBVIOUS
    <3> QED BY <3>1
  <2>2. t[b + j] = s[a + j] /\ s[a + j] \in 128..191
    BY <2>1 DEF SequenceAt
  <2> QED BY <2>1, <2>2
<1>2. t[b] = s[a] /\ (n # 1 => t[b + 1] = s[a + 1])
  <2>1. 0 \in 0..(n - 1) /\ (n # 1 => 1 \in 0..(n - 1)) /\ b + 0 = b /\ a + 0 = a
    OBVIOUS
  <2>2. t[b + 0] = s[a + 0] /\ (n # 1 => t[b + 1] = s[a + 1])
    BY <2>1, Zenon
  <2> QED BY <2>1, <2>2
<1>3. \/ n = 1 /\ t[b] \in 0..127
      \/ n = 2 /\ t[b] \in 194..223
      \/ n = 3 /\ t[b] \in 224..239 /\ (t[b] = 224 => t[b + 1] >= 160)
                                   /\ (t[b] = 237 => t[b + 1] <= 159)
      \/ n = 4 /\ t[b] \in 240..244 /\ (t[b] = 240 => t[b + 1] >= 144)
                                   /\ (t[b] = 244 => t[b + 1] <= 143)
  <2>1. CASE n = 1
    BY <1>2, <2>1 DEF SequenceAt
  <2>2. CASE n # 1
    <3>1. s[a] = t[b] /\ s[a + 1] = t[b + 1]
      BY <1>2, <2>2
    <3> QED BY <2>2, <3>1 DEF SequenceAt
  <2> QED BY <2>1, <2>2
<1> QED BY <1>1, <1>3 DEF SequenceAt

\* Quotients by the powers of 64, for the code points of each length.
LEMMA TwoParts ==
  ASSUME NEW c \in 128..2047
  PROVE  c \div 64 \in 2..31 /\ c % 64 \in 0..63
BY SMTT(30)

LEMMA ThreeParts ==
  ASSUME NEW c \in Nat, 2048 <= c, c <= 65535, c \notin 55296..57343
  PROVE  /\ c \div 4096 \in 0..15 /\ c % 64 \in 0..63 /\ (c \div 64) % 64 \in 0..63
         /\ c \div 4096 = 0 => (c \div 64) % 64 >= 32
         /\ c \div 4096 = 13 => (c \div 64) % 64 <= 31
<1>1. c \div 4096 \in 0..15 /\ c % 64 \in 0..63 /\ (c \div 64) % 64 \in 0..63
  BY SMTT(30)
<1>2. c \div 4096 = 0 => (c \div 64) % 64 >= 32
  BY SMTT(30)
<1>3. c \div 4096 = 13 => (c \div 64) % 64 <= 31
  BY SMTT(30)
<1> QED BY <1>1, <1>2, <1>3, SMT

LEMMA FourParts ==
  ASSUME NEW c \in Nat, 65536 <= c, c <= 1114111
  PROVE  /\ c \div 262144 \in 0..4 /\ c % 64 \in 0..63 /\ (c \div 64) % 64 \in 0..63
         /\ (c \div 4096) % 64 \in 0..63
         /\ c \div 262144 = 0 => (c \div 4096) % 64 >= 16
         /\ c \div 262144 = 4 => (c \div 4096) % 64 <= 15
<1>1. /\ c \div 262144 \in 0..4 /\ c % 64 \in 0..63 /\ (c \div 64) % 64 \in 0..63
      /\ (c \div 4096) % 64 \in 0..63
  BY SMTT(30)
<1>2. c \div 262144 = 0 => (c \div 4096) % 64 >= 16
  BY SMTT(30)
<1>3. c \div 262144 = 4 => (c \div 4096) % 64 <= 15
  BY SMTT(30)
<1> QED BY <1>1, <1>2, <1>3, SMT

\* What the lexer makes of a code point is one character (json.hpp:7240).
LEMMA Utf8Sequence ==
  ASSUME NEW c \in Nat, c <= 1114111, c \notin 55296..57343
  PROVE  /\ Utf8(c) \in Seq(Int) /\ Len(Utf8(c)) \in 1..4
         /\ SequenceAt(Utf8(c), 1, Len(Utf8(c)))
<1>1. CASE c \in 0..127
  <2>1. Utf8(c) = <<c>>
    BY <1>1, SMT DEF Utf8
  <2> QED BY <1>1, <2>1, SMT DEF SequenceAt
<1>2. CASE c \in 128..2047
  <2> DEFINE h == c \div 64
             l == c % 64
  <2>1. h \in 2..31 /\ l \in 0..63
    BY <1>2, TwoParts, SMT
  <2>2. Utf8(c) = <<192 + h, 128 + l>>
    BY <1>2, SMT DEF Utf8
  <2> HIDE DEF h, l
  <2> QED BY <2>1, <2>2, SMT DEF SequenceAt
<1>3. CASE 2048 <= c /\ c <= 65535
  <2> DEFINE h == c \div 4096
             m == (c \div 64) % 64
             l == c % 64
  <2>1. /\ h \in 0..15 /\ m \in 0..63 /\ l \in 0..63
        /\ (h = 0 => m >= 32) /\ (h = 13 => m <= 31)
    BY <1>3, ThreeParts, SMT
  <2>2. Utf8(c) = <<224 + h, 128 + m, 128 + l>>
    BY <1>3, SMT DEF Utf8
  <2> HIDE DEF h, m, l
  <2> QED BY <2>1, <2>2, SMT DEF SequenceAt
<1>4. CASE 65536 <= c
  <2> DEFINE h == c \div 262144
             g == (c \div 4096) % 64
             m == (c \div 64) % 64
             l == c % 64
  <2>1. /\ h \in 0..4 /\ g \in 0..63 /\ m \in 0..63 /\ l \in 0..63
        /\ (h = 0 => g >= 16) /\ (h = 4 => g <= 15)
    BY <1>4, FourParts, SMT
  <2>2. Utf8(c) = <<240 + h, 128 + g, 128 + m, 128 + l>>
    BY <1>4, SMT DEF Utf8
  <2> HIDE DEF h, g, m, l
  <2> QED BY <2>1, <2>2, SMT DEF SequenceAt
<1>5. c \in 0..127 \/ c \in 128..2047 \/ (2048 <= c /\ c <= 65535) \/ 65536 <= c
  BY SMT
<1> QED BY <1>1, <1>2, <1>3, <1>4, <1>5, SMT

\* A character behind UTF-8 is UTF-8.
LEMMA GoodAppend ==
  ASSUME NEW s \in Seq(Int), NEW u \in Seq(Int), IsUtf8(s),
         Len(u) \in 1..4, SequenceAt(u, 1, Len(u))
  PROVE  IsUtf8(s \o u)
<1> DEFINE t == s \o u
<1>1. /\ t \in Seq(Int) /\ Len(t) = Len(s) + Len(u) /\ Len(s) \in Nat
      /\ \A k \in 1..Len(s) : t[k] = s[k]
      /\ \A k \in 1..Len(u) : t[Len(s) + k] = u[k]
  OBVIOUS
<1> HIDE DEF t
<1>2. ASSUME NEW k \in 1..Len(s) PROVE Good(t, k)
  <2>1. PICK a \in 1..k, n \in 1..4 : a + n > k /\ SequenceAt(s, a, n)
    BY <1>2 DEF IsUtf8, Good
  <2>2. a + n - 1 <= Len(s)
    BY <2>1 DEF SequenceAt
  <2>3. a + n - 1 <= Len(t)
    BY <1>1, <2>2
  <2>4. \A j \in 0..(n - 1) : t[a + j] = s[a + j]
    <3>1. \A j \in 0..(n - 1) : a + j \in 1..Len(s)
      BY <1>1, <2>2
    <3> QED BY <1>1, <3>1
  <2>5. a \in Int
    OBVIOUS
  <2>6. SequenceAt(t, a, n)
    BY <2>1, <2>3, <2>4, <2>5, SequenceMoved, Zenon
  <2> QED BY <2>1, <2>6 DEF Good
<1>3. ASSUME NEW k \in (Len(s) + 1)..Len(t) PROVE Good(t, k)
  <2> DEFINE a == Len(s) + 1
             n == Len(u)
  <2>1. a + n - 1 <= Len(t) /\ a \in 1..k /\ a + n > k /\ a \in Int /\ n \in 1..4
    BY <1>1, <1>3
  <2>2. \A j \in 0..(n - 1) : t[a + j] = u[1 + j]
    <3>1. \A j \in 0..(n - 1) : 1 + j \in 1..Len(u) /\ a + j = Len(s) + (1 + j)
      BY <1>1
    <3> QED BY <1>1, <3>1
  <2>3. SequenceAt(t, a, n)
    <3>1. 1 \in Int
      OBVIOUS
    <3> QED BY <2>1, <2>2, <3>1, SequenceMoved, Zenon
  <2> HIDE DEF a, n
  <2> QED BY <2>1, <2>3 DEF Good
<1>4. \A k \in 1..Len(t) : k \in 1..Len(s) \/ k \in (Len(s) + 1)..Len(t)
  BY <1>1
<1> QED BY <1>2, <1>3, <1>4 DEF IsUtf8, t

\* Bytes that the lexer may add.
IsCharacter(u) == u \in Seq(Int) /\ Len(u) \in 1..4 /\ SequenceAt(u, 1, Len(u))

\* A byte below 128 is a character of its own.
LEMMA AsciiCharacter == \A c \in 0..127 : IsCharacter(<<c>>)
BY DEF IsCharacter, SequenceAt

\* get returns a number.
LEMMA AheadTyped ==
  ASSUME TypeOK, NEW k \in Nat \ {0}
  PROVE  Ahead(k) \in Int
BY DEF TypeOK, Ahead, Eof

\* A hexadecimal digit is worth 0 to 15, everything else -1.
LEMMA HexDigits == \A d \in Int : HexValue(d) \in -1..15
BY DEF HexValue

\* get_codepoint fails or returns four digits' worth.
LEMMA CodepointRange ==
  ASSUME TypeOK, NEW k \in Nat \ {0}
  PROVE  GetCodepoint(k) = -1 \/ (GetCodepoint(k) \in Nat /\ GetCodepoint(k) <= 65535)
<1> DEFINE d(n) == HexValue(Ahead(k + n))
<1>1. \A n \in 0..3 : d(n) \in -1..15
  <2>1. \A n \in 0..3 : k + n \in Nat \ {0}
    OBVIOUS
  <2>2. \A n \in 0..3 : Ahead(k + n) \in Int
    BY <2>1, AheadTyped
  <2> QED BY <2>2, HexDigits
<1>2. GetCodepoint(k) = IF \E n \in 0..3 : d(n) = -1 THEN -1
                        ELSE 4096 * d(0) + 256 * d(1) + 16 * d(2) + d(3)
  BY DEF GetCodepoint
<1> HIDE DEF d
<1>3. CASE \E n \in 0..3 : d(n) = -1
  <2>1. GetCodepoint(k) = -1
    BY <1>2, <1>3
  <2> QED BY <2>1, SMT
<1>4. CASE ~ \E n \in 0..3 : d(n) = -1
  <2>1. \A n \in 0..3 : d(n) \in 0..15
    BY <1>1, <1>4
  <2>2. d(0) \in 0..15 /\ d(1) \in 0..15 /\ d(2) \in 0..15 /\ d(3) \in 0..15
    BY <2>1
  <2>3. GetCodepoint(k) = 4096 * d(0) + 256 * d(1) + 16 * d(2) + d(3)
    BY <1>2, <1>4
  <2>4. PICK p \in 0..15, q \in 0..15, r \in 0..15, t \in 0..15 :
          p = d(0) /\ q = d(1) /\ r = d(2) /\ t = d(3)
    BY <2>2
  <2> DEFINE n == 4096 * p + 256 * q + 16 * r + t
  <2>5. n \in Nat /\ n <= 65535
    BY SMT
  <2>6. GetCodepoint(k) = n
    BY <2>3, <2>4, SMT
  <2> HIDE DEF n
  <2> QED BY <2>5, <2>6, SMT
<1> QED BY <1>3, <1>4, SMT

\* Two surrogates stand for a code point above the first plane.
LEMMA PairRange ==
  ASSUME NEW h \in High, NEW l \in Low
  PROVE  /\ 1024 * h + l - 56613888 \in Nat
         /\ 1024 * h + l - 56613888 >= 65536 /\ 1024 * h + l - 56613888 <= 1114111
BY SMT DEF High, Low

\* One turn of scan_string adds nothing or one character.
LEMMA ScanAppends ==
  ASSUME TypeOK, ScanCharacter
  PROVE  \/ token_buffer' = token_buffer
         \/ \E u : IsCharacter(u) /\ token_buffer' = token_buffer \o u
<1>1. CASE ClosingQuote \/ Forbidden
  BY <1>1 DEF ClosingQuote, Forbidden, End
<1>2. CASE Plain
  <2>1. Ahead(1) \in 0..127 /\ token_buffer' = token_buffer \o <<Ahead(1)>>
    BY <1>2 DEF Plain, Add
  <2> QED BY <2>1, AsciiCharacter
<1>3. CASE EscapedLetter
  <2>1. CASE Ahead(2) \in DOMAIN Unescape /\ Add(<<Unescape[Ahead(2)]>>, 2)
    <3>1. Unescape[Ahead(2)] \in 0..127
      BY <2>1 DEF Unescape, Quote, Backslash
    <3>2. token_buffer' = token_buffer \o <<Unescape[Ahead(2)]>>
      BY <2>1 DEF Add
    <3> QED BY <3>1, <3>2, AsciiCharacter
  <2>2. CASE End("parse_error")
    BY <2>2 DEF End
  <2> QED BY <1>3, <2>1, <2>2 DEF EscapedLetter
<1>4. CASE EscapedCodepoint
  <2> DEFINE c1 == GetCodepoint(3)
             c2 == GetCodepoint(9)
             pair == 1024 * c1 + c2 - 56613888
  <2>1. \/ c1 \notin {-1} \union High \union Low /\ Add(Utf8(c1), 6)
        \/ c1 \in High /\ c2 \in Low /\ Add(Utf8(pair), 12)
        \/ End("parse_error")
    BY <1>4 DEF EscapedCodepoint
  <2>2. c1 = -1 \/ (c1 \in Nat /\ c1 <= 65535)
    BY CodepointRange
  <2> HIDE DEF c1, c2
  <2>3. CASE c1 \notin {-1} \union High \union Low /\ Add(Utf8(c1), 6)
    <3>1. c1 \in Nat /\ c1 <= 1114111 /\ c1 \notin 55296..57343
      BY <2>2, <2>3, SMT DEF High, Low
    <3>2. IsCharacter(Utf8(c1))
      BY <3>1, Utf8Sequence, SMT DEF IsCharacter
    <3> QED BY <2>3, <3>2, SMT DEF Add
  <2>4. CASE c1 \in High /\ c2 \in Low /\ Add(Utf8(pair), 12)
    <3>1. pair \in Nat /\ pair <= 1114111 /\ pair \notin 55296..57343
      <4>1. pair \in Nat /\ pair >= 65536 /\ pair <= 1114111
        BY <2>4, PairRange, SMT
      <4> HIDE DEF pair
      <4> QED BY <4>1, SMT
    <3> HIDE DEF pair
    <3>2. IsCharacter(Utf8(pair))
      BY <3>1, Utf8Sequence, SMT DEF IsCharacter
    <3> QED BY <2>4, <3>2, SMT DEF Add
  <2>5. CASE End("parse_error")
    BY <2>5 DEF End
  <2> QED BY <2>1, <2>3, <2>4, <2>5
<1>5. CASE Multibyte
  <2> DEFINE b == Ahead(1)
             ranges == Following(b)
             u == [k \in 1..(Len(ranges) + 1) |-> Ahead(k)]
  <2>1. b \in 194..244
    BY <1>5 DEF Multibyte
  <2>2. \/ (\A k \in DOMAIN ranges : Ahead(k + 1) \in ranges[k]) /\ Add(u, Len(ranges) + 1)
        \/ End("parse_error")
    BY <1>5 DEF Multibyte
  <2>3. CASE (\A k \in DOMAIN ranges : Ahead(k + 1) \in ranges[k]) /\ Add(u, Len(ranges) + 1)
    <3>1. IsCharacter(u)
      <4>1. CASE b \in 194..223
        <5>1. ranges = <<128..191>>
          BY <4>1 DEF Following
        <5> HIDE DEF ranges
        <5>2. DOMAIN ranges = 1..1 /\ Len(ranges) = 1 /\ ranges[1] = 128..191
          BY <5>1
        <5>3. Ahead(2) \in 128..191
          BY <2>3, <5>2
        <5>4. u \in Seq(Int) /\ Len(u) = 2 /\ u[1] = b /\ u[2] = Ahead(2)
          BY <4>1, <5>2, <5>3
        <5> HIDE DEF u
        <5> QED BY <4>1, <5>3, <5>4 DEF IsCharacter, SequenceAt
      <4>2. CASE b \in 224..239
        <5>1. PICK r : ranges = <<r, 128..191>> /\ r \subseteq 128..191
                 /\ (b = 224 => \A x \in r : x >= 160) /\ (b = 237 => \A x \in r : x <= 159)
          BY <4>2 DEF Following
        <5> HIDE DEF ranges
        <5>2. DOMAIN ranges = 1..2 /\ Len(ranges) = 2 /\ ranges[1] = r /\ ranges[2] = 128..191
          BY <5>1
        <5>3. Ahead(2) \in r /\ Ahead(3) \in 128..191
          BY <2>3, <5>2
        <5>4. /\ Ahead(2) \in 128..191 /\ (b = 224 => Ahead(2) >= 160)
              /\ (b = 237 => Ahead(2) <= 159)
          BY <5>1, <5>3
        <5>5. u \in Seq(Int) /\ Len(u) = 3 /\ u[1] = b /\ u[2] = Ahead(2) /\ u[3] = Ahead(3)
          BY <4>2, <5>2, <5>3, <5>4
        <5> HIDE DEF u
        <5> QED BY <4>2, <5>3, <5>4, <5>5 DEF IsCharacter, SequenceAt
      <4>3. CASE b \in 240..244
        <5>1. PICK r : ranges = <<r, 128..191, 128..191>> /\ r \subseteq 128..191
                 /\ (b = 240 => \A x \in r : x >= 144) /\ (b = 244 => \A x \in r : x <= 143)
          BY <4>3 DEF Following
        <5> HIDE DEF ranges
        <5>2. /\ DOMAIN ranges = 1..3 /\ Len(ranges) = 3 /\ ranges[1] = r
              /\ ranges[2] = 128..191 /\ ranges[3] = 128..191
          BY <5>1
        <5>3. Ahead(2) \in r /\ Ahead(3) \in 128..191 /\ Ahead(4) \in 128..191
          BY <2>3, <5>2
        <5>4. /\ Ahead(2) \in 128..191 /\ (b = 240 => Ahead(2) >= 144)
              /\ (b = 244 => Ahead(2) <= 143)
          BY <5>1, <5>3
        <5>5. /\ u \in Seq(Int) /\ Len(u) = 4
              /\ u[1] = b /\ u[2] = Ahead(2) /\ u[3] = Ahead(3) /\ u[4] = Ahead(4)
          BY <4>3, <5>2, <5>3, <5>4
        <5> HIDE DEF u
        <5> QED BY <4>3, <5>3, <5>4, <5>5 DEF IsCharacter, SequenceAt
      <4> QED BY <2>1, <4>1, <4>2, <4>3
    <3>2. token_buffer' = token_buffer \o u
      BY <2>3 DEF Add
    <3> QED BY <3>1, <3>2
  <2>4. CASE End("parse_error")
    BY <2>4 DEF End
  <2> QED BY <2>2, <2>3, <2>4
<1> QED BY <1>1, <1>2, <1>3, <1>4, <1>5 DEF ScanCharacter

TokenOK == token_buffer \in Seq(Int) /\ IsUtf8(token_buffer)

\* token_buffer is UTF-8 after every step.
LEMMA TokenKept == TypeOK /\ TokenOK /\ [Next]_vars => TokenOK'
<1> SUFFICES ASSUME TypeOK, TokenOK, [Next]_vars PROVE TokenOK'
  OBVIOUS
<1>1. CASE ScanCharacter
  <2>1. CASE token_buffer' = token_buffer
    BY <2>1 DEF TokenOK
  <2>2. ASSUME NEW u, IsCharacter(u), token_buffer' = token_buffer \o u PROVE TokenOK'
    <3>1. IsUtf8(token_buffer \o u)
      BY <2>2, GoodAppend DEF TokenOK, IsCharacter
    <3>2. token_buffer \o u \in Seq(Int)
      BY <2>2, LenConcat DEF TokenOK, IsCharacter
    <3> QED BY <2>2, <3>1, <3>2 DEF TokenOK
  <2> QED BY <1>1, <2>1, <2>2, ScanAppends
<1>2. CASE DumpByte \/ EndDump \/ UNCHANGED vars
  <2>1. token_buffer' = token_buffer
    BY <1>2 DEF DumpByte, EndDump, vars, lexer
  <2> QED BY <2>1 DEF TokenOK
<1> QED BY <1>1, <1>2 DEF Next

\* A string that the lexer accepts is UTF-8, whatever it was written with.
THEOREM AcceptedText == Spec => []AcceptedIsUtf8
<1>1. Init => TokenOK
  BY DEF Init, TokenOK, IsUtf8
<1>2. TokenOK => AcceptedIsUtf8
  BY DEF TokenOK, AcceptedIsUtf8
<1> QED BY TypeCorrect, <1>1, <1>2, TokenKept, PTL DEF Spec

-----------------------------------------------------------------------------
(***************************************************************************)
(* decode and the reference: its states tell how much of a character has   *)
(* been read, so that it accepts at the end of a character and rejects     *)
(* where there is none.                                                    *)
(***************************************************************************)

\* How many bytes a sequence has that begins with b, and what its second byte may be.
Expected(b) ==
  IF b \in 0..127 THEN 1 ELSE IF b \in 194..223 THEN 2
  ELSE IF b \in 224..239 THEN 3 ELSE IF b \in 240..244 THEN 4 ELSE 0

Second(b) ==
  IF b = 224 THEN 160..191 ELSE IF b = 237 THEN 128..159
  ELSE IF b = 240 THEN 144..191 ELSE IF b = 244 THEN 128..143 ELSE 128..191

Lead(b) == IF b \in 194..223 THEN b - 192 ELSE IF b \in 224..239 THEN b - 224 ELSE b - 240

StateAfter(b) ==
  IF b \in 194..223 THEN 2 ELSE IF b = 224 THEN 4 ELSE IF b = 237 THEN 5
  ELSE IF b \in 225..239 THEN 3 ELSE IF b = 240 THEN 6 ELSE IF b = 244 THEN 8 ELSE 7

\* A first byte, by the length it begins.
LEMMA Expectations ==
  ASSUME NEW b \in Byte
  PROVE  /\ b \in 0..127 <=> Expected(b) = 1
         /\ b \in 194..223 <=> Expected(b) = 2
         /\ b \in 224..239 <=> Expected(b) = 3
         /\ b \in 240..244 <=> Expected(b) = 4
         /\ Expected(b) \in 0..4
BY DEF Byte, Expected

\* The second byte, by the first one.
LEMMA SecondBytes ==
  ASSUME NEW b \in Byte, NEW c
  PROVE  /\ b \in 194..223 => (c \in Second(b) <=> c \in 128..191)
         /\ b \in 224..239 =>
              (c \in Second(b) <=> /\ c \in 128..191 /\ (b = 224 => c >= 160)
                                  /\ (b = 237 => c <= 159))
         /\ b \in 240..244 =>
              (c \in Second(b) <=> /\ c \in 128..191 /\ (b = 240 => c >= 144)
                                  /\ (b = 244 => c <= 143))
<1>1. CASE b = 224
  BY <1>1 DEF Second
<1>2. CASE b = 237
  BY <1>2 DEF Second
<1>3. CASE b = 240
  BY <1>3 DEF Second
<1>4. CASE b = 244
  BY <1>4 DEF Second
<1>5. CASE b \notin {224, 237, 240, 244}
  <2>1. Second(b) = 128..191
    BY <1>5 DEF Second
  <2> QED BY <1>5, <2>1
<1> QED BY <1>1, <1>2, <1>3, <1>4, <1>5

\* SequenceAt, byte by byte.
LEMMA SequenceParts ==
  ASSUME NEW s \in Seq(Byte), NEW a \in 1..Len(s), NEW n \in 1..4
  PROVE  SequenceAt(s, a, n) <=>
           /\ a + n - 1 <= Len(s) /\ Expected(s[a]) = n
           /\ n >= 2 => s[a + 1] \in Second(s[a])
           /\ n >= 3 => s[a + 2] \in 128..191
           /\ n >= 4 => s[a + 3] \in 128..191
<1> DEFINE first == s[a]
           second == s[a + 1]
           third == s[a + 2]
           fourth == s[a + 3]
<1>1. first \in Byte
  OBVIOUS
<1>2. /\ \A k : k \in (a + 1)..(a + 1 - 1) <=> FALSE
      /\ \A k : k \in (a + 1)..(a + 2 - 1) <=> k = a + 1
      /\ \A k : k \in (a + 1)..(a + 3 - 1) <=> k = a + 1 \/ k = a + 2
      /\ \A k : k \in (a + 1)..(a + 4 - 1) <=> k = a + 1 \/ k = a + 2 \/ k = a + 3
  OBVIOUS
<1>3. CASE n = 1
  <2>1. SequenceAt(s, a, 1) <=> a + 1 - 1 <= Len(s) /\ first \in 0..127
    BY <1>2 DEF SequenceAt
  <2> HIDE DEF first
  <2>2. SequenceAt(s, a, 1) <=> a + 1 - 1 <= Len(s) /\ Expected(first) = 1
    BY <1>1, <2>1, Expectations
  <2> QED BY <1>3, <2>2 DEF first
<1>4. CASE n = 2
  <2>1. SequenceAt(s, a, 2) <=>
          a + 2 - 1 <= Len(s) /\ first \in 194..223 /\ second \in 128..191
    BY <1>2 DEF SequenceAt
  <2> HIDE DEF first, second
  <2>2. SequenceAt(s, a, 2) <=>
          a + 2 - 1 <= Len(s) /\ Expected(first) = 2 /\ second \in Second(first)
    BY <1>1, <2>1, Expectations, SecondBytes
  <2> QED BY <1>4, <2>2 DEF first, second
<1>5. CASE n = 3
  <2>1. SequenceAt(s, a, 3) <=>
          /\ a + 3 - 1 <= Len(s) /\ first \in 224..239
          /\ second \in 128..191 /\ (first = 224 => second >= 160)
          /\ (first = 237 => second <= 159) /\ third \in 128..191
    <3>1. (\A k \in (a + 1)..(a + 3 - 1) : s[k] \in 128..191) <=>
            second \in 128..191 /\ third \in 128..191
      BY <1>2
    <3>2. SequenceAt(s, a, 3) <=>
            /\ a + 3 - 1 <= Len(s) /\ (\A k \in (a + 1)..(a + 3 - 1) : s[k] \in 128..191)
            /\ first \in 224..239 /\ (first = 224 => second >= 160)
            /\ (first = 237 => second <= 159)
      BY DEF SequenceAt
    <3> HIDE DEF first, second, third
    <3> QED BY <3>1, <3>2
  <2> HIDE DEF first, second, third
  <2>2. SequenceAt(s, a, 3) <=>
          /\ a + 3 - 1 <= Len(s) /\ Expected(first) = 3 /\ second \in Second(first)
          /\ third \in 128..191
    BY <1>1, <2>1, Expectations, SecondBytes
  <2> QED BY <1>5, <2>2 DEF first, second, third
<1>6. CASE n = 4
  <2>1. SequenceAt(s, a, 4) <=>
          /\ a + 4 - 1 <= Len(s) /\ first \in 240..244
          /\ second \in 128..191 /\ (first = 240 => second >= 144)
          /\ (first = 244 => second <= 143)
          /\ third \in 128..191 /\ fourth \in 128..191
    <3>1. (\A k \in (a + 1)..(a + 4 - 1) : s[k] \in 128..191) <=>
            second \in 128..191 /\ third \in 128..191 /\ fourth \in 128..191
      BY <1>2
    <3>2. SequenceAt(s, a, 4) <=>
            /\ a + 4 - 1 <= Len(s) /\ (\A k \in (a + 1)..(a + 4 - 1) : s[k] \in 128..191)
            /\ first \in 240..244 /\ (first = 240 => second >= 144)
            /\ (first = 244 => second <= 143)
      BY DEF SequenceAt
    <3> HIDE DEF first, second, third, fourth
    <3> QED BY <3>1, <3>2
  <2> HIDE DEF first, second, third, fourth
  <2>2. SequenceAt(s, a, 4) <=>
          /\ a + 4 - 1 <= Len(s) /\ Expected(first) = 4 /\ second \in Second(first)
          /\ third \in 128..191 /\ fourth \in 128..191
    BY <1>1, <2>1, Expectations, SecondBytes
  <2> QED BY <1>6, <2>2 DEF first, second, third, fourth
<1> QED BY <1>3, <1>4, <1>5, <1>6

\* decode in its accepting state: where a first byte leads, and what payload it has.
LEMMA BeginByte ==
  ASSUME NEW b \in Byte
  PROVE  /\ Expected(b) \in 0..4
         /\ Decode(0, b) = 0 <=> Expected(b) = 1
         /\ Decode(0, b) = 1 <=> Expected(b) = 0
         /\ Expected(b) >= 2 => Decode(0, b) = StateAfter(b)
         /\ Expected(b) = 1 => b % Payload[Type(b)] = b
         /\ Expected(b) >= 2 => b % Payload[Type(b)] = Lead(b)
<1>1. \/ b \in 0..127 \/ b \in 128..143 \/ b \in 144..159 \/ b \in 160..191
      \/ b \in {192, 193} \union 245..255 \/ b \in 194..223 \/ b = 224 \/ b = 237
      \/ b \in (225..236) \union {238, 239} \/ b = 240 \/ b \in 241..243 \/ b = 244
  BY DEF Byte
<1> DEFINE Goal ==
         /\ Expected(b) \in 0..4
         /\ Decode(0, b) = 0 <=> Expected(b) = 1
         /\ Decode(0, b) = 1 <=> Expected(b) = 0
         /\ Expected(b) >= 2 => Decode(0, b) = StateAfter(b)
         /\ Expected(b) = 1 => b % Payload[Type(b)] = b
         /\ Expected(b) >= 2 => b % Payload[Type(b)] = Lead(b)
<1>2. ASSUME b \in 0..127 PROVE Goal
  <2>1. Type(b) = 0 BY <1>2 DEF Type
  <2>2. Expected(b) = 1 BY <1>2 DEF Expected
  <2> QED BY <1>2, <2>1, <2>2 DEF Decode, First, Payload
<1>3. ASSUME b \in 128..193 \union 245..255 PROVE Goal
  <2>1. Type(b) \in {1, 7, 8, 9} BY <1>3 DEF Type
  <2>2. Expected(b) = 0 BY <1>3 DEF Expected
  <2> QED BY <1>3, <2>1, <2>2 DEF Decode, First, Payload
<1>4. ASSUME b \in 194..223 PROVE Goal
  <2>1. Type(b) = 2 BY <1>4 DEF Type
  <2>2. Expected(b) = 2 BY <1>4 DEF Expected
  <2> QED BY <1>4, <2>1, <2>2 DEF Decode, First, Payload, StateAfter, Lead
<1>5. ASSUME b = 224 PROVE Goal
  <2>1. Type(b) = 10 BY <1>5 DEF Type
  <2>2. Expected(b) = 3 BY <1>5 DEF Expected
  <2> QED BY <1>5, <2>1, <2>2 DEF Decode, First, Payload, StateAfter, Lead
<1>6. ASSUME b = 237 PROVE Goal
  <2>1. Type(b) = 4 BY <1>6 DEF Type
  <2>2. Expected(b) = 3 BY <1>6 DEF Expected
  <2> QED BY <1>6, <2>1, <2>2 DEF Decode, First, Payload, StateAfter, Lead
<1>7. ASSUME b \in (225..236) \union {238, 239} PROVE Goal
  <2>1. Type(b) = 3 BY <1>7 DEF Type
  <2>2. Expected(b) = 3 BY <1>7 DEF Expected
  <2> QED BY <1>7, <2>1, <2>2 DEF Decode, First, Payload, StateAfter, Lead
<1>8. ASSUME b = 240 PROVE Goal
  <2>1. Type(b) = 11 BY <1>8 DEF Type
  <2>2. Expected(b) = 4 BY <1>8 DEF Expected
  <2> QED BY <1>8, <2>1, <2>2 DEF Decode, First, Payload, StateAfter, Lead
<1>9. ASSUME b \in 241..243 PROVE Goal
  <2>1. Type(b) = 6 BY <1>9 DEF Type
  <2>2. Expected(b) = 4 BY <1>9 DEF Expected
  <2> QED BY <1>9, <2>1, <2>2 DEF Decode, First, Payload, StateAfter, Lead
<1>10. ASSUME b = 244 PROVE Goal
  <2>1. Type(b) = 5 BY <1>10 DEF Type
  <2>2. Expected(b) = 4 BY <1>10 DEF Expected
  <2> QED BY <1>10, <2>1, <2>2 DEF Decode, First, Payload, StateAfter, Lead
<1> QED BY <1>1, <1>2, <1>3, <1>4, <1>5, <1>6, <1>7, <1>8, <1>9, <1>10

\* Only the bytes 128 to 191 have a class that continues a sequence.
LEMMA BeginByteTypes ==
  ASSUME NEW b \in Byte, b \notin 128..191
  PROVE  Type(b) \notin {1, 7, 9}
<1>1. \/ b \in 0..127 \/ b \in {192, 193} \union 245..255 \/ b \in 194..223 \/ b = 224
      \/ b = 237 \/ b \in (225..236) \union {238, 239} \/ b = 240 \/ b \in 241..243
      \/ b = 244
  BY DEF Byte
<1>2. CASE b \in 0..127 BY <1>2 DEF Type
<1>3. CASE b \in {192, 193} \union 245..255 BY <1>3 DEF Type
<1>4. CASE b \in 194..223 BY <1>4 DEF Type
<1>5. CASE b = 224 \/ b = 237 \/ b = 240 \/ b = 244 BY <1>5 DEF Type
<1>6. CASE b \in (225..236) \union {238, 239} BY <1>6 DEF Type
<1>7. CASE b \in 241..243 BY <1>7 DEF Type
<1> QED BY <1>1, <1>2, <1>3, <1>4, <1>5, <1>6, <1>7

\* The three classes of these.
LEMMA Classes ==
  ASSUME NEW b \in Byte
  PROVE  /\ Type(b) = 1 <=> b \in 128..143
         /\ Type(b) = 9 <=> b \in 144..159
         /\ Type(b) = 7 <=> b \in 160..191
<1>1. CASE b \in 128..143
  <2>1. Type(b) = 1
    BY <1>1 DEF Type
  <2> QED BY <1>1, <2>1
<1>2. CASE b \in 144..159
  <2>1. Type(b) = 9
    BY <1>2 DEF Type
  <2> QED BY <1>2, <2>1
<1>3. CASE b \in 160..191
  <2>1. Type(b) = 7
    BY <1>3 DEF Type
  <2> QED BY <1>3, <2>1
<1>4. CASE b \notin 128..191
  <2>1. Type(b) \notin {1, 7, 9}
    BY <1>4, BeginByteTypes
  <2> QED BY <1>4, <2>1
<1> QED BY <1>1, <1>2, <1>3, <1>4

\* decode in its other states takes exactly the bytes that may stand there.
LEMMA NextByte ==
  ASSUME NEW first \in Byte, NEW b \in Byte, Expected(first) >= 2
  PROVE  /\ b \in Second(first) =>
              Decode(StateAfter(first), b) =
                IF Expected(first) = 2 THEN 0 ELSE IF Expected(first) = 3 THEN 2 ELSE 3
         /\ b \notin Second(first) => Decode(StateAfter(first), b) = 1
         /\ b \in 128..191 => Decode(2, b) = 0 /\ Decode(3, b) = 2
         /\ b \notin 128..191 => Decode(2, b) = 1 /\ Decode(3, b) = 1
<1>1. first \in 194..244
  BY DEF Byte, Expected
<1>2. /\ b \in 128..191 => Decode(2, b) = 0 /\ Decode(3, b) = 2
      /\ b \notin 128..191 => Decode(2, b) = 1 /\ Decode(3, b) = 1
  BY Classes DEF Decode, Continues, Remaining
<1>3. CASE first \in 194..223
  BY <1>2, <1>3 DEF StateAfter, Second, Expected
<1>4. CASE first = 224
  BY <1>2, <1>4, Classes DEF StateAfter, Second, Expected, Decode, Continues, Remaining
<1>5. CASE first = 237
  BY <1>2, <1>5, Classes DEF StateAfter, Second, Expected, Decode, Continues, Remaining
<1>6. CASE first \in 225..239 /\ first # 237
  BY <1>2, <1>6 DEF StateAfter, Second, Expected
<1>7. CASE first = 240
  BY <1>2, <1>7, Classes DEF StateAfter, Second, Expected, Decode, Continues, Remaining
<1>8. CASE first = 244
  BY <1>2, <1>8, Classes DEF StateAfter, Second, Expected, Decode, Continues, Remaining
<1>9. CASE first \in 241..243
  BY <1>2, <1>9, Classes DEF StateAfter, Second, Expected, Decode, Continues, Remaining
<1> QED BY <1>1, <1>2, <1>3, <1>4, <1>5, <1>6, <1>7, <1>8, <1>9

\* No character lies across the end of the first q bytes.
Boundary(s, q) ==
  \A a \in 1..q, n \in 1..4 : SequenceAt(s, a, n) => a + n - 1 <= q

\* A byte that continues a character begins none.
LEMMA TailIsNoBeginning ==
  ASSUME NEW s, NEW a, NEW n \in 1..4, s[a] \in 128..191
  PROVE  ~SequenceAt(s, a, n)
BY FirstByte

\* Behind a complete character is a boundary again, and its bytes are good.
LEMMA CompleteSequence ==
  ASSUME NEW s, NEW q \in Nat, NEW n \in 1..4, Boundary(s, q), SequenceAt(s, q + 1, n)
  PROVE  /\ Boundary(s, q + n)
         /\ \A k \in (q + 1)..(q + n) : Good(s, k)
<1>1. ASSUME NEW a \in 1..(q + n), NEW m \in 1..4, SequenceAt(s, a, m)
      PROVE  a + m - 1 <= q + n
  <2>1. CASE a <= q
    <3>1. a \in 1..q
      BY <2>1
    <3>2. a + m - 1 <= q
      BY <1>1, <3>1 DEF Boundary
    <3> QED BY <3>2
  <2>2. CASE a = q + 1
    <3>1. n = m
      BY <1>1, <2>2, OneLength
    <3> QED BY <2>2, <3>1
  <2>3. CASE a > q + 1
    <3>1. a \in (q + 1 + 1)..(q + 1 + n - 1)
      BY <2>3
    <3>2. s[a] \in 128..191
      BY <3>1 DEF SequenceAt
    <3> QED BY <1>1, <3>2, TailIsNoBeginning
  <2> QED BY <2>1, <2>2, <2>3
<1>2. ASSUME NEW k \in (q + 1)..(q + n) PROVE Good(s, k)
  <2>1. q + 1 \in 1..k /\ (q + 1) + n > k
    BY <1>2
  <2> QED BY <2>1 DEF Good
<1> QED BY <1>1, <1>2 DEF Boundary

\* Where no character begins, the bytes that would have continued it are no good.
LEMMA BrokenSequence ==
  ASSUME NEW s, NEW q \in Nat, NEW r \in Nat, q < r, Boundary(s, q),
         \A n \in 1..4 : ~SequenceAt(s, q + 1, n),
         \A k \in (q + 2)..r : s[k] \in 128..191
  PROVE  /\ Boundary(s, r)
         /\ \A k \in (q + 1)..r : ~Good(s, k)
<1>1. ASSUME NEW a \in 1..r, NEW m \in 1..4, SequenceAt(s, a, m)
      PROVE  a + m - 1 <= q
  <2>1. CASE a <= q
    BY <1>1, <2>1 DEF Boundary
  <2>2. CASE a = q + 1
    BY <1>1, <2>2
  <2>3. CASE a > q + 1
    <3>1. a \in (q + 2)..r
      BY <2>3
    <3> QED BY <1>1, <3>1, TailIsNoBeginning
  <2> QED BY <2>1, <2>2, <2>3
<1>2. ASSUME NEW k \in (q + 1)..r, Good(s, k) PROVE FALSE
  <2>1. PICK a \in 1..k, n \in 1..4 : a + n > k /\ SequenceAt(s, a, n)
    BY <1>2 DEF Good
  <2>2. a \in 1..r
    BY <1>2
  <2>3. a + n - 1 <= q
    BY <1>1, <2>1, <2>2
  <2> QED BY <2>1, <2>3
<1>3. ASSUME NEW a \in 1..r, NEW m \in 1..4, SequenceAt(s, a, m) PROVE a + m - 1 <= r
  <2>1. a + m - 1 <= q
    BY <1>1, <1>3
  <2> QED BY <2>1
<1> QED BY <1>2, <1>3 DEF Boundary

\* The good ones can be counted.
LEMMA GoodFinite ==
  ASSUME NEW s, NEW k \in Nat
  PROVE  /\ IsFiniteSet(GoodBytes(s, k)) /\ Cardinality(GoodBytes(s, k)) \in Nat
         /\ Cardinality(GoodBytes(s, k)) <= k
<1>1. IsFiniteSet(1..k) /\ Cardinality(1..k) = k
  BY FS_Interval
<1>2. GoodBytes(s, k) \in SUBSET (1..k)
  BY DEF GoodBytes
<1>3. IsFiniteSet(GoodBytes(s, k)) /\ Cardinality(GoodBytes(s, k)) <= Cardinality(1..k)
  BY <1>1, <1>2, FS_Subset
<1>4. Cardinality(GoodBytes(s, k)) \in Nat
  BY <1>3, FS_CardinalityType
<1> QED BY <1>1, <1>3, <1>4

\* How the number of the good ones grows by a character, and by none.
LEMMA GoodCount ==
  ASSUME NEW s, NEW q \in Nat, NEW k \in Nat, q <= k,
         \A j \in (q + 1)..k : Good(s, j)
  PROVE  Cardinality(GoodBytes(s, k)) = Cardinality(GoodBytes(s, q)) + (k - q)
<1> DEFINE G == GoodBytes(s, q)
           H == (q + 1)..k
<1>1. GoodBytes(s, k) = G \union H
  BY DEF GoodBytes
<1>2. IsFiniteSet(G) /\ Cardinality(G) \in Nat
  BY GoodFinite
<1>3. IsFiniteSet(H) /\ Cardinality(H) = k - q
  <2>1. IsFiniteSet(H) /\ Cardinality(H) = IF q + 1 > k THEN 0 ELSE k - (q + 1) + 1
    BY FS_Interval
  <2> QED BY <2>1
<1>4. G \cap H = {}
  BY DEF GoodBytes
<1>5. Cardinality({}) = 0
  BY FS_EmptySet
<1> HIDE DEF G, H
<1>6. Cardinality(G \union H) = Cardinality(G) + Cardinality(H) - Cardinality(G \cap H)
  BY <1>2, <1>3, FS_Union
<1>7. Cardinality(G \union H) = Cardinality(G) + (k - q)
  <2>1. Cardinality(G \cap H) = 0
    BY <1>4, <1>5, Zenon
  <2>2. Cardinality(G \union H) = Cardinality(G) + Cardinality(H) - 0
    BY <1>6, <2>1, Zenon
  <2> DEFINE g == Cardinality(G)
             h == Cardinality(H)
  <2>3. g \in Nat /\ h = k - q
    BY <1>2, <1>3
  <2> HIDE DEF g, h
  <2>4. g + h - 0 = g + (k - q)
    BY <2>3
  <2> QED BY <2>2, <2>4 DEF g, h
<1> QED BY <1>1, <1>7 DEF G

\* Bytes that are no good change nothing.
LEMMA GoodSame ==
  ASSUME NEW s, NEW q \in Nat, NEW r \in Nat, q <= r, \A j \in (q + 1)..r : ~Good(s, j)
  PROVE  GoodBytes(s, r) = GoodBytes(s, q)
BY DEF GoodBytes

\* Of a string without bad bytes all are good.
LEMMA GoodAll ==
  ASSUME NEW s, NEW k \in Nat, \A j \in 1..k : Good(s, j)
  PROVE  Cardinality(GoodBytes(s, k)) = k
<1>1. GoodBytes(s, k) = 1..k
  BY DEF GoodBytes
<1> QED BY <1>1, FS_Interval

\* The good part grows by the good bytes that follow.
LEMMA GoodPartGrows ==
  ASSUME NEW s, NEW t \in Seq(Int), NEW u \in Seq(Int), NEW q \in Nat,
         IsGoodPart(t, s, q), \A k \in (q + 1)..(q + Len(u)) : Good(s, k),
         \A j \in 1..Len(u) : u[j] = s[q + j]
  PROVE  IsGoodPart(t \o u, s, q + Len(u))
<1> DEFINE n == Len(u)
           v == t \o u
<1>1. /\ n \in Nat /\ Len(v) = Len(t) + n /\ Len(t) \in Nat
      /\ \A k \in 1..Len(t) : v[k] = t[k]
      /\ \A j \in 1..n : v[Len(t) + j] = u[j]
  OBVIOUS
<1> HIDE DEF n, v
<1>2. Len(t) = Cardinality(GoodBytes(s, q))
  BY DEF IsGoodPart
<1>3. \A k \in q..(q + n) : Cardinality(GoodBytes(s, k)) = Len(t) + (k - q)
  <2> TAKE k \in q..(q + n)
  <2>1. k \in Nat /\ q <= k /\ \A j \in (q + 1)..k : Good(s, j)
    BY <1>1 DEF n
  <2> QED BY <1>2, <2>1, GoodCount, Zenon
<1>4. Len(v) = Cardinality(GoodBytes(s, q + n))
  BY <1>1, <1>3
<1>5. ASSUME NEW k \in GoodBytes(s, q + n)
      PROVE  v[Cardinality(GoodBytes(s, k))] = s[k]
  <2>1. k \in 1..(q + n) /\ Good(s, k)
    BY DEF GoodBytes
  <2>2. CASE k <= q
    <3>1. k \in GoodBytes(s, q) /\ k \in GoodBytes(s, k) /\ k \in Nat
      BY <2>1, <2>2 DEF GoodBytes
    <3>2. t[Cardinality(GoodBytes(s, k))] = s[k]
      BY <3>1 DEF IsGoodPart
    <3>3. GoodBytes(s, k) \in SUBSET GoodBytes(s, q)
      BY <2>1, <2>2 DEF GoodBytes
    <3>4. /\ IsFiniteSet(GoodBytes(s, q)) /\ IsFiniteSet(GoodBytes(s, k))
          /\ Cardinality(GoodBytes(s, k)) \in Nat
      BY <3>1, GoodFinite
    <3>5. Cardinality(GoodBytes(s, k)) <= Len(t)
      BY <1>2, <3>3, <3>4, FS_Subset
    <3>6. Cardinality(GoodBytes(s, k)) # 0
      BY <3>1, <3>4, FS_EmptySet
    <3>7. Cardinality(GoodBytes(s, k)) \in 1..Len(t)
      BY <1>1, <3>4, <3>5, <3>6
    <3> QED BY <1>1, <3>2, <3>7
  <2>3. CASE k > q
    <3>1. k \in q..(q + n) /\ k - q \in 1..n /\ q + (k - q) = k
      BY <1>1, <2>1, <2>3
    <3>2. Cardinality(GoodBytes(s, k)) = Len(t) + (k - q)
      BY <1>3, <3>1
    <3>3. v[Len(t) + (k - q)] = u[k - q] /\ u[k - q] = s[q + (k - q)]
      BY <1>1, <3>1 DEF n
    <3> QED BY <3>1, <3>2, <3>3
  <2> QED BY <1>1, <2>1, <2>2, <2>3
<1> QED BY <1>4, <1>5 DEF IsGoodPart, n, v

-----------------------------------------------------------------------------
(***************************************************************************)
(* The round trip. What is written is a sequence of units, each a          *)
(* character or one of its escapes. Unwinds says that a text P can be read *)
(* unit by unit, in step with the string K it stands for: the set B holds  *)
(* the places where units begin.                                           *)
(***************************************************************************)

\* w stands in s behind the first p bytes.
At(s, p, w) == p + Len(w) <= Len(s) /\ \A k \in 1..Len(w) : s[p + k] = w[k]

Pair(c) == Escape(55232 + c \div 1024) \o Escape(56320 + (c % 1024))

\* The characters of one \uXXXX, and those of two.
IsBasic(c) == c \in Nat /\ c <= 65535 /\ c \notin 55296..57343
IsAstral(c) == c \in Nat /\ c >= 65536 /\ c <= 1114111

\* w is how the serializer writes the character u: itself, a letter's escape, \uXXXX, or two.
Unit(w, u) ==
  /\ IsCharacter(u)
  /\ \/ w = u /\ (Len(u) = 1 => u[1] \notin 0..31 \union {Quote, Backslash})
     \/ \E c \in Short : u = <<c>> /\ w = <<Backslash, Letter(c)>>
     \/ \E c : IsBasic(c) /\ u = Utf8(c) /\ w = Escape(c)
     \/ \E c : IsAstral(c) /\ u = Utf8(c) /\ w = Pair(c)

\* From every place of B one character on is a place of B, until both strings end.
Unwinds(P, K, B) ==
  /\ <<0, 0>> \in B
  /\ \A p \in Nat, k \in Nat : <<p, k>> \in B =>
       \/ p = Len(P) /\ k = Len(K)
       \/ \E w \in Seq(Int), u \in Seq(Int) :
            /\ Unit(w, u) /\ At(P, p, w) /\ At(K, k, u)
            /\ <<p + Len(w), k + Len(u)>> \in B

\* What stands in a string stands in a longer one.
LEMMA AtAppend ==
  ASSUME NEW s \in Seq(Int), NEW x \in Seq(Int), NEW w \in Seq(Int), NEW p \in Nat, At(s, p, w)
  PROVE  At(s \o x, p, w)
<1>1. Len(s \o x) = Len(s) + Len(x) /\ \A k \in 1..Len(s) : (s \o x)[k] = s[k]
  OBVIOUS
<1>2. \A k \in 1..Len(w) : p + k \in 1..Len(s)
  BY DEF At
<1>3. p + Len(w) <= Len(s \o x)
  BY <1>1 DEF At
<1>4. \A k \in 1..Len(w) : (s \o x)[p + k] = w[k]
  BY <1>1, <1>2 DEF At
<1> QED BY <1>3, <1>4 DEF At

\* What is appended stands at the end.
LEMMA AtEnd ==
  ASSUME NEW s \in Seq(Int), NEW w \in Seq(Int)
  PROVE  At(s \o w, Len(s), w)
<1>1. Len(s \o w) = Len(s) + Len(w) /\ \A k \in 1..Len(w) : (s \o w)[Len(s) + k] = w[k]
  OBVIOUS
<1> QED BY <1>1 DEF At

\* A character and the way it is written are appended to both sides.
LEMMA UnwindsGrows ==
  ASSUME NEW P \in Seq(Int), NEW K \in Seq(Int), NEW B \in SUBSET (Nat \X Nat),
         Unwinds(P, K, B),
         NEW w \in Seq(Int), NEW u \in Seq(Int), Unit(w, u)
  PROVE  \E C \in SUBSET (Nat \X Nat) : Unwinds(P \o w, K \o u, C)
<1> DEFINE Q == P \o w
           L == K \o u
           end == <<Len(Q), Len(L)>>
           C == B \union {end}
<1>1. /\ Len(Q) \in Nat /\ Len(L) \in Nat
      /\ Len(Q) = Len(P) + Len(w) /\ Len(L) = Len(K) + Len(u)
  OBVIOUS
<1>2. C \in SUBSET (Nat \X Nat) /\ <<0, 0>> \in C
  BY <1>1 DEF Unwinds
<1>3. ASSUME NEW p \in Nat, NEW k \in Nat, <<p, k>> \in C
      PROVE  \/ p = Len(Q) /\ k = Len(L)
             \/ \E x \in Seq(Int), y \in Seq(Int) :
                  /\ Unit(x, y) /\ At(Q, p, x) /\ At(L, k, y)
                  /\ <<p + Len(x), k + Len(y)>> \in C
  <2>1. CASE <<p, k>> = end
    BY <2>1
  <2>2. CASE <<p, k>> \in B /\ p = Len(P) /\ k = Len(K)
    <3>1. At(Q, p, w) /\ At(L, k, u)
      BY <2>2, AtEnd
    <3>2. <<p + Len(w), k + Len(u)>> \in C
      BY <1>1, <2>2
    <3> QED BY <3>1, <3>2
  <2>3. CASE <<p, k>> \in B /\ ~(p = Len(P) /\ k = Len(K))
    <3>1. PICK x \in Seq(Int), y \in Seq(Int) :
            /\ Unit(x, y) /\ At(P, p, x) /\ At(K, k, y)
            /\ <<p + Len(x), k + Len(y)>> \in B
      BY <2>3 DEF Unwinds
    <3>2. At(Q, p, x) /\ At(L, k, y)
      BY <3>1, AtAppend
    <3> QED BY <3>1, <3>2
  <2> QED BY <1>3, <2>1, <2>2, <2>3
<1> HIDE DEF C, Q, L
<1>4. Unwinds(Q, L, C)
  BY <1>2, <1>3 DEF Unwinds
<1> QED BY <1>2, <1>4 DEF Q, L

\* get returns what stands in the text.
LEMMA AheadIs ==
  ASSUME TypeOK
  PROVE  \A w \in Seq(Int) : At(text, pos, w) => \A k \in 1..Len(w) : Ahead(k) = w[k]
<1> TAKE w \in Seq(Int)
<1> HAVE At(text, pos, w)
<1> TAKE k \in 1..Len(w)
<1>1. pos + k <= Len(text)
  BY DEF At, TypeOK
<1>2. text[pos + k] = w[k]
  BY DEF At
<1> QED BY <1>1, <1>2 DEF Ahead

\* A digit that is written is read as itself.
LEMMA HexBack == \A d \in 0..15 : HexDigit(d) \in Int /\ HexValue(HexDigit(d)) = d
BY DEF HexDigit, HexValue

\* The four digits of \u%04x make up the number.
LEMMA FourDigits ==
  ASSUME NEW n \in Nat, n <= 65535
  PROVE  /\ n \div 4096 \in 0..15 /\ (n \div 256) % 16 \in 0..15
         /\ (n \div 16) % 16 \in 0..15 /\ n % 16 \in 0..15
         /\ n = 4096 * (n \div 4096) + 256 * ((n \div 256) % 16)
                + 16 * ((n \div 16) % 16) + (n % 16)
<1> DEFINE a == n \div 16
           b == a \div 16
           c == b \div 16
<1>1. n = 16 * a + (n % 16) /\ n % 16 \in 0..15 /\ a \in Nat /\ a <= 4095
  BY SMT
<1>2. n \div 256 = b /\ n \div 4096 = c
  BY SMT
<1> HIDE DEF a
<1>3. a = 16 * b + (a % 16) /\ a % 16 \in 0..15 /\ b \in Nat /\ b <= 255
  BY <1>1, SMT
<1> HIDE DEF b
<1>4. b = 16 * c + (b % 16) /\ b % 16 \in 0..15 /\ c \in 0..15
  BY <1>3, SMT
<1> HIDE DEF c
<1>5. n \div 16 = a
  BY DEF a
<1> DEFINE x == n % 16
           y == a % 16
           z == b % 16
<1>6. n = 4096 * c + 256 * z + 16 * y + x
  <2>1. n = 16 * a + x /\ a = 16 * b + y /\ b = 16 * c + z
    BY <1>1, <1>3, <1>4
  <2>2. a \in Nat /\ b \in Nat /\ c \in Nat /\ x \in Nat /\ y \in Nat /\ z \in Nat
    BY <1>1, <1>3, <1>4
  <2> HIDE DEF x, y, z
  <2> QED BY <2>1, <2>2, SMT
<1> QED BY <1>1, <1>2, <1>3, <1>4, <1>5, <1>6, SMT

\* The digits of an escape are read back as its number.
LEMMA CodepointRead ==
  ASSUME NEW n \in Nat, n <= 65535, NEW k \in Nat,
         \A j \in 0..3 : Ahead(k + j) = Escape(n)[3 + j]
  PROVE  GetCodepoint(k) = n
<1> DEFINE d0 == n \div 4096
           d1 == (n \div 256) % 16
           d2 == (n \div 16) % 16
           d3 == n % 16
<1>1. /\ d0 \in 0..15 /\ d1 \in 0..15 /\ d2 \in 0..15 /\ d3 \in 0..15
      /\ n = 4096 * d0 + 256 * d1 + 16 * d2 + d3
  BY FourDigits, SMT
<1>2. /\ Ahead(k + 0) = HexDigit(d0) /\ Ahead(k + 1) = HexDigit(d1)
      /\ Ahead(k + 2) = HexDigit(d2) /\ Ahead(k + 3) = HexDigit(d3)
  <2>1. /\ Ahead(k + 0) = Escape(n)[3 + 0] /\ Ahead(k + 1) = Escape(n)[3 + 1]
        /\ Ahead(k + 2) = Escape(n)[3 + 2] /\ Ahead(k + 3) = Escape(n)[3 + 3]
    OBVIOUS
  <2>2. 3 + 0 = 3 /\ 3 + 1 = 4 /\ 3 + 2 = 5 /\ 3 + 3 = 6
    OBVIOUS
  <2>3. /\ Escape(n)[3] = HexDigit(d0) /\ Escape(n)[4] = HexDigit(d1)
        /\ Escape(n)[5] = HexDigit(d2) /\ Escape(n)[6] = HexDigit(d3)
    BY DEF Escape
  <2> QED BY <2>1, <2>2, <2>3
<1> HIDE DEF d0, d1, d2, d3
<1>3. /\ HexValue(Ahead(k + 0)) = d0 /\ HexValue(Ahead(k + 1)) = d1
      /\ HexValue(Ahead(k + 2)) = d2 /\ HexValue(Ahead(k + 3)) = d3
  BY <1>1, <1>2, HexBack
<1>4. ~ \E j \in 0..3 : HexValue(Ahead(k + j)) = -1
  <2> SUFFICES ASSUME NEW j \in 0..3 PROVE HexValue(Ahead(k + j)) # -1
    OBVIOUS
  <2>1. j = 0 \/ j = 1 \/ j = 2 \/ j = 3
    OBVIOUS
  <2>2. d0 # -1 /\ d1 # -1 /\ d2 # -1 /\ d3 # -1
    BY <1>1
  <2> QED BY <1>3, <2>1, <2>2
<1>5. GetCodepoint(k) = 4096 * d0 + 256 * d1 + 16 * d2 + d3
  BY <1>3, <1>4, SMT DEF GetCodepoint
<1> QED BY <1>1, <1>5, SMT

Scanned(w, u) ==
  /\ pos' = pos + Len(w) /\ token_buffer' = token_buffer \o u
  /\ pc' = pc /\ result' = result

\* Each way to go on in scan_string has its first characters.
LEMMA EscapeBegins ==
  /\ EscapedLetter => Ahead(1) = Backslash
  /\ EscapedCodepoint => Ahead(1) = Backslash /\ Ahead(2) = LetterU
BY SMT DEF EscapedLetter, EscapedCodepoint

LEMMA MultibyteBegins == Multibyte => Ahead(1) \in 194..244
BY DEF Multibyte

\* A plain character is read by the plain case alone.
LEMMA PlainOnly ==
  ASSUME ScanCharacter, Ahead(1) \in (32..127) \ {Quote, Backslash}
  PROVE  Add(<<Ahead(1)>>, 1)
<1>1. Ahead(1) # Backslash /\ Ahead(1) # Quote /\ Ahead(1) \in 32..127
  OBVIOUS
<1>2. ~EscapedLetter /\ ~EscapedCodepoint /\ ~Multibyte
  BY <1>1, EscapeBegins, MultibyteBegins
<1>3. ~ClosingQuote /\ ~Forbidden
  BY <1>1 DEF ClosingQuote, Forbidden, Eof
<1> QED BY <1>2, <1>3 DEF ScanCharacter, Plain

\* A character of one byte that was written as it is is read as it is.
LEMMA RawAscii ==
  ASSUME TypeOK, ScanCharacter, NEW u \in Seq(Int), At(text, pos, u), IsCharacter(u),
         Len(u) = 1, u[1] \notin 0..31 \union {Quote, Backslash}
  PROVE  Scanned(u, u)
<1>1. Ahead(1) = u[1]
  <2>1. \A k \in 1..Len(u) : Ahead(k) = u[k]
    BY AheadIs, Zenon
  <2> QED BY <2>1
<1>2. u[1] \in 0..127
  BY DEF IsCharacter, SequenceAt
<1>3. Ahead(1) \in (32..127) \ {Quote, Backslash}
  BY <1>1, <1>2
<1>4. Add(<<Ahead(1)>>, 1)
  BY <1>3, PlainOnly
<1>5. u = <<Ahead(1)>>
  BY <1>1
<1> QED BY <1>4, <1>5 DEF Add, Scanned

\* A first byte of several leads to the ranges alone.
LEMMA MultibyteOnly ==
  ASSUME ScanCharacter, Ahead(1) \in 194..244
  PROVE  Multibyte
BY EscapeBegins DEF ScanCharacter, ClosingQuote, Forbidden, Plain, Eof, Quote, Backslash

\* A backslash leads to the escapes alone.
LEMMA BackslashOnly ==
  ASSUME ScanCharacter, Ahead(1) = Backslash
  PROVE  EscapedLetter \/ EscapedCodepoint
BY MultibyteBegins DEF ScanCharacter, ClosingQuote, Forbidden, Plain, Eof, Quote, Backslash

\* next_byte_in_range is called with what may follow the first byte.
LEMMA RangesFollow ==
  ASSUME NEW b \in 194..244
  PROVE  /\ Len(Following(b)) = Expected(b) - 1
         /\ DOMAIN Following(b) = 1..(Expected(b) - 1)
         /\ Following(b)[1] = Second(b)
         /\ Expected(b) >= 3 => Following(b)[2] = 128..191
         /\ Expected(b) >= 4 => Following(b)[3] = 128..191
<1>1. CASE b \in 194..223
  <2>1. Following(b) = <<128..191>>
    BY <1>1 DEF Following
  <2>2. Expected(b) = 2 /\ Second(b) = 128..191
    BY <1>1 DEF Expected, Second
  <2> QED BY <2>1, <2>2
<1>2. CASE b = 224
  <2>1. Following(b) = <<160..191, 128..191>>
    BY <1>2 DEF Following
  <2>2. Expected(b) = 3 /\ Second(b) = 160..191
    BY <1>2 DEF Expected, Second
  <2> QED BY <2>1, <2>2
<1>3. CASE b \in (225..236) \union {238, 239}
  <2>1. Following(b) = <<128..191, 128..191>>
    BY <1>3 DEF Following
  <2>2. Expected(b) = 3 /\ Second(b) = 128..191
    BY <1>3 DEF Expected, Second
  <2> QED BY <2>1, <2>2
<1>4. CASE b = 237
  <2>1. Following(b) = <<128..159, 128..191>>
    BY <1>4 DEF Following
  <2>2. Expected(b) = 3 /\ Second(b) = 128..159
    BY <1>4 DEF Expected, Second
  <2> QED BY <2>1, <2>2
<1>5. CASE b = 240
  <2>1. Following(b) = <<144..191, 128..191, 128..191>>
    BY <1>5 DEF Following
  <2>2. Expected(b) = 4 /\ Second(b) = 144..191
    BY <1>5 DEF Expected, Second
  <2> QED BY <2>1, <2>2
<1>6. CASE b \in 241..243
  <2>1. Following(b) = <<128..191, 128..191, 128..191>>
    BY <1>6 DEF Following
  <2>2. Expected(b) = 4 /\ Second(b) = 128..191
    BY <1>6 DEF Expected, Second
  <2> QED BY <2>1, <2>2
<1>7. CASE b = 244
  <2>1. Following(b) = <<128..143, 128..191, 128..191>>
    BY <1>7 DEF Following
  <2>2. Expected(b) = 4 /\ Second(b) = 128..143
    BY <1>7 DEF Expected, Second
  <2> QED BY <2>1, <2>2
<1>8. \/ b \in 194..223 \/ b = 224 \/ b \in (225..236) \union {238, 239} \/ b = 237
      \/ b = 240 \/ b \in 241..243 \/ b = 244
  OBVIOUS
<1> QED BY <1>1, <1>2, <1>3, <1>4, <1>5, <1>6, <1>7, <1>8, Zenon

\* A character of several bytes that was written as it is is read as it is.
LEMMA RawMultibyte ==
  ASSUME TypeOK, ScanCharacter, NEW u \in Seq(Byte), At(text, pos, u),
         u \in Seq(Int), IsCharacter(u),
         Len(u) # 1
  PROVE  Scanned(u, u)
<1> DEFINE n == Len(u)
           b == Ahead(1)
           ranges == Following(b)
<1>1. \A k \in 1..n : Ahead(k) = u[k]
  BY AheadIs, Zenon
<1>2. n \in 2..4 /\ SequenceAt(u, 1, n) /\ 1 \in 1..Len(u)
  BY DEF IsCharacter
<1>3. /\ Expected(u[1]) = n /\ u[2] \in Second(u[1])
      /\ n >= 3 => u[3] \in 128..191
      /\ n >= 4 => u[4] \in 128..191
  <2>1. n \in 1..4
    BY <1>2
  <2>2. /\ Expected(u[1]) = n /\ (n >= 2 => u[1 + 1] \in Second(u[1]))
        /\ n >= 3 => u[1 + 2] \in 128..191
        /\ n >= 4 => u[1 + 3] \in 128..191
    BY <1>2, <2>1, SequenceParts
  <2> QED BY <1>2, <2>2
<1>4. b = u[1] /\ b \in Byte
  BY <1>1, <1>2
<1>5. b \in 194..244
  <2>1. Expected(b) \in 2..4
    BY <1>2, <1>3, <1>4
  <2>2. \/ b \in 194..223 \/ b \in 224..239 \/ b \in 240..244
    BY <1>4, <2>1, Expectations
  <2> HIDE DEF b
  <2> QED BY <2>2
<1>6. Multibyte
  BY <1>5, MultibyteOnly
<1>7. /\ Len(ranges) = n - 1 /\ DOMAIN ranges = 1..(n - 1)
      /\ ranges[1] = Second(b) /\ (n >= 3 => ranges[2] = 128..191)
      /\ (n >= 4 => ranges[3] = 128..191)
  <2>1. Expected(b) = n
    BY <1>3, <1>4
  <2> HIDE DEF b
  <2> QED BY <1>5, <2>1, RangesFollow
<1> HIDE DEF ranges
<1>8. \A k \in DOMAIN ranges : Ahead(k + 1) \in ranges[k]
  <2> SUFFICES ASSUME NEW k \in DOMAIN ranges PROVE Ahead(k + 1) \in ranges[k]
    OBVIOUS
  <2>1. k \in 1..(n - 1) /\ k + 1 \in 1..n
    BY <1>2, <1>7
  <2>2. Ahead(k + 1) = u[k + 1]
    BY <1>1, <2>1
  <2>3. CASE k = 1
    <3>1. Ahead(k + 1) = u[2]
      BY <2>2, <2>3
    <3> QED BY <1>3, <1>4, <1>7, <2>3, <3>1
  <2>4. CASE k = 2
    <3>1. Ahead(k + 1) = u[3] /\ n >= 3
      BY <2>1, <2>2, <2>4
    <3> QED BY <1>3, <1>7, <2>4, <3>1
  <2>5. CASE k = 3
    <3>1. Ahead(k + 1) = u[4] /\ n >= 4
      BY <2>1, <2>2, <2>5
    <3> QED BY <1>3, <1>7, <2>5, <3>1
  <2>6. k = 1 \/ k = 2 \/ k = 3
    <3>1. n \in 2..4 /\ k \in 1..(n - 1)
      BY <1>2, <2>1
    <3> HIDE DEF n
    <3> QED BY <3>1
  <2> QED BY <2>3, <2>4, <2>5, <2>6
<1>9. Add([k \in 1..(Len(ranges) + 1) |-> Ahead(k)], Len(ranges) + 1)
  BY <1>6, <1>8 DEF Multibyte, ranges
<1>10. Len(ranges) + 1 = n
  BY <1>2, <1>7
<1>11. [k \in 1..n |-> Ahead(k)] = u
  BY <1>1
<1> QED BY <1>9, <1>10, <1>11 DEF Add, Scanned

\* An escape of one letter is read as its character.
LEMMA ShortEscape ==
  ASSUME TypeOK, ScanCharacter, NEW c \in Short, At(text, pos, <<Backslash, Letter(c)>>)
  PROVE  Scanned(<<Backslash, Letter(c)>>, <<c>>)
<1> DEFINE w == <<Backslash, Letter(c)>>
<1>1. /\ Letter(c) \in DOMAIN Unescape /\ Unescape[Letter(c)] = c /\ Letter(c) # LetterU
      /\ Letter(c) \in Int
  BY DEF Short, Letter, Unescape, Quote, Backslash, LetterU
<1>2. w \in Seq(Int) /\ Len(w) = 2 /\ w[1] = Backslash /\ w[2] = Letter(c)
  BY <1>1 DEF Backslash
<1>3. Ahead(1) = Backslash /\ Ahead(2) = Letter(c)
  <2>1. \A k \in 1..Len(w) : Ahead(k) = w[k]
    BY <1>2, AheadIs, Zenon
  <2> HIDE DEF w
  <2> QED BY <1>2, <2>1
<1>4. Add(<<Unescape[Ahead(2)]>>, 2)
  <2>1. ~EscapedCodepoint
    BY <1>1, <1>3, EscapeBegins
  <2>2. EscapedLetter
    BY <1>3, <2>1, BackslashOnly
  <2> HIDE DEF w
  <2> QED BY <1>1, <1>3, <2>2 DEF EscapedLetter
<1>5. Add(<<c>>, 2)
  BY <1>1, <1>3, <1>4, Zenon
<1> QED BY <1>2, <1>5 DEF Add, Scanned

\* No escape of one letter begins like \u.
LEMMA NoLetterIsU == LetterU \notin DOMAIN Unescape
BY DEF LetterU, Unescape, Quote, Backslash

\* \uXXXX is read as its code point.
LEMMA HexEscape ==
  ASSUME TypeOK, ScanCharacter, NEW c, IsBasic(c),
         At(text, pos, Escape(c))
  PROVE  Scanned(Escape(c), Utf8(c))
<1> DEFINE w == Escape(c)
<1>1. w \in Seq(Int) /\ Len(w) = 6 /\ w[1] = Backslash /\ w[2] = LetterU
  <2>1. c \in Int
    BY SMT DEF IsBasic
  <2>2. w[1] = Backslash /\ w[2] = LetterU
    BY SMT DEF Escape
  <2> QED BY <2>1, <2>2, EscapeTyped, SMT
<1> HIDE DEF w
<1>2. At(text, pos, w)
  BY SMT DEF w
<1>3. \A k \in 1..6 : Ahead(k) = w[k]
  <2>1. \A k \in 1..Len(w) : Ahead(k) = w[k]
    BY <1>1, <1>2, AheadIs, Zenon
  <2> QED BY <1>1, <2>1, SMT
<1>4. Ahead(1) = Backslash /\ Ahead(2) = LetterU
  BY <1>1, <1>3, SMT
<1>5. GetCodepoint(3) = c
  <2>1. \A j \in 0..3 : 3 + j \in 1..6 /\ Ahead(3 + j) = w[3 + j]
    BY <1>3, SMT
  <2>2. 3 \in Nat
    BY SMT
  <2> QED BY <2>1, <2>2, CodepointRead, SMT DEF w, IsBasic
<1>6. ~EscapedLetter
  BY <1>4, NoLetterIsU, SMT DEF EscapedLetter
<1>7. EscapedCodepoint
  BY <1>4, <1>6, BackslashOnly, SMT
<1>8. c \notin {-1} \union High \union Low /\ c # -1
  BY SMT DEF High, Low, IsBasic
<1>9. Add(Utf8(c), 6)
  BY <1>5, <1>7, <1>8, SMT DEF EscapedCodepoint
<1> QED BY <1>1, <1>9, SMT DEF Add, Scanned, w

\* The two halves of a code point are surrogates, and make it up again.
LEMMA PairParts ==
  ASSUME NEW c \in Nat, c >= 65536, c <= 1114111
  PROVE  /\ 55232 + c \div 1024 \in High /\ 56320 + (c % 1024) \in Low
         /\ 1024 * (55232 + c \div 1024) + (56320 + (c % 1024)) - 56613888 = c
<1> DEFINE h == c \div 1024
           l == c % 1024
<1>1. h \in Nat /\ l \in 0..1023 /\ c = 1024 * h + l /\ h >= 64 /\ h <= 1087
  BY SMT
<1> HIDE DEF h, l
<1>2. 55232 + h \in High /\ 56320 + l \in Low
  BY <1>1, SMT DEF High, Low
<1>3. 1024 * (55232 + h) + (56320 + l) - 56613888 = c
  BY <1>1, SMT
<1> QED BY <1>2, <1>3, SMT DEF h, l

\* Two strings of the same length, one behind the other.
LEMMA SameLength ==
  ASSUME NEW n \in Nat, NEW e \in Seq(Int), NEW f \in Seq(Int), Len(e) = n, Len(f) = n
  PROVE  /\ e \o f \in Seq(Int) /\ Len(e \o f) = n + n
         /\ \A k \in 1..n : (e \o f)[k] = e[k] /\ (e \o f)[n + k] = f[k]
OBVIOUS

\* Two \uXXXX are read as the code point they are the halves of.
LEMMA PairEscape ==
  ASSUME TypeOK, ScanCharacter, NEW c, IsAstral(c),
         At(text, pos, Pair(c))
  PROVE  Scanned(Pair(c), Utf8(c))
<1> DEFINE c1 == 55232 + c \div 1024
           c2 == 56320 + (c % 1024)
           w == Pair(c)
<1>1. c1 \in High /\ c2 \in Low /\ 1024 * c1 + c2 - 56613888 = c
  BY PairParts, SMT DEF IsAstral
<1> HIDE DEF c1, c2
<1>2. c1 \in Nat /\ c1 <= 65535 /\ c2 \in Nat /\ c2 <= 65535 /\ c1 \in Int /\ c2 \in Int
  BY <1>1, SMT DEF High, Low
<1>3. w = Escape(c1) \o Escape(c2)
  BY SMT DEF Pair, c1, c2
<1> HIDE DEF w
<1>4. /\ Escape(c1) \in Seq(Int) /\ Len(Escape(c1)) = 6
      /\ Escape(c2) \in Seq(Int) /\ Len(Escape(c2)) = 6
  BY <1>2, EscapeTyped, SMT
<1>5. /\ Escape(c1)[1] = Backslash /\ Escape(c1)[2] = LetterU
      /\ Escape(c2)[1] = Backslash /\ Escape(c2)[2] = LetterU
  BY SMT DEF Escape
<1>6. /\ w \in Seq(Int) /\ Len(w) = 12
      /\ \A k \in 1..6 : w[k] = Escape(c1)[k] /\ w[6 + k] = Escape(c2)[k]
  <2> DEFINE e == Escape(c1)
             f == Escape(c2)
  <2>1. e \in Seq(Int) /\ f \in Seq(Int) /\ Len(e) = 6 /\ Len(f) = 6 /\ w = e \o f
    BY <1>3, <1>4, SMT
  <2> HIDE DEF e, f
  <2>2. /\ e \o f \in Seq(Int) /\ Len(e \o f) = 6 + 6 /\ 6 \in Nat
        /\ \A k \in 1..6 : (e \o f)[k] = e[k] /\ (e \o f)[6 + k] = f[k]
    <3>1. 6 \in Nat
      BY SMT
    <3> QED BY <2>1, <3>1, SameLength, Zenon
  <2>3. 6 + 6 = 12
    BY SMT
  <2> QED BY <2>1, <2>2, <2>3, Zenon DEF e, f
<1>7. At(text, pos, w)
  BY SMT DEF w
<1>8. \A k \in 1..12 : Ahead(k) = w[k]
  <2>1. \A k \in 1..Len(w) : Ahead(k) = w[k]
    BY <1>6, <1>7, AheadIs, Zenon
  <2> QED BY <1>6, <2>1, SMT
<1>9. /\ Ahead(1) = Backslash /\ Ahead(2) = LetterU
      /\ Ahead(7) = Backslash /\ Ahead(8) = LetterU
  <2>1. w[1] = Backslash /\ w[2] = LetterU /\ w[6 + 1] = Backslash /\ w[6 + 2] = LetterU
    BY <1>5, <1>6, SMT
  <2> QED BY <1>8, <2>1, SMT
<1>10. GetCodepoint(3) = c1
  <2>1. \A j \in 0..3 : /\ 3 + j \in 1..12 /\ 3 + j \in 1..6
                        /\ Ahead(3 + j) = Escape(c1)[3 + j]
    BY <1>6, <1>8, SMT
  <2>2. 3 \in Nat
    BY SMT
  <2> QED BY <1>2, <2>1, <2>2, CodepointRead, SMT
<1>11. GetCodepoint(9) = c2
  <2>1. \A j \in 0..3 : Ahead(9 + j) = Escape(c2)[3 + j]
    <3>1. \A j \in 0..3 : 9 + j \in 1..12 /\ 3 + j \in 1..6 /\ 9 + j = 6 + (3 + j)
      BY SMT
    <3> QED BY <1>6, <1>8, <3>1, SMT
  <2>2. 9 \in Nat
    BY SMT
  <2> QED BY <1>2, <2>1, <2>2, CodepointRead, SMT
<1>12. ~EscapedLetter
  BY <1>9, NoLetterIsU, SMT DEF EscapedLetter
<1>13. EscapedCodepoint
  BY <1>9, <1>12, BackslashOnly, SMT
<1>14. c1 # -1 /\ c1 \notin Low
  BY <1>1, SMT DEF High, Low
<1>15. Add(Utf8(1024 * c1 + c2 - 56613888), 12)
  BY <1>1, <1>9, <1>10, <1>11, <1>13, <1>14, SMT DEF EscapedCodepoint
<1>16. Add(Utf8(c), 12)
  BY <1>1, <1>15, SMT
<1> QED BY <1>6, <1>16, SMT DEF Add, Scanned, w

-----------------------------------------------------------------------------
(***************************************************************************)
(* A character while it is read: Pending ties the state and the code point *)
(* of decode to the bytes of the source, Complete and Broken say how it    *)
(* ends.                                                                   *)
(***************************************************************************)

Window(s, q, n) == [j \in 1..n |-> s[q + j]]

\* The r bytes of s behind the first q begin a sequence; decode is in state st with
\* code point cp.
Pending(s, q, r, st, cp) ==
  /\ r = 0 => st = 0
  /\ r # 0 => Expected(s[q + 1]) > r
  /\ r = 1 => st = StateAfter(s[q + 1]) /\ cp = Lead(s[q + 1])
  /\ r >= 2 => s[q + 2] \in Second(s[q + 1])
  /\ r = 2 => /\ st = IF Expected(s[q + 1]) = 3 THEN 2 ELSE 3
              /\ cp = 64 * Lead(s[q + 1]) + (s[q + 2] - 128)
  /\ r = 3 => /\ s[q + 3] \in 128..191 /\ st = 2
              /\ cp = 64 * (64 * Lead(s[q + 1]) + (s[q + 2] - 128)) + (s[q + 3] - 128)

\* CodepointWith, for a given state.
Codep(st, cp, b) == IF st # 0 THEN 64 * cp + (b % 64) ELSE b % Payload[Type(b)]

\* The character that ends with b.
Complete(s, q, n, c) ==
  /\ SequenceAt(s, q + 1, n)
  /\ Utf8(c) = Window(s, q, n)
  /\ IsBasic(c) \/ IsAstral(c)
  /\ n = 1 => c = s[q + 1] /\ c <= 127
  /\ n # 1 => c >= 128

Broken(s, q, r) ==
  /\ \A n \in 1..4 : ~SequenceAt(s, q + 1, n)
  /\ \A k \in (q + 2)..(q + r) : s[k] \in 128..191

\* A byte that begins nothing begins no character.
LEMMA NoSequence ==
  ASSUME NEW s \in Seq(Byte), NEW a \in 1..Len(s), Expected(s[a]) = 0
  PROVE  \A n \in 1..4 : ~SequenceAt(s, a, n)
BY SequenceParts

\* One byte of a sequence: it completes a character, breaks it off, or goes on.
LEMMA DecodeFirst ==
  ASSUME NEW s \in Seq(Byte), NEW q \in Nat, q < Len(s), NEW cp
  PROVE  LET b == s[q + 1] IN
         /\ Decode(0, b) = 0 => Complete(s, q, 1, Codep(0, cp, b))
         /\ Decode(0, b) = 1 => Broken(s, q, 0)
         /\ Decode(0, b) \notin {0, 1} => Pending(s, q, 1, Decode(0, b), Codep(0, cp, b))
<1> DEFINE b == s[q + 1]
<1>1. b \in Byte /\ q + 1 \in 1..Len(s)
  OBVIOUS
<1>2. Codep(0, cp, b) = b % Payload[Type(b)]
  BY DEF Codep
<1> HIDE DEF b
<1>3. ASSUME Decode(0, b) = 0 PROVE Complete(s, q, 1, Codep(0, cp, b))
  <2>1. Expected(b) = 1 /\ Codep(0, cp, b) = b
    BY <1>1, <1>2, <1>3, BeginByte
  <2>2. b \in 0..127
    BY <1>1, <2>1, Expectations
  <2>3. SequenceAt(s, q + 1, 1)
    <3>1. 1 \in 1..4 /\ q + 1 + 1 - 1 <= Len(s)
      OBVIOUS
    <3>2. SequenceAt(s, q + 1, 1) <=>
           /\ q + 1 + 1 - 1 <= Len(s) /\ Expected(s[q + 1]) = 1
           /\ 1 >= 2 => s[q + 1 + 1] \in Second(s[q + 1])
           /\ 1 >= 3 => s[q + 1 + 2] \in 128..191
           /\ 1 >= 4 => s[q + 1 + 3] \in 128..191
      BY <1>1, <3>1, SequenceParts, Zenon
    <3>3. Expected(s[q + 1]) = 1
      BY <2>1 DEF b
    <3> QED BY <3>1, <3>2, <3>3
  <2>4. Utf8(b) = <<b>>
    BY <2>2, SMT DEF Utf8
  <2>5. Window(s, q, 1) = <<b>>
    BY DEF Window, b
  <2>6. IsBasic(b) /\ b <= 127
    BY <2>2, SMT DEF IsBasic
  <2>7. b = s[q + 1]
    BY DEF b
  <2> QED BY <2>1, <2>3, <2>4, <2>5, <2>6, <2>7 DEF Complete
<1>4. ASSUME Decode(0, b) = 1 PROVE Broken(s, q, 0)
  <2>1. Expected(s[q + 1]) = 0
    BY <1>1, <1>4, BeginByte DEF b
  <2>2. \A n \in 1..4 : ~SequenceAt(s, q + 1, n)
    BY <1>1, <2>1, NoSequence
  <2> QED BY <2>2 DEF Broken
<1>5. ASSUME Decode(0, b) \notin {0, 1}
      PROVE  Pending(s, q, 1, Decode(0, b), Codep(0, cp, b))
  <2>1. Expected(b) >= 2 /\ Expected(b) > 1
    BY <1>1, <1>5, BeginByte
  <2>2. Decode(0, b) = StateAfter(b) /\ Codep(0, cp, b) = Lead(b)
    BY <1>1, <1>2, <2>1, BeginByte
  <2> QED BY <2>1, <2>2 DEF Pending, b
<1> QED BY <1>3, <1>4, <1>5 DEF b

\* The payload of a first byte, and which second bytes go with it.
LEMMA LeadRange ==
  ASSUME NEW b \in Byte, NEW c \in Second(b), Expected(b) >= 2
  PROVE  /\ c \in 128..191 /\ c - 128 \in 0..63 /\ c % 64 = c - 128 /\ 128 + (c - 128) = c
         /\ Expected(b) = 2 => Lead(b) \in 2..31 /\ 192 + Lead(b) = b
         /\ Expected(b) = 3 => /\ Lead(b) \in 0..15 /\ 224 + Lead(b) = b
                               /\ Lead(b) = 0 => c - 128 >= 32
                               /\ Lead(b) = 13 => c - 128 <= 31
         /\ Expected(b) = 4 => /\ Lead(b) \in 0..4 /\ 240 + Lead(b) = b
                               /\ Lead(b) = 0 => c - 128 >= 16
                               /\ Lead(b) = 4 => c - 128 <= 15
<1>1. b \in 194..223 \/ b \in 224..239 \/ b \in 240..244
  BY Expectations
<1>2. c \in 128..191
  BY <1>1, SecondBytes
<1>3. c - 128 \in 0..63 /\ c % 64 = c - 128 /\ 128 + (c - 128) = c
  BY <1>2
<1>4. CASE b \in 194..223
  <2>1. Expected(b) = 2 /\ Lead(b) = b - 192
    BY <1>4, Expectations DEF Lead
  <2> QED BY <1>2, <1>3, <1>4, <2>1
<1>5. CASE b \in 224..239
  <2>1. Expected(b) = 3 /\ Lead(b) = b - 224
    BY <1>5, Expectations DEF Lead
  <2>2. (b = 224 => c >= 160) /\ (b = 237 => c <= 159)
    BY <1>5, SecondBytes
  <2> QED BY <1>2, <1>3, <1>5, <2>1, <2>2
<1>6. CASE b \in 240..244
  <2>1. Expected(b) = 4 /\ Lead(b) = b - 240
    BY <1>6, Expectations DEF Lead
  <2>2. (b = 240 => c >= 144) /\ (b = 244 => c <= 143)
    BY <1>6, SecondBytes
  <2> QED BY <1>2, <1>3, <1>6, <2>1, <2>2
<1> QED BY <1>1, <1>4, <1>5, <1>6

\* The payload of a byte that continues.
LEMMA TailByte ==
  \A c \in 128..191 : c - 128 \in 0..63 /\ c % 64 = c - 128 /\ 128 + (c - 128) = c
OBVIOUS

\* SequenceParts, each length for itself.
LEMMA LongSequence ==
  ASSUME NEW s \in Seq(Byte), NEW q \in Nat, q < Len(s)
  PROVE  /\ \A n \in 1..4 : SequenceAt(s, q + 1, n) =>
              /\ Expected(s[q + 1]) = n /\ q + n <= Len(s)
              /\ n >= 2 => s[q + 2] \in Second(s[q + 1])
              /\ n >= 3 => s[q + 3] \in 128..191
              /\ n >= 4 => s[q + 4] \in 128..191
         /\ \A n \in 2..4 :
              /\ Expected(s[q + 1]) = n /\ q + n <= Len(s)
              /\ s[q + 2] \in Second(s[q + 1])
              /\ n >= 3 => s[q + 3] \in 128..191
              /\ n >= 4 => s[q + 4] \in 128..191
              => SequenceAt(s, q + 1, n)
<1>1. q + 1 \in 1..Len(s) /\ q + 1 + 1 = q + 2 /\ q + 1 + 2 = q + 3 /\ q + 1 + 3 = q + 4
  OBVIOUS
<1>2. \A n \in 1..4 :
         SequenceAt(s, q + 1, n) <=>
           /\ q + 1 + n - 1 <= Len(s) /\ Expected(s[q + 1]) = n
           /\ n >= 2 => s[q + 1 + 1] \in Second(s[q + 1])
           /\ n >= 3 => s[q + 1 + 2] \in 128..191
           /\ n >= 4 => s[q + 1 + 3] \in 128..191
  BY <1>1, SequenceParts
<1>3. \A n \in 1..4 : q + 1 + n - 1 = q + n
  OBVIOUS
<1>4. \A n \in 1..4 :
         SequenceAt(s, q + 1, n) <=>
           /\ q + n <= Len(s) /\ Expected(s[q + 1]) = n
           /\ n >= 2 => s[q + 2] \in Second(s[q + 1])
           /\ n >= 3 => s[q + 3] \in 128..191
           /\ n >= 4 => s[q + 4] \in 128..191
  BY <1>1, <1>2, <1>3
<1> QED BY <1>4

\* The payloads of the bytes of a sequence make up the code point c.
FromTwo(h, l, c) == h \in 2..31 /\ l \in 0..63 /\ c = 64 * h + l

FromThree(h, m, l, c) ==
  /\ h \in 0..15 /\ m \in 0..63 /\ l \in 0..63 /\ (h = 0 => m >= 32) /\ (h = 13 => m <= 31)
  /\ c = 64 * (64 * h + m) + l

FromFour(h, g, m, l, c) ==
  /\ h \in 0..4 /\ g \in 0..63 /\ m \in 0..63 /\ l \in 0..63
  /\ h = 0 => g >= 16
  /\ h = 4 => g <= 15
  /\ c = 64 * (64 * (64 * h + g) + m) + l

\* The payloads of a sequence, put together by codep, are its code point, and Utf8
\* makes the sequence of it again.
LEMMA TwoBytes ==
  ASSUME NEW h, NEW l, NEW c, FromTwo(h, l, c)
  PROVE  Utf8(c) = <<192 + h, 128 + l>> /\ IsBasic(c) /\ c >= 128
<1>1. h \in 2..31 /\ l \in 0..63 /\ c = 64 * h + l
  BY SMT DEF FromTwo
<1>2. /\ c \in Nat /\ c >= 128 /\ c <= 2047
      /\ c \div 64 = h /\ c % 64 = l
  BY <1>1, SMT
<1>3. Utf8(c) = <<192 + h, 128 + l>>
  BY <1>1, <1>2, SMT DEF Utf8
<1>4. IsBasic(c)
  BY <1>2, SMT DEF IsBasic
<1> QED BY <1>2, <1>3, <1>4, SMT

LEMMA ThreeBytes ==
  ASSUME NEW h, NEW m, NEW l, NEW c, FromThree(h, m, l, c)
  PROVE  Utf8(c) = <<224 + h, 128 + m, 128 + l>> /\ IsBasic(c) /\ c >= 128
<1> DEFINE d == 64 * h + m
<1>0. /\ h \in 0..15 /\ m \in 0..63 /\ l \in 0..63 /\ (h = 0 => m >= 32) /\ (h = 13 => m <= 31)
      /\ c = 64 * d + l
  BY SMT DEF FromThree
<1>1. /\ d \in Nat /\ d >= 32 /\ d <= 1023 /\ (d <= 863 \/ d >= 896)
      /\ d \div 64 = h /\ d % 64 = m
  BY <1>0, SMT
<1>2. c \div 4096 = d \div 64
  BY <1>0, <1>1, SMT
<1> HIDE DEF d
<1>3. /\ c \in Nat /\ c >= 2048 /\ c <= 65535 /\ c \notin 55296..57343
      /\ c \div 64 = d /\ c % 64 = l
  BY <1>0, <1>1, SMT
<1>4. Utf8(c) = <<224 + h, 128 + m, 128 + l>>
  BY <1>1, <1>2, <1>3, SMT DEF Utf8
<1>5. IsBasic(c) /\ c >= 128
  BY <1>3, SMT DEF IsBasic
<1> QED BY <1>4, <1>5, SMT

LEMMA FourBytes ==
  ASSUME NEW h, NEW g, NEW m, NEW l, NEW c, FromFour(h, g, m, l, c)
  PROVE  Utf8(c) = <<240 + h, 128 + g, 128 + m, 128 + l>> /\ IsAstral(c) /\ c >= 128
<1> DEFINE e == 64 * h + g
           d == 64 * e + m
<1>0. /\ h \in 0..4 /\ g \in 0..63 /\ m \in 0..63 /\ l \in 0..63
      /\ h = 0 => g >= 16
      /\ h = 4 => g <= 15
      /\ c = 64 * d + l
  BY SMT DEF FromFour
<1>1. e \in Nat /\ e >= 16 /\ e <= 271 /\ e \div 64 = h /\ e % 64 = g
  BY <1>0, SMT
<1>2. d \div 4096 = h /\ c \div 262144 = h
  BY <1>0, SMT
<1> HIDE DEF e
<1>3. /\ d \in Nat /\ d >= 1024 /\ d <= 17407 /\ d \div 64 = e /\ d % 64 = m
      /\ c \div 4096 = e
  BY <1>0, <1>1, SMT
<1> HIDE DEF d
<1>4. /\ c \in Nat /\ c >= 65536 /\ c <= 1114111
      /\ c \div 64 = d /\ c % 64 = l
  BY <1>0, <1>3, SMT
<1>5. Utf8(c) = <<240 + h, 128 + g, 128 + m, 128 + l>>
  BY <1>1, <1>2, <1>3, <1>4, SMT DEF Utf8
<1>6. IsAstral(c) /\ c >= 128
  BY <1>4, SMT DEF IsAstral
<1> QED BY <1>5, <1>6, SMT

LEMMA DecodeSecond ==
  ASSUME NEW s \in Seq(Byte), NEW q \in Nat, q + 1 < Len(s), NEW st, NEW cp,
         Pending(s, q, 1, st, cp)
  PROVE  LET b == s[q + 2] IN
         /\ Decode(st, b) = 0 => Complete(s, q, 2, Codep(st, cp, b))
         /\ Decode(st, b) = 1 => Broken(s, q, 1)
         /\ Decode(st, b) \notin {0, 1} => Pending(s, q, 2, Decode(st, b), Codep(st, cp, b))
<1> DEFINE first == s[q + 1]
           b == s[q + 2]
<1>1. b \in Byte /\ first \in Byte /\ q < Len(s)
  OBVIOUS
<1>2. Expected(first) \in 2..4 /\ st = StateAfter(first) /\ cp = Lead(first)
  <2>1. Expected(first) > 1 /\ st = StateAfter(first) /\ cp = Lead(first)
    BY DEF Pending
  <2>2. Expected(first) \in 0..4
    BY <1>1, BeginByte
  <2> HIDE DEF first
  <2> QED BY <2>1, <2>2
<1>3. /\ \A n \in 1..4 : SequenceAt(s, q + 1, n) => b \in Second(first)
      /\ Expected(first) = 2 /\ b \in Second(first) => SequenceAt(s, q + 1, 2)
  <2>1. \A n \in 1..4 : SequenceAt(s, q + 1, n) =>
         Expected(first) = n /\ (n >= 2 => b \in Second(first))
    BY <1>1, LongSequence
  <2>2. Expected(first) = 2 /\ b \in Second(first) => SequenceAt(s, q + 1, 2)
    BY <1>1, LongSequence
  <2> HIDE DEF first, b
  <2> QED BY <1>2, <2>1, <2>2
<1>4. Window(s, q, 2) = <<first, b>>
  BY DEF Window
<1> HIDE DEF first, b
<1>5. StateAfter(first) # 0
  BY DEF StateAfter
<1>6. Codep(st, cp, b) = 64 * Lead(first) + (b % 64)
  BY <1>2, <1>5 DEF Codep
<1>7. ASSUME Decode(st, b) = 0 PROVE Complete(s, q, 2, Codep(st, cp, b))
  <2>1. b \in Second(first) /\ Expected(first) = 2
    BY <1>1, <1>2, <1>7, NextByte
  <2> DEFINE h == Lead(first)
             l == b - 128
  <2>2. h \in 2..31 /\ l \in 0..63 /\ b % 64 = l /\ 192 + h = first /\ 128 + l = b
    BY <1>1, <2>1, LeadRange
  <2> DEFINE c == Codep(st, cp, b)
  <2>5. c = 64 * h + l
    BY <1>6, <2>2
  <2> HIDE DEF h, l, c
  <2>10. FromTwo(h, l, c)
    BY <2>2, <2>5 DEF FromTwo
  <2>6. Utf8(c) = <<192 + h, 128 + l>> /\ IsBasic(c) /\ c >= 128
    BY <2>10, TwoBytes
  <2>7. Utf8(c) = <<first, b>>
    BY <2>2, <2>6
  <2>8. SequenceAt(s, q + 1, 2)
    BY <1>3, <2>1
  <2> QED BY <1>4, <2>6, <2>7, <2>8 DEF Complete, c
<1>8. ASSUME Decode(st, b) = 1 PROVE Broken(s, q, 1)
  <2>1. b \notin Second(first)
    BY <1>1, <1>2, <1>8, NextByte
  <2>2. \A n \in 1..4 : ~SequenceAt(s, q + 1, n)
    BY <1>3, <2>1
  <2> QED BY <2>2 DEF Broken
<1>9. ASSUME Decode(st, b) \notin {0, 1}
      PROVE  Pending(s, q, 2, Decode(st, b), Codep(st, cp, b))
  <2>1. b \in Second(first) /\ Expected(first) > 2
        /\ Decode(st, b) = (IF Expected(first) = 3 THEN 2 ELSE 3)
    BY <1>1, <1>2, <1>9, NextByte
  <2>2. b % 64 = b - 128
    BY <1>1, <1>2, <2>1, LeadRange
  <2>3. Codep(st, cp, b) = 64 * Lead(first) + (b - 128)
    BY <1>6, <2>2
  <2> QED BY <2>1, <2>3 DEF Pending, first, b
<1> QED BY <1>7, <1>8, <1>9 DEF b

LEMMA DecodeThird ==
  ASSUME NEW s \in Seq(Byte), NEW q \in Nat, q + 2 < Len(s), NEW st, NEW cp,
         Pending(s, q, 2, st, cp)
  PROVE  LET b == s[q + 3] IN
         /\ Decode(st, b) = 0 => Complete(s, q, 3, Codep(st, cp, b))
         /\ Decode(st, b) = 1 => Broken(s, q, 2)
         /\ Decode(st, b) \notin {0, 1} => Pending(s, q, 3, Decode(st, b), Codep(st, cp, b))
<1> DEFINE first == s[q + 1]
           second == s[q + 2]
           b == s[q + 3]
<1>1. b \in Byte /\ first \in Byte /\ second \in Byte /\ q < Len(s)
  OBVIOUS
<1>2. /\ Expected(first) \in 3..4 /\ second \in Second(first)
      /\ st = IF Expected(first) = 3 THEN 2 ELSE 3
      /\ cp = 64 * Lead(first) + (second - 128)
  <2>1. /\ Expected(first) > 2 /\ second \in Second(first)
        /\ st = IF Expected(first) = 3 THEN 2 ELSE 3
        /\ cp = 64 * Lead(first) + (second - 128)
    BY DEF Pending
  <2>2. Expected(first) \in 0..4
    BY <1>1, BeginByte
  <2> HIDE DEF first, second
  <2> QED BY <2>1, <2>2
<1>3. /\ \A n \in 1..4 : SequenceAt(s, q + 1, n) => b \in 128..191
      /\ Expected(first) = 3 /\ b \in 128..191 => SequenceAt(s, q + 1, 3)
  <2>1. \A n \in 1..4 : SequenceAt(s, q + 1, n) =>
         Expected(first) = n /\ (n >= 3 => b \in 128..191)
    BY <1>1, LongSequence
  <2>2. Expected(first) = 3 /\ second \in Second(first) /\ b \in 128..191 =>
         SequenceAt(s, q + 1, 3)
    BY <1>1, LongSequence
  <2> HIDE DEF first, second, b
  <2>3. \A n \in 1..4 : SequenceAt(s, q + 1, n) => b \in 128..191
    <3> TAKE n \in 1..4
    <3>1. Expected(first) = n => n >= 3
      BY <1>2
    <3> QED BY <2>1, <3>1
  <2> QED BY <1>2, <2>2, <2>3
<1>4. Window(s, q, 3) = <<first, second, b>>
  BY DEF Window
<1>5. Broken(s, q, 2) <=> /\ \A n \in 1..4 : ~SequenceAt(s, q + 1, n)
                          /\ second \in 128..191
  <2>1. \A k : k \in (q + 2)..(q + 2) <=> k = q + 2
    OBVIOUS
  <2> QED BY <2>1 DEF Broken
<1> HIDE DEF first, second, b
<1> DEFINE h == Lead(first)
           m == second - 128
<1>6. second \in 128..191 /\ m \in 0..63 /\ 128 + m = second /\ Expected(first) >= 2
  BY <1>1, <1>2, LeadRange
<1>7. st # 0 /\ Codep(st, cp, b) = 64 * (64 * h + m) + (b % 64)
  BY <1>2 DEF Codep
<1>8. ASSUME Decode(st, b) = 0 PROVE Complete(s, q, 3, Codep(st, cp, b))
  <2>1. b \in 128..191 /\ Expected(first) = 3
    BY <1>1, <1>2, <1>6, <1>8, NextByte
  <2> DEFINE l == b - 128
  <2>2. h \in 0..15 /\ 224 + h = first /\ (h = 0 => m >= 32) /\ (h = 13 => m <= 31)
    BY <1>1, <1>2, <2>1, LeadRange
  <2>3. l \in 0..63 /\ b % 64 = l /\ 128 + l = b
    BY <2>1, TailByte
  <2> DEFINE c == Codep(st, cp, b)
  <2>4. c = 64 * (64 * h + m) + l
    BY <1>7, <2>3
  <2> HIDE DEF h, m, l, c
  <2>10. FromThree(h, m, l, c)
    BY <1>6, <2>2, <2>3, <2>4 DEF FromThree
  <2>5. Utf8(c) = <<224 + h, 128 + m, 128 + l>> /\ IsBasic(c) /\ c >= 128
    BY <2>10, ThreeBytes
  <2>7. Utf8(c) = <<first, second, b>>
    BY <1>6, <2>2, <2>3, <2>5
  <2>9. SequenceAt(s, q + 1, 3)
    BY <1>3, <2>1
  <2> QED BY <1>4, <2>5, <2>7, <2>9 DEF Complete, c
<1>9. ASSUME Decode(st, b) = 1 PROVE Broken(s, q, 2)
  <2>1. b \notin 128..191
    BY <1>1, <1>2, <1>6, <1>9, NextByte
  <2> QED BY <1>3, <1>5, <1>6, <2>1
<1>10. ASSUME Decode(st, b) \notin {0, 1}
       PROVE  Pending(s, q, 3, Decode(st, b), Codep(st, cp, b))
  <2>1. b \in 128..191 /\ Expected(first) > 3 /\ Decode(st, b) = 2
    BY <1>1, <1>2, <1>6, <1>10, NextByte
  <2>2. b % 64 = b - 128
    BY <2>1, TailByte
  <2>3. Codep(st, cp, b) = 64 * (64 * Lead(first) + (second - 128)) + (b - 128)
    BY <1>7, <2>2
  <2> QED BY <1>2, <2>1, <2>3 DEF Pending, first, second, b
<1> QED BY <1>8, <1>9, <1>10 DEF b

LEMMA DecodeFourth ==
  ASSUME NEW s \in Seq(Byte), NEW q \in Nat, q + 3 < Len(s), NEW st, NEW cp,
         Pending(s, q, 3, st, cp)
  PROVE  LET b == s[q + 4] IN
         /\ Decode(st, b) = 0 => Complete(s, q, 4, Codep(st, cp, b))
         /\ Decode(st, b) = 1 => Broken(s, q, 3)
         /\ Decode(st, b) \in {0, 1}
<1> DEFINE first == s[q + 1]
           second == s[q + 2]
           third == s[q + 3]
           b == s[q + 4]
<1>1. b \in Byte /\ first \in Byte /\ second \in Byte /\ third \in Byte /\ q < Len(s)
  OBVIOUS
<1>2. /\ Expected(first) = 4 /\ second \in Second(first) /\ third \in 128..191 /\ st = 2
      /\ cp = 64 * (64 * Lead(first) + (second - 128)) + (third - 128)
  <2>1. /\ Expected(first) > 3 /\ second \in Second(first) /\ third \in 128..191 /\ st = 2
        /\ cp = 64 * (64 * Lead(first) + (second - 128)) + (third - 128)
    BY DEF Pending
  <2> HIDE DEF first, second, third
  <2> QED BY <1>1, <2>1, Expectations
<1>3. /\ \A n \in 1..4 : SequenceAt(s, q + 1, n) => b \in 128..191
      /\ b \in 128..191 => SequenceAt(s, q + 1, 4)
  <2>1. \A n \in 1..4 : SequenceAt(s, q + 1, n) =>
         Expected(first) = n /\ (n >= 4 => b \in 128..191)
    BY <1>1, LongSequence
  <2>2. /\ Expected(first) = 4 /\ second \in Second(first) /\ third \in 128..191
        /\ b \in 128..191
        => SequenceAt(s, q + 1, 4)
    BY <1>1, LongSequence
  <2> HIDE DEF first, second, third, b
  <2> QED BY <1>2, <2>1, <2>2
<1>4. Window(s, q, 4) = <<first, second, third, b>>
  BY DEF Window
<1>5. Broken(s, q, 3) <=> /\ \A n \in 1..4 : ~SequenceAt(s, q + 1, n)
                          /\ second \in 128..191 /\ third \in 128..191
  <2>1. \A k : k \in (q + 2)..(q + 3) <=> k = q + 2 \/ k = q + 3
    OBVIOUS
  <2> QED BY <2>1 DEF Broken
<1> HIDE DEF first, second, third, b
<1> DEFINE h == Lead(first)
           g == second - 128
           m == third - 128
<1>6. second \in 128..191 /\ g \in 0..63 /\ 128 + g = second /\ m \in 0..63 /\ 128 + m = third
  BY <1>1, <1>2, LeadRange, TailByte
<1>7. Codep(st, cp, b) = 64 * (64 * (64 * h + g) + m) + (b % 64)
  BY <1>2 DEF Codep
<1>8. ASSUME Decode(st, b) = 0 PROVE Complete(s, q, 4, Codep(st, cp, b))
  <2>1. b \in 128..191
    BY <1>1, <1>2, <1>8, NextByte
  <2> DEFINE l == b - 128
  <2>2. h \in 0..4 /\ 240 + h = first /\ (h = 0 => g >= 16) /\ (h = 4 => g <= 15)
    BY <1>1, <1>2, LeadRange
  <2>3. l \in 0..63 /\ b % 64 = l /\ 128 + l = b
    BY <2>1, TailByte
  <2> DEFINE c == Codep(st, cp, b)
  <2>4. c = 64 * (64 * (64 * h + g) + m) + l
    BY <1>7, <2>3
  <2> HIDE DEF h, g, m, l, c
  <2>10. FromFour(h, g, m, l, c)
    BY <1>6, <2>2, <2>3, <2>4 DEF FromFour
  <2>5. Utf8(c) = <<240 + h, 128 + g, 128 + m, 128 + l>> /\ IsAstral(c) /\ c >= 128
    BY <2>10, FourBytes
  <2>7. Utf8(c) = <<first, second, third, b>>
    BY <1>6, <2>2, <2>3, <2>5
  <2>9. SequenceAt(s, q + 1, 4)
    BY <1>3, <2>1
  <2> QED BY <1>4, <2>5, <2>7, <2>9 DEF Complete, c
<1>9. ASSUME Decode(st, b) = 1 PROVE Broken(s, q, 3)
  <2>1. b \notin 128..191
    BY <1>1, <1>2, <1>9, NextByte
  <2> QED BY <1>2, <1>3, <1>5, <1>6, <2>1
<1>10. Decode(st, b) \in {0, 1}
  BY <1>1, <1>2, NextByte
<1> QED BY <1>8, <1>9, <1>10 DEF b

\* The four together.
LEMMA DecodeStep ==
  ASSUME NEW s \in Seq(Byte), NEW q \in Nat, NEW r \in 0..3, q + r < Len(s), NEW st, NEW cp,
         Pending(s, q, r, st, cp)
  PROVE  LET b == s[q + r + 1] IN
         /\ Decode(st, b) = 0 => Complete(s, q, r + 1, Codep(st, cp, b))
         /\ Decode(st, b) = 1 => Broken(s, q, r)
         /\ Decode(st, b) \notin {0, 1} =>
              r + 1 \in 0..3 /\ Pending(s, q, r + 1, Decode(st, b), Codep(st, cp, b))
<1>1. CASE r = 0
  <2>1. st = 0 /\ q < Len(s) /\ q + r + 1 = q + 1 /\ r + 1 = 1
    BY <1>1 DEF Pending
  <2> QED BY <1>1, <2>1, DecodeFirst
<1>2. CASE r = 1
  <2>1. q + 1 < Len(s) /\ q + r + 1 = q + 2 /\ r + 1 = 2
    BY <1>2
  <2> QED BY <1>2, <2>1, DecodeSecond
<1>3. CASE r = 2
  <2>1. q + 2 < Len(s) /\ q + r + 1 = q + 3 /\ r + 1 = 3
    BY <1>3
  <2> QED BY <1>3, <2>1, DecodeThird
<1>4. CASE r = 3
  <2>1. q + 3 < Len(s) /\ q + r + 1 = q + 4 /\ r + 1 = 4
    BY <1>4
  <2> QED BY <1>4, <2>1, DecodeFourth
<1> QED BY <1>1, <1>2, <1>3, <1>4

\* Some bytes of the source.
LEMMA WindowTyped ==
  ASSUME NEW s \in Seq(Byte), NEW q \in Nat, NEW n \in 0..4, q + n <= Len(s)
  PROVE  /\ Window(s, q, n) \in Seq(Byte) /\ Window(s, q, n) \in Seq(Int)
         /\ Len(Window(s, q, n)) = n
         /\ \A k \in 1..n : Window(s, q, n)[k] = s[q + k]
         /\ n = 0 => Window(s, q, n) = <<>>
         /\ n = 1 => Window(s, q, n) = <<s[q + 1]>>
<1>1. \A k \in 1..n : s[q + k] \in Byte /\ s[q + k] \in Int
  <2> TAKE k \in 1..n
  <2>1. q + k \in 1..Len(s)
    OBVIOUS
  <2>2. s[q + k] \in Byte
    BY <2>1
  <2>3. \A e \in Byte : e \in Int
    BY DEF Byte
  <2> QED BY <2>2, <2>3
<1> QED BY <1>1 DEF Window

LEMMA WindowGrows ==
  ASSUME NEW s \in Seq(Byte), NEW q \in Nat, NEW n \in 0..3, q + n < Len(s)
  PROVE  Window(s, q, n) \o <<s[q + n + 1]>> = Window(s, q, n + 1)
BY DEF Window

\* A complete sequence is a character.
LEMMA CompleteCharacter ==
  ASSUME NEW s \in Seq(Byte), NEW q \in Nat, NEW n \in 1..4, NEW c, Complete(s, q, n, c)
  PROVE  q + n <= Len(s) /\ IsCharacter(Window(s, q, n)) /\ Window(s, q, n) \in Seq(Byte)
<1>1. SequenceAt(s, q + 1, n)
  BY DEF Complete
<1>2. q + n <= Len(s)
  BY <1>1 DEF SequenceAt
<1> DEFINE u == Window(s, q, n)
<1>3. u \in Seq(Byte) /\ u \in Seq(Int) /\ Len(u) = n /\ \A k \in 1..n : u[k] = s[q + k]
  <2>1. n \in 0..4
    OBVIOUS
  <2> QED BY <1>2, <2>1, WindowTyped
<1> HIDE DEF u
<1>4. 1 + n - 1 <= Len(u) /\ q + 1 \in Int /\ 1 \in Int
  BY <1>3
<1>5. \A k \in 0..(n - 1) : u[1 + k] = s[(q + 1) + k]
  <2> TAKE k \in 0..(n - 1)
  <2>1. 1 + k \in 1..n /\ q + (1 + k) = (q + 1) + k
    OBVIOUS
  <2> QED BY <1>3, <2>1
<1>6. SequenceAt(u, 1, n)
  BY <1>1, <1>4, <1>5, SequenceMoved, Zenon
<1>7. IsCharacter(u)
  BY <1>3, <1>6 DEF IsCharacter
<1> QED BY <1>2, <1>3, <1>7 DEF u

\* What stands in the buffer for a character when its last byte has been read.
LEMMA UnitDumped ==
  ASSUME TypeOK, NEW s \in Seq(Byte), NEW q \in Nat, NEW r \in 0..3, NEW c,
         Complete(s, q, r + 1, c)
  PROVE  LET b == s[q + r + 1]
             w == (IF ensure_ascii THEN <<>> ELSE Window(s, q, r)) \o Dumped(c, b)
         IN Unit(w, Window(s, q, r + 1))
<1> DEFINE b == s[q + r + 1]
           pend == IF ensure_ascii THEN <<>> ELSE Window(s, q, r)
           u == Window(s, q, r + 1)
<1>1. r + 1 \in 1..4 /\ q + (r + 1) = q + r + 1
  OBVIOUS
<1>2. q + r + 1 <= Len(s) /\ IsCharacter(u) /\ u \in Seq(Byte)
  BY <1>1, CompleteCharacter
<1>3. Utf8(c) = u /\ (IsBasic(c) \/ IsAstral(c))
  BY DEF Complete
<1>4. c \in Nat /\ (IsBasic(c) => c <= 65535) /\ (c <= 65535 => IsBasic(c))
  <2>1. CASE IsBasic(c)
    BY <2>1, SMT DEF IsBasic
  <2>2. CASE IsAstral(c)
    BY <2>2, SMT DEF IsBasic, IsAstral
  <2> QED BY <1>3, <2>1, <2>2
<1>5. b \in Byte /\ q + r <= Len(s) /\ q + r < Len(s)
  BY <1>2
<1>6. Window(s, q, r) \o <<b>> = u
  BY <1>5, WindowGrows
<1>7. ensure_ascii \in BOOLEAN
  BY DEF TypeOK
<1>8. CASE r = 0
  <2>1. c = b /\ c <= 127
    <3>1. r + 1 = 1 /\ q + r + 1 = q + 1
      BY <1>8
    <3> QED BY <3>1 DEF Complete
  <2>2. pend = <<>> /\ u = <<b>>
    BY <1>2, <1>8, WindowTyped
  <2>3. Dumped(c, b) \in Seq(Int)
    BY <1>4, <1>5, DumpedTyped
  <2>4. pend \o Dumped(c, b) = Dumped(c, b)
    BY <2>2, <2>3, ConcatEmptySeq, Zenon
  <2> HIDE DEF b, pend, u
  <2>5. CASE c \in Short
    <3>1. Dumped(c, b) = <<Backslash, Letter(c)>> /\ u = <<c>>
      BY <2>1, <2>2, <2>5 DEF Dumped
    <3>2. \E d \in Short : u = <<d>> /\ Dumped(c, b) = <<Backslash, Letter(d)>>
      BY <2>5, <3>1
    <3> QED BY <1>2, <2>4, <3>2 DEF Unit, b, pend, u
  <2>6. CASE c \notin Short /\ (c <= 31 \/ (ensure_ascii /\ c >= 127))
    <3>1. IsBasic(c)
      BY <1>4, <2>1, SMT
    <3>2. Dumped(c, b) = Escape(c)
      BY <1>4, <2>1, <2>6, SMT DEF Dumped
    <3>3. \E d : IsBasic(d) /\ u = Utf8(d) /\ Dumped(c, b) = Escape(d)
      BY <1>3, <3>1, <3>2
    <3> QED BY <1>2, <2>4, <3>3 DEF Unit, b, pend, u
  <2>7. CASE c \notin Short /\ ~(c <= 31 \/ (ensure_ascii /\ c >= 127))
    <3>1. Dumped(c, b) = u
      BY <2>2, <2>7 DEF Dumped
    <3>2. u[1] = c
      BY <2>1, <2>2
    <3>3. c \notin 0..31 \union {Quote, Backslash}
      BY <1>4, <2>7 DEF Short
    <3> QED BY <1>2, <2>4, <3>1, <3>2, <3>3 DEF Unit, b, pend, u
  <2> QED BY <2>5, <2>6, <2>7
<1>9. CASE r # 0
  <2>1. c >= 128
    <3>1. r + 1 # 1
      BY <1>9
    <3> QED BY <3>1 DEF Complete
  <2>2. c \notin Short /\ ~(c <= 31) /\ c >= 127
    BY <1>4, <2>1 DEF Short, Quote, Backslash
  <2>3. Len(u) # 1
    BY <1>1, <1>2, <1>9, WindowTyped
  <2>4. Dumped(c, b) \in Seq(Int)
    BY <1>4, <1>5, DumpedTyped
  <2> HIDE DEF b, u
  <2>5. CASE ~ensure_ascii
    <3>1. Dumped(c, b) = <<b>>
      BY <2>2, <2>5 DEF Dumped
    <3>2. pend \o Dumped(c, b) = u
      BY <1>6, <2>5, <3>1
    <3> QED BY <1>2, <2>3, <3>2 DEF Unit, b, u
  <2>6. CASE ensure_ascii
    <3>0. pend \o Dumped(c, b) = Dumped(c, b)
      BY <2>4, <2>6, ConcatEmptySeq, Zenon
    <3>1. CASE IsBasic(c)
      <4>1. Dumped(c, b) = Escape(c)
        BY <1>4, <2>2, <2>6, <3>1, SMT DEF Dumped
      <4>2. \E d : IsBasic(d) /\ u = Utf8(d) /\ Dumped(c, b) = Escape(d)
        BY <1>3, <3>1, <4>1
      <4> QED BY <1>2, <3>0, <4>2 DEF Unit, b, u
    <3>2. CASE IsAstral(c) /\ ~IsBasic(c)
      <4>1. Dumped(c, b) = Pair(c)
        BY <1>4, <2>2, <2>6, <3>2, SMT DEF Dumped, Pair
      <4>2. \E d : IsAstral(d) /\ u = Utf8(d) /\ Dumped(c, b) = Pair(d)
        BY <1>3, <3>2, <4>1
      <4> QED BY <1>2, <3>0, <4>2 DEF Unit, b, u
    <3> QED BY <1>3, <3>1, <3>2
  <2> QED BY <1>7, <2>5, <2>6
<1> QED BY <1>8, <1>9

-----------------------------------------------------------------------------
(***************************************************************************)
(* The inductive invariant of the round trip. While the string is dumped,  *)
(* Written is what can no longer be taken back: it unwinds to the good     *)
(* part of the bytes before the pending character, whose own bytes are     *)
(* tentative. While it is scanned, position and token_buffer are a place   *)
(* of B.                                                                   *)
(***************************************************************************)

\* What has been written for good, and the bytes behind it that may be taken back.
Written == text \o SubSeq(string_buffer, 1, bytes_after_last_accept)
Begun == i - undumped_chars
Tentative == IF ensure_ascii THEN <<>> ELSE Window(source, Begun, undumped_chars)

WrittenFor(P, n) ==
  /\ P \in Seq(Int)
  /\ \E K \in Seq(Int), B \in SUBSET (Nat \X Nat) :
        Unwinds(P, K, B) /\ IsGoodPart(K, source, n)

AllGood(n) == error_handler = "strict" => \A k \in 1..n : Good(source, k)

Dumping ==
  /\ Begun \in Nat
  /\ Pending(source, Begun, undumped_chars, state, codepoint)
  /\ Boundary(source, Begun)
  /\ AllGood(Begun)
  /\ string_buffer = SubSeq(string_buffer, 1, bytes_after_last_accept) \o Tentative
  /\ WrittenFor(Written, Begun)
  /\ pos = 0 /\ token_buffer = <<>> /\ result = "none"

Reading ==
  /\ AllGood(Len(source))
  /\ result = "none" /\ token_buffer \in Seq(Int)
  /\ \E P \in Seq(Int), K \in Seq(Int), B \in SUBSET (Nat \X Nat) :
       /\ text = P \o <<Quote>>
       /\ Unwinds(P, K, B) /\ IsGoodPart(K, source, Len(source))
       /\ <<pos, Len(token_buffer)>> \in B /\ At(K, 0, token_buffer)

Returned ==
  /\ AllGood(Len(source))
  /\ result = "value_string" /\ IsGoodPart(token_buffer, source, Len(source))
  /\ token_buffer \in Seq(Int)

TripInv ==
  given = "value" =>
    /\ pc = "dump" => Dumping
    /\ pc = "thrown" => error_handler = "strict" /\ ~IsUtf8(source)
    /\ pc = "scan" => Reading
    /\ pc = "done" => Returned

\* Nothing is written for nothing.
LEMMA EmptyUnwinds == Unwinds(<<>>, <<>>, {<<0, 0>>})
BY DEF Unwinds

LEMMA EmptyGoodPart == ASSUME NEW s PROVE IsGoodPart(<<>>, s, 0)
<1>1. GoodBytes(s, 0) = {}
  BY DEF GoodBytes
<1> QED BY <1>1, FS_EmptySet DEF IsGoodPart

\* The invariant holds before the first byte.
LEMMA TripInit == Init => TripInv
<1> SUFFICES ASSUME Init, given = "value" PROVE TripInv
  BY DEF TripInv
<1>1. /\ pc = "dump" /\ text = <<>> /\ i = 0 /\ state = 0 /\ string_buffer = <<>>
      /\ bytes_after_last_accept = 0 /\ undumped_chars = 0
      /\ pos = 0 /\ token_buffer = <<>> /\ result = "none"
  BY DEF Init
<1>2. Begun = 0
  BY <1>1 DEF Begun
<1>3. Pending(source, 0, 0, state, codepoint) /\ Boundary(source, 0) /\ AllGood(0)
  BY <1>1 DEF Pending, Boundary, AllGood
<1>4. /\ Tentative = <<>> /\ Written = <<>>
      /\ SubSeq(string_buffer, 1, bytes_after_last_accept) = <<>>
  <2>1. SubSeq(string_buffer, 1, bytes_after_last_accept) = <<>>
    BY <1>1, SubSeqEmpty
  <2>2. Window(source, 0, 0) = <<>>
    BY DEF Window
  <2> QED BY <1>1, <1>2, <2>1, <2>2 DEF Tentative, Written
<1>5. WrittenFor(Written, 0)
  <2>1. <<>> \in Seq(Int) /\ {<<0, 0>>} \in SUBSET (Nat \X Nat)
    OBVIOUS
  <2> QED BY <1>4, <2>1, EmptyUnwinds, EmptyGoodPart DEF WrittenFor
<1>6. string_buffer = SubSeq(string_buffer, 1, bytes_after_last_accept) \o Tentative
  BY <1>1, <1>4
<1>7. Dumping
  BY <1>1, <1>2, <1>3, <1>5, <1>6 DEF Dumping
<1> QED BY <1>1, <1>7 DEF TripInv

\* What one character does to what is written.
LEMMA WrittenGrows ==
  ASSUME NEW P, NEW q \in Nat, WrittenFor(P, q), source \in Seq(Byte),
         NEW w \in Seq(Int), NEW n \in 1..4, q + n <= Len(source),
         Unit(w, Window(source, q, n)), \A k \in (q + 1)..(q + n) : Good(source, k)
  PROVE  WrittenFor(P \o w, q + n)
<1> DEFINE u == Window(source, q, n)
<1>1. u \in Seq(Int) /\ Len(u) = n /\ \A j \in 1..n : u[j] = source[q + j]
  <2>1. n \in 0..4
    OBVIOUS
  <2> QED BY <2>1, WindowTyped
<1> HIDE DEF u
<1>2. P \in Seq(Int) /\ P \o w \in Seq(Int)
  BY LenConcat DEF WrittenFor
<1>3. PICK K \in Seq(Int), B \in SUBSET (Nat \X Nat) :
        Unwinds(P, K, B) /\ IsGoodPart(K, source, q)
  BY DEF WrittenFor
<1>4. Unit(w, u)
  BY DEF u
<1>5. \E C \in SUBSET (Nat \X Nat) : Unwinds(P \o w, K \o u, C)
  BY <1>1, <1>2, <1>3, <1>4, UnwindsGrows, Zenon
<1>6. IsGoodPart(K \o u, source, q + Len(u))
  <2>1. /\ \A k \in (q + 1)..(q + Len(u)) : Good(source, k)
        /\ \A j \in 1..Len(u) : u[j] = source[q + j]
    BY <1>1
  <2> QED BY <1>1, <1>3, <2>1, GoodPartGrows, Zenon
<1>7. IsGoodPart(K \o u, source, q + n) /\ K \o u \in Seq(Int)
  BY <1>1, <1>6, LenConcat
<1> QED BY <1>2, <1>5, <1>7 DEF WrittenFor

\* What is written does not change with bytes that are no good.
LEMMA WrittenSame ==
  ASSUME NEW P, NEW q \in Nat, NEW r \in Nat, q <= r, WrittenFor(P, q),
         \A k \in (q + 1)..r : ~Good(source, k)
  PROVE  WrittenFor(P, r)
<1>1. GoodBytes(source, r) = GoodBytes(source, q)
  BY GoodSame
<1>2. \A K : IsGoodPart(K, source, q) => IsGoodPart(K, source, r)
  BY <1>1 DEF IsGoodPart
<1> QED BY <1>2 DEF WrittenFor

\* A flush changes where the bytes are and nothing of what is written.
LEMMA FlushKeepsWritten ==
  ASSUME TypeOK, NEW x \in Seq(Int),
         \/ text' = text \o (string_buffer \o x) /\ string_buffer' = <<>>
         \/ text' = text /\ string_buffer' = string_buffer \o x,
         bytes_after_last_accept' = Len(string_buffer')
  PROVE  /\ Written' = text \o (string_buffer \o x)
         /\ string_buffer' = SubSeq(string_buffer', 1, bytes_after_last_accept')
         /\ string_buffer' \in Seq(Int)
<1>1. /\ string_buffer \o x \in Seq(Int) /\ text \in Seq(Int)
      /\ text \o (string_buffer \o x) \in Seq(Int)
  BY LenConcat DEF TypeOK
<1>2. string_buffer' \in Seq(Int)
  <2>1. <<>> \in Seq(Int)
    OBVIOUS
  <2> QED BY <1>1, <2>1, Zenon
<1>3. SubSeq(string_buffer', 1, bytes_after_last_accept') = string_buffer'
  BY <1>2, SubSeqFull
<1>4. Written' = text' \o string_buffer'
  BY <1>3 DEF Written
<1>5. (text \o (string_buffer \o x)) \o <<>> = text \o (string_buffer \o x)
  BY <1>1, ConcatEmptySeq, Zenon
<1> QED BY <1>2, <1>3, <1>4, <1>5

\* The byte that is read, and those before it.
LEMMA DumpParts ==
  ASSUME TypeOK, Dumping, i < Len(source)
  PROVE  /\ Begun + undumped_chars = i /\ Begun + undumped_chars + 1 = i + 1
         /\ Begun + undumped_chars < Len(source)
         /\ source[i + 1] \in Byte
         /\ CodepointWith(source[i + 1]) = Codep(state, codepoint, source[i + 1])
         /\ LET b == source[i + 1] IN
            /\ Decode(state, b) = 0 =>
                 Complete(source, Begun, undumped_chars + 1, Codep(state, codepoint, b))
            /\ Decode(state, b) = 1 => Broken(source, Begun, undumped_chars)
            /\ Decode(state, b) \notin {0, 1} =>
                 /\ undumped_chars + 1 \in 0..3
                 /\ Pending(source, Begun, undumped_chars + 1, Decode(state, b),
                            Codep(state, codepoint, b))
<1>1. Begun \in Nat /\ undumped_chars \in 0..3 /\ i \in Nat /\ Len(source) \in Nat
      /\ source \in Seq(Byte) /\ Pending(source, Begun, undumped_chars, state, codepoint)
  BY DEF TypeOK, Dumping
<1>2. Begun + undumped_chars = i
  BY <1>1 DEF Begun
<1>3. Begun + undumped_chars < Len(source)
  BY <1>2
<1>4. source[i + 1] \in Byte
  BY <1>1
<1>5. CodepointWith(source[i + 1]) = Codep(state, codepoint, source[i + 1])
  BY DEF CodepointWith, Codep
<1> QED BY <1>1, <1>2, <1>3, <1>4, <1>5, DecodeStep

\* The parts of the output are strings.
LEMMA TentativeTyped ==
  ASSUME TypeOK, Dumping
  PROVE  /\ Tentative \in Seq(Int)
         /\ SubSeq(string_buffer, 1, bytes_after_last_accept) \in Seq(Int)
         /\ text \in Seq(Int) /\ Written \in Seq(Int)
<1>1. /\ Begun \in Nat /\ undumped_chars \in 0..4 /\ Begun + undumped_chars <= Len(source)
      /\ source \in Seq(Byte)
  BY DEF TypeOK, Dumping, Begun
<1>2. Window(source, Begun, undumped_chars) \in Seq(Int)
  BY <1>1, WindowTyped
<1>3. <<>> \in Seq(Int)
  OBVIOUS
<1>4. Tentative \in Seq(Int)
  BY <1>2, <1>3, Zenon DEF Tentative
<1>5. SubSeq(string_buffer, 1, bytes_after_last_accept) \in Seq(Int) /\ text \in Seq(Int)
  BY DEF TypeOK
<1>6. Written \in Seq(Int)
  BY <1>5, LenConcat DEF Written
<1> QED BY <1>4, <1>5, <1>6

\* Strings of numbers are put together in any order.
LEMMA Associative == \A r, s, t \in Seq(Int) : (r \o s) \o t = r \o (s \o t)
<1> SUFFICES ASSUME NEW r \in Seq(Int), NEW s \in Seq(Int), NEW t \in Seq(Int)
             PROVE  (r \o s) \o t = r \o (s \o t)
  OBVIOUS
<1> DEFINE a == (r \o s) \o t
           b == r \o (s \o t)
<1>1. /\ r \o s \in Seq(Int) /\ Len(r \o s) = Len(r) + Len(s)
      /\ s \o t \in Seq(Int) /\ Len(s \o t) = Len(s) + Len(t)
  OBVIOUS
<1>2. a \in Seq(Int) /\ b \in Seq(Int) /\ Len(a) = Len(b)
  BY <1>1
<1>3. \A k \in 1..Len(a) : a[k] = b[k]
  BY <1>1
<1> HIDE DEF a, b
<1>4. a = b
  BY <1>2, <1>3, SeqEqual
<1> QED BY <1>4 DEF a, b

\* An accepted byte writes its character.
LEMMA AcceptTrip ==
  ASSUME TypeOK, Dumping, pc = "dump", i < Len(source), AcceptByte(source[i + 1]),
         UNCHANGED <<call, lexer>>
  PROVE  Dumping'
<1> DEFINE q == Begun
           n == undumped_chars + 1
           b == source[i + 1]
           c == Codep(state, codepoint, b)
           w == Tentative \o Dumped(c, b)
           S == SubSeq(string_buffer, 1, bytes_after_last_accept)
<1>1. /\ CodepointWith(b) = c /\ Decode(state, b) = 0
      /\ codepoint' = c /\ state' = 0 /\ undumped_chars' = 0 /\ i' = i + 1
      /\ bytes_after_last_accept' = Len(string_buffer')
      /\ \/ text' = text \o (string_buffer \o Dumped(c, b)) /\ string_buffer' = <<>>
         \/ text' = text /\ string_buffer' = string_buffer \o Dumped(c, b)
  <2>1. CodepointWith(b) = c
    BY DumpParts
  <2> QED BY <2>1 DEF AcceptByte
<1>2. /\ source' = source /\ error_handler' = error_handler /\ ensure_ascii' = ensure_ascii
      /\ pos' = pos /\ token_buffer' = token_buffer /\ result' = result
  BY DEF call, lexer
<1>3. /\ q \in Nat /\ undumped_chars \in 0..3 /\ n \in 1..4 /\ q + n = i + 1
      /\ q + undumped_chars + 1 = i + 1 /\ q + n <= Len(source) /\ i \in Nat
      /\ source \in Seq(Byte) /\ b \in Byte
  BY DumpParts DEF TypeOK, Dumping
<1>4. Complete(source, q, n, c)
  BY <1>1, DumpParts
<1>5. Dumped(c, b) \in Seq(Int) /\ Unit(w, Window(source, q, n))
  <2>1. c \in Int
    BY <1>4, SMT DEF Complete, IsBasic, IsAstral
  <2>2. Dumped(c, b) \in Seq(Int)
    BY <1>3, <2>1, DumpedTyped
  <2>3. Unit((IF ensure_ascii THEN <<>> ELSE Window(source, q, undumped_chars))
               \o Dumped(c, source[q + undumped_chars + 1]), Window(source, q, n))
    BY <1>3, <1>4, UnitDumped
  <2>4. source[q + undumped_chars + 1] = b
    BY <1>3
  <2> QED BY <2>2, <2>3, <2>4 DEF Tentative
<1>6. Boundary(source, q + n) /\ \A k \in (q + 1)..(q + n) : Good(source, k)
  BY <1>3, <1>4, CompleteSequence DEF Complete, Dumping
<1>7. Tentative \in Seq(Int) /\ S \in Seq(Int) /\ text \in Seq(Int) /\ w \in Seq(Int)
  BY <1>5, TentativeTyped, LenConcat
<1>8. /\ Written' = text \o (string_buffer \o Dumped(c, b))
      /\ string_buffer' = SubSeq(string_buffer', 1, bytes_after_last_accept')
      /\ string_buffer' \in Seq(Int)
  BY <1>1, <1>5, FlushKeepsWritten
<1>9. Written' = Written \o w
  <2>1. string_buffer = S \o Tentative
    BY DEF Dumping
  <2>2. Written = text \o S
    BY DEF Written
  <2> HIDE DEF S, c, b
  <2>3. (S \o Tentative) \o Dumped(c, b) = S \o (Tentative \o Dumped(c, b))
    BY <1>5, <1>7, Associative
  <2>4. (text \o S) \o w = text \o (S \o w)
    BY <1>7, Associative
  <2> QED BY <1>8, <2>1, <2>2, <2>3, <2>4
<1>10. Begun' = q + n
  BY <1>1, <1>3 DEF Begun
<1>11. WrittenFor(Written, q)
  BY DEF Dumping
<1>12. WrittenFor(Written \o w, q + n)
  BY <1>3, <1>5, <1>6, <1>7, <1>11, WrittenGrows
<1>13. WrittenFor(Written, Begun)'
  <2> QED BY <1>2, <1>9, <1>10, <1>12 DEF WrittenFor
<1>14. Pending(source, Begun, undumped_chars, state, codepoint)'
  BY <1>1 DEF Pending
<1>15. Boundary(source, Begun)'
  BY <1>2, <1>6, <1>10
<1>16. AllGood(Begun)'
  <2>1. AllGood(q)
    BY DEF Dumping
  <2>2. \A k \in 1..(q + n) : k \in 1..q \/ k \in (q + 1)..(q + n)
    BY <1>3
  <2>3. error_handler = "strict" => \A k \in 1..(q + n) : Good(source, k)
    BY <1>6, <2>1, <2>2 DEF AllGood
  <2> QED BY <1>2, <1>10, <2>3 DEF AllGood
<1>17. Tentative' = <<>>
  <2>1. Tentative' = IF ensure_ascii' THEN <<>> ELSE Window(source', Begun', undumped_chars')
    BY DEF Tentative
  <2>2. Window(source', Begun', 0) = <<>>
    BY DEF Window
  <2> QED BY <1>1, <2>1, <2>2
<1>18. (string_buffer = SubSeq(string_buffer, 1, bytes_after_last_accept) \o Tentative)'
  BY <1>8, <1>17, ConcatEmptySeq, Zenon
<1>19. (Begun \in Nat)'
  BY <1>3, <1>10
<1>20. (pos = 0 /\ token_buffer = <<>> /\ result = "none")'
  BY <1>2 DEF Dumping
<1> QED BY <1>13, <1>14, <1>15, <1>16, <1>18, <1>19, <1>20 DEF Dumping

\* Cutting string_buffer back, and what is appended to it.
LEMMA PrefixOfPrefix ==
  ASSUME NEW s \in Seq(Int), NEW n \in 0..Len(s)
  PROVE  /\ SubSeq(s, 1, n) \in Seq(Int) /\ SubSeq(SubSeq(s, 1, n), 1, n) = SubSeq(s, 1, n)
         /\ \A b \in Int : SubSeq(Append(s, b), 1, n) = SubSeq(s, 1, n)
<1> DEFINE t == SubSeq(s, 1, n)
<1>1. t \in Seq(Int) /\ Len(t) = n /\ \A k \in 1..n : t[k] = s[k]
  OBVIOUS
<1> HIDE DEF t
<1>2. SubSeq(t, 1, n) = t
  BY <1>1, SubSeqFull
<1>3. ASSUME NEW b \in Int PROVE SubSeq(Append(s, b), 1, n) = t
  <2> DEFINE a == SubSeq(Append(s, b), 1, n)
  <2>1. a \in Seq(Int) /\ Len(a) = n /\ \A k \in 1..n : a[k] = s[k]
    OBVIOUS
  <2> HIDE DEF a
  <2>2. a = t
    BY <1>1, <2>1, SeqEqual
  <2> QED BY <2>2 DEF a
<1> QED BY <1>1, <1>2, <1>3 DEF t

\* A broken sequence holds no good byte.
LEMMA BrokenBytes ==
  ASSUME TypeOK, Dumping, i < Len(source), Broken(source, Begun, undumped_chars),
         NEW m, m = IF undumped_chars > 0 THEN undumped_chars ELSE 1
  PROVE  /\ m \in 1..3 /\ Begun + m <= Len(source)
         /\ Boundary(source, Begun + m)
         /\ \A k \in (Begun + 1)..(Begun + m) : ~Good(source, k)
<1> DEFINE q == Begun
<1>1. /\ q \in Nat /\ undumped_chars \in 0..3 /\ q + undumped_chars < Len(source)
      /\ Boundary(source, q)
  BY DumpParts DEF TypeOK, Dumping
<1> HIDE DEF q
<1>2. m \in 1..3 /\ q + m \in Nat /\ q < q + m /\ q + m <= Len(source)
  BY <1>1 DEF TypeOK
<1>3. (\A n \in 1..4 : ~SequenceAt(source, q + 1, n))
      /\ \A k \in (q + 2)..(q + undumped_chars) : source[k] \in 128..191
  BY DEF Broken, q
<1>4. \A k \in (q + 2)..(q + m) : source[k] \in 128..191
  <2>1. \A k \in (q + 2)..(q + m) : k \in (q + 2)..(q + undumped_chars)
    BY <1>1
  <2> QED BY <1>3, <2>1
<1>5. Boundary(source, q + m) /\ \A k \in (q + 1)..(q + m) : ~Good(source, k)
  BY <1>1, <1>2, <1>3, <1>4, BrokenSequence
<1> QED BY <1>2, <1>5 DEF q

\* A rejected byte throws, and the source is not UTF-8, or takes the sequence back.
LEMMA RejectTrip ==
  ASSUME TypeOK, Dumping, pc = "dump", i < Len(source), RejectByte(source[i + 1]),
         UNCHANGED <<call, lexer>>
  PROVE  \/ pc' = "thrown" /\ error_handler' = "strict" /\ ~IsUtf8(source')
         \/ pc' = "dump" /\ Dumping'
<1> DEFINE q == Begun
           m == IF undumped_chars > 0 THEN undumped_chars ELSE 1
           b == source[i + 1]
           S == SubSeq(string_buffer, 1, bytes_after_last_accept)
<1>1. /\ source' = source /\ error_handler' = error_handler /\ ensure_ascii' = ensure_ascii
      /\ pos' = pos /\ token_buffer' = token_buffer /\ result' = result
  BY DEF call, lexer
<1>2. Decode(state, b) = 1
  BY DEF RejectByte
<1>3. /\ m \in 1..3 /\ q + m <= Len(source) /\ Boundary(source, q + m)
      /\ \A k \in (q + 1)..(q + m) : ~Good(source, k)
  <2>1. Broken(source, q, undumped_chars)
    BY <1>2, DumpParts
  <2> QED BY <2>1, BrokenBytes
<1>4. q \in Nat /\ q + undumped_chars = i /\ i \in Nat /\ undumped_chars \in 0..3
  BY DumpParts DEF TypeOK, Dumping
<1>5. CASE error_handler = "strict" /\ pc' = "thrown"
  <2>1. q + 1 \in (q + 1)..(q + m) /\ q + 1 \in 1..Len(source)
    BY <1>3, <1>4
  <2>2. ~IsUtf8(source)
    BY <1>3, <2>1 DEF IsUtf8
  <2> QED BY <1>1, <1>5, <2>2
<1>6. CASE /\ error_handler = "ignore"
           /\ i' = IF undumped_chars > 0 THEN i ELSE i + 1
           /\ string_buffer' = S
           /\ state' = 0 /\ undumped_chars' = 0
           /\ UNCHANGED <<pc, bytes_after_last_accept, peak, text>>
  <2>1. Begun' = q + m
    BY <1>4, <1>6 DEF Begun
  <2>2. S \in Seq(Int) /\ SubSeq(S, 1, bytes_after_last_accept) = S
    BY PrefixOfPrefix DEF TypeOK
  <2>3. Written' = Written
    BY <1>6, <2>2 DEF Written
  <2>4. WrittenFor(Written, q + m)
    <3>1. q + m \in Nat /\ q <= q + m
      BY <1>3, <1>4
    <3>2. WrittenFor(Written, q)
      BY DEF Dumping
    <3> QED BY <1>3, <1>4, <3>1, <3>2, WrittenSame
  <2>5. WrittenFor(Written, Begun)'
    BY <1>1, <2>1, <2>3, <2>4 DEF WrittenFor
  <2>6. Pending(source, Begun, undumped_chars, state, codepoint)'
    BY <1>6 DEF Pending
  <2>7. Boundary(source, Begun)'
    BY <1>1, <1>3, <2>1
  <2>8. AllGood(Begun)'
    BY <1>1, <1>6 DEF AllGood
  <2>9. Tentative' = <<>>
    <3>1. Tentative' = IF ensure_ascii' THEN <<>> ELSE Window(source', Begun', undumped_chars')
      BY DEF Tentative
    <3>2. Window(source', Begun', 0) = <<>>
      BY DEF Window
    <3> QED BY <1>6, <3>1, <3>2
  <2>10. (string_buffer = SubSeq(string_buffer, 1, bytes_after_last_accept) \o Tentative)'
    BY <1>6, <2>2, <2>9, ConcatEmptySeq, Zenon
  <2>11. (Begun \in Nat)'
    BY <1>3, <1>4, <2>1
  <2>12. (pos = 0 /\ token_buffer = <<>> /\ result = "none")'
    BY <1>1 DEF Dumping
  <2>13. Dumping'
    BY <2>5, <2>6, <2>7, <2>8, <2>10, <2>11, <2>12 DEF Dumping
  <2> QED BY <1>6, <2>13
<1> QED BY <1>5, <1>6 DEF RejectByte

\* A byte within a sequence changes nothing of what is written.
LEMMA KeepTrip ==
  ASSUME TypeOK, Dumping, pc = "dump", i < Len(source), KeepByte(source[i + 1]),
         UNCHANGED <<call, lexer>>
  PROVE  Dumping'
<1> DEFINE q == Begun
           r == undumped_chars
           b == source[i + 1]
           S == SubSeq(string_buffer, 1, bytes_after_last_accept)
<1>1. /\ source' = source /\ error_handler' = error_handler /\ ensure_ascii' = ensure_ascii
      /\ pos' = pos /\ token_buffer' = token_buffer /\ result' = result
  BY DEF call, lexer
<1>2. /\ Decode(state, b) \notin {0, 1} /\ state' = Decode(state, b)
      /\ codepoint' = Codep(state, codepoint, b)
      /\ string_buffer' = IF ensure_ascii THEN string_buffer ELSE Append(string_buffer, b)
      /\ undumped_chars' = r + 1 /\ i' = i + 1 /\ text' = text
      /\ bytes_after_last_accept' = bytes_after_last_accept
  <2>1. CodepointWith(b) = Codep(state, codepoint, b)
    BY DumpParts
  <2> QED BY <2>1 DEF KeepByte
<1>3. /\ q \in Nat /\ r \in 0..3 /\ q + r = i /\ q + r + 1 = i + 1 /\ q + r < Len(source)
      /\ i \in Nat /\ b \in Byte
  BY DumpParts DEF TypeOK, Dumping
<1>4. r + 1 \in 0..3 /\ Pending(source, q, r + 1, Decode(state, b), Codep(state, codepoint, b))
  BY <1>2, DumpParts
<1>5. Begun' = q
  BY <1>2, <1>3 DEF Begun
<1>6. b \in Int /\ string_buffer \in Seq(Int)
  <2>1. \A e \in Byte : e \in Int
    BY DEF Byte
  <2> QED BY <1>3, <2>1 DEF TypeOK
<1>7. S \in Seq(Int) /\ SubSeq(string_buffer', 1, bytes_after_last_accept') = S
  <2>1. SubSeq(Append(string_buffer, b), 1, bytes_after_last_accept) = S /\ S \in Seq(Int)
    BY <1>6, PrefixOfPrefix DEF TypeOK
  <2> QED BY <1>2, <2>1
<1>8. Written' = Written
  BY <1>2, <1>7 DEF Written
<1>9. WrittenFor(Written, Begun)'
  <2>1. WrittenFor(Written, q)
    BY DEF Dumping
  <2> QED BY <1>1, <1>5, <1>8, <2>1 DEF WrittenFor
<1>10. Pending(source, Begun, undumped_chars, state, codepoint)'
  BY <1>1, <1>2, <1>4, <1>5
<1>11. Boundary(source, Begun)' /\ AllGood(Begun)'
  <2>1. Boundary(source, q) /\ AllGood(q)
    BY DEF Dumping
  <2> QED BY <1>1, <1>5, <2>1 DEF AllGood
<1>12. (string_buffer = SubSeq(string_buffer, 1, bytes_after_last_accept) \o Tentative)'
  <2>1. string_buffer = S \o Tentative
    BY DEF Dumping
  <2>2. Tentative' = IF ensure_ascii THEN <<>> ELSE Window(source, q, r + 1)
    BY <1>1, <1>2, <1>5 DEF Tentative
  <2>3. CASE ensure_ascii
    BY <1>2, <1>7, <2>1, <2>2, <2>3 DEF Tentative
  <2>4. CASE ~ensure_ascii
    <3>1. r \in 0..3 /\ q + r < Len(source) /\ source \in Seq(Byte) /\ source[q + r + 1] = b
      BY <1>3 DEF TypeOK
    <3>2. Window(source, q, r) \o <<b>> = Window(source, q, r + 1)
      BY <1>3, <3>1, WindowGrows
    <3>3. Tentative = Window(source, q, r) /\ Tentative \in Seq(Int)
      BY <2>4, TentativeTyped DEF Tentative
    <3> HIDE DEF b, S, q, r
    <3>4. string_buffer' = string_buffer \o <<b>> /\ <<b>> \in Seq(Int)
      <4>1. Append(string_buffer, b) = string_buffer \o <<b>> /\ <<b>> \in Seq(Int)
        BY <1>6, AppendIsConcat
      <4> QED BY <1>2, <2>4, <4>1
    <3>5. (S \o Tentative) \o <<b>> = S \o (Tentative \o <<b>>)
      BY <1>7, <3>3, <3>4, Associative
    <3>6. Tentative' = Tentative \o <<b>>
      BY <2>2, <2>4, <3>2, <3>3
    <3>7. string_buffer' = S \o Tentative'
      BY <2>1, <3>4, <3>5, <3>6
    <3> QED BY <1>7, <3>7
  <2>5. ensure_ascii \in BOOLEAN
    BY DEF TypeOK
  <2> QED BY <2>3, <2>4, <2>5
<1>13. (Begun \in Nat)'
  BY <1>3, <1>5
<1>14. (pos = 0 /\ token_buffer = <<>> /\ result = "none")'
  BY <1>1 DEF Dumping
<1> QED BY <1>9, <1>10, <1>11, <1>12, <1>13, <1>14 DEF Dumping

\* A string that ends within a character.
LEMMA CutShort ==
  ASSUME TypeOK, Dumping, i = Len(source), state # 0
  PROVE  /\ Begun < Len(source)
         /\ \A k \in (Begun + 1)..Len(source) : ~Good(source, k)
<1> DEFINE q == Begun
           r == undumped_chars
           first == source[q + 1]
<1>1. /\ q \in Nat /\ r \in 0..3 /\ q + r = Len(source) /\ source \in Seq(Byte)
      /\ Boundary(source, q) /\ Pending(source, q, r, state, codepoint)
  BY DEF TypeOK, Dumping, Begun
<1>2. r # 0 /\ q < Len(source)
  BY <1>1 DEF Pending
<1>3. first \in Byte
  BY <1>1, <1>2
<1>4. /\ Expected(first) > r
      /\ r >= 2 => source[q + 2] \in Second(first)
      /\ r = 3 => source[q + 3] \in 128..191
  BY <1>1, <1>2 DEF Pending
<1> HIDE DEF first, q, r
<1>5. Expected(first) \in 0..4 /\ Expected(first) >= 2
  <2>1. Expected(first) \in 0..4
    BY <1>3, BeginByte
  <2> QED BY <1>1, <1>2, <1>4, <2>1
<1>6. \A n \in 1..4 : ~SequenceAt(source, q + 1, n)
  <2> SUFFICES ASSUME NEW n \in 1..4, SequenceAt(source, q + 1, n) PROVE FALSE
    OBVIOUS
  <2>1. Expected(first) = n /\ q + n <= Len(source)
    BY <1>1, <1>2, LongSequence DEF first
  <2> QED BY <1>1, <1>4, <2>1
<1>7. \A k \in (q + 2)..Len(source) : source[k] \in 128..191
  <2>1. \A k \in (q + 2)..Len(source) : (k = q + 2 /\ r >= 2) \/ (k = q + 3 /\ r = 3)
    BY <1>1
  <2>2. \A c \in Second(first) : c \in 128..191
    BY <1>3, <1>5, LeadRange
  <2> QED BY <1>4, <2>1, <2>2
<1>8. Len(source) \in Nat
  BY <1>1
<1>9. \A k \in (q + 1)..Len(source) : ~Good(source, k)
  BY <1>1, <1>2, <1>6, <1>7, <1>8, BrokenSequence
<1> QED BY <1>2, <1>9 DEF q

\* The lexer begins with what the serializer has written.
LEMMA BeginsReading ==
  ASSUME Dumping, WrittenFor(Written, Len(source)), AllGood(Len(source)),
         text' = Written \o <<Quote>>, UNCHANGED <<call, lexer>>
  PROVE  Reading'
<1>1. /\ source' = source /\ error_handler' = error_handler
      /\ pos' = 0 /\ token_buffer' = <<>> /\ result' = "none"
  BY DEF call, lexer, Dumping
<1>2. PICK K \in Seq(Int), B \in SUBSET (Nat \X Nat) :
        Unwinds(Written, K, B) /\ IsGoodPart(K, source, Len(source))
  BY DEF WrittenFor
<1>3. Written \in Seq(Int) /\ <<0, 0>> \in B
  BY <1>2 DEF WrittenFor, Unwinds
<1>4. At(K, 0, <<>>) /\ Len(<<>>) = 0 /\ <<>> \in Seq(Int)
  BY DEF At
<1> DEFINE Found(P) ==
      /\ text' = P \o <<Quote>>
      /\ Unwinds(P, K, B) /\ IsGoodPart(K, source', Len(source'))
      /\ <<pos', Len(token_buffer')>> \in B /\ At(K, 0, token_buffer')
<1>5. Found(Written)
  BY <1>1, <1>2, <1>3, <1>4
<1> HIDE DEF Found
<1>6. \E P \in Seq(Int) : Found(P)
  BY <1>3, <1>5
<1>7. AllGood(Len(source))'
  BY <1>1 DEF AllGood
<1> QED BY <1>1, <1>4, <1>6, <1>7 DEF Reading, Found

\* The end of the string closes what is written, or throws.
LEMMA EndTrip ==
  ASSUME TypeOK, Dumping, EndDump
  PROVE  \/ pc' = "thrown" /\ error_handler' = "strict" /\ ~IsUtf8(source')
         \/ pc' = "scan" /\ Reading'
<1> DEFINE S == SubSeq(string_buffer, 1, bytes_after_last_accept)
<1>1. /\ i = Len(source) /\ UNCHANGED <<call, lexer>> /\ source' = source
      /\ error_handler' = error_handler
  BY DEF EndDump, call
<1>2. /\ Begun \in Nat /\ undumped_chars \in 0..3 /\ Begun + undumped_chars = Len(source)
      /\ WrittenFor(Written, Begun) /\ AllGood(Begun)
  BY <1>1 DEF TypeOK, Dumping, Begun
<1>3. ASSUME state # 0, error_handler = "strict", pc' = "thrown"
      PROVE  pc' = "thrown" /\ error_handler' = "strict" /\ ~IsUtf8(source')
  <2>1. Begun < Len(source) /\ \A k \in (Begun + 1)..Len(source) : ~Good(source, k)
    BY <1>1, <1>3, CutShort
  <2>2. Begun + 1 \in (Begun + 1)..Len(source) /\ Begun + 1 \in 1..Len(source)
    BY <1>2, <2>1
  <2>3. ~IsUtf8(source)
    BY <2>1, <2>2 DEF IsUtf8
  <2> QED BY <1>1, <1>3, <2>3
<1>4. ASSUME state # 0, error_handler = "ignore",
             text' = text \o S \o <<Quote>>, pc' = "scan"
      PROVE  Reading'
  <2>1. Begun < Len(source) /\ \A k \in (Begun + 1)..Len(source) : ~Good(source, k)
    BY <1>1, <1>4, CutShort
  <2>2. Len(source) \in Nat /\ Begun <= Len(source)
    BY <1>2, <2>1
  <2>3. WrittenFor(Written, Len(source))
    BY <1>2, <2>1, <2>2, WrittenSame
  <2>4. AllGood(Len(source))
    BY <1>4 DEF AllGood
  <2>5. text' = Written \o <<Quote>>
    BY <1>4 DEF Written
  <2> QED BY <1>1, <2>3, <2>4, <2>5, BeginsReading
<1>5. ASSUME state = 0, text' = text \o string_buffer \o <<Quote>>, pc' = "scan"
      PROVE  Reading'
  <2>1. undumped_chars = 0 /\ Begun = Len(source)
    <3>1. Pending(source, Begun, undumped_chars, 0, codepoint)
      BY <1>5 DEF Dumping
    <3>2. undumped_chars = 0
      BY <1>2, <3>1 DEF Pending, StateAfter
    <3> QED BY <1>2, <3>2
  <2>2. Tentative = <<>> /\ S \in Seq(Int)
    <3>1. Window(source, Begun, 0) = <<>>
      BY DEF Window
    <3> QED BY <2>1, <3>1, TentativeTyped DEF Tentative
  <2>3. string_buffer = S
    <3>1. string_buffer = S \o Tentative
      BY DEF Dumping
    <3> QED BY <2>2, <3>1, ConcatEmptySeq, Zenon
  <2>4. text' = Written \o <<Quote>>
    BY <1>5, <2>3 DEF Written
  <2>5. WrittenFor(Written, Len(source)) /\ AllGood(Len(source))
    BY <1>2, <2>1
  <2> QED BY <1>1, <2>4, <2>5, BeginsReading
<1> QED BY <1>3, <1>4, <1>5 DEF EndDump

-----------------------------------------------------------------------------
\* The bytes of a character.
LEMMA CharacterBytes == ASSUME NEW u, IsCharacter(u) PROVE u \in Seq(Byte)
<1>1. u \in Seq(Int) /\ Len(u) \in 1..4 /\ SequenceAt(u, 1, Len(u))
  BY DEF IsCharacter
<1>2. u[1] \in 0..127 \/ u[1] \in 194..223 \/ u[1] \in 224..239 \/ u[1] \in 240..244
  BY <1>1 DEF SequenceAt
<1>3. \A k \in 2..Len(u) : u[k] \in 128..191
  BY <1>1 DEF SequenceAt
<1>4. \A k \in 1..Len(u) : u[k] \in Byte
  <2> TAKE k \in 1..Len(u)
  <2>1. k = 1 \/ k \in 2..Len(u)
    BY <1>1
  <2>2. \A e : e \in 0..127 \/ e \in 194..223 \/ e \in 224..239 \/ e \in 240..244
             \/ e \in 128..191 => e \in Byte
    BY DEF Byte
  <2> DEFINE e == u[k]
  <2>3. \/ e \in 0..127 \/ e \in 194..223 \/ e \in 224..239 \/ e \in 240..244
        \/ e \in 128..191
    <3>1. CASE k = 1
      BY <1>2, <3>1
    <3>2. CASE k \in 2..Len(u)
      BY <1>3, <3>2
    <3> QED BY <2>1, <3>1, <3>2
  <2> HIDE DEF e
  <2>4. e \in Byte
    BY <2>2, <2>3, Zenon
  <2> QED BY <2>4 DEF e
<1> QED BY <1>1, <1>4

\* Every way to write a character is read as this character.
LEMMA UnitScanned ==
  ASSUME TypeOK, ScanCharacter, NEW w \in Seq(Int), NEW u \in Seq(Int), Unit(w, u),
         At(text, pos, w)
  PROVE  Scanned(w, u)
<1>1. IsCharacter(u) /\ u \in Seq(Byte)
  BY CharacterBytes DEF Unit
<1>2. CASE w = u /\ (Len(u) = 1 => u[1] \notin 0..31 \union {Quote, Backslash})
  <2>1. At(text, pos, u)
    BY <1>2
  <2>2. CASE Len(u) = 1
    BY <1>1, <1>2, <2>1, <2>2, RawAscii
  <2>3. CASE Len(u) # 1
    BY <1>1, <1>2, <2>1, <2>3, RawMultibyte
  <2> QED BY <2>2, <2>3
<1>3. ASSUME NEW c \in Short, u = <<c>>, w = <<Backslash, Letter(c)>> PROVE Scanned(w, u)
  BY <1>3, ShortEscape
<1>4. ASSUME NEW c, IsBasic(c), u = Utf8(c), w = Escape(c) PROVE Scanned(w, u)
  BY <1>4, HexEscape, Zenon
<1>5. ASSUME NEW c, IsAstral(c), u = Utf8(c), w = Pair(c) PROVE Scanned(w, u)
  BY <1>5, PairEscape, Zenon
<1> QED BY <1>2, <1>3, <1>4, <1>5, Zenon DEF Unit

\* The closing quote ends the string.
LEMMA QuoteScanned ==
  ASSUME TypeOK, ScanCharacter, At(text, pos, <<Quote>>)
  PROVE  pc' = "done" /\ result' = "value_string" /\ token_buffer' = token_buffer
<1>1. Ahead(1) = Quote
  <2>1. <<Quote>> \in Seq(Int) /\ 1 \in 1..Len(<<Quote>>) /\ <<Quote>>[1] = Quote
    BY DEF Quote
  <2> QED BY <2>1, AheadIs
<1>2. ClosingQuote
  BY <1>1, EscapeBegins, MultibyteBegins
     DEF ScanCharacter, Forbidden, Plain, Eof, Quote, Backslash
<1> QED BY <1>2 DEF ClosingQuote, End

\* token_buffer grows along the string that was kept.
LEMMA PrefixGrows ==
  ASSUME NEW K \in Seq(Int), NEW t \in Seq(Int), NEW u \in Seq(Int),
         At(K, 0, t), At(K, Len(t), u)
  PROVE  At(K, 0, t \o u) /\ t \o u \in Seq(Int) /\ Len(t \o u) = Len(t) + Len(u)
<1>1. /\ t \o u \in Seq(Int) /\ Len(t \o u) = Len(t) + Len(u)
      /\ Len(t) \in Nat /\ Len(u) \in Nat
      /\ \A k \in 1..Len(t) : (t \o u)[k] = t[k]
      /\ \A k \in 1..Len(u) : (t \o u)[Len(t) + k] = u[k]
  OBVIOUS
<1> DEFINE v == t \o u
<1> HIDE DEF v
<1>2. ASSUME NEW k \in 1..Len(v) PROVE K[0 + k] = v[k]
  <2>1. CASE k \in 1..Len(t)
    <3>1. K[0 + k] = t[k]
      BY <2>1 DEF At
    <3> QED BY <1>1, <2>1, <3>1 DEF v
  <2>2. CASE k \notin 1..Len(t)
    <3>1. k - Len(t) \in 1..Len(u) /\ Len(t) + (k - Len(t)) = k /\ 0 + k = k
      BY <1>1, <2>2 DEF v
    <3>2. K[Len(t) + (k - Len(t))] = u[k - Len(t)]
      BY <3>1 DEF At
    <3> QED BY <1>1, <3>1, <3>2 DEF v
  <2> QED BY <2>1, <2>2
<1>3. 0 + Len(v) <= Len(K)
  BY <1>1 DEF At, v
<1>4. At(K, 0, v)
  BY <1>2, <1>3 DEF At
<1> QED BY <1>1, <1>4 DEF v

\* One turn of scan_string reads one character back, or ends behind the last one.
LEMMA ScanTrip ==
  ASSUME TypeOK, Reading, pc = "scan", ScanCharacter
  PROVE  \/ pc' = "scan" /\ Reading'
         \/ pc' = "done" /\ Returned'
<1>1. /\ source' = source /\ error_handler' = error_handler /\ text' = text
  BY DEF ScanCharacter, call
<1>2. PICK P \in Seq(Int), K \in Seq(Int), B \in SUBSET (Nat \X Nat) :
        /\ text = P \o <<Quote>>
        /\ Unwinds(P, K, B) /\ IsGoodPart(K, source, Len(source))
        /\ <<pos, Len(token_buffer)>> \in B /\ At(K, 0, token_buffer)
  BY DEF Reading
<1>3. /\ token_buffer \in Seq(Int) /\ pos \in Nat /\ Len(token_buffer) \in Nat
      /\ <<Quote>> \in Seq(Int) /\ result = "none" /\ AllGood(Len(source))
  BY DEF Reading, TypeOK, Quote
<1>4. AllGood(Len(source))'
  BY <1>1, <1>3 DEF AllGood
<1>5. CASE pos = Len(P) /\ Len(token_buffer) = Len(K)
  <2>1. At(text, pos, <<Quote>>)
    BY <1>2, <1>3, <1>5, AtEnd
  <2>2. pc' = "done" /\ result' = "value_string" /\ token_buffer' = token_buffer
    BY <2>1, QuoteScanned
  <2>3. \A k \in 1..Len(token_buffer) : token_buffer[k] = K[k]
    <3>1. \A k \in 1..Len(token_buffer) : K[0 + k] = token_buffer[k]
      BY <1>2 DEF At
    <3> QED BY <1>3, <3>1
  <2>4. token_buffer = K
    BY <1>2, <1>3, <1>5, <2>3, SeqEqual
  <2>5. IsGoodPart(token_buffer, source, Len(source))
    BY <1>2, <2>4
  <2> QED BY <1>1, <1>3, <1>4, <2>2, <2>5 DEF Returned
<1>6. ASSUME NEW w \in Seq(Int), NEW u \in Seq(Int),
             Unit(w, u), At(P, pos, w), At(K, Len(token_buffer), u),
             <<pos + Len(w), Len(token_buffer) + Len(u)>> \in B
      PROVE  pc' = "scan" /\ Reading'
  <2>1. At(text, pos, w)
    BY <1>2, <1>3, <1>6, AtAppend
  <2>2. /\ pos' = pos + Len(w) /\ token_buffer' = token_buffer \o u
        /\ pc' = pc /\ result' = result
    BY <1>6, <2>1, UnitScanned DEF Scanned
  <2>3. /\ At(K, 0, token_buffer') /\ token_buffer' \in Seq(Int)
        /\ Len(token_buffer') = Len(token_buffer) + Len(u)
    BY <1>2, <1>3, <1>6, <2>2, PrefixGrows
  <2>4. <<pos', Len(token_buffer')>> \in B
    BY <1>6, <2>2, <2>3
  <2>5. /\ text' = P \o <<Quote>>
        /\ IsGoodPart(K, source', Len(source'))
    BY <1>1, <1>2
  <2>6. result' = "none"
    BY <1>3, <2>2
  <2>7. Reading'
    BY <1>2, <1>4, <2>3, <2>4, <2>5, <2>6 DEF Reading
  <2> QED BY <2>2, <2>7
<1>7. \/ pos = Len(P) /\ Len(token_buffer) = Len(K)
      \/ \E w \in Seq(Int), u \in Seq(Int) :
           /\ Unit(w, u) /\ At(P, pos, w) /\ At(K, Len(token_buffer), u)
           /\ <<pos + Len(w), Len(token_buffer) + Len(u)>> \in B
  BY <1>2, <1>3 DEF Unwinds
<1> QED BY <1>5, <1>6, <1>7

\* The invariant holds after every step.
LEMMA TripKept == TypeOK /\ TripInv /\ [Next]_vars => TripInv'
<1> SUFFICES ASSUME TypeOK, TripInv, [Next]_vars, given' = "value" PROVE TripInv'
  BY DEF TripInv
<1>1. given' = given
  BY DEF Next, DumpByte, EndDump, ScanCharacter, vars, call
<1>2. /\ pc = "dump" => Dumping
      /\ pc = "thrown" => error_handler = "strict" /\ ~IsUtf8(source)
      /\ pc = "scan" => Reading
      /\ pc = "done" => Returned
  BY <1>1 DEF TripInv
<1>3. CASE DumpByte
  <2>1. pc = "dump" /\ i < Len(source) /\ Dumping /\ UNCHANGED <<call, lexer>>
    BY <1>2, <1>3 DEF DumpByte
  <2>2. CASE AcceptByte(source[i + 1])
    <3>1. Dumping'
      BY <2>1, <2>2, AcceptTrip
    <3>2. pc' = "dump"
      BY <2>1, <2>2 DEF AcceptByte
    <3> QED BY <3>1, <3>2 DEF TripInv
  <2>3. CASE RejectByte(source[i + 1])
    <3>1. \/ pc' = "thrown" /\ error_handler' = "strict" /\ ~IsUtf8(source')
          \/ pc' = "dump" /\ Dumping'
      BY <2>1, <2>3, RejectTrip
    <3> QED BY <3>1 DEF TripInv
  <2>4. CASE KeepByte(source[i + 1])
    <3>1. Dumping'
      BY <2>1, <2>4, KeepTrip
    <3>2. pc' = "dump"
      BY <2>1, <2>4 DEF KeepByte
    <3> QED BY <3>1, <3>2 DEF TripInv
  <2> QED BY <1>3, <2>2, <2>3, <2>4 DEF DumpByte
<1>4. CASE EndDump
  <2>1. Dumping
    BY <1>2, <1>4 DEF EndDump
  <2>2. \/ pc' = "thrown" /\ error_handler' = "strict" /\ ~IsUtf8(source')
        \/ pc' = "scan" /\ Reading'
    BY <1>4, <2>1, EndTrip
  <2> QED BY <2>2 DEF TripInv
<1>5. CASE ScanCharacter
  <2>1. pc = "scan" /\ Reading
    BY <1>2, <1>5 DEF ScanCharacter
  <2>2. \/ pc' = "scan" /\ Reading'
        \/ pc' = "done" /\ Returned'
    BY <1>5, <2>1, ScanTrip
  <2> QED BY <2>2 DEF TripInv
<1>6. CASE UNCHANGED vars
  <2>1. /\ Dumping' <=> Dumping
        /\ Reading' <=> Reading
        /\ Returned' <=> Returned
    <3>1. UNCHANGED <<call, dumper, text, lexer>>
      BY <1>6 DEF vars
    <3>2. Begun' = Begun /\ Written' = Written
      BY <3>1 DEF dumper, Begun, Written
    <3>3. Tentative' = Tentative
      BY <3>1, <3>2 DEF call, dumper, Tentative
    <3>4. Dumping' <=> Dumping
      BY <3>1, <3>2, <3>3 DEF Dumping, WrittenFor, AllGood, call, dumper, lexer
    <3>5. (Reading' <=> Reading) /\ (Returned' <=> Returned)
      BY <3>1 DEF Reading, Returned, AllGood, call, lexer
    <3> QED BY <3>4, <3>5
  <2>2. pc' = pc /\ error_handler' = error_handler /\ source' = source
    BY <1>6 DEF vars, call
  <2> QED BY <1>2, <2>1, <2>2 DEF TripInv
<1> QED BY <1>3, <1>4, <1>5, <1>6 DEF Next

\* It says what the round trip promises.
LEMMA TripMeans == TypeOK /\ TripInv => RoundTrip
<1> SUFFICES ASSUME TypeOK, TripInv, given = "value" PROVE RoundTrip
  BY DEF RoundTrip
<1>1. pc = "thrown" => error_handler = "strict" /\ ~IsUtf8(source)
  BY DEF TripInv
<1>2. pc = "done" => result = "value_string" /\ IsGoodPart(token_buffer, source, Len(source))
  BY DEF TripInv, Returned
<1>3. ASSUME pc = "done", error_handler = "strict" PROVE token_buffer = source
  <2> DEFINE n == Len(source)
  <2>1. /\ \A k \in 1..n : Good(source, k)
        /\ IsGoodPart(token_buffer, source, n) /\ token_buffer \in Seq(Int)
    BY <1>3 DEF TripInv, Returned, AllGood
  <2>2. n \in Nat /\ source \in Seq(Int)
    <3>1. \A e \in Byte : e \in Int
      BY DEF Byte
    <3>2. source \in Seq(Byte)
      BY DEF TypeOK
    <3>3. \A k \in 1..n : source[k] \in Int
      BY <3>1, <3>2
    <3> QED BY <3>2, <3>3
  <2> HIDE DEF n
  <2>3. \A k \in 1..n : Cardinality(GoodBytes(source, k)) = k
    <3> TAKE k \in 1..n
    <3>1. k \in Nat /\ \A j \in 1..k : Good(source, j)
      BY <2>1, <2>2
    <3> QED BY <3>1, GoodAll
  <2>4. Cardinality(GoodBytes(source, n)) = n
    BY <2>1, <2>2, GoodAll
  <2>5. \A k \in 1..n : k \in GoodBytes(source, n)
    BY <2>1 DEF GoodBytes
  <2>6. Len(token_buffer) = n
    BY <2>1, <2>4 DEF IsGoodPart
  <2>7. \A k \in 1..n : token_buffer[k] = source[k]
    BY <2>1, <2>3, <2>5 DEF IsGoodPart
  <2> QED BY <2>1, <2>2, <2>6, <2>7, SeqEqual DEF n
<1> QED BY <1>1, <1>2, <1>3 DEF RoundTrip

\* The lexer reads back every string the serializer has written, without the bytes that
\* are no UTF-8 if these are ignored; a strict serializer throws at them alone. So the
\* callback service gets the page's HTML, whatever bytes are in it.
THEOREM WrittenIsRead == Spec => []RoundTrip
BY TypeCorrect, TripInit, TripKept, TripMeans, PTL DEF Spec

-----------------------------------------------------------------------------
(***************************************************************************)
(* The parser and its callbacks (JsonParser). ParserInv is inductive:      *)
(* besides RefsAlive it says what the tree is made of (ParserTypeOK), that *)
(* an open object waits for its member (Placed) and that levels lie inside *)
(* each other (Nested).                                                    *)
(***************************************************************************)

\* The last element and the others, as back() and pop_back() leave them.
LEMMA LastFront ==
  ASSUME NEW S, NEW s \in Seq(S), s # <<>>
  PROVE  /\ Len(s) \in Nat /\ Len(s) > 0
         /\ Last(s) = s[Len(s)] /\ Last(s) \in S
         /\ Front(s) \in Seq(S) /\ Len(Front(s)) = Len(s) - 1
         /\ \A k \in 1..(Len(s) - 1) : Front(s)[k] = s[k]
<1>1. Len(s) \in Nat /\ Len(s) > 0
  BY EmptySeq
<1>2. Last(s) = s[Len(s)] /\ Last(s) \in S
  BY <1>1, ElementOfSeq DEF Last
<1> DEFINE m == Len(s) - 1
<1>2a. \A k \in 1..Len(s) : s[k] \in S
  BY ElementOfSeq
<1>2b. m \in Nat /\ \A k \in 1..m : k \in 1..Len(s)
  BY <1>1
<1> HIDE DEF m
<1>3. /\ m \in Int /\ (IF 1 <= m THEN m - 1 + 1 ELSE 0) = m
      /\ \A k \in 1..(m - 1 + 1) : k \in 1..m /\ 1 + k - 1 = k
  BY <1>2b
<1>3a. \A k \in 1..m : s[k] \in S
  BY <1>2a, <1>2b, Zenon
<1>4. /\ SubSeq(s, 1, m) \in Seq(S)
      /\ Len(SubSeq(s, 1, m)) = (IF 1 <= m THEN m - 1 + 1 ELSE 0)
      /\ \A k \in 1..(m - 1 + 1) : SubSeq(s, 1, m)[k] = s[1 + k - 1]
  BY <1>3, <1>3a, SubSeqProperties
<1>5. SubSeq(s, 1, m) \in Seq(S) /\ Len(SubSeq(s, 1, m)) = m
      /\ \A k \in 1..m : SubSeq(s, 1, m)[k] = s[k]
  BY <1>3, <1>4
<1>6. Front(s) = SubSeq(s, 1, m)
  BY DEF Front, m
<1> QED BY <1>1, <1>2, <1>5, <1>6 DEF m

\* push_back.
LEMMA LastOfAppend ==
  ASSUME NEW S, NEW s \in Seq(S), NEW e \in S
  PROVE  /\ Append(s, e) \in Seq(S) /\ Append(s, e) # <<>>
         /\ Len(Append(s, e)) = Len(s) + 1 /\ Last(Append(s, e)) = e
         /\ \A k \in 1..Len(s) : Append(s, e)[k] = s[k]
         /\ Append(s, e)[Len(s) + 1] = e
BY AppendProperties DEF Last

\* What handle_value does to the tree.
LEMMA HungTree ==
  ASSUME ParserTypeOK, NEW token \in ValueTokens,
         \/ ref_stack = <<>>
         \/ IsArray(Last(ref_stack))
         \/ /\ object_element.node = Last(ref_stack)
            /\ object_element.child \in DOMAIN nodes[Last(ref_stack)].children
  PROVE  LET n == Last(ref_stack)
         IN  /\ Hung(token) \in Seq(Node)
             /\ Len(Hung(token)) = NewNode
             /\ Hung(token)[NewNode].token = token
             /\ \A k \in 1..Len(nodes) : Hung(token)[k].token = nodes[k].token
             /\ \A k \in 1..Len(nodes) :
                  ref_stack = <<>> \/ k # n => Hung(token)[k].children = nodes[k].children
             /\ ref_stack # <<>> =>
                  LET members == Hung(token)[n].children
                  IN IF IsArray(n)
                       THEN members # <<>> /\ members[Len(members)].node = NewNode
                       ELSE \E c \in DOMAIN members : members[c].node = NewNode
             /\ Hung(token)[NewNode].children = <<>>
             /\ ref_stack # <<>> =>
                  Hung(token)[n].children =
                    IF IsArray(n)
                      THEN Append(nodes[n].children, [step |-> ToString(Len(nodes[n].children)),
                                                      node |-> NewNode])
                      ELSE [nodes[n].children EXCEPT ![object_element.child].node = NewNode]
<1> DEFINE new == [token |-> token, children |-> <<>>]
           made == Append(nodes, new)
           n == Last(ref_stack)
           element == [step |-> ToString(Len(nodes[n].children)), node |-> NewNode]
<1>1. /\ nodes \in Seq(Node) /\ Len(nodes) \in Nat
      /\ NewNode = Len(nodes) + 1 /\ NewNode \in Nat
      /\ ref_stack \in Seq(1..Len(nodes))
  BY DEF ParserTypeOK, NewNode
<1>2. /\ made \in Seq(Node) /\ Len(made) = NewNode /\ made[NewNode] = new
      /\ \A k \in 1..Len(nodes) : made[k] = nodes[k]
  <2>1. new \in Node
    BY DEF Node
  <2> QED BY <1>1, <2>1, LastOfAppend
<1>3. CASE ref_stack = <<>>
  <2>1. Hung(token) = made
    BY <1>3 DEF Hung
  <2> QED BY <1>2, <1>3, <2>1
<1>4. CASE ref_stack # <<>> /\ IsArray(n)
  <2>1. n \in 1..Len(nodes)
    BY <1>1, <1>4, LastFront
  <2>2. /\ nodes[n] \in Node /\ nodes[n].children \in Seq(Child)
        /\ Len(nodes[n].children) \in Nat
    <3>1. nodes[n] \in Node
      BY <1>1, <2>1, ElementOfSeq
    <3>2. nodes[n].children \in Seq(Child)
      BY <3>1 DEF Node
    <3> QED BY <3>1, <3>2, LenProperties
  <2>3. element \in Child
    BY <1>1, <2>2 DEF Child
  <2>4. Hung(token) = [made EXCEPT ![n].children = Append(@, element)]
    BY <1>4 DEF Hung
  <2> DEFINE longer == Append(nodes[n].children, element)
  <2>5. longer \in Seq(Child) /\ longer # <<>> /\ longer[Len(longer)] = element
    BY <2>2, <2>3, LastOfAppend
  <2>6. made[n] = nodes[n] /\ n \in 1..Len(made)
    BY <1>1, <1>2, <2>1
  <2> HIDE DEF longer, made, element, n, new
  <2>7. Hung(token) = [made EXCEPT ![n] = [made[n] EXCEPT !.children = longer]]
    BY <2>4, <2>6 DEF longer
  <2> DEFINE grown == [made[n] EXCEPT !.children = longer]
  <2>8. grown \in Node /\ grown.children = longer /\ grown.token = nodes[n].token
    BY <2>2, <2>5, <2>6 DEF Node
  <2> HIDE DEF grown
  <2>9. /\ Hung(token) \in Seq(Node) /\ Len(Hung(token)) = Len(made)
        /\ Hung(token)[n] = grown
        /\ \A k \in 1..Len(made) : k # n => Hung(token)[k] = made[k]
    BY <1>2, <2>6, <2>7, <2>8, ExceptSeq DEF grown
  <2>10. element.node = NewNode
    BY DEF element
  <2>11. new.token = token /\ new.children = <<>>
    BY DEF new
  <2>12. Hung(token)[NewNode].token = token /\ Hung(token)[NewNode].children = <<>>
    BY <1>1, <1>2, <2>1, <2>9, <2>11
  <2>13. \A k \in 1..Len(nodes) : k # n => Hung(token)[k] = nodes[k]
    <3>1. \A k \in 1..Len(nodes) : k \in 1..Len(made)
      BY <1>1, <1>2
    <3> QED BY <1>2, <2>9, <3>1
  <2>14. Hung(token)[n].children = longer /\ Hung(token)[n].token = nodes[n].token
    BY <2>8, <2>9
  <2>15. longer # <<>> /\ longer[Len(longer)].node = NewNode
    BY <2>5, <2>10
  <2>16. longer = Append(nodes[n].children, [step |-> ToString(Len(nodes[n].children)),
                                             node |-> NewNode])
    BY DEF longer, element
  <2> QED BY <1>2, <1>4, <2>9, <2>12, <2>13, <2>14, <2>15, <2>16 DEF n
<1>5. CASE ref_stack # <<>> /\ ~IsArray(n)
  <2> DEFINE c == object_element.child
  <2>1. n \in 1..Len(nodes)
    BY <1>1, <1>5, LastFront
  <2>2. nodes[n] \in Node /\ nodes[n].children \in Seq(Child) /\ c \in DOMAIN nodes[n].children
        /\ object_element.node = n
    <3>1. nodes[n] \in Node
      BY <1>1, <2>1, ElementOfSeq
    <3>2. nodes[n].children \in Seq(Child)
      BY <3>1 DEF Node
    <3> QED BY <1>5, <3>1, <3>2
  <2>4. Hung(token) = [made EXCEPT ![n].children[c].node = NewNode]
    BY <1>5, <2>2 DEF Hung
  <2>5. nodes[n].children[c] \in Child /\ c \in 1..Len(nodes[n].children)
    BY <2>2
  <2> DEFINE changed == [nodes[n].children[c] EXCEPT !.node = NewNode]
             other == [nodes[n].children EXCEPT ![c] = changed]
  <2>6. changed \in Child /\ changed.node = NewNode
    BY <1>1, <2>5 DEF Child
  <2> HIDE DEF changed
  <2>7. other \in Seq(Child) /\ other[c] = changed /\ c \in DOMAIN other
    BY <2>2, <2>5, <2>6, ExceptSeq
  <2>8. made[n] = nodes[n] /\ n \in 1..Len(made)
    BY <1>1, <1>2, <2>1
  <2> HIDE DEF other, made, n, new, c
  <2> DEFINE grown == [made[n] EXCEPT !.children = other]
  <2>9. Hung(token) = [made EXCEPT ![n] = grown]
    BY <2>4, <2>8 DEF other, changed
  <2>10. grown \in Node /\ grown.children = other /\ grown.token = nodes[n].token
    BY <2>2, <2>7, <2>8 DEF Node
  <2> HIDE DEF grown
  <2>11. /\ Hung(token) \in Seq(Node) /\ Len(Hung(token)) = Len(made)
        /\ Hung(token)[n] = grown
        /\ \A k \in 1..Len(made) : k # n => Hung(token)[k] = made[k]
    BY <1>2, <2>8, <2>9, <2>10, ExceptSeq
  <2>12. new.token = token /\ new.children = <<>>
    BY DEF new
  <2>13. Hung(token)[NewNode].token = token /\ Hung(token)[NewNode].children = <<>>
    BY <1>1, <1>2, <2>1, <2>11, <2>12
  <2>14. \A k \in 1..Len(nodes) : k # n => Hung(token)[k] = nodes[k]
    <3>1. \A k \in 1..Len(nodes) : k \in 1..Len(made)
      BY <1>1, <1>2
    <3> QED BY <1>2, <2>11, <3>1
  <2>15. Hung(token)[n].children = other /\ Hung(token)[n].token = nodes[n].token
    BY <2>10, <2>11
  <2>16. c \in DOMAIN other /\ other[c].node = NewNode
    BY <2>6, <2>7
  <2>17. other = [nodes[n].children EXCEPT ![object_element.child].node = NewNode]
    BY DEF other, changed, c
  <2> QED BY <1>2, <1>5, <2>11, <2>13, <2>14, <2>15, <2>16, <2>17 DEF n
<1> QED BY <1>3, <1>4, <1>5

\* The invariant holds before the first token.
LEMMA ParserInitInv == ParserInit => ParserInv
<1> SUFFICES ASSUME ParserInit PROVE ParserInv
  OBVIOUS
<1>1. ParserTypeOK
  <2>1. tokens \in Seq(Tokens)
    BY DEF ParserInit
  <2>2. states \in Seq(BOOLEAN) /\ nodes \in Seq(Node) /\ Len(nodes) = 0
        /\ ref_stack \in Seq(1..Len(nodes))
    BY DEF ParserInit
  <2>3. root \in 0..Len(nodes) /\ object_element \in [node : 0..Len(nodes), child : Nat]
    BY <2>2 DEF ParserInit
  <2> QED BY <2>1, <2>2, <2>3 DEF ParserTypeOK, ParserInit
<1>2. Len(ref_stack) = 0 /\ Len(states) = 0 /\ DOMAIN ref_stack = {} /\ DOMAIN states = {}
  BY DEF ParserInit
<1> QED
  BY <1>1, <1>2 DEF ParserInit, ParserInv, Nested, Placed, RefsAlive, Linked, ElementInside,
     AwaitsMember, LevelsAgree

\* The next token.
LEMMA GetTokenTyped ==
  ASSUME ParserTypeOK, GetToken
  PROVE  last_token' \in Tokens /\ tokens' \in Seq(Tokens)
BY DEF ParserTypeOK, GetToken

\* What all steps have in common that leave the tree alone.
LEMMA TreeRests ==
  ASSUME ParserInv, UNCHANGED tree
  PROVE  Nested' /\ Linked'
BY DEF ParserInv, Nested, RefsAlive, Linked, IsArray, tree

\* A parse error leaves everything as it is.
LEMMA ErrorKeeps == ParserInv /\ ParseError => ParserInv'
<1> SUFFICES ASSUME ParserInv, ParseError PROVE ParserInv'
  OBVIOUS
<1>1. Nested' /\ Linked'
  BY TreeRests DEF ParseError
<1>2. at' = "error" /\ UNCHANGED <<last_token, tokens, states, nodes, root, ref_stack,
                                   object_element>>
  BY DEF ParseError, tree
<1>3. ParserTypeOK'
  BY <1>2 DEF ParserInv, ParserTypeOK
<1>4. Placed' /\ ElementInside'
  BY <1>2 DEF Placed, ElementInside, AwaitsMember
<1>5. LevelsAgree'
  BY <1>2 DEF ParserInv, RefsAlive, LevelsAgree, IsArray
<1> QED BY <1>1, <1>3, <1>4, <1>5 DEF ParserInv, RefsAlive

\* A new value, of a new level or none.
LEMMA ValueHung ==
  ASSUME ParserInv, NEW token \in ValueTokens, at = "value", HandleValue(token)
  PROVE  /\ nodes' \in Seq(Node) /\ Len(nodes') = NewNode /\ Len(nodes) \in Nat
         /\ root' \in 0..Len(nodes')
         /\ nodes'[NewNode].token = token
         /\ \A k \in 1..Len(nodes) : nodes'[k].token = nodes[k].token
         /\ \A k \in 2..Len(ref_stack) :
              nodes'[ref_stack[k - 1]].children = nodes[ref_stack[k - 1]].children
         /\ ref_stack # <<>> =>
              LET members == nodes'[Last(ref_stack)].children
              IN IF IsArray(Last(ref_stack))
                   THEN members # <<>> /\ members[Len(members)].node = NewNode
                   ELSE \E c \in DOMAIN members : members[c].node = NewNode
<1>1. /\ nodes' = Hung(token)
      /\ root' = IF ref_stack = <<>> THEN NewNode ELSE root
  BY DEF HandleValue
<1>2. ParserTypeOK /\ Nested /\ ElementInside
  BY DEF ParserInv, RefsAlive
<1>3. \/ ref_stack = <<>>
      \/ IsArray(Last(ref_stack))
      \/ /\ object_element.node = Last(ref_stack)
         /\ object_element.child \in DOMAIN nodes[Last(ref_stack)].children
  BY <1>2 DEF ElementInside, AwaitsMember
<1>4. LET n == Last(ref_stack)
      IN  /\ Hung(token) \in Seq(Node)
          /\ Len(Hung(token)) = NewNode
          /\ Hung(token)[NewNode].token = token
          /\ \A k \in 1..Len(nodes) : Hung(token)[k].token = nodes[k].token
          /\ \A k \in 1..Len(nodes) :
               ref_stack = <<>> \/ k # n => Hung(token)[k].children = nodes[k].children
          /\ ref_stack # <<>> =>
               LET members == Hung(token)[n].children
               IN IF IsArray(n)
                    THEN members # <<>> /\ members[Len(members)].node = NewNode
                    ELSE \E c \in DOMAIN members : members[c].node = NewNode
  BY <1>2, <1>3, HungTree
<1>5. Len(nodes) \in Nat /\ NewNode = Len(nodes) + 1 /\ root \in 0..Len(nodes)
      /\ ref_stack \in Seq(1..Len(nodes)) /\ Len(ref_stack) \in Nat
  BY <1>2 DEF ParserTypeOK, NewNode
<1>6. root' \in 0..Len(nodes')
  BY <1>1, <1>4, <1>5
<1>7. \A k \in 2..Len(ref_stack) :
        /\ ref_stack # <<>> /\ ref_stack[k - 1] \in 1..Len(nodes)
        /\ ref_stack[k - 1] # Last(ref_stack)
  <2> SUFFICES ASSUME NEW k \in 2..Len(ref_stack)
               PROVE  /\ ref_stack # <<>> /\ ref_stack[k - 1] \in 1..Len(nodes)
                      /\ ref_stack[k - 1] # Last(ref_stack)
    OBVIOUS
  <2>1. k - 1 \in 1..Len(ref_stack) /\ Len(ref_stack) \in 1..Len(ref_stack)
        /\ k - 1 < Len(ref_stack) /\ ref_stack # <<>>
    BY <1>5
  <2>2. ref_stack[k - 1] < ref_stack[Len(ref_stack)]
    BY <1>2, <2>1 DEF Nested
  <2>3. ref_stack[k - 1] \in 1..Len(nodes) /\ ref_stack[Len(ref_stack)] \in 1..Len(nodes)
    BY <1>5, <2>1
  <2> QED BY <2>1, <2>2, <2>3 DEF Last
<1>8. \A k \in 2..Len(ref_stack) :
        nodes'[ref_stack[k - 1]].children = nodes[ref_stack[k - 1]].children
  BY <1>1, <1>4, <1>7
<1> QED BY <1>1, <1>4, <1>5, <1>6, <1>8

\* A scalar is put where the parser stands.
LEMMA ScalarKeeps == ParserInv /\ Scalar => ParserInv'
<1> SUFFICES ASSUME ParserInv, Scalar PROVE ParserInv'
  OBVIOUS
<1>1. /\ at = "value" /\ last_token \in ValueTokens /\ HandleValue(last_token)
      /\ UNCHANGED <<states, ref_stack, object_element>>
      /\ at' = (IF states = <<>> THEN "end" ELSE "next") /\ GetToken
  BY DEF Scalar, AfterValue, ValueTokens
<1>2. /\ nodes' \in Seq(Node) /\ Len(nodes') = Len(nodes) + 1 /\ Len(nodes) \in Nat
      /\ root' \in 0..Len(nodes')
      /\ \A k \in 1..Len(nodes) : nodes'[k].token = nodes[k].token
      /\ \A k \in 2..Len(ref_stack) :
           nodes'[ref_stack[k - 1]].children = nodes[ref_stack[k - 1]].children
  BY <1>1, ValueHung DEF NewNode
<1>3. /\ ParserTypeOK /\ Nested /\ Linked /\ LevelsAgree
      /\ ref_stack \in Seq(1..Len(nodes)) /\ Len(ref_stack) \in Nat /\ states \in Seq(BOOLEAN)
  BY DEF ParserInv, RefsAlive, ParserTypeOK
<1>4. \A k \in 1..Len(ref_stack) :
         ref_stack[k] \in 1..Len(nodes) /\ (IsArray(ref_stack[k])' <=> IsArray(ref_stack[k]))
  BY <1>1, <1>2, <1>3 DEF IsArray
<1>5. ParserTypeOK'
  <2>1. ref_stack \in Seq(1..Len(nodes'))
    <3>1. 1..Len(nodes) \subseteq 1..Len(nodes')
      BY <1>2
    <3> QED BY <1>3, <3>1, SeqMonotonic, Zenon
  <2>2. object_element' \in [node : 0..Len(nodes'), child : Nat]
    BY <1>1, <1>2, <1>3 DEF ParserTypeOK
  <2>3. last_token' \in Tokens /\ tokens' \in Seq(Tokens)
    BY <1>1, <1>3, GetTokenTyped
  <2> QED BY <1>1, <1>2, <1>3, <2>1, <2>2, <2>3 DEF ParserTypeOK
<1>6. Nested'
  BY <1>1, <1>2, <1>3, <1>4 DEF Nested
<1>7. Linked'
  <2>1. \A k \in 2..Len(ref_stack) :
          /\ nodes'[ref_stack[k - 1]].children = nodes[ref_stack[k - 1]].children
          /\ IsArray(ref_stack[k - 1])' <=> IsArray(ref_stack[k - 1])
    <3>1. \A k \in 2..Len(ref_stack) : k - 1 \in 1..Len(ref_stack)
      BY <1>3
    <3> QED BY <1>2, <1>4, <3>1
  <2> QED BY <1>1, <1>3, <2>1 DEF Linked
<1>8. LevelsAgree'
  <2>1. \A k \in 1..Len(states) : k \in 1..Len(ref_stack)
    BY <1>3 DEF LevelsAgree
  <2> QED BY <1>1, <1>3, <1>4, <2>1 DEF LevelsAgree
<1>9. Placed' /\ ElementInside'
  BY <1>1 DEF Placed, ElementInside, AwaitsMember
<1> QED BY <1>5, <1>6, <1>7, <1>8, <1>9 DEF ParserInv, RefsAlive

\* An opening bracket or brace makes a level.
LEMMA BeginStructureKeeps == ParserInv /\ BeginStructure => ParserInv'
<1> SUFFICES ASSUME ParserInv, BeginStructure PROVE ParserInv'
  OBVIOUS
<1> DEFINE token == last_token
<1>1. /\ at = "value" /\ token \in {"[", "{"} /\ token \in ValueTokens /\ HandleValue(token)
      /\ ref_stack' = Append(ref_stack, NewNode)
      /\ UNCHANGED <<states, object_element>>
      /\ at' = (IF token = "[" THEN "first_element" ELSE "first_key") /\ GetToken
  BY DEF BeginStructure, StartStructure, ValueTokens
<1>2. /\ nodes' \in Seq(Node) /\ Len(nodes') = NewNode /\ Len(nodes) \in Nat
      /\ root' \in 0..Len(nodes')
      /\ nodes'[NewNode].token = token
      /\ \A k \in 1..Len(nodes) : nodes'[k].token = nodes[k].token
      /\ \A k \in 2..Len(ref_stack) :
           nodes'[ref_stack[k - 1]].children = nodes[ref_stack[k - 1]].children
      /\ ref_stack # <<>> =>
           LET members == nodes'[Last(ref_stack)].children
           IN IF IsArray(Last(ref_stack))
                THEN members # <<>> /\ members[Len(members)].node = NewNode
                ELSE \E c \in DOMAIN members : members[c].node = NewNode
  BY <1>1, ValueHung
<1>3. /\ ParserTypeOK /\ Nested /\ Linked /\ LevelsAgree /\ NewNode = Len(nodes) + 1
      /\ ref_stack \in Seq(1..Len(nodes)) /\ Len(ref_stack) \in Nat /\ states \in Seq(BOOLEAN)
      /\ Len(states) = Len(ref_stack)
  <2>1. ParserTypeOK /\ Nested /\ Linked /\ LevelsAgree
    BY DEF ParserInv, RefsAlive
  <2>2. ref_stack \in Seq(1..Len(nodes)) /\ states \in Seq(BOOLEAN)
    BY <2>1 DEF ParserTypeOK
  <2>3. Len(states) = Len(ref_stack)
    BY <1>1, <2>1 DEF LevelsAgree
  <2> QED BY <2>1, <2>2, <2>3 DEF NewNode
<1>4. /\ ref_stack' \in Seq(1..Len(nodes')) /\ Len(ref_stack') = Len(ref_stack) + 1
      /\ \A k \in 1..Len(ref_stack) : ref_stack'[k] = ref_stack[k]
      /\ ref_stack'[Len(ref_stack) + 1] = NewNode /\ Last(ref_stack') = NewNode
      /\ ref_stack' # <<>>
  <2> DEFINE S == 1..Len(nodes')
  <2>1. 1..Len(nodes) \subseteq S /\ NewNode \in S
    BY <1>2, <1>3
  <2> HIDE DEF S
  <2>2. ref_stack \in Seq(S)
    BY <1>3, <2>1, SeqMonotonic, Zenon
  <2>3. /\ Append(ref_stack, NewNode) \in Seq(S) /\ Append(ref_stack, NewNode) # <<>>
        /\ Len(Append(ref_stack, NewNode)) = Len(ref_stack) + 1
        /\ Last(Append(ref_stack, NewNode)) = NewNode
        /\ \A k \in 1..Len(ref_stack) : Append(ref_stack, NewNode)[k] = ref_stack[k]
        /\ Append(ref_stack, NewNode)[Len(ref_stack) + 1] = NewNode
    BY <2>1, <2>2, LastOfAppend
  <2> QED BY <1>1, <2>3, Zenon DEF S
<1>5. \A k \in 1..Len(ref_stack) :
        ref_stack[k] \in 1..Len(nodes) /\ (IsArray(ref_stack[k])' <=> IsArray(ref_stack[k]))
  <2> SUFFICES ASSUME NEW k \in 1..Len(ref_stack)
               PROVE  /\ ref_stack[k] \in 1..Len(nodes)
                       /\ (IsArray(ref_stack[k])' <=> IsArray(ref_stack[k]))
    OBVIOUS
  <2>1. ref_stack[k] \in 1..Len(nodes)
    BY <1>3
  <2>2. ref_stack'[k] = ref_stack[k]
    BY <1>4
  <2> QED BY <1>2, <2>1, <2>2 DEF IsArray
<1>6. ParserTypeOK'
  <2>1. 0..Len(nodes) \subseteq 0..Len(nodes')
    BY <1>2, <1>3
  <2>2. object_element' \in [node : 0..Len(nodes'), child : Nat]
    BY <1>1, <1>3, <2>1 DEF ParserTypeOK
  <2>3. last_token' \in Tokens /\ tokens' \in Seq(Tokens)
    BY <1>1, <1>3, GetTokenTyped
  <2> QED BY <1>1, <1>2, <1>3, <1>4, <2>2, <2>3 DEF ParserTypeOK
<1>7. Nested'
  <2>1. Len(ref_stack') = Len(ref_stack) + 1 /\ Len(ref_stack) \in Nat
    BY <1>3, <1>4
  <2>2. \A k \in 1..Len(ref_stack') : nodes'[ref_stack'[k]].token \in {"[", "{"}
    <3> SUFFICES ASSUME NEW k \in 1..Len(ref_stack')
                 PROVE  nodes'[ref_stack'[k]].token \in {"[", "{"}
      OBVIOUS
    <3>1. CASE k = Len(ref_stack) + 1
      <4>1. ref_stack'[k] = NewNode
        BY <1>4, <3>1
      <4> QED BY <1>1, <1>2, <4>1
    <3>2. CASE k \in 1..Len(ref_stack)
      <4>1. ref_stack'[k] = ref_stack[k] /\ ref_stack[k] \in 1..Len(nodes)
        BY <1>4, <1>5, <3>2
      <4>2. nodes[ref_stack[k]].token \in {"[", "{"}
        BY <1>3, <3>2 DEF Nested
      <4>3. nodes'[ref_stack[k]].token = nodes[ref_stack[k]].token
        BY <1>2, <4>1
      <4> QED BY <4>1, <4>2, <4>3
    <3>3. k = Len(ref_stack) + 1 \/ k \in 1..Len(ref_stack)
      BY <2>1
    <3> QED BY <3>1, <3>2, <3>3
  <2>3. \A j, k \in 1..Len(ref_stack') : j < k => ref_stack'[j] < ref_stack'[k]
    <3> SUFFICES ASSUME NEW j \in 1..Len(ref_stack'), NEW k \in 1..Len(ref_stack'), j < k
                 PROVE  ref_stack'[j] < ref_stack'[k]
      OBVIOUS
    <3>1. j \in 1..Len(ref_stack) /\ ref_stack'[j] = ref_stack[j]
      BY <1>3, <1>4, <2>1
    <3>2. CASE k = Len(ref_stack) + 1
      BY <1>3, <1>5, <1>4, <3>1, <3>2
    <3>3. CASE k \in 1..Len(ref_stack)
      BY <1>3, <1>4, <2>1, <3>1, <3>3 DEF Nested
    <3> QED BY <1>3, <2>1, <3>2, <3>3
  <2> QED BY <2>2, <2>3 DEF Nested
<1>8. Linked'
  <2> SUFFICES ASSUME NEW k \in 2..Len(ref_stack')
               PROVE  LET members == nodes'[ref_stack'[k - 1]].children
                      IN IF IsArray(ref_stack[k - 1])'
                           THEN members # <<>> /\ members[Len(members)].node = ref_stack'[k]
                           ELSE \E c \in DOMAIN members : members[c].node = ref_stack'[k]
    BY DEF Linked
  <2>0. k \in 2..(Len(ref_stack) + 1) /\ k - 1 \in 1..Len(ref_stack)
    BY <1>3, <1>4
  <2>1. /\ k - 1 \in 1..Len(ref_stack) /\ ref_stack'[k - 1] = ref_stack[k - 1]
        /\ ref_stack[k - 1] \in 1..Len(nodes)
        /\ IsArray(ref_stack[k - 1])' <=> IsArray(ref_stack[k - 1])
    BY <1>4, <1>5, <2>0
  <2>2. CASE k = Len(ref_stack) + 1
    <3>1. ref_stack # <<>> /\ ref_stack[k - 1] = Last(ref_stack) /\ ref_stack'[k] = NewNode
      BY <1>3, <1>4, <2>1, <2>2 DEF Last
    <3> QED BY <1>2, <1>5, <2>1, <3>1
  <2>3. CASE k \in 2..Len(ref_stack)
    <3>1. ref_stack'[k] = ref_stack[k]
      BY <1>3, <1>4, <2>3
    <3>2. nodes'[ref_stack[k - 1]].children = nodes[ref_stack[k - 1]].children
      BY <1>2, <2>3
    <3> QED BY <1>3, <2>1, <2>3, <3>1, <3>2 DEF Linked
  <2> QED BY <1>3, <2>0, <2>2, <2>3
<1>9. LevelsAgree'
  <2>1. \A k \in 1..Len(states) : k \in 1..Len(ref_stack) /\ k <= Len(ref_stack')
    BY <1>3, <1>4 DEF LevelsAgree
  <2> QED BY <1>1, <1>3, <1>5, <2>1 DEF LevelsAgree
<1>10. Placed' /\ ElementInside'
  <2>1. IsArray(Last(ref_stack))' <=> token = "["
    BY <1>2, <1>4 DEF IsArray
  <2> QED BY <1>1, <1>3, <1>4, <2>1 DEF Placed, ElementInside, AwaitsMember
<1> QED BY <1>6, <1>7, <1>8, <1>9, <1>10 DEF ParserInv, RefsAlive

\* end_array and end_object: the level below is as it was left.
LEMMA LevelEnds ==
  ASSUME ParserInv, ref_stack # <<>>, EndStructure
  PROVE  /\ ref_stack' \in Seq(1..Len(nodes)) /\ Len(ref_stack') = Len(ref_stack) - 1
         /\ Len(ref_stack) \in Nat
         /\ \A k \in 1..Len(ref_stack') :
              k \in 1..Len(ref_stack) /\ ref_stack'[k] = ref_stack[k]
         /\ UNCHANGED <<nodes, root, object_element>>
         /\ Nested' /\ Linked'
<1>1. /\ ref_stack' = Front(ref_stack) /\ UNCHANGED <<nodes, root, object_element>>
      /\ ref_stack \in Seq(1..Len(nodes)) /\ Nested /\ Linked
  BY DEF EndStructure, ParserInv, ParserTypeOK, RefsAlive
<1>2. /\ ref_stack' \in Seq(1..Len(nodes)) /\ Len(ref_stack') = Len(ref_stack) - 1
      /\ Len(ref_stack) \in Nat /\ Len(ref_stack) > 0
      /\ \A k \in 1..(Len(ref_stack) - 1) : ref_stack'[k] = ref_stack[k]
  BY <1>1, LastFront
<1>3. \A k \in 1..Len(ref_stack') :
              k \in 1..Len(ref_stack) /\ ref_stack'[k] = ref_stack[k]
  BY <1>1, <1>2
<1>4. Nested'
  BY <1>1, <1>3 DEF Nested
<1>5. \A k \in 2..Len(ref_stack') :
        /\ k \in 2..Len(ref_stack) /\ ref_stack'[k - 1] = ref_stack[k - 1]
         /\ ref_stack'[k] = ref_stack[k]
  BY <1>2
<1>6. Linked'
  <2> SUFFICES ASSUME NEW k \in 2..Len(ref_stack')
               PROVE  LET members == nodes'[ref_stack'[k - 1]].children
                      IN IF IsArray(ref_stack[k - 1])'
                           THEN members # <<>> /\ members[Len(members)].node = ref_stack'[k]
                           ELSE \E c \in DOMAIN members : members[c].node = ref_stack'[k]
    BY DEF Linked
  <2>1. IsArray(ref_stack[k - 1])' <=> IsArray(ref_stack[k - 1])
    BY <1>1, <1>5 DEF IsArray
  <2> QED BY <1>1, <1>5, <2>1 DEF Linked
<1> QED BY <1>1, <1>2, <1>3, <1>4, <1>6

\* An empty structure is closed at once.
LEMMA EmptyStructureKeeps == ParserInv /\ EmptyStructure => ParserInv'
<1> SUFFICES ASSUME ParserInv, EmptyStructure PROVE ParserInv'
  OBVIOUS
<1>1. /\ at \in {"first_element", "first_key"} /\ EndStructure /\ UNCHANGED states
      /\ at' = (IF states = <<>> THEN "end" ELSE "next") /\ GetToken
  BY DEF EmptyStructure, AfterValue
<1>2. /\ ParserTypeOK /\ LevelsAgree
      /\ Len(ref_stack) = Len(states) + 1 /\ states \in Seq(BOOLEAN)
      /\ ref_stack \in Seq(1..Len(nodes))
  BY <1>1 DEF ParserInv, RefsAlive, ParserTypeOK, Placed
<1>3. ref_stack # <<>>
  BY <1>2
<1>4. /\ ref_stack' \in Seq(1..Len(nodes)) /\ Len(ref_stack') = Len(ref_stack) - 1
      /\ Len(ref_stack) \in Nat
      /\ \A k \in 1..Len(ref_stack') :
              k \in 1..Len(ref_stack) /\ ref_stack'[k] = ref_stack[k]
      /\ UNCHANGED <<nodes, root, object_element>>
      /\ Nested' /\ Linked'
  BY <1>1, <1>3, LevelEnds
<1>5. ParserTypeOK'
  <2>1. last_token' \in Tokens /\ tokens' \in Seq(Tokens)
    BY <1>1, <1>2, GetTokenTyped
  <2> QED BY <1>1, <1>2, <1>4, <2>1 DEF ParserTypeOK
<1>6. LevelsAgree'
  <2>1. Len(states) = Len(ref_stack') /\ \A k \in 1..Len(states) : k \in 1..Len(ref_stack')
    BY <1>2, <1>4
  <2> QED BY <1>1, <1>2, <1>4, <2>1 DEF LevelsAgree, IsArray
<1>7. Placed' /\ ElementInside'
  BY <1>1 DEF Placed, ElementInside, AwaitsMember
<1> QED BY <1>4, <1>5, <1>6, <1>7 DEF ParserInv, RefsAlive

\* A closing token leaves a level.
LEMMA CloseStructureKeeps == ParserInv /\ CloseStructure => ParserInv'
<1> SUFFICES ASSUME ParserInv, CloseStructure PROVE ParserInv'
  OBVIOUS
<1>1. /\ at = "next" /\ EndStructure /\ states' = Front(states)
      /\ at' = (IF states' = <<>> THEN "end" ELSE "next") /\ GetToken
  BY DEF CloseStructure, AfterValue
<1>2. /\ ParserTypeOK /\ LevelsAgree /\ Len(ref_stack) = Len(states) /\ states \in Seq(BOOLEAN)
      /\ ref_stack \in Seq(1..Len(nodes)) /\ states # <<>>
  BY <1>1 DEF ParserInv, RefsAlive, ParserTypeOK, Placed, LevelsAgree
<1>3. /\ states' \in Seq(BOOLEAN) /\ Len(states') = Len(states) - 1 /\ Len(states) > 0
      /\ Len(states) \in Nat /\ \A k \in 1..(Len(states) - 1) : states'[k] = states[k]
  BY <1>1, <1>2, LastFront
<1>4. ref_stack # <<>>
  BY <1>2, <1>3
<1>5. /\ ref_stack' \in Seq(1..Len(nodes)) /\ Len(ref_stack') = Len(ref_stack) - 1
      /\ Len(ref_stack) \in Nat
      /\ \A k \in 1..Len(ref_stack') :
              k \in 1..Len(ref_stack) /\ ref_stack'[k] = ref_stack[k]
      /\ UNCHANGED <<nodes, root, object_element>>
      /\ Nested' /\ Linked'
  BY <1>1, <1>4, LevelEnds
<1>6. ParserTypeOK'
  <2>1. last_token' \in Tokens /\ tokens' \in Seq(Tokens)
    BY <1>1, <1>2, GetTokenTyped
  <2> QED BY <1>1, <1>2, <1>3, <1>5, <2>1 DEF ParserTypeOK
<1>7. LevelsAgree'
  <2>1. /\ Len(states') = Len(ref_stack')
        /\ \A k \in 1..Len(states') :
             /\ k \in 1..Len(ref_stack') /\ k <= Len(ref_stack')
             /\ k \in 1..Len(states) /\ states'[k] = states[k]
    <3>1. /\ Len(states') = Len(states) - 1 /\ Len(ref_stack') = Len(states) - 1
          /\ Len(states) \in Nat
      BY <1>2, <1>3, <1>5
    <3>2. \A k \in 1..(Len(states) - 1) : k \in 1..Len(states) /\ k <= Len(states) - 1
      BY <3>1
    <3> QED BY <1>3, <3>1, <3>2
  <2>2. \A k \in 1..Len(ref_stack') : IsArray(ref_stack[k])' <=> IsArray(ref_stack[k])
    BY <1>5 DEF IsArray
  <2> QED BY <1>2, <2>1, <2>2 DEF LevelsAgree
<1>8. Placed' /\ ElementInside'
  BY <1>1 DEF Placed, ElementInside, AwaitsMember
<1> QED BY <1>5, <1>6, <1>7, <1>8 DEF ParserInv, RefsAlive

\* key finds a member or makes one; no level changes but the innermost.
LEMMA ReadKeyKeeps == ParserInv /\ ReadKey => ParserInv'
<1> SUFFICES ASSUME ParserInv, ReadKey PROVE ParserInv'
  OBVIOUS
<1> DEFINE n == Last(ref_stack)
           members == nodes[n].children
<1>1. /\ at \in {"first_key", "key"} /\ last_token \in Strings /\ Key(last_token) /\ GetToken
      /\ at' = (IF at = "key" THEN "separator" ELSE "first_separator")
      /\ UNCHANGED <<states, root, ref_stack>>
  BY DEF ReadKey, Key
<1>2. ParserTypeOK /\ Nested /\ Linked /\ LevelsAgree /\ ref_stack # <<>> /\ ~IsArray(n)
  BY <1>1 DEF ParserInv, RefsAlive, Placed
<1>3. /\ nodes \in Seq(Node) /\ Len(nodes) \in Nat /\ ref_stack \in Seq(1..Len(nodes))
      /\ Len(ref_stack) \in Nat /\ Len(ref_stack) > 0 /\ n = ref_stack[Len(ref_stack)]
      /\ n \in 1..Len(nodes)
  <2>1. nodes \in Seq(Node) /\ ref_stack \in Seq(1..Len(nodes))
    BY <1>2 DEF ParserTypeOK
  <2>2. Len(nodes) \in Nat
    BY <2>1
  <2> QED BY <1>2, <2>1, <2>2, LastFront
<1>4. nodes[n] \in Node /\ members \in Seq(Child) /\ Len(members) \in Nat
  <2>1. nodes[n] \in Node
    BY <1>3, ElementOfSeq
  <2> QED BY <2>1, LenProperties DEF Node
<1> HIDE DEF n, members
<1>5. /\ nodes' \in Seq(Node) /\ Len(nodes') = Len(nodes)
      /\ \A k \in 1..Len(nodes) : nodes'[k].token = nodes[k].token
      /\ \A k \in 1..Len(nodes) : k # n => nodes'[k].children = nodes[k].children
      /\ object_element'.node = n /\ object_element' \in [node : 0..Len(nodes), child : Nat]
      /\ object_element'.child \in DOMAIN nodes'[n].children
  <2>1. CASE /\ nodes' =
                  [nodes EXCEPT ![n].children = Append(@, [step |-> last_token, node |-> 0])]
             /\ object_element' = [node |-> n, child |-> Len(members) + 1]
    <3> DEFINE new == [step |-> last_token, node |-> 0]
               longer == Append(members, new)
               grown == [nodes[n] EXCEPT !.children = longer]
    <3>1. new \in Child
      BY <1>1 DEF Child
    <3> HIDE DEF new
    <3>2. longer \in Seq(Child) /\ Len(longer) = Len(members) + 1
      BY <1>4, <3>1, LastOfAppend
    <3>2a. DOMAIN longer = 1..(Len(members) + 1)
      BY <3>2, LenProperties
    <3>3. nodes' = [nodes EXCEPT ![n] = grown]
      BY <1>3, <2>1 DEF members, new
    <3> HIDE DEF longer
    <3>4. grown \in Node /\ grown.children = longer /\ grown.token = nodes[n].token
      BY <1>4, <3>2 DEF Node
    <3> HIDE DEF grown
    <3>5. /\ nodes' \in Seq(Node) /\ Len(nodes') = Len(nodes) /\ nodes'[n] = grown
          /\ \A k \in 1..Len(nodes) : k # n => nodes'[k] = nodes[k]
      BY <1>3, <3>3, <3>4, ExceptSeq
    <3>6. Len(members) + 1 \in 1..(Len(members) + 1) /\ Len(members) + 1 \in Nat
      BY <1>4
    <3>7. object_element' \in [node : 0..Len(nodes), child : Nat]
      BY <1>3, <2>1, <3>6
    <3> QED BY <2>1, <3>2a, <3>4, <3>5, <3>6, <3>7
  <2>2. CASE /\ \E c \in DOMAIN members : object_element' = [node |-> n, child |-> c]
             /\ UNCHANGED nodes
    <3>1. PICK c \in DOMAIN members : object_element' = [node |-> n, child |-> c]
      BY <2>2
    <3>2. c \in Nat
      BY <1>4, LenProperties
    <3>3. object_element' \in [node : 0..Len(nodes), child : Nat]
      BY <1>3, <3>1, <3>2
    <3> QED BY <1>3, <2>2, <3>1, <3>3 DEF members
  <2> QED BY <1>1, <2>1, <2>2 DEF Key, n, members
<1>6. ParserTypeOK'
  <2>1. last_token' \in Tokens /\ tokens' \in Seq(Tokens)
    BY <1>1, <1>2, GetTokenTyped
  <2> QED BY <1>1, <1>2, <1>5, <2>1 DEF ParserTypeOK
<1>7. \A k \in 1..Len(ref_stack) :
        ref_stack[k] \in 1..Len(nodes) /\ (IsArray(ref_stack[k])' <=> IsArray(ref_stack[k]))
  <2> SUFFICES ASSUME NEW k \in 1..Len(ref_stack)
               PROVE  /\ ref_stack[k] \in 1..Len(nodes)
                       /\ (IsArray(ref_stack[k])' <=> IsArray(ref_stack[k]))
    OBVIOUS
  <2>1. ref_stack[k] \in 1..Len(nodes)
    BY <1>3
  <2> QED BY <1>1, <1>5, <2>1 DEF IsArray
<1>8. Nested'
  <2>1. \A k \in 1..Len(ref_stack) : nodes'[ref_stack[k]].token = nodes[ref_stack[k]].token
    BY <1>5, <1>7
  <2> QED BY <1>1, <1>2, <2>1 DEF Nested
<1>9. Linked'
  <2>1. \A k \in 2..Len(ref_stack) :
          /\ nodes'[ref_stack[k - 1]].children = nodes[ref_stack[k - 1]].children
          /\ IsArray(ref_stack[k - 1])' <=> IsArray(ref_stack[k - 1])
    <3> SUFFICES ASSUME NEW k \in 2..Len(ref_stack)
                 PROVE  /\ nodes'[ref_stack[k - 1]].children = nodes[ref_stack[k - 1]].children
                        /\ IsArray(ref_stack[k - 1])' <=> IsArray(ref_stack[k - 1])
      OBVIOUS
    <3>1. k - 1 \in 1..Len(ref_stack) /\ Len(ref_stack) \in 1..Len(ref_stack)
          /\ k - 1 < Len(ref_stack)
      BY <1>3
    <3>2. ref_stack[k - 1] < ref_stack[Len(ref_stack)]
      BY <1>2, <3>1 DEF Nested
    <3>3. ref_stack[k - 1] \in 1..Len(nodes) /\ ref_stack[k - 1] # n
      BY <1>3, <1>7, <3>1, <3>2
    <3> QED BY <1>5, <1>7, <3>1, <3>3
  <2> QED BY <1>1, <1>2, <2>1 DEF Linked
<1>10. LevelsAgree'
  <2>1. \A k \in 1..Len(states) : k \in 1..Len(ref_stack)
    BY <1>2, <1>3 DEF LevelsAgree
  <2>2. at \in {"key"} => Len(states) = Len(ref_stack)
    BY <1>2 DEF LevelsAgree
  <2> QED BY <1>1, <1>2, <1>7, <2>1, <2>2 DEF LevelsAgree
<1>11. ElementInside'
  BY <1>1, <1>5 DEF ElementInside, n
<1>12. Placed'
  <2>1. Len(ref_stack) \in 1..Len(ref_stack)
    BY <1>3
  <2>2. ~IsArray(Last(ref_stack))'
    BY <1>1, <1>2, <1>3, <1>7, <2>1 DEF Last
  <2>3. at = "first_key" => Len(ref_stack) = Len(states) + 1
    BY DEF ParserInv, Placed
  <2> QED BY <1>1, <1>2, <2>2, <2>3 DEF Placed
<1> QED BY <1>6, <1>8, <1>9, <1>10, <1>11, <1>12 DEF ParserInv, RefsAlive

\* The steps between two values leave the tree alone.
LEMMA FirstElementKeeps == ParserInv /\ FirstElement => ParserInv'
<1> SUFFICES ASSUME ParserInv, FirstElement PROVE ParserInv'
  OBVIOUS
<1>1. /\ at = "first_element" /\ states' = Append(states, TRUE) /\ at' = "value"
      /\ UNCHANGED <<last_token, tokens, nodes, root, ref_stack, object_element>>
  BY DEF FirstElement, tree
<1>2. /\ ParserTypeOK /\ LevelsAgree /\ Len(ref_stack) = Len(states) + 1
      /\ states \in Seq(BOOLEAN) /\ IsArray(Last(ref_stack)) /\ Len(states) \in Nat
  BY <1>1 DEF ParserInv, RefsAlive, ParserTypeOK, Placed
<1>3. /\ states' \in Seq(BOOLEAN) /\ Len(states') = Len(states) + 1
      /\ \A k \in 1..Len(states) : states'[k] = states[k]
      /\ states'[Len(states) + 1] = TRUE
  BY <1>1, <1>2, LastOfAppend
<1>4. Nested' /\ Linked'
  BY <1>1, TreeRests DEF tree
<1>5. ParserTypeOK'
  BY <1>1, <1>2, <1>3 DEF ParserTypeOK
<1>6. LevelsAgree'
  <2>1. ASSUME NEW k \in 1..Len(states')
        PROVE  k <= Len(ref_stack) /\ (states'[k] <=> IsArray(ref_stack[k]))
    <3>1. CASE k \in 1..Len(states)
      BY <1>2, <1>3, <3>1 DEF LevelsAgree
    <3>2. CASE k = Len(states) + 1
      BY <1>2, <1>3, <3>2 DEF Last
    <3> QED BY <1>2, <1>3, <3>1, <3>2
  <2>2. IsArray(0)' = IsArray(0) /\ \A k : IsArray(k)' <=> IsArray(k)
    BY <1>1 DEF IsArray
  <2> QED BY <1>1, <1>2, <1>3, <2>1, <2>2 DEF LevelsAgree, IsArray
<1>7. Placed' /\ ElementInside'
  BY <1>1, <1>2 DEF Placed, ElementInside, AwaitsMember, IsArray
<1> QED BY <1>4, <1>5, <1>6, <1>7 DEF ParserInv, RefsAlive

\* Another element of an array.
LEMMA SeparatorKeeps == ParserInv /\ Separator => ParserInv'
<1> SUFFICES ASSUME ParserInv, Separator PROVE ParserInv'
  OBVIOUS
<1>1. /\ at \in {"first_separator", "separator"}
      /\ states' = (IF at = "separator" THEN states ELSE Append(states, FALSE))
      /\ at' = "value" /\ GetToken
      /\ UNCHANGED <<nodes, root, ref_stack, object_element>>
  BY DEF Separator, tree
<1>2. /\ ParserTypeOK /\ LevelsAgree /\ ElementInside
      /\ Len(ref_stack) = (IF at = "separator" THEN Len(states) ELSE Len(states) + 1)
      /\ states \in Seq(BOOLEAN) /\ ref_stack # <<>> /\ ~IsArray(Last(ref_stack))
      /\ Len(states) \in Nat
  BY <1>1 DEF ParserInv, RefsAlive, ParserTypeOK, Placed, LevelsAgree
<1>3. /\ states' \in Seq(BOOLEAN) /\ Len(states') = Len(ref_stack)
      /\ \A k \in 1..Len(states) : states'[k] = states[k]
      /\ at # "separator" => states'[Len(states) + 1] = FALSE
  <2>1. /\ Append(states, FALSE) \in Seq(BOOLEAN)
        /\ Len(Append(states, FALSE)) = Len(states) + 1
        /\ \A k \in 1..Len(states) : Append(states, FALSE)[k] = states[k]
        /\ Append(states, FALSE)[Len(states) + 1] = FALSE
    BY <1>2, LastOfAppend
  <2>2. CASE at = "separator"
    BY <1>1, <1>2, <2>2
  <2>3. CASE at # "separator"
    BY <1>1, <1>2, <2>1, <2>3
  <2> QED BY <2>2, <2>3
<1>4. Nested' /\ Linked'
  BY <1>1, TreeRests DEF tree
<1>5. ParserTypeOK'
  <2>1. last_token' \in Tokens /\ tokens' \in Seq(Tokens)
    BY <1>1, <1>2, GetTokenTyped
  <2> QED BY <1>1, <1>2, <1>3, <2>1 DEF ParserTypeOK
<1>6. LevelsAgree'
  <2>1. ASSUME NEW k \in 1..Len(states')
        PROVE  k <= Len(ref_stack) /\ (states'[k] <=> IsArray(ref_stack[k]))
    <3>1. CASE k \in 1..Len(states)
      BY <1>2, <1>3, <3>1 DEF LevelsAgree
    <3>2. CASE k = Len(states) + 1 /\ at # "separator"
      BY <1>2, <1>3, <3>2 DEF Last
    <3> QED BY <1>2, <1>3, <3>1, <3>2
  <2> QED BY <1>1, <1>3, <2>1 DEF LevelsAgree, IsArray
<1>7. ElementInside'
  BY <1>1, <1>2 DEF ElementInside, AwaitsMember
<1>8. Placed'
  BY <1>1 DEF Placed
<1> QED BY <1>4, <1>5, <1>6, <1>7, <1>8 DEF ParserInv, RefsAlive

\* A comma leads to an element or to a key.
LEMMA CommaKeeps == ParserInv /\ Comma => ParserInv'
<1> SUFFICES ASSUME ParserInv, Comma PROVE ParserInv'
  OBVIOUS
<1>1. /\ at = "next" /\ at' = (IF InArray THEN "value" ELSE "key") /\ GetToken
      /\ UNCHANGED <<states, nodes, root, ref_stack, object_element>>
  BY DEF Comma, tree
<1>2. /\ ParserTypeOK /\ LevelsAgree /\ Len(states) = Len(ref_stack)
      /\ states \in Seq(BOOLEAN) /\ states # <<>> /\ ref_stack \in Seq(1..Len(nodes))
  BY <1>1 DEF ParserInv, RefsAlive, ParserTypeOK, Placed, LevelsAgree
<1>3. Len(states) \in Nat /\ Len(states) > 0 /\ Len(states) \in 1..Len(states)
      /\ ref_stack # <<>>
  <2>1. Len(states) \in Nat /\ Len(states) > 0
    BY <1>2, LastFront
  <2> QED BY <1>2, <2>1
<1>4. InArray <=> IsArray(Last(ref_stack))
  BY <1>2, <1>3 DEF LevelsAgree, InArray, Last
<1>5. Nested' /\ Linked'
  BY <1>1, TreeRests DEF tree
<1>6. ParserTypeOK'
  <2>1. last_token' \in Tokens /\ tokens' \in Seq(Tokens)
    BY <1>1, <1>2, GetTokenTyped
  <2> QED BY <1>1, <1>2, <2>1 DEF ParserTypeOK
<1>7. LevelsAgree'
  BY <1>1, <1>2 DEF LevelsAgree, IsArray
<1>8. Placed' /\ ElementInside'
  BY <1>1, <1>3, <1>4 DEF Placed, ElementInside, AwaitsMember, IsArray
<1> QED BY <1>5, <1>6, <1>7, <1>8 DEF ParserInv, RefsAlive

\* The end of the text.
LEMMA EndOfTextKeeps == ParserInv /\ EndOfText => ParserInv'
<1> SUFFICES ASSUME ParserInv, EndOfText PROVE ParserInv'
  OBVIOUS
<1>1. /\ at = "end" /\ at' \in {"done", "error"}
      /\ UNCHANGED <<last_token, tokens, states, nodes, root, ref_stack,
                                   object_element>>
  BY DEF EndOfText, tree
<1>2. Nested' /\ Linked'
  BY <1>1, TreeRests DEF tree
<1>3. ParserTypeOK'
  BY <1>1 DEF ParserInv, ParserTypeOK
<1>4. LevelsAgree'
  BY <1>1 DEF ParserInv, RefsAlive, LevelsAgree, IsArray
<1>5. Placed' /\ ElementInside'
  BY <1>1 DEF ParserInv, Placed, ElementInside, AwaitsMember
<1> QED BY <1>2, <1>3, <1>4, <1>5 DEF ParserInv, RefsAlive

\* The invariant holds after every step.
LEMMA ParserInductive == ParserInv /\ [ParserNext]_parserVars => ParserInv'
<1> SUFFICES ASSUME ParserInv, [ParserNext]_parserVars PROVE ParserInv'
  OBVIOUS
<1>1. CASE NoValue \/ NoKey \/ NoSeparator \/ NotClosed
  BY <1>1, ErrorKeeps DEF NoValue, NoKey, NoSeparator, NotClosed
<1>2. CASE UNCHANGED parserVars
  <2>1. UNCHANGED <<at, last_token, tokens, states, nodes, root, ref_stack, object_element>>
    BY <1>2 DEF parserVars, parser, tree
  <2>2. ParserTypeOK'
    BY <2>1 DEF ParserInv, ParserTypeOK
  <2>3. Nested' /\ Linked'
    BY <2>1, TreeRests DEF tree
  <2>4. Placed' /\ ElementInside' /\ LevelsAgree'
    BY <2>1 DEF ParserInv, RefsAlive, Placed, ElementInside, AwaitsMember, LevelsAgree, IsArray
  <2> QED BY <2>2, <2>3, <2>4 DEF ParserInv, RefsAlive
<1> QED
  BY <1>1, <1>2, BeginStructureKeeps, ScalarKeeps, EmptyStructureKeeps, FirstElementKeeps,
     ReadKeyKeeps, SeparatorKeeps, CommaKeeps, CloseStructureKeeps, EndOfTextKeeps
  DEF ParserNext

\* The pointers in ref_stack and object_element point into the tree, each level into the
\* one below it, although the vectors they point into grow (json.hpp:5020).
THEOREM PointersStayGood == ParserSpec => []RefsAlive
<1>1. ParserInv => RefsAlive
  BY DEF ParserInv
<1> QED BY ParserInitInv, ParserInductive, <1>1, PTL DEF ParserSpec

-----------------------------------------------------------------------------
(***************************************************************************)
(* The tree is the text (JsonGrammar), by the invariant GrammarInv of      *)
(* JsonPlaces.                                                             *)
(*                                                                         *)
(* The lemmas come in this order: the grammar's recursive function exists, *)
(* and what it says of each token; what a step leaves alone; the steps one *)
(* by one; the end, where the tree is the one that the text means.         *)
(***************************************************************************)

\* A set of numbers that is not empty has a least one: were there a smaller one to
\* each, the successor would map the finite set of the numbers below all of them to
\* itself, one to one and yet without 0. The inductions below go by it.
LEMMA Least ==
  ASSUME NEW S \in SUBSET Nat, S # {}
  PROVE  \E x \in S : \A y \in S : x <= y
<1> SUFFICES ASSUME \A x \in S : \E y \in S : y < x PROVE FALSE
  OBVIOUS
<1> PICK n \in S : TRUE
  OBVIOUS
<1> DEFINE L == {x \in 0..n : \A y \in S : x < y}
<1> DEFINE next == [x \in L |-> x + 1]
<1>1. 0 \in L
  OBVIOUS
<1>2. \A x \in L : x + 1 \in L
  OBVIOUS
<1>3. IsFiniteSet(L)
  <2>1. \A s \in L : s <= n
    OBVIOUS
  <2>2. L \in SUBSET Nat
    OBVIOUS
  <2> HIDE DEF L
  <2> QED BY <2>1, <2>2, FS_BoundedSetOfNaturals
<1>4. next \in Injection(L, L)
  <2>1. next \in [L -> L]
    BY <1>2
  <2>2. \A x, y \in L : next[x] = next[y] => x = y
    OBVIOUS
  <2> HIDE DEF next, L
  <2> QED BY <2>1, <2>2 DEF Injection, IsInjective
<1>5. next \in Surjection(L, L)
  <2> HIDE DEF next, L
  <2> QED BY <1>3, <1>4, FS_Injection
<1>6. \E x \in L : next[x] = 0
  <2> HIDE DEF next, L
  <2> QED BY <1>1, <1>5 DEF Surjection
<1> QED BY <1>6

\* The items of a text from k on, with the end of each of them behind its
\* beginning.
From(k) == {n \in Nat : n >= k}

\* A result lies behind where it began, or there is none.
Further(next, n) == next \in Nat /\ (next = 0 \/ next > n)

\* The equation of the grammar's recursive function, from k on.
ItemsFrom(input, items, k) ==
  /\ items = [n \in From(k) |-> [elements |-> ElementsBy(input, items, n),
                                 members |-> MembersBy(input, items, n)]]
  /\ \A n \in From(k) : /\ Further(items[n].elements.next, n)
                        /\ Further(items[n].members.next, n)

\* The token beyond the end is none of the text's.
LEMMA NoToken ==
  /\ "none" \notin Strings \union Scalars
  /\ "none" \notin {"[", "{", "]", "}", ",", ":", "end_of_input"}
BY EndAssumption

\* Before the first and behind the last token there is none.
LEMMA NotThere ==
  ASSUME NEW input \in Seq(Tokens), NEW n \in Nat, n = 0 \/ n > Len(input)
  PROVE  Token(input, n) = "none"
BY DEF Token

\* The marks of the grammar are no strings or scalars.
LEMMA TokensDiffer ==
  /\ "[" \notin Strings \union Scalars /\ "{" \notin Strings \union Scalars
  /\ "]" \notin Strings \union Scalars /\ "}" \notin Strings \union Scalars
  /\ "," \notin Strings \union Scalars
  /\ ":" \notin Strings \union Scalars /\ "none" \notin Strings \union Scalars
  /\ "end_of_input" \notin Strings \union Scalars /\ "bad" \notin Strings \union Scalars
BY ParserAssumption, EndAssumption

\* The fields of a result.
LEMMA Fields ==
  ASSUME NEW r, NEW n, NEW m, r = [next |-> n, meaning |-> m]
  PROVE  r.next = n /\ r.meaning = m
OBVIOUS

\* The cases of ValueBy.
LEMMA ValueLeaf ==
  ASSUME NEW input, NEW items, NEW n \in Nat, Token(input, n) \in Strings \union Scalars
  PROVE  /\ ValueBy(input, items, n).next = n + 1
         /\ ValueBy(input, items, n).meaning = Meaning(Token(input, n), <<>>)
<1> DEFINE t == Token(input, n)
<1>1. t # "[" /\ t # "{"
  BY TokensDiffer
<1> HIDE DEF t
<1> DEFINE next == n + 1
<1> DEFINE meaning == Meaning(Token(input, n), <<>>)
<1>2. ValueBy(input, items, n) = [next |-> next, meaning |-> meaning]
  BY <1>1, Zenon DEF ValueBy, t
<1> HIDE DEF next, meaning
<1>3. ValueBy(input, items, n).next = next /\ ValueBy(input, items, n).meaning = meaning
  BY <1>2, Fields
<1> QED BY <1>3 DEF next, meaning

LEMMA EmptyArray ==
  ASSUME NEW input, NEW items, NEW n \in Nat,
         Token(input, n) = "[", Token(input, n + 1) = "]"
  PROVE  /\ ValueBy(input, items, n).next = n + 2
         /\ ValueBy(input, items, n).meaning = Meaning("[", <<>>)
<1>1. "[" \notin Strings \union Scalars /\ "[" # "{"
  BY TokensDiffer
<1>2. ValueBy(input, items, n) = [next |-> n + 2, meaning |-> Meaning("[", <<>>)]
  BY <1>1, Zenon DEF ValueBy
<1> DEFINE meaning == Meaning("[", <<>>)
<1> DEFINE next == n + 2
<1>3. ValueBy(input, items, n) = [next |-> next, meaning |-> meaning]
  BY <1>2
<1> HIDE DEF meaning, next
<1>4. ValueBy(input, items, n).next = next /\ ValueBy(input, items, n).meaning = meaning
  BY <1>3, Fields
<1> QED BY <1>4 DEF meaning, next

LEMMA ValueArray ==
  ASSUME NEW input, NEW items, NEW n \in Nat,
         Token(input, n) = "[", Token(input, n + 1) # "]"
  PROVE  /\ ValueBy(input, items, n).next = items[n + 1].elements.next
         /\ ValueBy(input, items, n).meaning = Meaning("[", items[n + 1].elements.meaning)
<1>1. "[" \notin Strings \union Scalars /\ "[" # "{"
  BY TokensDiffer
<1>2. ValueBy(input, items, n) = [next |-> items[n + 1].elements.next,
                                meaning |-> Meaning("[", items[n + 1].elements.meaning)]
  BY <1>1, Zenon DEF ValueBy
<1> DEFINE meaning == Meaning("[", items[n + 1].elements.meaning)
<1> DEFINE next == items[n + 1].elements.next
<1>3. ValueBy(input, items, n) = [next |-> next, meaning |-> meaning]
  BY <1>2
<1> HIDE DEF meaning, next
<1>4. ValueBy(input, items, n).next = next /\ ValueBy(input, items, n).meaning = meaning
  BY <1>3, Fields
<1> QED BY <1>4 DEF meaning, next

LEMMA EmptyObject ==
  ASSUME NEW input, NEW items, NEW n \in Nat,
         Token(input, n) = "{", Token(input, n + 1) = "}"
  PROVE  /\ ValueBy(input, items, n).next = n + 2
         /\ ValueBy(input, items, n).meaning = Meaning("{", {})
<1>1. "{" \notin Strings \union Scalars /\ "[" # "{"
  BY TokensDiffer
<1>2. ValueBy(input, items, n) = [next |-> n + 2, meaning |-> Meaning("{", {})]
  BY <1>1, Zenon DEF ValueBy
<1> DEFINE meaning == Meaning("{", {})
<1> DEFINE next == n + 2
<1>3. ValueBy(input, items, n) = [next |-> next, meaning |-> meaning]
  BY <1>2
<1> HIDE DEF meaning, next
<1>4. ValueBy(input, items, n).next = next /\ ValueBy(input, items, n).meaning = meaning
  BY <1>3, Fields
<1> QED BY <1>4 DEF meaning, next

LEMMA ValueObject ==
  ASSUME NEW input, NEW items, NEW n \in Nat,
         Token(input, n) = "{", Token(input, n + 1) # "}"
  PROVE  /\ ValueBy(input, items, n).next = items[n + 1].members.next
         /\ ValueBy(input, items, n).meaning = Meaning("{", items[n + 1].members.meaning)
<1>1. "{" \notin Strings \union Scalars /\ "[" # "{"
  BY TokensDiffer
<1>2. ValueBy(input, items, n) = [next |-> items[n + 1].members.next,
                                meaning |-> Meaning("{", items[n + 1].members.meaning)]
  BY <1>1, Zenon DEF ValueBy
<1> DEFINE meaning == Meaning("{", items[n + 1].members.meaning)
<1> DEFINE next == items[n + 1].members.next
<1>3. ValueBy(input, items, n) = [next |-> next, meaning |-> meaning]
  BY <1>2
<1> HIDE DEF meaning, next
<1>4. ValueBy(input, items, n).next = next /\ ValueBy(input, items, n).meaning = meaning
  BY <1>3, Fields
<1> QED BY <1>4 DEF meaning, next

LEMMA NoValueThere ==
  ASSUME NEW input, NEW items, NEW n \in Nat,
         Token(input, n) \notin Strings \union Scalars \union {"[", "{"}
  PROVE  ValueBy(input, items, n) = Failed(<<>>)
<1>1. /\ Token(input, n) \notin Strings \union Scalars
      /\ Token(input, n) # "[" /\ Token(input, n) # "{"
  OBVIOUS
<1> QED BY <1>1, Zenon DEF ValueBy

\* The cases of ElementsBy.
LEMMA ElementsLast ==
  ASSUME NEW input, NEW items, NEW n \in Nat,
         Token(input, ValueBy(input, items, n).next) = "]"
  PROVE  /\ ElementsBy(input, items, n) =
              [next |-> ValueBy(input, items, n).next + 1,
               meaning |-> <<ValueBy(input, items, n).meaning>>]
         /\ ElementsBy(input, items, n).next = ValueBy(input, items, n).next + 1
         /\ ElementsBy(input, items, n).meaning = <<ValueBy(input, items, n).meaning>>
<1>1. "]" # ","
  OBVIOUS
<1> DEFINE next == ValueBy(input, items, n).next + 1
<1> DEFINE meaning == <<ValueBy(input, items, n).meaning>>
<1>2. ElementsBy(input, items, n) = [next |-> next, meaning |-> meaning]
  BY <1>1, Zenon DEF ElementsBy
<1> HIDE DEF next, meaning
<1>3. ElementsBy(input, items, n).next = next /\ ElementsBy(input, items, n).meaning = meaning
  BY <1>2, Fields
<1> QED BY <1>2, <1>3 DEF next, meaning

LEMMA ElementsMore ==
  ASSUME NEW input, NEW items, NEW n \in Nat,
         Token(input, ValueBy(input, items, n).next) = ","
  PROVE  /\ ElementsBy(input, items, n) =
              [next |-> items[ValueBy(input, items, n).next + 1].elements.next,
               meaning |-> <<ValueBy(input, items, n).meaning>> \o
                             items[ValueBy(input, items, n).next + 1].elements.meaning]
         /\ ElementsBy(input, items, n).next =
              items[ValueBy(input, items, n).next + 1].elements.next
         /\ ElementsBy(input, items, n).meaning =
              <<ValueBy(input, items, n).meaning>> \o
                items[ValueBy(input, items, n).next + 1].elements.meaning
<1>1. "]" # ","
  OBVIOUS
<1> DEFINE next == items[ValueBy(input, items, n).next + 1].elements.next
<1> DEFINE meaning == <<ValueBy(input, items, n).meaning>> \o
                        items[ValueBy(input, items, n).next + 1].elements.meaning
<1>2. ElementsBy(input, items, n) = [next |-> next, meaning |-> meaning]
  BY <1>1, Zenon DEF ElementsBy
<1> HIDE DEF next, meaning
<1>3. ElementsBy(input, items, n).next = next /\ ElementsBy(input, items, n).meaning = meaning
  BY <1>2, Fields
<1> QED BY <1>2, <1>3 DEF next, meaning

LEMMA NoElements ==
  ASSUME NEW input, NEW items, NEW n \in Nat,
         Token(input, ValueBy(input, items, n).next) \notin {"]", ","}
  PROVE  ElementsBy(input, items, n) = Failed(<<>>)
<1>1. /\ Token(input, ValueBy(input, items, n).next) # "]"
      /\ Token(input, ValueBy(input, items, n).next) # ","
  OBVIOUS
<1> QED BY <1>1, Zenon DEF ElementsBy

\* The cases of MembersBy.
LEMMA MembersLast ==
  ASSUME NEW input, NEW items, NEW n \in Nat,
         Token(input, n) \in Strings, Token(input, n + 1) = ":",
         Token(input, ValueBy(input, items, n + 2).next) = "}"
  PROVE  /\ MembersBy(input, items, n) =
              [next |-> ValueBy(input, items, n + 2).next + 1,
               meaning |-> {<<Token(input, n), ValueBy(input, items, n + 2).meaning>>}]
         /\ MembersBy(input, items, n).next = ValueBy(input, items, n + 2).next + 1
         /\ MembersBy(input, items, n).meaning =
              {<<Token(input, n), ValueBy(input, items, n + 2).meaning>>}
<1>1. "}" # ","
  OBVIOUS
<1> DEFINE next == ValueBy(input, items, n + 2).next + 1
<1> DEFINE meaning == {<<Token(input, n), ValueBy(input, items, n + 2).meaning>>}
<1>2. MembersBy(input, items, n) = [next |-> next, meaning |-> meaning]
  BY <1>1, Zenon DEF MembersBy
<1> HIDE DEF next, meaning
<1>3. MembersBy(input, items, n).next = next /\ MembersBy(input, items, n).meaning = meaning
  BY <1>2, Fields
<1> QED BY <1>2, <1>3 DEF next, meaning

LEMMA MembersMore ==
  ASSUME NEW input, NEW items, NEW n \in Nat,
         Token(input, n) \in Strings, Token(input, n + 1) = ":",
         Token(input, ValueBy(input, items, n + 2).next) = ","
  PROVE  /\ MembersBy(input, items, n) =
              [next |-> items[ValueBy(input, items, n + 2).next + 1].members.next,
               meaning |-> Joined(Token(input, n), ValueBy(input, items, n + 2).meaning,
                                  items[ValueBy(input, items, n + 2).next + 1].members.meaning)]
         /\ MembersBy(input, items, n).next =
              items[ValueBy(input, items, n + 2).next + 1].members.next
         /\ MembersBy(input, items, n).meaning =
              Joined(Token(input, n), ValueBy(input, items, n + 2).meaning,
                     items[ValueBy(input, items, n + 2).next + 1].members.meaning)
<1>1. "}" # ","
  OBVIOUS
<1> DEFINE next == items[ValueBy(input, items, n + 2).next + 1].members.next
<1> DEFINE meaning == Joined(Token(input, n), ValueBy(input, items, n + 2).meaning,
                            items[ValueBy(input, items, n + 2).next + 1].members.meaning)
<1>2. MembersBy(input, items, n) = [next |-> next, meaning |-> meaning]
  BY <1>1, Zenon DEF MembersBy
<1> HIDE DEF next, meaning
<1>3. MembersBy(input, items, n).next = next /\ MembersBy(input, items, n).meaning = meaning
  BY <1>2, Fields
<1> QED BY <1>2, <1>3 DEF next, meaning

LEMMA NoMembers ==
  ASSUME NEW input, NEW items, NEW n \in Nat,
         \/ Token(input, n) \notin Strings
         \/ Token(input, n + 1) # ":"
         \/ Token(input, ValueBy(input, items, n + 2).next) \notin {"}", ","}
  PROVE  MembersBy(input, items, n) = Failed({})
<1>1. CASE Token(input, n) \notin Strings \/ Token(input, n + 1) # ":"
  BY <1>1, Zenon DEF MembersBy
<1>2. CASE /\ Token(input, n) \in Strings /\ Token(input, n + 1) = ":"
           /\ Token(input, ValueBy(input, items, n + 2).next) \notin {"}", ","}
  <2>1. /\ Token(input, ValueBy(input, items, n + 2).next) # "}"
        /\ Token(input, ValueBy(input, items, n + 2).next) # ","
    BY <1>2
  <2> QED BY <1>2, <2>1, Zenon DEF MembersBy
<1> QED BY <1>1, <1>2

\* What fails ends nowhere.
LEMMA FailedNext == \A m : Failed(m).next = 0
BY DEF Failed

\* A value ends behind its beginning if the elements and members behind it do.
LEMMA ValueFurther ==
  ASSUME NEW input, NEW items, NEW n \in Nat,
         Further(items[n + 1].elements.next, n + 1), Further(items[n + 1].members.next, n + 1)
  PROVE  Further(ValueBy(input, items, n).next, n)
<1>1. CASE Token(input, n) \in Strings \union Scalars
  BY <1>1, ValueLeaf DEF Further
<1>2. CASE Token(input, n) = "["
  <2>1. CASE Token(input, n + 1) = "]"
    BY <1>2, <2>1, EmptyArray DEF Further
  <2>2. CASE Token(input, n + 1) # "]"
    <3>1. ValueBy(input, items, n).next = items[n + 1].elements.next
      BY <1>2, <2>2, ValueArray
    <3> QED BY <3>1 DEF Further
  <2> QED BY <2>1, <2>2
<1>3. CASE Token(input, n) = "{"
  <2>1. CASE Token(input, n + 1) = "}"
    <3>1. ValueBy(input, items, n).next = n + 2
      BY <1>3, <2>1, EmptyObject
    <3> QED BY <3>1 DEF Further
  <2>2. CASE Token(input, n + 1) # "}"
    <3>1. ValueBy(input, items, n).next = items[n + 1].members.next
      BY <1>3, <2>2, ValueObject
    <3> QED BY <3>1 DEF Further
  <2> QED BY <2>1, <2>2
<1>4. CASE Token(input, n) \notin Strings \union Scalars \union {"[", "{"}
  <2>1. ValueBy(input, items, n) = Failed(<<>>)
    BY <1>4, NoValueThere
  <2> QED BY <2>1, FailedNext DEF Further
<1> QED BY <1>1, <1>2, <1>3, <1>4

\* Nothing comes out of the position of what failed.
LEMMA NothingAtZero ==
  ASSUME NEW input \in Seq(Tokens)
  PROVE  Token(input, 0) = "none"
BY DEF Token

\* So do the elements and members at n if those behind n do.
LEMMA ItemsFurther ==
  ASSUME NEW input \in Seq(Tokens), NEW items, NEW k \in Nat,
         \A n \in From(k) : /\ Further(items[n].elements.next, n)
                            /\ Further(items[n].members.next, n),
         NEW n \in Nat, n + 1 >= k
  PROVE  /\ Further(ElementsBy(input, items, n).next, n)
         /\ Further(MembersBy(input, items, n).next, n)
<1> DEFINE v == ValueBy(input, items, n).next
           w == ValueBy(input, items, n + 2).next
<1>1. n + 1 \in From(k) /\ n + 3 \in From(k) /\ n + 2 \in Nat /\ (n + 2) + 1 = n + 3
  BY DEF From
<1>2. Further(v, n) /\ Further(w, n + 2)
  BY <1>1, ValueFurther
<1>3. \A m \in Nat : m > n => m + 1 \in From(k)
  BY DEF From
<1> HIDE DEF v, w
<1>4. Further(ElementsBy(input, items, n).next, n)
  <2>1. CASE Token(input, v) = "]"
    <3>1. ElementsBy(input, items, n).next = v + 1
      BY <2>1, ElementsLast DEF v
    <3>2. v # 0
      BY <2>1, NothingAtZero
    <3> QED BY <1>2, <3>1, <3>2 DEF Further
  <2>2. CASE Token(input, v) = ","
    <3>1. ElementsBy(input, items, n).next = items[v + 1].elements.next
      BY <2>2, ElementsMore DEF v
    <3>2. v # 0
      BY <2>2, NothingAtZero
    <3>3. v \in Nat /\ v > n
      BY <1>2, <3>2 DEF Further
    <3>4. Further(items[v + 1].elements.next, v + 1)
      BY <1>3, <3>3
    <3> QED BY <3>1, <3>3, <3>4 DEF Further
  <2>3. CASE Token(input, v) \notin {"]", ","}
    <3>1. ElementsBy(input, items, n) = Failed(<<>>)
      BY <2>3, NoElements DEF v
    <3> QED BY <3>1, FailedNext DEF Further
  <2> QED BY <2>1, <2>2, <2>3
<1>5. Further(MembersBy(input, items, n).next, n)
  <2>1. CASE \/ Token(input, n) \notin Strings \/ Token(input, n + 1) # ":"
             \/ Token(input, w) \notin {"}", ","}
    <3>1. MembersBy(input, items, n) = Failed({})
      BY <2>1, NoMembers DEF w
    <3> QED BY <3>1, FailedNext DEF Further
  <2>2. CASE /\ Token(input, n) \in Strings /\ Token(input, n + 1) = ":"
             /\ Token(input, w) = "}"
    <3>1. MembersBy(input, items, n).next = w + 1
      BY <2>2, MembersLast DEF w
    <3>2. w # 0
      BY <2>2, NothingAtZero
    <3> QED BY <1>2, <3>1, <3>2 DEF Further
  <2>3. CASE /\ Token(input, n) \in Strings /\ Token(input, n + 1) = ":"
             /\ Token(input, w) = ","
    <3>1. MembersBy(input, items, n).next = items[w + 1].members.next
      BY <2>3, MembersMore DEF w
    <3>2. w # 0
      BY <2>3, NothingAtZero
    <3>3. w \in Nat /\ w > n
      BY <1>2, <3>2 DEF Further
    <3>4. Further(items[w + 1].members.next, w + 1)
      BY <1>3, <3>3
    <3> QED BY <3>1, <3>3, <3>4 DEF Further
  <2> QED BY <2>1, <2>2, <2>3
<1> QED BY <1>4, <1>5

\* What begins at n depends on the items behind n only.
LEMMA SameValue ==
  ASSUME NEW input, NEW f, NEW g, NEW n \in Nat, f[n + 1] = g[n + 1]
  PROVE  ValueBy(input, f, n) = ValueBy(input, g, n)
BY Zenon DEF ValueBy

\* What begins at n depends on the items from k on, if n is the last before k.
LEMMA SameItems ==
  ASSUME NEW input \in Seq(Tokens), NEW f, NEW g, NEW k \in Nat,
         \A n \in From(k) : /\ Further(f[n].elements.next, n)
                            /\ Further(f[n].members.next, n)
                            /\ f[n] = g[n],
         NEW n \in Nat, n + 1 >= k
  PROVE  /\ ElementsBy(input, f, n) = ElementsBy(input, g, n)
         /\ MembersBy(input, f, n) = MembersBy(input, g, n)
<1> DEFINE v == ValueBy(input, f, n)
           w == ValueBy(input, f, n + 2)
<1>1. n + 1 \in From(k) /\ n + 3 \in From(k) /\ n + 2 \in Nat /\ (n + 2) + 1 = n + 3
  BY DEF From
<1>2. Further(v.next, n) /\ Further(w.next, n + 2)
  BY <1>1, ValueFurther
<1>3. ValueBy(input, g, n) = v /\ ValueBy(input, g, n + 2) = w
  <2>1. f[n + 1] = g[n + 1] /\ f[(n + 2) + 1] = g[(n + 2) + 1]
    BY <1>1
  <2>2. ValueBy(input, f, n + 2) = ValueBy(input, g, n + 2)
    BY <1>1, <2>1, SameValue
  <2> QED BY <2>1, <2>2, SameValue
<1>4. \A m \in Nat : m > n => f[m + 1] = g[m + 1]
  BY DEF From
<1> HIDE DEF v, w
<1>5. ElementsBy(input, f, n) = ElementsBy(input, g, n)
  <2>1. CASE Token(input, v.next) = "]"
    BY <1>3, <2>1, ElementsLast DEF v
  <2>2. CASE Token(input, v.next) = ","
    <3>1. v.next # 0
      BY <2>2, NothingAtZero
    <3>2. f[v.next + 1] = g[v.next + 1]
      BY <1>2, <1>4, <3>1 DEF Further
    <3>3. ElementsBy(input, f, n) =
            [next |-> f[v.next + 1].elements.next,
             meaning |-> << v.meaning >> \o f[v.next + 1].elements.meaning]
      BY <2>2, ElementsMore DEF v
    <3>4. ElementsBy(input, g, n) =
            [next |-> g[v.next + 1].elements.next,
             meaning |-> << v.meaning >> \o g[v.next + 1].elements.meaning]
      BY <1>3, <2>2, ElementsMore
    <3> QED BY <3>2, <3>3, <3>4
  <2>3. CASE Token(input, v.next) \notin {"]", ","}
    BY <1>3, <2>3, NoElements DEF v
  <2> QED BY <2>1, <2>2, <2>3
<1>6. MembersBy(input, f, n) = MembersBy(input, g, n)
  <2>1. CASE \/ Token(input, n) \notin Strings \/ Token(input, n + 1) # ":"
             \/ Token(input, w.next) \notin {"}", ","}
    <3>1. MembersBy(input, f, n) = Failed({})
      BY <2>1, NoMembers DEF w
    <3>2. MembersBy(input, g, n) = Failed({})
      BY <1>3, <2>1, NoMembers
    <3> QED BY <3>1, <3>2
  <2>2. CASE /\ Token(input, n) \in Strings /\ Token(input, n + 1) = ":"
             /\ Token(input, w.next) = "}"
    <3>1. MembersBy(input, f, n) =
            [next |-> w.next + 1, meaning |-> {<<Token(input, n), w.meaning>>}]
      BY <2>2, MembersLast DEF w
    <3>2. MembersBy(input, g, n) =
            [next |-> w.next + 1, meaning |-> {<<Token(input, n), w.meaning>>}]
      BY <1>3, <2>2, MembersLast
    <3> QED BY <3>1, <3>2
  <2>3. CASE /\ Token(input, n) \in Strings /\ Token(input, n + 1) = ":"
             /\ Token(input, w.next) = ","
    <3>1. w.next # 0
      BY <2>3, NothingAtZero
    <3>2. w.next \in Nat /\ w.next > n
      BY <1>2, <3>1 DEF Further
    <3>3. f[w.next + 1] = g[w.next + 1]
      BY <1>4, <3>2
    <3>4. MembersBy(input, f, n) =
            [next |-> f[w.next + 1].members.next,
             meaning |-> Joined(Token(input, n), w.meaning, f[w.next + 1].members.meaning)]
      BY <2>3, MembersMore DEF w
    <3>5. MembersBy(input, g, n) =
            [next |-> g[w.next + 1].members.next,
             meaning |-> Joined(Token(input, n), w.meaning, g[w.next + 1].members.meaning)]
      BY <1>3, <2>3, MembersMore
    <3> QED BY <3>3, <3>4, <3>5
  <2> QED BY <2>1, <2>2, <2>3
<1> QED BY <1>5, <1>6

\* Beyond the end of a text the equation of the grammar has a solution.
LEMMA ItemsAtEnd ==
  ASSUME NEW input \in Seq(Tokens)
  PROVE  \E items : ItemsFrom(input, items, Len(input) + 1)
<1> DEFINE k == Len(input) + 1
           nothing == [elements |-> Failed(<<>>), members |-> Failed({})]
           items == [n \in From(k) |-> nothing]
<1>1. k \in Nat
  OBVIOUS
<1>2. ASSUME NEW n \in From(k)
      PROVE  ElementsBy(input, items, n) = Failed(<<>>) /\ MembersBy(input, items, n) = Failed({})
  <2>1. n \in Nat /\ Token(input, n) = "none"
    BY <1>2, NotThere DEF From
  <2>2. "none" \notin Strings \union Scalars \union {"[", "{"} /\ "none" \notin {"]", ","}
    BY NoToken
  <2>3. ValueBy(input, items, n) = Failed(<<>>)
    BY <2>1, <2>2, NoValueThere
  <2>4. Token(input, ValueBy(input, items, n).next) \notin {"]", ","}
    BY <2>2, <2>3, FailedNext, NothingAtZero
  <2> QED BY <2>1, <2>2, <2>4, NoElements, NoMembers
<1>3. \A n \in From(k) : items[n].elements = Failed(<<>>) /\ items[n].members = Failed({})
  OBVIOUS
<1>4. items = [n \in From(k) |-> [elements |-> ElementsBy(input, items, n),
                                 members |-> MembersBy(input, items, n)]]
  <2> HIDE DEF k
  <2>1. \A n \in From(k) : items[n] = [elements |-> ElementsBy(input, items, n),
                                      members |-> MembersBy(input, items, n)]
    BY <1>2
  <2>2. items = [n \in From(k) |-> items[n]]
    OBVIOUS
  <2> HIDE DEF items
  <2> QED BY <2>1, <2>2
<1>5. \A n \in From(k) : /\ Further(items[n].elements.next, n)
                         /\ Further(items[n].members.next, n)
  BY <1>3, FailedNext DEF Further
<1> HIDE DEF items
<1> QED BY <1>4, <1>5 DEF ItemsFrom

\* A solution from k on makes one from k - 1 on.
LEMMA ItemsBefore ==
  ASSUME NEW input \in Seq(Tokens), NEW k \in Nat \ {0}, NEW f, ItemsFrom(input, f, k)
  PROVE  \E items : ItemsFrom(input, items, k - 1)
<1> DEFINE Made(n) == [elements |-> ElementsBy(input, f, n), members |-> MembersBy(input, f, n)]
           items == [n \in From(k - 1) |-> Made(n)]
<1>1. \A n \in From(k) : f[n] = Made(n)
  BY Zenon DEF ItemsFrom
<1>2. \A n \in From(k) : /\ Further(f[n].elements.next, n)
                         /\ Further(f[n].members.next, n)
  BY DEF ItemsFrom
<1>3. \A n \in From(k) : n \in From(k - 1)
  BY DEF From
<1>4. \A n \in From(k) : f[n] = items[n]
  BY <1>1, <1>3
<1>5. \A n \in From(k - 1) : n \in Nat /\ n + 1 >= k
  BY DEF From
<1> HIDE DEF items
<1>6. \A n \in From(k - 1) : /\ ElementsBy(input, items, n) = ElementsBy(input, f, n)
                             /\ MembersBy(input, items, n) = MembersBy(input, f, n)
  <2> SUFFICES ASSUME NEW n \in From(k - 1)
               PROVE  /\ ElementsBy(input, items, n) = ElementsBy(input, f, n)
                      /\ MembersBy(input, items, n) = MembersBy(input, f, n)
    OBVIOUS
  <2>1. n \in Nat /\ n + 1 >= k
    BY <1>5
  <2>2. \A m \in From(k) : /\ Further(f[m].elements.next, m)
                           /\ Further(f[m].members.next, m)
                           /\ f[m] = items[m]
    BY <1>2, <1>4
  <2>3. /\ ElementsBy(input, f, n) = ElementsBy(input, items, n)
        /\ MembersBy(input, f, n) = MembersBy(input, items, n)
    BY <2>1, <2>2, SameItems
  <2> QED BY <2>3
<1>7. \A n \in From(k - 1) : items[n] = [elements |-> ElementsBy(input, items, n),
                                        members |-> MembersBy(input, items, n)]
  BY <1>6 DEF items
<1>8. items = [n \in From(k - 1) |-> [elements |-> ElementsBy(input, items, n),
                                     members |-> MembersBy(input, items, n)]]
  <2>1. items = [n \in From(k - 1) |-> items[n]]
    BY DEF items
  <2> QED BY <1>7, <2>1
<1>9. \A n \in From(k - 1) : /\ Further(items[n].elements.next, n)
                             /\ Further(items[n].members.next, n)
  <2>1. \A n \in From(k - 1) : /\ items[n].elements = ElementsBy(input, f, n)
                               /\ items[n].members = MembersBy(input, f, n)
    BY DEF items
  <2>2. \A n \in From(k - 1) : /\ Further(ElementsBy(input, f, n).next, n)
                               /\ Further(MembersBy(input, f, n).next, n)
    BY <1>2, <1>5, ItemsFurther
  <2> QED BY <2>1, <2>2
<1> QED BY <1>8, <1>9 DEF ItemsFrom

\* So there is one from 0 on: the least k that has a solution is 0.
LEMMA ItemsExist ==
  ASSUME NEW input \in Seq(Tokens)
  PROVE  \E items : ItemsFrom(input, items, 0)
<1> DEFINE S == {k \in Nat : \E items : ItemsFrom(input, items, k)}
<1>1. S # {}
  <2>1. Len(input) + 1 \in S
    BY ItemsAtEnd
  <2> QED BY <2>1
<1>2. PICK k \in S : \A m \in S : k <= m
  <2> HIDE DEF S
  <2>1. S \in SUBSET Nat
    BY DEF S
  <2> QED BY <1>1, <2>1, Least
<1>3. CASE k = 0
  BY <1>2, <1>3
<1>4. CASE k # 0
  <2>1. k \in Nat \ {0} /\ k - 1 \in Nat
    BY <1>4
  <2>2. \E items : ItemsFrom(input, items, k - 1)
    BY <2>1, ItemsBefore
  <2>3. k - 1 \in S
    BY <2>1, <2>2
  <2> QED BY <1>2, <2>1, <2>3
<1> QED BY <1>3, <1>4

\* The recursive function that the grammar is exists: it is what its equation says.
LEMMA ItemsAre ==
  ASSUME NEW input \in Seq(Tokens), NEW n \in Nat
  PROVE  /\ Items(input)[n].elements = ElementsBy(input, Items(input), n)
         /\ Items(input)[n].members = MembersBy(input, Items(input), n)
<1> DEFINE Is(items) == items = [m \in Nat |-> [elements |-> ElementsBy(input, items, m),
                                               members |-> MembersBy(input, items, m)]]
<1>1. \E items : Is(items)
  <2>1. From(0) = Nat
    BY DEF From
  <2> QED BY <2>1, ItemsExist DEF ItemsFrom
<1>2. Items(input) = CHOOSE items : Is(items)
  BY Zenon DEF Items
<1>3. Is(Items(input))
  <2> HIDE DEF Is
  <2> QED BY <1>1, <1>2
<1>4. Items(input)[n] = [elements |-> ElementsBy(input, Items(input), n),
                       members |-> MembersBy(input, Items(input), n)]
  BY <1>3
<1> QED BY <1>4

\* What fails ends nowhere and has the meaning it failed with.
LEMMA FailedFields == \A m : Failed(m).next = 0 /\ Failed(m).meaning = m
BY DEF Failed

\* The grammar read off: what a value, elements and members are.
LEMMA LeafValue ==
  ASSUME NEW input \in Seq(Tokens), NEW n \in Nat, Token(input, n) \in Strings \union Scalars
  PROVE  /\ Value(input, n).next = n + 1
         /\ Value(input, n).meaning = Meaning(Token(input, n), <<>>)
BY ValueLeaf DEF Value

LEMMA EmptyArrayValue ==
  ASSUME NEW input \in Seq(Tokens), NEW n \in Nat,
         Token(input, n) = "[", Token(input, n + 1) = "]"
  PROVE  /\ Value(input, n).next = n + 2
         /\ Value(input, n).meaning = Meaning("[", <<>>)
BY EmptyArray DEF Value

LEMMA ArrayValue ==
  ASSUME NEW input \in Seq(Tokens), NEW n \in Nat,
         Token(input, n) = "[", Token(input, n + 1) # "]"
  PROVE  /\ Value(input, n).next = Elements(input, n + 1).next
         /\ Value(input, n).meaning = Meaning("[", Elements(input, n + 1).meaning)
BY ValueArray DEF Value, Elements

LEMMA EmptyObjectValue ==
  ASSUME NEW input \in Seq(Tokens), NEW n \in Nat,
         Token(input, n) = "{", Token(input, n + 1) = "}"
  PROVE  /\ Value(input, n).next = n + 2
         /\ Value(input, n).meaning = Meaning("{", {})
BY EmptyObject DEF Value

LEMMA ObjectValue ==
  ASSUME NEW input \in Seq(Tokens), NEW n \in Nat,
         Token(input, n) = "{", Token(input, n + 1) # "}"
  PROVE  /\ Value(input, n).next = Members(input, n + 1).next
         /\ Value(input, n).meaning = Meaning("{", Members(input, n + 1).meaning)
BY ValueObject DEF Value, Members

LEMMA NoValueHere ==
  ASSUME NEW input \in Seq(Tokens), NEW n \in Nat,
         Token(input, n) \notin Strings \union Scalars \union {"[", "{"}
  PROVE  Value(input, n).next = 0
BY NoValueThere, FailedNext DEF Value

LEMMA LastElement ==
  ASSUME NEW input \in Seq(Tokens), NEW n \in Nat, Token(input, Value(input, n).next) = "]"
  PROVE  /\ Elements(input, n).next = Value(input, n).next + 1
         /\ Elements(input, n).meaning = << Value(input, n).meaning >>
<1>1. Token(input, ValueBy(input, Items(input), n).next) = "]"
  BY DEF Value
<1> QED BY <1>1, ElementsLast, ItemsAre DEF Value, Elements

LEMMA NextElement ==
  ASSUME NEW input \in Seq(Tokens), NEW n \in Nat, Token(input, Value(input, n).next) = ","
  PROVE  /\ Elements(input, n).next = Elements(input, Value(input, n).next + 1).next
         /\ Elements(input, n).meaning =
              << Value(input, n).meaning >> \o Elements(input, Value(input, n).next + 1).meaning
<1>1. Token(input, ValueBy(input, Items(input), n).next) = ","
  BY DEF Value
<1> QED BY <1>1, ElementsMore, ItemsAre DEF Value, Elements

LEMMA NoElement ==
  ASSUME NEW input \in Seq(Tokens), NEW n \in Nat,
         Token(input, Value(input, n).next) \notin {"]", ","}
  PROVE  Elements(input, n).next = 0 /\ Elements(input, n).meaning = <<>>
<1>1. Token(input, ValueBy(input, Items(input), n).next) \notin {"]", ","}
  BY DEF Value
<1>2. Elements(input, n) = Failed(<<>>)
  BY <1>1, NoElements, ItemsAre DEF Elements
<1> QED BY <1>2, FailedFields

LEMMA LastMember ==
  ASSUME NEW input \in Seq(Tokens), NEW n \in Nat,
         Token(input, n) \in Strings, Token(input, n + 1) = ":",
         Token(input, Value(input, n + 2).next) = "}"
  PROVE  /\ Members(input, n).next = Value(input, n + 2).next + 1
         /\ Members(input, n).meaning = {<<Token(input, n), Value(input, n + 2).meaning>>}
<1>1. Token(input, ValueBy(input, Items(input), n + 2).next) = "}"
  BY DEF Value
<1>2. Members(input, n) = MembersBy(input, Items(input), n)
  BY ItemsAre DEF Members
<1>3. /\ MembersBy(input, Items(input), n).next = ValueBy(input, Items(input), n + 2).next + 1
      /\ MembersBy(input, Items(input), n).meaning =
           {<<Token(input, n), ValueBy(input, Items(input), n + 2).meaning>>}
  BY <1>1, MembersLast
<1> QED BY <1>2, <1>3 DEF Value

LEMMA NextMember ==
  ASSUME NEW input \in Seq(Tokens), NEW n \in Nat,
         Token(input, n) \in Strings, Token(input, n + 1) = ":",
         Token(input, Value(input, n + 2).next) = ","
  PROVE  /\ Members(input, n).next = Members(input, Value(input, n + 2).next + 1).next
         /\ Members(input, n).meaning =
              Joined(Token(input, n), Value(input, n + 2).meaning,
                     Members(input, Value(input, n + 2).next + 1).meaning)
<1>1. Token(input, ValueBy(input, Items(input), n + 2).next) = ","
  BY DEF Value
<1> QED BY <1>1, MembersMore, ItemsAre DEF Value, Members

LEMMA NoMember ==
  ASSUME NEW input \in Seq(Tokens), NEW n \in Nat,
         \/ Token(input, n) \notin Strings
         \/ Token(input, n + 1) # ":"
         \/ Token(input, Value(input, n + 2).next) \notin {"}", ","}
  PROVE  Members(input, n).next = 0
<1>1. \/ Token(input, n) \notin Strings
      \/ Token(input, n + 1) # ":"
      \/ Token(input, ValueBy(input, Items(input), n + 2).next) \notin {"}", ","}
  BY DEF Value
<1>2. Members(input, n) = Failed({})
  BY <1>1, NoMembers, ItemsAre DEF Members
<1> QED BY <1>2, FailedNext

\* What is there ends behind its beginning.
LEMMA ItemsEnd ==
  ASSUME NEW input \in Seq(Tokens)
  PROVE  \A n \in Nat : Further(Elements(input, n).next, n) /\ Further(Members(input, n).next, n)
<1> DEFINE items == Items(input)
           S == {k \in Nat : \A n \in From(k) : /\ Further(items[n].elements.next, n)
                                               /\ Further(items[n].members.next, n)}
<1>1. \A n \in Nat : /\ items[n].elements = ElementsBy(input, items, n)
                     /\ items[n].members = MembersBy(input, items, n)
  BY ItemsAre
<1> HIDE DEF items
<1>2. Len(input) + 1 \in S
  <2> SUFFICES ASSUME NEW n \in From(Len(input) + 1)
               PROVE  /\ Further(items[n].elements.next, n)
                      /\ Further(items[n].members.next, n)
    OBVIOUS
  <2>1. n \in Nat /\ Token(input, n) = "none"
    BY NotThere DEF From
  <2>2. ValueBy(input, items, n) = Failed(<<>>)
    BY <2>1, NoToken, NoValueThere
  <2>3. Token(input, ValueBy(input, items, n).next) \notin {"]", ","}
    BY <2>2, FailedNext, NothingAtZero, NoToken
  <2>4. ElementsBy(input, items, n) = Failed(<<>>)
    BY <2>1, <2>3, NoElements
  <2>5. MembersBy(input, items, n) = Failed({})
    BY <2>1, NoToken, NoMembers
  <2> QED BY <1>1, <2>1, <2>4, <2>5, FailedNext DEF Further
<1>3. PICK k \in S : \A m \in S : k <= m
  <2> HIDE DEF S
  <2>1. S \in SUBSET Nat
    BY DEF S
  <2> QED BY <1>2, <2>1, Least
<1>4. CASE k = 0
  <2>1. From(0) = Nat
    BY DEF From
  <2> QED BY <1>3, <1>4, <2>1 DEF Elements, Members, items
<1>5. CASE k # 0
  <2>1. k - 1 \in Nat /\ k \in Nat /\ (k - 1) + 1 >= k
    BY <1>5
  <2>2. /\ Further(ElementsBy(input, items, k - 1).next, k - 1)
        /\ Further(MembersBy(input, items, k - 1).next, k - 1)
    BY <2>1, ItemsFurther
  <2>3. \A n \in From(k - 1) : n \in From(k) \/ n = k - 1
    BY <2>1 DEF From
  <2>4. k - 1 \in S
    BY <1>1, <2>1, <2>2, <2>3
  <2> QED BY <1>3, <2>1, <2>4
<1> QED BY <1>4, <1>5

LEMMA ValueEnds ==
  ASSUME NEW input \in Seq(Tokens), NEW n \in Nat
  PROVE  Further(Value(input, n).next, n)
<1>1. /\ Further(Items(input)[n + 1].elements.next, n + 1)
      /\ Further(Items(input)[n + 1].members.next, n + 1)
  BY ItemsEnd DEF Elements, Members
<1> QED BY <1>1, ValueFurther DEF Value

\* Elements mean a sequence.
Meanings(input) == {Value(input, n).meaning : n \in Nat}

LEMMA ElementsAreSequence ==
  ASSUME NEW input \in Seq(Tokens)
  PROVE  \A n \in Nat : Elements(input, n).meaning \in Seq(Meanings(input))
<1> DEFINE M == Meanings(input)
           S == {k \in Nat : \A n \in From(k) : Elements(input, n).meaning \in Seq(M)}
<1>1. \A n \in Nat : Value(input, n).meaning \in M
  BY DEF Meanings
<1> HIDE DEF M
<1>2. Len(input) + 1 \in S
  <2> SUFFICES ASSUME NEW n \in From(Len(input) + 1) PROVE Elements(input, n).meaning \in Seq(M)
    OBVIOUS
  <2>1. n \in Nat /\ Token(input, n) = "none"
    BY NotThere DEF From
  <2>2. Value(input, n).next = 0
    BY <2>1, NoToken, NoValueHere
  <2>3. Token(input, Value(input, n).next) \notin {"]", ","}
    BY <2>2, NothingAtZero, NoToken
  <2>4. Elements(input, n).meaning = <<>>
    BY <2>1, <2>3, NoElement
  <2> QED BY <2>4
<1>3. PICK k \in S : \A m \in S : k <= m
  <2> HIDE DEF S
  <2>1. S \in SUBSET Nat
    BY DEF S
  <2> QED BY <1>2, <2>1, Least
<1>4. CASE k = 0
  <2>1. From(0) = Nat
    BY DEF From
  <2> QED BY <1>3, <1>4, <2>1 DEF M
<1>5. CASE k # 0
  <2> DEFINE n == k - 1
             v == Value(input, n)
  <2>1. n \in Nat /\ k \in Nat
    BY <1>5
  <2>2. v.meaning \in M
    BY <1>1, <2>1
  <2>3. Elements(input, n).meaning \in Seq(M)
    <3>1. CASE Token(input, v.next) = "]"
      <4>1. Elements(input, n).meaning = << v.meaning >>
        BY <2>1, <3>1, LastElement
      <4>2. << v.meaning >> \in Seq(M)
        BY <2>2
      <4> HIDE DEF v, n
      <4> QED BY <4>1, <4>2
    <3>2. CASE Token(input, v.next) = ","
      <4>1. Further(v.next, n) /\ v.next # 0
        BY <2>1, <3>2, ValueEnds, NothingAtZero
      <4>2. v.next + 1 \in From(k)
        BY <2>1, <4>1 DEF Further, From
      <4>3. Elements(input, v.next + 1).meaning \in Seq(M)
        BY <4>2
      <4>4. << v.meaning >> \in Seq(M)
        BY <2>2
      <4>5. Elements(input, n).meaning = << v.meaning >> \o Elements(input, v.next + 1).meaning
        BY <2>1, <3>2, NextElement
      <4> HIDE DEF v, n
      <4> QED BY <4>3, <4>4, <4>5, ConcatProperties
    <3>3. CASE Token(input, v.next) \notin {"]", ","}
      <4>1. Elements(input, n).meaning = <<>>
        BY <2>1, <3>3, NoElement
      <4>2. <<>> \in Seq(M)
        OBVIOUS
      <4> HIDE DEF v, n
      <4> QED BY <4>1, <4>2
    <3> QED BY <3>1, <3>2, <3>3
  <2>4. \A m \in From(n) : m \in From(k) \/ m = n
    BY <2>1 DEF From
  <2>5. n \in S
    BY <2>1, <2>3, <2>4
  <2> QED BY <1>3, <2>1, <2>5
<1> QED BY <1>4, <1>5

\* What ParserInv says of the types.
LEMMA ParserTypes ==
  ASSUME ParserInv
  PROVE  /\ nodes \in Seq(Node) /\ Len(nodes) \in Nat
         /\ ref_stack \in Seq(1..Len(nodes)) /\ Depth \in Nat
         /\ \A k \in 1..Depth : ref_stack[k] \in 1..Len(nodes)
         /\ tokens \in Seq(Tokens) /\ Read \in Nat
         /\ \A n \in 1..Len(nodes) : /\ nodes[n].children \in Seq(Child)
                                     /\ Len(nodes[n].children) \in Nat
                                     /\ DOMAIN nodes[n].children = 1..Len(nodes[n].children)
<1>1. /\ nodes \in Seq(Node) /\ ref_stack \in Seq(1..Len(nodes)) /\ tokens \in Seq(Tokens)
  BY DEF ParserInv, ParserTypeOK
<1>2. Len(nodes) \in Nat /\ Depth \in Nat /\ Read \in Nat
  BY <1>1 DEF Depth, Read
<1>3. \A k \in 1..Depth : ref_stack[k] \in 1..Len(nodes)
  BY <1>1 DEF Depth
<1>4. ASSUME NEW n \in 1..Len(nodes)
      PROVE  /\ nodes[n].children \in Seq(Child)
             /\ Len(nodes[n].children) \in Nat
             /\ DOMAIN nodes[n].children = 1..Len(nodes[n].children)
  <2>1. nodes[n] \in Node
    BY <1>1, <1>4, ElementOfSeq
  <2>2. nodes[n].children \in Seq(Child)
    BY <2>1 DEF Node
  <2> QED BY <2>2, LenProperties
<1> QED BY <1>1, <1>2, <1>3, <1>4

\* The next token of a text that goes on.
LEMMA ContinuesBefore ==
  ASSUME ParserInv, NEW input, tokens' = tokens \/ GetToken, StartsAsRead(input)'
  PROVE  StartsAsRead(input)
<1>1. tokens \in Seq(Tokens)
  BY ParserTypes
<1>2. Len(tokens) <= Len(tokens') /\ \A n \in 1..Len(tokens) : tokens'[n] = tokens[n]
  <2>1. CASE tokens' = tokens
    BY <1>1, <2>1
  <2>2. CASE GetToken
    <3>1. last_token' \in Tokens /\ tokens' = Append(tokens, last_token')
      BY <2>2 DEF GetToken
    <3> QED BY <1>1, <3>1, AppendProperties
  <2> QED BY <2>1, <2>2
<1>3. Len(tokens) \in Nat /\ Len(tokens') \in Nat
  <2>1. CASE tokens' = tokens
    BY <1>1, <2>1
  <2>2. CASE GetToken
    <3>1. last_token' \in Tokens /\ tokens' = Append(tokens, last_token')
      BY <2>2 DEF GetToken
    <3> QED BY <1>1, <3>1, AppendProperties
  <2> QED BY <2>1, <2>2
<1>4. input \in Seq(Tokens) /\ Len(input) \in Nat
  BY DEF StartsAsRead
<1> QED BY <1>2, <1>3, <1>4 DEF StartsAsRead

\* What has been read of a text.
LEMMA TokenRead ==
  ASSUME ParserInv, NEW input, StartsAsRead(input), NEW n \in 1..Read
  PROVE  Token(input, n) = tokens[n] /\ input \in Seq(Tokens) /\ n \in Nat
BY ParserTypes DEF StartsAsRead, Token, Read

\* What a node means is what its children do.
MeaningNow(token, children, V) ==
  Meaning(token,
    IF token = "{" THEN {<<children[c].step, V[children[c].node]>> : c \in DOMAIN children}
                   ELSE [c \in DOMAIN children |-> V[children[c].node]])

\* Equal children make equal meanings.
LEMMA SameMeaning ==
  ASSUME NEW token, NEW children, NEW f, NEW g,
         \A c \in DOMAIN children : f[children[c].node] = g[children[c].node]
  PROVE  MeaningNow(token, children, f) = MeaningNow(token, children, g)
<1>1. [c \in DOMAIN children |-> g[children[c].node]] =
      [c \in DOMAIN children |-> f[children[c].node]]
  OBVIOUS
<1>2. {<<children[c].step, g[children[c].node]>> : c \in DOMAIN children} =
      {<<children[c].step, f[children[c].node]>> : c \in DOMAIN children}
  OBVIOUS
<1> QED BY <1>1, <1>2, Zenon DEF MeaningNow

\* A step that leaves alone what is finished.
Grows(where, item, W, I) ==
  /\ Len(nodes) <= Len(nodes')
  /\ Read <= Read' /\ \A n \in 1..Read : tokens'[n] = tokens[n]
  /\ \A n \in 1..Len(nodes) :
       /\ W[n] = where[n]
       /\ nodes'[n].token = nodes[n].token
       /\ ~IsOpen(n) => ~IsOpen(n)' /\ nodes'[n].children = nodes[n].children
  /\ Depth - 1 <= Depth' /\ (Depth' < Depth /\ Depth' # 0 => at' = "next")
  /\ \A k \in 1..Depth : k <= Depth' => ref_stack'[k] = ref_stack[k]
  /\ \A k \in 1..(Depth - 1) :
       /\ I[k] = item[k]
       /\ nodes'[ref_stack[k]].children = nodes[ref_stack[k]].children

\* What has ended means the same after a step that leaves it alone.
LEMMA FinishedKept ==
  ASSUME ParserInv, ParserInv', NEW where, NEW item, NEW W, NEW I, Grows(where, item, W, I),
         NEW input, ChildrenFollow, FinishedMean(input, where),
         NEW n \in 1..Len(nodes), ~IsOpen(n)
  PROVE  Value(input, W[n]).meaning = MeaningBy(Means(input, W), n)'
<1> DEFINE f == Means(input, where)
           g == [m \in 1..Len(nodes') |-> Value(input, W[m]).meaning]
<1>1. W[n] = where[n] /\ nodes'[n].token = nodes[n].token /\ nodes'[n].children = nodes[n].children
  BY DEF Grows
<1>2. \A m \in 1..Len(nodes) : f[m] = g[m]
  <2>1. \A m \in 1..Len(nodes) : m \in 1..Len(nodes') /\ W[m] = where[m]
    <3>1. Len(nodes) \in Nat /\ Len(nodes') \in Nat /\ Len(nodes) <= Len(nodes')
      BY DEF Grows, ParserInv, ParserTypeOK
    <3> QED BY <3>1 DEF Grows
  <2> QED BY <2>1 DEF Means
<1>3. \A c \in DOMAIN nodes[n].children :
        f[nodes[n].children[c].node] = g[nodes[n].children[c].node]
  <2>1. \A c \in DOMAIN nodes[n].children : nodes[n].children[c].node \in 1..Len(nodes)
    <3>1. Len(nodes) \in Nat
      BY ParserTypes
    <3> QED BY <3>1 DEF ChildrenFollow, IsNumber
  <2> QED BY <1>2, <2>1
<1>4. Value(input, where[n]).meaning = MeaningNow(nodes[n].token, nodes[n].children, f)
  <2>1. Value(input, where[n]).meaning = MeaningBy(f, n)
    BY DEF FinishedMean
  <2> QED BY <2>1, Zenon DEF MeaningBy, MeaningNow
<1>5. MeaningBy(Means(input, W), n)' = MeaningNow(nodes'[n].token, nodes'[n].children, g)
  <2>1. Means(input, W)' = g
    BY DEF Means
  <2> HIDE DEF g
  <2> QED BY <2>1, Zenon DEF MeaningBy, MeaningNow
<1> HIDE DEF f, g
<1>6. MeaningNow(nodes[n].token, nodes[n].children, f) =
      MeaningNow(nodes[n].token, nodes[n].children, g)
  BY <1>3, SameMeaning
<1> QED BY <1>1, <1>4, <1>5, <1>6

\* A level below the innermost stays as it is.
LEMMA LevelRests ==
  ASSUME ParserInv, ParserInv', NEW where, NEW item, NEW W, NEW I, Grows(where, item, W, I),
         NEW k \in 1..(Depth - 1)
  PROVE  /\ Depth \in Nat /\ k \in 1..Depth /\ k < Depth /\ k + 1 \in 1..Depth
         /\ Depth' \in Nat /\ k \in 1..Depth' /\ I[k] = item[k]
         /\ ref_stack[k] \in 1..Len(nodes) /\ ref_stack[k] \in Nat
         /\ ref_stack'[k] = ref_stack[k] /\ (IsArray(ref_stack[k])' <=> IsArray(ref_stack[k]))
         /\ nodes'[ref_stack[k]].children = nodes[ref_stack[k]].children
         /\ W[ref_stack[k]] = where[ref_stack[k]]
         /\ IsHung(k) /\ IsHung(k)' /\ Entered(k)
         /\ Before(k)' = Before(k) /\ Inner(I, k)' = Inner(item, k)
         /\ Len(nodes) \in Nat /\ Len(nodes') \in Nat /\ Len(nodes) <= Len(nodes')
<1>1. Depth \in Nat /\ Depth' \in Nat
  BY DEF ParserInv, ParserTypeOK, Depth
<1>2. k \in 1..Depth /\ k < Depth /\ k + 1 \in 1..Depth
  BY <1>1
<1>3. k \in 1..Depth' /\ I[k] = item[k]
  BY <1>1 DEF Grows
<1>4. ref_stack[k] \in 1..Len(nodes) /\ Len(nodes) \in Nat
  BY <1>2, ParserTypes
<1>5. /\ ref_stack'[k] = ref_stack[k] /\ (IsArray(ref_stack[k])' <=> IsArray(ref_stack[k]))
      /\ nodes'[ref_stack[k]].children = nodes[ref_stack[k]].children
      /\ W[ref_stack[k]] = where[ref_stack[k]]
  <2>1. ref_stack'[k] = ref_stack[k]
    BY <1>1, <1>2, <1>3 DEF Grows
  <2>2. nodes'[ref_stack[k]].token = nodes[ref_stack[k]].token
    BY <1>4 DEF Grows
  <2> QED BY <1>4, <2>1, <2>2 DEF Grows, IsArray
<1>6. IsHung(k) /\ IsHung(k)' /\ Entered(k)
  <2>1. k < Depth' \/ at' = "next"
    BY <1>1, <1>2, <1>3 DEF Grows
  <2> QED BY <1>1, <1>2, <2>1 DEF IsHung, Entered
<1>7. Before(k)' = Before(k) /\ Inner(I, k)' = Inner(item, k)
  BY <1>3, <1>5, <1>6 DEF Before, Inner
<1>8. Len(nodes) <= Len(nodes') /\ Len(nodes') \in Nat
  BY DEF Grows, ParserInv, ParserTypeOK
<1> QED BY <1>1, <1>2, <1>3, <1>4, <1>5, <1>6, <1>7, <1>8

\* What is finished beside a level below the innermost stays finished.
LEMMA RestKept ==
  ASSUME ParserInv, ParserInv', NEW where, NEW item, NEW W, NEW I, Grows(where, item, W, I),
         Located(where, item), NEW k \in 1..(Depth - 1), RestFinished(item, k)
  PROVE  RestFinished(I, k)' /\ (Others(I, k)' = Others(item, k))
<1>0. PICK n : n = ref_stack[k]
  OBVIOUS
<1>1. /\ ref_stack'[k] = n /\ (IsArray(n)' <=> IsArray(n))
      /\ nodes'[n].children = nodes[n].children
      /\ Before(k)' = Before(k) /\ I[k] = item[k] /\ k \in 1..Depth /\ n \in 1..Len(nodes)
      /\ Len(nodes) \in Nat /\ Len(nodes') \in Nat /\ Len(nodes) <= Len(nodes')
  BY <1>0, LevelRests DEF IsArray
<1>2. tokens'[item[k]] = tokens[item[k]]
  <2>1. item[k] \in 1..Read
    BY <1>1 DEF Located
  <2> QED BY <2>1 DEF Grows
<1>3. \A m : IsFinished(m, n) =>
         m \in Nat /\ n < m /\ m <= Len(nodes') /\ ~(\E j \in 1..Depth' : ref_stack'[j] = m)
  <2> SUFFICES ASSUME NEW m, IsFinished(m, n)
               PROVE  m \in Nat /\ n < m /\ m <= Len(nodes')
                      /\ ~(\E j \in 1..Depth' : ref_stack'[j] = m)
    OBVIOUS
  <2>1. m \in 1..Len(nodes) /\ m \in Nat /\ n < m /\ ~IsOpen(m)
    BY <1>1 DEF IsFinished, IsNumber
  <2>2. ~IsOpen(m)'
    BY <2>1 DEF Grows
  <2> QED BY <1>1, <2>1, <2>2 DEF IsOpen
<1>4. Others(I, k)' = Others(item, k)
  BY <1>0, <1>1, <1>2 DEF Others
<1>5. CASE IsArray(n)
  <2>1. Before(k) \in Nat /\ \A c \in 1..Before(k) : IsFinished(nodes[n].children[c].node, n)
    BY <1>0, <1>5 DEF RestFinished
  <2> DEFINE b == Before(k)'
  <2>2. /\ b \in Nat
        /\ \A c \in 1..b :
             LET m == nodes'[n].children[c].node
             IN  m \in Nat /\ n < m /\ m <= Len(nodes')
                 /\ ~(\E j \in 1..Depth' : ref_stack'[j] = m)
    BY <1>1, <1>3, <2>1, Zenon
  <2> HIDE DEF b
  <2> QED BY <1>1, <1>4, <1>5, <2>2, Zenon DEF RestFinished, IsFinished, IsNumber, IsOpen, b
<1>6. CASE ~IsArray(n)
  <2>1. \A c \in Others(item, k) : IsFinished(nodes[n].children[c].node, n)
    BY <1>0, <1>6 DEF RestFinished
  <2>2. \A c \in Others(I, k)' :
             LET m == nodes'[n].children[c].node
             IN  m \in Nat /\ n < m /\ m <= Len(nodes')
                 /\ ~(\E j \in 1..Depth' : ref_stack'[j] = m)
    BY <1>1, <1>3, <1>4, <2>1, Zenon
  <2> QED BY <1>1, <1>4, <1>6, <2>2, Zenon DEF RestFinished, IsFinished, IsNumber, IsOpen
<1> QED BY <1>5, <1>6

\* Numbers behind a number.
LEMMA Naturals == \A n \in Nat : n + 1 \in Nat /\ n + 2 \in Nat /\ n + 1 # 0
OBVIOUS

\* A value ends at a number.
LEMMA NextInText ==
  ASSUME NEW input \in Seq(Tokens), NEW n \in Nat
  PROVE  Value(input, n).next \in Nat
BY ValueEnds DEF Further

\* One element more of what is behind us is one less of what comes.
StillAhead(held, x, rest) == held \o (<<x>> \o rest)
AlreadyHeld(held, x, rest) == Append(held, x) \o rest

\* Both are the same sequence.
LEMMA OneMore ==
  ASSUME NEW S, NEW held \in Seq(S), NEW x \in S, NEW rest \in Seq(S)
  PROVE  StillAhead(held, x, rest) = AlreadyHeld(held, x, rest)
BY DEF StillAhead, AlreadyHeld

\* An open array or object, step by step.
LEMMA ArrayBegins ==
  ASSUME NEW input \in Seq(Tokens), NEW n \in Nat,
         Token(input, n) = "[", Token(input, n + 1) # "]"
  PROVE  ArrayMeans(input, n, n + 1, <<>>)
<1>1. Elements(input, n + 1).meaning \in Seq(Meanings(input))
  BY ElementsAreSequence
<1>2. <<>> \o Elements(input, n + 1).meaning = Elements(input, n + 1).meaning
  BY <1>1, ConcatEmptySeq, Zenon
<1> QED BY <1>2, ArrayValue, Zenon DEF ArrayMeans

\* A comma: the element just read is behind us.
LEMMA ArrayNext ==
  ASSUME NEW input \in Seq(Tokens), NEW begin \in Nat, NEW first \in Nat,
         NEW held \in Seq(Meanings(input)), ArrayMeans(input, begin, first, held),
         Token(input, Value(input, first).next) = ","
  PROVE  ArrayMeans(input, begin, Value(input, first).next + 1,
                    Append(held, Value(input, first).meaning))
<1> DEFINE v == Value(input, first)
           rest == Elements(input, v.next + 1)
<1>1. v.next \in Nat /\ v.next + 1 \in Nat
  <2>1. v.next \in Nat
    BY NextInText, Zenon
  <2> QED BY <2>1, Naturals, Zenon
<1>2. rest.meaning \in Seq(Meanings(input)) /\ v.meaning \in Meanings(input)
  BY <1>1, ElementsAreSequence DEF Meanings
<1>3. /\ Value(input, begin).next = rest.next
      /\ Value(input, begin).meaning = Meaning("[", held \o (<<v.meaning>> \o rest.meaning))
  BY NextElement, Zenon DEF ArrayMeans
<1> HIDE DEF v, rest
<1>4. held \o (<<v.meaning>> \o rest.meaning) = Append(held, v.meaning) \o rest.meaning
  <2>1. StillAhead(held, v.meaning, rest.meaning) = AlreadyHeld(held, v.meaning, rest.meaning)
    BY <1>2, OneMore, Zenon
  <2> QED BY <2>1, Zenon DEF StillAhead, AlreadyHeld
<1> QED BY <1>3, <1>4, Zenon DEF ArrayMeans, v, rest

\* The bracket: all elements are behind us.
LEMMA ArrayEnd ==
  ASSUME NEW input \in Seq(Tokens), NEW begin \in Nat, NEW first \in Nat,
         NEW held \in Seq(Meanings(input)), ArrayMeans(input, begin, first, held),
         Token(input, Value(input, first).next) = "]"
  PROVE  /\ Value(input, begin).next = Value(input, first).next + 1
         /\ Value(input, begin).meaning = Meaning("[", Append(held, Value(input, first).meaning))
<1>1. Value(input, first).meaning \in Meanings(input)
  BY DEF Meanings
<1>2. held \o <<Value(input, first).meaning>> = Append(held, Value(input, first).meaning)
  BY <1>1, AppendIsConcat
<1> QED BY <1>2, LastElement, Zenon DEF ArrayMeans

\* Neither: the array fails.
LEMMA ArrayFails ==
  ASSUME NEW input \in Seq(Tokens), NEW begin \in Nat, NEW first \in Nat,
         NEW held, ArrayMeans(input, begin, first, held),
         Token(input, Value(input, first).next) \notin {"]", ","}
  PROVE  Value(input, begin).next = 0
BY NoElement, Zenon DEF ArrayMeans

\* The members of an object begin with the one whose key is read.
LEMMA KeyCounts ==
  ASSUME NEW input \in Seq(Tokens), NEW n \in Nat, Members(input, n).next # 0
  PROVE  Overridden(Token(input, n), Members(input, n).meaning)
<1> DEFINE key == Token(input, n)
           v == Value(input, n + 2)
<1>1. key \in Strings /\ Token(input, n + 1) = ":" /\ Token(input, v.next) \in {"}", ","}
  BY NoMember
<1>2. CASE Token(input, v.next) = "}"
  <2>1. Members(input, n).meaning = {<<key, v.meaning>>}
    BY <1>1, <1>2, LastMember
  <2> HIDE DEF key, v
  <2>2. <<key, v.meaning>>[1] = key
    OBVIOUS
  <2> QED BY <2>1, <2>2 DEF Overridden, key
<1>3. CASE Token(input, v.next) = ","
  <2> DEFINE rest == Members(input, v.next + 1).meaning
  <2>1. Members(input, n).meaning = Joined(key, v.meaning, rest)
    BY <1>1, <1>3, NextMember
  <2> HIDE DEF key, v, rest
  <2>2. <<key, v.meaning>>[1] = key
    OBVIOUS
  <2> QED BY <2>1, <2>2, Zenon DEF Overridden, Joined, key
<1> QED BY <1>1, <1>2, <1>3

\* The same of an object.
LEMMA ObjectBegins ==
  ASSUME NEW input \in Seq(Tokens), NEW n \in Nat,
         Token(input, n) = "{", Token(input, n + 1) # "}"
  PROVE  ObjectMeans(input, n, n + 1, {})
<1>1. Members(input, n + 1).meaning \union
        {m \in {} : ~Overridden(m[1], Members(input, n + 1).meaning)}
      = Members(input, n + 1).meaning
  OBVIOUS
<1> QED BY <1>1, ObjectValue, Zenon DEF ObjectMeans

LEMMA ObjectNext ==
  ASSUME NEW input \in Seq(Tokens), NEW begin \in Nat, NEW first \in Nat,
         NEW held, ObjectMeans(input, begin, first, held),
         \A m \in held : m[1] # Token(input, first),
         Token(input, first) \in Strings, Token(input, first + 1) = ":",
         Token(input, Value(input, first + 2).next) = ",",
         NEW all, all = held \union {<<Token(input, first), Value(input, first + 2).meaning>>},
         NEW others,
         others = {m \in all : m[1] # Token(input, Value(input, first + 2).next + 1)}
  PROVE  ObjectMeans(input, begin, Value(input, first + 2).next + 1, others)
<1> DEFINE key == Token(input, first)
           v == Value(input, first + 2)
           next == v.next + 1
           rest == Members(input, next)
<1>1. next \in Nat
  <2>1. v.next \in Nat
    BY Naturals, NextInText, Zenon
  <2> QED BY <2>1, Naturals, Zenon
<1>2. Members(input, first).next = rest.next
      /\ Members(input, first).meaning = Joined(key, v.meaning, rest.meaning)
  BY NextMember
<1>3. rest.next # 0 => Overridden(Token(input, next), rest.meaning)
  BY <1>1, KeyCounts
<1> DEFINE joined == Joined(key, v.meaning, rest.meaning)
           member == <<key, v.meaning>>
<1>4. /\ Value(input, begin).next = rest.next
      /\ rest.next # 0 =>
           Value(input, begin).meaning =
             Meaning("{", joined \union {m \in held : ~Overridden(m[1], joined)})
  BY <1>2, Zenon DEF ObjectMeans
<1>5. all = held \union {member} /\ others = {m \in all : m[1] # Token(input, next)}
      /\ \A m \in held : m[1] # key
  OBVIOUS
<1>5a. member[1] = key
  OBVIOUS
<1>6. \A k : Overridden(k, joined) <=> Overridden(k, rest.meaning) \/ k = key
  BY <1>5a, Zenon DEF Joined, Overridden, joined, member
<1>7. joined = IF Overridden(key, rest.meaning) THEN rest.meaning
               ELSE rest.meaning \union {member}
  BY Zenon DEF Joined
<1> HIDE DEF key, v, next, rest, joined, member
<1>8. ASSUME rest.next # 0
      PROVE  joined \union {m \in held : ~Overridden(m[1], joined)} =
             rest.meaning \union {m \in others : ~Overridden(m[1], rest.meaning)}
  <2>1. \A m \in others : m \in all
    BY <1>5
  <2>2. \A m : m \in others /\ ~Overridden(m[1], rest.meaning) <=>
               m \in all /\ ~Overridden(m[1], rest.meaning)
    BY <1>3, <1>5, <1>8
  <2>3. \A m \in held : ~Overridden(m[1], joined) <=> ~Overridden(m[1], rest.meaning)
    BY <1>5, <1>6
  <2>4. CASE Overridden(key, rest.meaning)
    <3>1. joined = rest.meaning
      BY <1>7, <2>4
    <3>2. \A m : m \in all /\ ~Overridden(m[1], rest.meaning) <=>
                 m \in held /\ ~Overridden(m[1], rest.meaning)
      BY <1>5, <1>5a, <2>4
    <3> QED BY <2>2, <3>1, <3>2
  <2>5. CASE ~Overridden(key, rest.meaning)
    <3>1. joined = rest.meaning \union {member}
      BY <1>7, <2>5
    <3>2. \A m : m \in all /\ ~Overridden(m[1], rest.meaning) <=>
                 (m \in held /\ ~Overridden(m[1], rest.meaning)) \/ m = member
      BY <1>5, <1>5a, <2>5
    <3> QED BY <2>2, <2>3, <3>1, <3>2
  <2> QED BY <2>4, <2>5
<1> QED BY <1>4, <1>8, Zenon DEF ObjectMeans, rest, next, v

\* What is held and the member that was just read.
WithMember(held, input, first) ==
  held \union {<<Token(input, first), Value(input, first + 2).meaning>>}

\* The brace: all members are behind us.
LEMMA ObjectEnd ==
  ASSUME NEW input \in Seq(Tokens), NEW begin \in Nat, NEW first \in Nat,
         NEW held, ObjectMeans(input, begin, first, held),
         ~Overridden(Token(input, first), held),
         Token(input, first) \in Strings, Token(input, first + 1) = ":",
         Token(input, Value(input, first + 2).next) = "}"
  PROVE  /\ Value(input, begin).next = Value(input, first + 2).next + 1
         /\ Value(input, begin).meaning = Meaning("{", WithMember(held, input, first))
<1> DEFINE member == <<Token(input, first), Value(input, first + 2).meaning>>
<1>1. /\ Members(input, first).next = Value(input, first + 2).next + 1
      /\ Members(input, first).meaning = {member}
  BY LastMember
<1>2. member[1] = Token(input, first)
  OBVIOUS
<1>3. Value(input, first + 2).next + 1 # 0
  <2>1. Value(input, first + 2).next \in Nat
    BY Naturals, NextInText, Zenon
  <2> QED BY <2>1, Naturals, Zenon
<1> HIDE DEF member
<1>4. {m \in held : ~Overridden(m[1], {member})} = held
  BY <1>2 DEF Overridden
<1>5. {member} \union held = WithMember(held, input, first)
  BY DEF member, WithMember
<1> QED BY <1>1, <1>3, <1>4, <1>5, Zenon DEF ObjectMeans, member

\* No key, no colon, or neither comma nor brace: the object fails.
LEMMA ObjectFails ==
  ASSUME NEW input \in Seq(Tokens), NEW begin \in Nat, NEW first \in Nat,
         NEW held, ObjectMeans(input, begin, first, held),
         \/ Token(input, first) \notin Strings
         \/ Token(input, first + 1) # ":"
         \/ Token(input, Value(input, first + 2).next) \notin {"}", ","}
  PROVE  Value(input, begin).next = 0
BY NoMember, Zenon DEF ObjectMeans

\* A text that fails at its first value is none.
LEMMA FailedText ==
  ASSUME NEW input \in Seq(Tokens), Value(input, 1).next = 0
  PROVE  ~IsText(input)
BY NothingAtZero DEF IsText

\* A level below the innermost means in the text what it did.
LEMMA LowerGoesOn ==
  ASSUME ParserInv, ParserInv', NEW where, NEW item, NEW W, NEW I, Grows(where, item, W, I),
         Located(where, item), NEW k \in 1..(Depth - 1), RestFinished(item, k),
         NEW input, GoesOn(input, where, item, k)
  PROVE  GoesOn(input, W, I, k)'
<1>0. PICK n : n = ref_stack[k]
  OBVIOUS
<1>1. /\ ref_stack'[k] = n /\ (IsArray(n)' <=> IsArray(n))
      /\ nodes'[n].children = nodes[n].children
      /\ Before(k)' = Before(k) /\ I[k] = item[k] /\ W[n] = where[n] /\ n \in 1..Len(nodes)
      /\ Len(nodes) \in Nat
  BY <1>0, LevelRests DEF IsArray
<1>2. Others(I, k)' = Others(item, k)
  BY RestKept
<1>3. ASSUME NEW m, IsFinished(m, n) PROVE W[m] = where[m]
  <2>1. m \in 1..Len(nodes)
    BY <1>1, <1>3 DEF IsFinished, IsNumber
  <2> QED BY <2>1 DEF Grows
<1>4. CASE IsArray(n)
  <2>1. \A c \in 1..Before(k) : IsFinished(nodes[n].children[c].node, n)
    BY <1>0, <1>4 DEF RestFinished
  <2>2. \A c \in 1..Before(k) : W[nodes[n].children[c].node] = where[nodes[n].children[c].node]
    BY <1>3, <2>1, Zenon
  <2>3. HeldElements(input, where, k) =
          [c \in 1..Before(k) |-> Value(input, where[nodes[n].children[c].node]).meaning]
    BY <1>0, Zenon DEF HeldElements
  <2>4. HeldElements(input, W, k)' =
          [c \in 1..Before(k) |-> Value(input, W[nodes[n].children[c].node]).meaning]
    BY <1>1, Zenon DEF HeldElements
  <2>5. HeldElements(input, W, k)' = HeldElements(input, where, k)
    BY <2>2, <2>3, <2>4
  <2> QED BY <1>0, <1>1, <1>4, <2>5, Zenon DEF GoesOn
<1>5. CASE ~IsArray(n)
  <2>1. \A c \in Others(item, k) : IsFinished(nodes[n].children[c].node, n)
    BY <1>0, <1>5 DEF RestFinished
  <2>2. \A c \in Others(item, k) : W[nodes[n].children[c].node] = where[nodes[n].children[c].node]
    BY <1>3, <2>1, Zenon
  <2>3. HeldMembers(input, where, item, k) =
          {<<nodes[n].children[c].step, Value(input, where[nodes[n].children[c].node]).meaning>> :
             c \in Others(item, k)}
    BY <1>0, Zenon DEF HeldMembers
  <2>4. HeldMembers(input, W, I, k)' =
          {<<nodes[n].children[c].step, Value(input, W[nodes[n].children[c].node]).meaning>> :
             c \in Others(item, k)}
    BY <1>1, <1>2, Zenon DEF HeldMembers
  <2>5. HeldMembers(input, W, I, k)' = HeldMembers(input, where, item, k)
    BY <2>2, <2>3, <2>4
  <2> QED BY <1>0, <1>1, <1>5, <2>5, Zenon DEF GoesOn
<1> QED BY <1>4, <1>5

\* Two levels are not one node.
LEMMA LevelsDiffer ==
  ASSUME ParserInv, NEW j \in 1..Depth, NEW k \in 1..Depth, j # k
  PROVE  ref_stack[j] # ref_stack[k]
<1>1. ref_stack[j] \in 1..Len(nodes) /\ ref_stack[k] \in 1..Len(nodes) /\ Depth \in Nat
      /\ Len(nodes) \in Nat
  BY ParserTypes
<1>2. j < k \/ k < j
  BY <1>1
<1>3. (j < k => ref_stack[j] < ref_stack[k]) /\ (k < j => ref_stack[k] < ref_stack[j])
  BY Zenon DEF ParserInv, Nested, Depth
<1> QED BY <1>1, <1>2, <1>3

\* What hangs in it still does.
LEMMA LowerHangs ==
  ASSUME ParserInv, ParserInv', NEW where, NEW item, NEW W, NEW I, Grows(where, item, W, I),
         Located(where, item), NEW k \in 1..(Depth - 1), Hangs(where, item, k)
  PROVE  Hangs(W, I, k)'
<1>0. PICK n, m : n = ref_stack[k] /\ m = ref_stack[k + 1]
  OBVIOUS
<1>1. /\ ref_stack'[k] = n /\ (IsArray(n)' <=> IsArray(n))
      /\ nodes'[n].children = nodes[n].children
      /\ I[k] = item[k] /\ n \in 1..Len(nodes) /\ Inner(I, k)' = Inner(item, k)
      /\ Len(nodes) \in Nat /\ Len(nodes') \in Nat /\ Len(nodes) <= Len(nodes')
      /\ k < Depth /\ k \in 1..Depth /\ k + 1 \in 1..Depth /\ Depth \in Nat /\ Depth' \in Nat
      /\ k \in 1..Depth'
  BY <1>0, LevelRests DEF IsArray
<1>2. HangsAt(where, item, k, m)
  BY <1>0, <1>1 DEF Hangs
<1>3. m \in Nat /\ n < m /\ m <= Len(nodes) /\ where[m] = Inner(item, k) /\ W[m] = where[m]
      /\ m \in 1..Len(nodes)
  <2>1. m \in Nat /\ n < m /\ m <= Len(nodes) /\ where[m] = Inner(item, k)
    BY <1>0, <1>2 DEF HangsAt, IsNumber
  <2>2. m \in 1..Len(nodes)
    BY <1>1, <2>1
  <2> QED BY <2>1, <2>2 DEF Grows
<1>4. /\ tokens'[item[k]] = tokens[item[k]]
      /\ ~IsArray(n) => tokens'[item[k] + 1] = tokens[item[k] + 1]
  <2>1. item[k] \in 1..Read /\ where[m] \in 1..Read /\ Read \in Nat
    BY <1>1, <1>3, ParserTypes DEF Located
  <2>2. ~IsArray(n) => item[k] + 1 \in 1..Read
    BY <1>0, <1>3, <2>1 DEF Inner
  <2> QED BY <2>1, <2>2 DEF Grows
<1>5. /\ IsArray(n) => nodes[n].children[Len(nodes[n].children)].node = m
      /\ ~IsArray(n) => /\ tokens[item[k]] \in Strings /\ tokens[item[k] + 1] = ":"
                        /\ \E c \in DOMAIN nodes[n].children :
                             /\ nodes[n].children[c].step = tokens[item[k]]
                             /\ nodes[n].children[c].node = m
  BY <1>0, <1>2, Zenon DEF HangsAt
<1>6. HangsAt(W, I, k, m)'
  <2>1. IsNumber(m, n)'
    BY <1>1, <1>3 DEF IsNumber
  <2>2. W[m] = Inner(I, k)'
    BY <1>1, <1>3
  <2>3. /\ IsArray(n)' => nodes'[n].children[Len(nodes'[n].children)].node = m
        /\ ~IsArray(n)' => /\ tokens'[I[k]] \in Strings /\ tokens'[I[k] + 1] = ":"
                           /\ \E c \in DOMAIN nodes'[n].children :
                             /\ nodes'[n].children[c].step = tokens'[I[k]]
                             /\ nodes'[n].children[c].node = m
    BY <1>1, <1>4, <1>5, Zenon
  <2> QED BY <1>1, <2>1, <2>2, <2>3, Zenon DEF HangsAt
<1>7. CASE k < Depth'
  <2>1. k + 1 \in 1..Depth' /\ k + 1 <= Depth'
    BY <1>1, <1>7
  <2>2. ref_stack'[k + 1] = m
    BY <1>0, <1>1, <2>1 DEF Grows
  <2>3. k # Depth'
    BY <1>1, <1>7
  <2> QED BY <1>6, <2>2, <2>3 DEF Hangs
<1>8. CASE k = Depth'
  <2>1. ~IsOpen(m)'
    <3> SUFFICES ASSUME NEW j \in 1..Depth', ref_stack'[j] = m PROVE FALSE
      BY DEF IsOpen
    <3>1. j \in 1..Depth /\ j # k + 1 /\ j <= Depth'
      BY <1>1, <1>8
    <3>2. ref_stack'[j] = ref_stack[j]
      BY <3>1 DEF Grows
    <3> QED BY <1>0, <1>1, <3>1, <3>2, LevelsDiffer
  <2>2. ~(k < Depth')
    BY <1>1, <1>8
  <2>3. m \in 1..Len(nodes')
    BY <1>1, <1>3
  <2> QED BY <1>6, <1>8, <2>1, <2>2, <2>3 DEF Hangs
<1> QED BY <1>1, <1>7, <1>8

\* What had ended still has children that were made after it.
LEMMA OldChildrenFollow ==
  ASSUME ParserInv, ParserInv', NEW where, NEW item, NEW W, NEW I, Grows(where, item, W, I),
         ChildrenFollow, NEW n \in 1..Len(nodes), ~IsOpen(n)
  PROVE  \A c \in DOMAIN nodes'[n].children : IsNumber(nodes[n].children[c].node, n)'
<1>1. nodes'[n].children = nodes[n].children /\ Len(nodes) <= Len(nodes')
      /\ Len(nodes) \in Nat /\ Len(nodes') \in Nat
  BY DEF Grows, ParserInv, ParserTypeOK
<1>2. \A c \in DOMAIN nodes[n].children :
        LET m == nodes[n].children[c].node IN m \in Nat /\ n < m /\ m <= Len(nodes)
  BY DEF ChildrenFollow, IsNumber
<1>3. \A c \in DOMAIN nodes'[n].children :
        LET m == nodes'[n].children[c].node IN m \in Nat /\ n < m /\ m <= Len(nodes')
  BY <1>1, <1>2
<1> QED BY <1>3 DEF IsNumber

\* The innermost open array or object.
LEMMA Innermost ==
  ASSUME ParserInv, ref_stack # <<>>
  PROVE  /\ Depth \in Nat /\ Depth \in 1..Depth /\ Last(ref_stack) = ref_stack[Depth]
         /\ ref_stack[Depth] \in 1..Len(nodes) /\ ref_stack[Depth] \in Nat
         /\ Len(nodes) \in Nat
<1>1. Depth \in Nat /\ Len(nodes) \in Nat
  BY ParserTypes
<1>2. ref_stack \in Seq(1..Len(nodes))
  BY ParserTypes
<1>3. Depth > 0 /\ Last(ref_stack) = ref_stack[Depth]
  BY <1>2, LastFront DEF Depth
<1>4. Depth \in 1..Depth
  BY <1>1, <1>3
<1>5. ref_stack[Depth] \in 1..Len(nodes)
  BY <1>4, ParserTypes
<1> QED BY <1>1, <1>3, <1>4, <1>5

\* The last token read, as a token of the text.
LEMMA LastRead ==
  ASSUME ParserInv, NEW where, NEW item, Located(where, item), NEW input, StartsAsRead(input)
  PROVE  /\ input \in Seq(Tokens) /\ Read \in Nat /\ Read \in 1..Read
         /\ Token(input, Read) = last_token
<1>1. Read \in Nat /\ tokens \in Seq(Tokens) /\ tokens # <<>> /\ last_token = tokens[Read]
  BY ParserTypes DEF Located
<1>2. Read > 0
  BY <1>1, EmptySeq DEF Read
<1>3. Read \in 1..Read
  BY <1>1, <1>2
<1>4. Token(input, Read) = tokens[Read] /\ input \in Seq(Tokens)
  BY <1>3, TokenRead
<1> QED BY <1>1, <1>3, <1>4

\* Where values, elements and members begin in a text.
LEMMA Places ==
  ASSUME ParserInv, NEW where, NEW item, Located(where, item), NEW input, StartsAsRead(input)
  PROVE  /\ \A n \in 1..Len(nodes) :
              /\ where[n] \in Nat /\ where[n] \in 1..Read
              /\ Token(input, where[n]) = nodes[n].token
         /\ \A k \in 1..Depth :
              /\ item[k] \in Nat /\ item[k] \in 1..Read
              /\ Token(input, item[k]) = tokens[item[k]]
<1>1. Read \in Nat
  BY ParserTypes
<1>2. ASSUME NEW n \in 1..Len(nodes)
      PROVE  where[n] \in Nat /\ where[n] \in 1..Read /\ Token(input, where[n]) = nodes[n].token
  <2>1. where[n] \in 1..Read /\ tokens[where[n]] = nodes[n].token
    BY DEF Located
  <2> QED BY <1>1, <2>1, TokenRead
<1>3. ASSUME NEW k \in 1..Depth
      PROVE  item[k] \in Nat /\ item[k] \in 1..Read /\ Token(input, item[k]) = tokens[item[k]]
  <2>1. item[k] \in 1..Read
    BY DEF Located
  <2> QED BY <1>1, <2>1, TokenRead
<1> QED BY <1>2, <1>3

\* Where an array or object that is open fails, the text does.
LEMMA OpenFails ==
  ASSUME ParserInv, NEW where, NEW item, NEW input, input \in Seq(Tokens),
         Agrees(input, where, item),
         NEW k \in 1..Depth, Value(input, where[ref_stack[k]]).next = 0
  PROVE  ~IsText(input)
<1>1. Value(input, 1).next = 0
  BY DEF Agrees, FailsAll
<1> QED BY <1>1, FailedText

\* The innermost one, in which something has begun.
LEMMA InnermostGoesOn ==
  ASSUME ParserInv, NEW where, NEW item, Located(where, item), NEW input, StartsAsRead(input),
         Agrees(input, where, item), ref_stack # <<>>, at \notin {"first_element", "first_key"}
  PROVE  LET n == ref_stack[Depth]
         IN /\ where[n] \in Nat /\ item[Depth] \in Nat /\ input \in Seq(Tokens)
            /\ IsArray(n) => ArrayMeans(input, where[n], item[Depth],
                                        HeldElements(input, where, Depth))
            /\ ~IsArray(n) => ObjectMeans(input, where[n], item[Depth],
                                          HeldMembers(input, where, item, Depth))
<1> DEFINE n == ref_stack[Depth]
<1>1. Depth \in 1..Depth /\ n \in 1..Len(nodes)
  BY Innermost
<1>2. where[n] \in Nat /\ item[Depth] \in Nat /\ input \in Seq(Tokens)
  BY <1>1, Places, LastRead
<1>3. GoesOn(input, where, item, Depth)
  BY <1>1 DEF Agrees, Entered
<1> QED BY <1>2, <1>3, Zenon DEF GoesOn

\* parse_error where a value should begin.
LEMMA NoValueFails ==
  ASSUME ParserInv, NoValue, NEW where, NEW item, Shape(where, item),
         NEW input, StartsAsRead(input), Agrees(input, where, item)
  PROVE  ~IsText(input)
<1>1. /\ at = "value" /\ last_token \notin Strings \union Scalars \union {"[", "{"}
      /\ Located(where, item) /\ Stands(where, item)
  BY DEF NoValue, Shape
<1>2. /\ input \in Seq(Tokens) /\ Read \in Nat /\ Token(input, Read) = last_token
  BY <1>1, LastRead
<1>3. Value(input, Read).next = 0
  BY <1>1, <1>2, NoValueHere
<1>4. CASE ref_stack = <<>>
  <2>1. Read = 1
    BY <1>1, <1>4 DEF Stands
  <2> QED BY <1>2, <1>3, <2>1, FailedText
<1>5. CASE ref_stack # <<>>
  <2> DEFINE n == ref_stack[Depth]
  <2>1. Inner(item, Depth) = Read
    BY <1>1, <1>5 DEF Stands
  <2>2. Token(input, Value(input, Inner(item, Depth)).next) = "none"
    BY <1>2, <1>3, <2>1, NothingAtZero
  <2>3. /\ where[n] \in Nat /\ item[Depth] \in Nat
        /\ IsArray(n) => ArrayMeans(input, where[n], item[Depth],
                                        HeldElements(input, where, Depth))
        /\ ~IsArray(n) => ObjectMeans(input, where[n], item[Depth],
                                          HeldMembers(input, where, item, Depth))
    <3>1. at \notin {"first_element", "first_key"}
      BY <1>1
    <3> QED BY <1>1, <1>5, <3>1, InnermostGoesOn, Zenon
  <2>4. Value(input, where[n]).next = 0
    <3>1. CASE IsArray(n)
      <4>1. Inner(item, Depth) = item[Depth]
        BY <3>1 DEF Inner
      <4>2. Token(input, Value(input, item[Depth]).next) \notin {"]", ","}
        BY <2>2, <4>1
      <4> QED BY <1>2, <2>3, <3>1, <4>2, ArrayFails, Zenon
    <3>2. CASE ~IsArray(n)
      <4>1. Inner(item, Depth) = item[Depth] + 2
        BY <3>2 DEF Inner
      <4>2. Token(input, Value(input, item[Depth] + 2).next) \notin {"}", ","}
        BY <2>2, <4>1
      <4> QED BY <1>2, <2>3, <3>2, <4>2, ObjectFails, Zenon
    <3> QED BY <3>1, <3>2
  <2> QED BY <1>2, <1>5, <2>4, Innermost, OpenFails
<1> QED BY <1>4, <1>5

\* parse_error where a key should be.
LEMMA NoKeyFails ==
  ASSUME ParserInv, NoKey, NEW where, NEW item, Shape(where, item),
         NEW input, StartsAsRead(input), Agrees(input, where, item)
  PROVE  ~IsText(input)
<1> DEFINE n == ref_stack[Depth]
<1>1. /\ \/ at = "first_key" /\ last_token \notin Strings \union {"}"}
         \/ at = "key" /\ last_token \notin Strings
      /\ Located(where, item) /\ Stands(where, item)
      /\ ref_stack # <<>> /\ ~IsArray(Last(ref_stack))
  BY DEF NoKey, Shape, ParserInv, Placed
<1>2. /\ input \in Seq(Tokens) /\ Read \in Nat /\ Token(input, Read) = last_token
  BY <1>1, LastRead
<1>3. n \in 1..Len(nodes) /\ Last(ref_stack) = n /\ Depth \in 1..Depth
  BY <1>1, Innermost
<1>4. Value(input, where[n]).next = 0
  <2>1. CASE at = "first_key"
    <3>1. where[n] = Read - 1 /\ where[n] \in Nat /\ Token(input, where[n]) = nodes[n].token
      <4>1. where[Last(ref_stack)] = Read - 1
        BY <1>1, <2>1 DEF Stands
      <4>2. where[n] \in Nat /\ Token(input, where[n]) = nodes[n].token
        BY <1>1, <1>3, Places
      <4> QED BY <1>3, <4>1, <4>2
    <3>2. nodes[n].token = "{"
      BY <1>1, <1>3, Zenon DEF ParserInv, Nested, IsArray, Depth
    <3>3. where[n] + 1 = Read
      BY <1>2, <3>1
    <3>4. last_token # "}" /\ last_token \notin Strings
      BY <1>1, <2>1
    <3>5. Value(input, where[n]).next = Members(input, where[n] + 1).next
      BY <1>2, <3>1, <3>2, <3>3, <3>4, ObjectValue, Zenon
    <3> QED BY <1>2, <3>3, <3>4, <3>5, NoMember
  <2>2. CASE at = "key"
    <3>1. /\ where[n] \in Nat /\ item[Depth] \in Nat
          /\ ~IsArray(n) => ObjectMeans(input, where[n], item[Depth],
                                        HeldMembers(input, where, item, Depth))
      <4>1. at \notin {"first_element", "first_key"}
        BY <2>2
      <4> QED BY <1>1, <4>1, InnermostGoesOn, Zenon
    <3>2. item[Depth] = Read
      BY <1>1, <2>2 DEF Stands
    <3>3. last_token \notin Strings
      BY <1>1, <2>2
    <3> QED BY <1>1, <1>2, <1>3, <3>1, <3>2, <3>3, ObjectFails, Zenon
  <2> QED BY <1>1, <2>1, <2>2
<1> QED BY <1>2, <1>3, <1>4, OpenFails

\* parse_error where a colon should be.
LEMMA NoSeparatorFails ==
  ASSUME ParserInv, NoSeparator, NEW where, NEW item, Shape(where, item),
         NEW input, StartsAsRead(input), Agrees(input, where, item)
  PROVE  ~IsText(input)
<1> DEFINE n == ref_stack[Depth]
<1>1. /\ at \in {"first_separator", "separator"} /\ last_token # ":"
      /\ Located(where, item) /\ Stands(where, item)
      /\ ref_stack # <<>> /\ ~IsArray(Last(ref_stack))
  BY DEF NoSeparator, Shape, ParserInv, Placed
<1>2. /\ input \in Seq(Tokens) /\ Read \in Nat /\ Token(input, Read) = last_token
  BY <1>1, LastRead
<1>3. n \in 1..Len(nodes) /\ Last(ref_stack) = n /\ Depth \in 1..Depth
  BY <1>1, Innermost
<1>4. /\ where[n] \in Nat /\ item[Depth] \in Nat
      /\ ~IsArray(n) => ObjectMeans(input, where[n], item[Depth],
                                    HeldMembers(input, where, item, Depth))
  <2>1. at \notin {"first_element", "first_key"}
    BY <1>1
  <2> QED BY <1>1, <2>1, InnermostGoesOn, Zenon
<1>5. item[Depth] + 1 = Read
  <2>1. item[Depth] = Read - 1
    BY <1>1 DEF Stands
  <2> QED BY <1>2, <2>1
<1>6. Value(input, where[n]).next = 0
  BY <1>1, <1>2, <1>3, <1>4, <1>5, ObjectFails, Zenon
<1> QED BY <1>2, <1>3, <1>6, OpenFails

\* parse_error where a comma or the end of an array or object should be.
LEMMA NotClosedFails ==
  ASSUME ParserInv, NotClosed, NEW where, NEW item, Shape(where, item),
         NEW input, StartsAsRead(input), Agrees(input, where, item)
  PROVE  ~IsText(input)
<1> DEFINE n == ref_stack[Depth]
<1>1. /\ at = "next" /\ last_token \notin {",", Closing}
      /\ Located(where, item) /\ Stands(where, item) /\ states # <<>> /\ LevelsAgree
      /\ Len(states) = Depth /\ states \in Seq(BOOLEAN)
  BY DEF NotClosed, Shape, ParserInv, Placed, RefsAlive, LevelsAgree, Depth, ParserTypeOK
<1>2. /\ input \in Seq(Tokens) /\ Read \in Nat /\ Token(input, Read) = last_token
  BY <1>1, LastRead
<1>3. ref_stack # <<>> /\ Depth \in Nat
  <2>1. Depth > 0 /\ Depth \in Nat
    BY <1>1, LastFront
  <2> QED BY <2>1 DEF Depth
<1>4. n \in 1..Len(nodes) /\ Depth \in 1..Depth
  BY <1>3, Innermost
<1>5. InArray <=> IsArray(n)
  BY <1>1, <1>4, Zenon DEF InArray, LevelsAgree, Last
<1>6. /\ where[n] \in Nat /\ item[Depth] \in Nat
      /\ IsArray(n) => ArrayMeans(input, where[n], item[Depth],
                                  HeldElements(input, where, Depth))
      /\ ~IsArray(n) => ObjectMeans(input, where[n], item[Depth],
                                    HeldMembers(input, where, item, Depth))
  <2>1. at \notin {"first_element", "first_key"}
    BY <1>1
  <2> QED BY <1>1, <1>3, <2>1, InnermostGoesOn, Zenon
<1>7. Value(input, Inner(item, Depth)).next = Read
  BY <1>1 DEF Agrees, HasRead
<1>8. Value(input, where[n]).next = 0
  <2>1. CASE IsArray(n)
    <3>1. Value(input, item[Depth]).next = Read
      BY <1>7, <2>1 DEF Inner
    <3>2. last_token \notin {"]", ","}
      BY <1>1, <1>5, <2>1 DEF Closing
    <3> QED BY <1>2, <1>6, <2>1, <3>1, <3>2, ArrayFails, Zenon
  <2>2. CASE ~IsArray(n)
    <3>1. Value(input, item[Depth] + 2).next = Read
      BY <1>7, <2>2 DEF Inner
    <3>2. last_token \notin {"}", ","}
      BY <1>1, <1>5, <2>2 DEF Closing
    <3> QED BY <1>2, <1>6, <2>2, <3>1, <3>2, ObjectFails, Zenon
  <2> QED BY <2>1, <2>2
<1> QED BY <1>2, <1>4, <1>8, OpenFails

\* parse_error where the end of the text should be.
LEMMA NoEndFails ==
  ASSUME ParserInv, EndOfText, last_token # "end_of_input", NEW where, NEW item,
         Shape(where, item), NEW input, StartsAsRead(input), Agrees(input, where, item)
  PROVE  ~IsText(input)
<1>1. Located(where, item) /\ at = "end"
  BY DEF Shape, EndOfText
<1>2. Token(input, Read) = last_token
  BY <1>1, LastRead
<1>3. Value(input, 1).next = Read
  BY <1>1 DEF Agrees, HasRead
<1> QED BY <1>2, <1>3 DEF IsText

\* What is left to show of a step that leaves alone what is finished.
LEMMA ShapeKept ==
  ASSUME ParserInv, ParserInv', NEW where, NEW item, NEW W, NEW I, Grows(where, item, W, I),
         Shape(where, item),
         Located(W, I)', KeysDiffer', ChildrenFollow', Stands(W, I)',
         \A k \in 1..Depth' : k >= Depth /\ Entered(k)' => RestFinished(I, k)' /\ Hangs(W, I, k)'
  PROVE  Shape(W, I)'
<1>1. Located(where, item)
  BY DEF Shape
<1>2. ASSUME NEW k \in 1..Depth', Entered(k)'
      PROVE  RestFinished(I, k)' /\ Hangs(W, I, k)'
  <2>1. Depth \in Nat /\ Depth' \in Nat
    BY DEF ParserInv, ParserTypeOK, Depth
  <2>2. CASE k >= Depth
    BY <1>2, <2>2
  <2>3. CASE ~(k >= Depth)
    <3>1. k \in 1..(Depth - 1) /\ k \in 1..Depth
      BY <2>1, <2>3
    <3>2. Entered(k)
      BY <1>1, <3>1, LevelRests
    <3>3. RestFinished(item, k) /\ Hangs(where, item, k)
      BY <3>1, <3>2 DEF Shape
    <3> QED BY <1>1, <3>1, <3>3, RestKept, LowerHangs
  <2> QED BY <2>2, <2>3
<1> QED BY <1>2 DEF Shape

\* The same of what it says of a text.
LEMMA AgreesKept ==
  ASSUME ParserInv, ParserInv', NEW where, NEW item, NEW W, NEW I, Grows(where, item, W, I),
         Shape(where, item), NEW input, Agrees(input, where, item),
         FinishedMean(input, W)', HasRead(input, I)',
         \A k \in 1..Depth' : k >= Depth => FailsAll(input, W[ref_stack'[k]]),
         \A k \in 1..Depth' : k >= Depth /\ Entered(k)' => GoesOn(input, W, I, k)'
  PROVE  Agrees(input, W, I)'
<1>1. Located(where, item) /\ Depth \in Nat /\ Depth' \in Nat
  BY DEF Shape, ParserInv, ParserTypeOK, Depth
<1>2. \A k \in 1..Depth' : k >= Depth \/ (k \in 1..(Depth - 1) /\ k \in 1..Depth)
  BY <1>1
<1>3. ASSUME NEW k \in 1..Depth'
      PROVE  FailsAll(input, W[ref_stack'[k]])
  <2>1. CASE k \in 1..(Depth - 1) /\ k \in 1..Depth
    <3>1. W[ref_stack'[k]] = where[ref_stack[k]]
      <4>1. ref_stack'[k] = ref_stack[k] /\ W[ref_stack[k]] = where[ref_stack[k]]
        BY <2>1, LevelRests
      <4> QED BY <4>1
    <3> QED BY <2>1, <3>1 DEF Agrees
  <2> QED BY <1>2, <2>1
<1>4. ASSUME NEW k \in 1..Depth', Entered(k)'
      PROVE  GoesOn(input, W, I, k)'
  <2>1. CASE k \in 1..(Depth - 1) /\ k \in 1..Depth
    <3>1. Entered(k)
      BY <2>1, LevelRests, Zenon
    <3>2. RestFinished(item, k) /\ GoesOn(input, where, item, k)
      BY <2>1, <3>1 DEF Agrees, Shape
    <3> QED BY <1>1, <2>1, <3>2, LowerGoesOn
  <2> QED BY <1>2, <1>4, <2>1
<1> QED BY <1>3, <1>4 DEF Agrees

\* A step by which nothing ends.
NothingEnds == \A n \in 1..Len(nodes') : ~IsOpen(n)' => n \in 1..Len(nodes) /\ ~IsOpen(n)

\* The children of what has ended are still those.
LEMMA ChildrenStill ==
  ASSUME ParserInv, ParserInv', NEW where, NEW item, NEW W, NEW I, Grows(where, item, W, I),
         Shape(where, item), NothingEnds
  PROVE  ChildrenFollow'
<1> SUFFICES ASSUME NEW n \in 1..Len(nodes'), ~IsOpen(n)'
             PROVE  \A c \in DOMAIN nodes'[n].children : IsNumber(nodes[n].children[c].node, n)'
  BY DEF ChildrenFollow
<1>1. n \in 1..Len(nodes) /\ ~IsOpen(n) /\ ChildrenFollow
  BY DEF NothingEnds, Shape
<1> QED BY <1>1, OldChildrenFollow

\* What has ended still means what it did.
LEMMA MeaningStill ==
  ASSUME ParserInv, ParserInv', NEW where, NEW item, NEW W, NEW I, Grows(where, item, W, I),
         Shape(where, item), NothingEnds, NEW input, FinishedMean(input, where)
  PROVE  FinishedMean(input, W)'
<1> SUFFICES ASSUME NEW n \in 1..Len(nodes'), ~IsOpen(n)'
             PROVE  Value(input, W[n]).meaning = MeaningBy(Means(input, W), n)'
  BY DEF FinishedMean
<1>1. n \in 1..Len(nodes) /\ ~IsOpen(n) /\ ChildrenFollow
  BY DEF NothingEnds, Shape
<1> QED BY <1>1, FinishedKept

\* The tokens read.
LEMMA TokensGrow ==
  ASSUME ParserInv, ParserInv', NEW where, NEW item, Located(where, item),
         (tokens' = tokens /\ last_token' = last_token) \/ GetToken
  PROVE  /\ Read \in Nat /\ Read' \in Nat /\ Read <= Read' /\ (GetToken => Read' = Read + 1)
         /\ \A n \in 1..Read : tokens'[n] = tokens[n] /\ n \in 1..Read'
         /\ tokens' # <<>> /\ last_token' = tokens'[Read']
<1>1. tokens \in Seq(Tokens) /\ Read \in Nat /\ tokens # <<>> /\ last_token = tokens[Read]
  BY ParserTypes DEF Located
<1>2. CASE tokens' = tokens /\ last_token' = last_token
  BY <1>1, <1>2 DEF Read, GetToken
<1>3. CASE GetToken
  <2>1. last_token' \in Tokens /\ tokens' = Append(tokens, last_token')
    BY <1>3 DEF GetToken
  <2>2. /\ Append(tokens, last_token') # <<>> /\ Len(Append(tokens, last_token')) = Len(tokens) + 1
        /\ \A n \in 1..Len(tokens) : Append(tokens, last_token')[n] = tokens[n]
        /\ Append(tokens, last_token')[Len(tokens) + 1] = last_token'
    BY <1>1, <2>1, AppendProperties
  <2>3. Read' = Read + 1 /\ tokens' # <<>> /\ tokens'[Read'] = last_token'
        /\ \A n \in 1..Read : tokens'[n] = tokens[n]
    BY <2>1, <2>2, Zenon DEF Read
  <2> QED BY <1>1, <2>3
<1> QED BY <1>2, <1>3

\* The steps that leave the tree alone.
LEMMA TreeStays ==
  ASSUME ParserInv, ParserInv', NEW where, NEW item, NEW I, Shape(where, item), UNCHANGED tree,
         (tokens' = tokens /\ last_token' = last_token) \/ GetToken,
         I \in [1..Depth -> 1..Read'], \A k \in 1..(Depth - 1) : I[k] = item[k]
  PROVE  /\ Grows(where, item, where, I) /\ NothingEnds
         /\ Located(where, I)' /\ KeysDiffer' /\ ChildrenFollow'
<1>1. UNCHANGED <<nodes, root, ref_stack, object_element>> /\ Depth \in Nat /\ Len(nodes) \in Nat
      /\ Located(where, item)
  BY ParserTypes DEF tree, Shape
<1>2. /\ Read \in Nat /\ Read' \in Nat /\ Read <= Read'
      /\ \A n \in 1..Read : tokens'[n] = tokens[n] /\ n \in 1..Read'
      /\ tokens' # <<>> /\ last_token' = tokens'[Read']
  BY <1>1, TokensGrow
<1>3. Depth' = Depth /\ \A n : IsOpen(n)' <=> IsOpen(n)
  BY <1>1, Zenon DEF IsOpen, Depth
<1>4. Grows(where, item, where, I)
  BY <1>1, <1>2, <1>3 DEF Grows
<1>5. NothingEnds
  BY <1>1, <1>3 DEF NothingEnds
<1>6. Located(where, I)'
  <2>1. where \in [1..Len(nodes) -> 1..Read']
    <3>1. where \in [1..Len(nodes) -> 1..Read]
      BY <1>1 DEF Located
    <3> QED BY <1>2, <3>1
  <2>2. \A n \in 1..Len(nodes) : tokens'[where[n]] = nodes[n].token
    <3> SUFFICES ASSUME NEW n \in 1..Len(nodes) PROVE tokens'[where[n]] = nodes[n].token
      OBVIOUS
    <3>1. where[n] \in 1..Read /\ tokens[where[n]] = nodes[n].token
      BY <1>1 DEF Located
    <3> QED BY <1>2, <3>1
  <2>3. (nodes # <<>> => root = 1 /\ where[1] = 1) /\ (ref_stack # <<>> => ref_stack[1] = 1)
    BY <1>1 DEF Located
  <2> QED BY <1>1, <1>2, <1>3, <2>1, <2>2, <2>3, Zenon DEF Located
<1>7. KeysDiffer'
  BY <1>1 DEF KeysDiffer, Shape
<1>8. ChildrenFollow'
  BY <1>4, <1>5, ChildrenStill
<1> QED BY <1>4, <1>5, <1>6, <1>7, <1>8

\* The first element of an array.
LEMMA FirstElementShape ==
  ASSUME ParserInv, ParserInv', FirstElement, NEW where, NEW item, Shape(where, item),
         NEW I, I = [item EXCEPT ![Depth] = Read]
  PROVE  /\ Grows(where, item, where, I) /\ NothingEnds
         /\ Located(where, I)' /\ KeysDiffer' /\ ChildrenFollow' /\ Shape(where, I)'
<1>1. /\ at = "first_element" /\ at' = "value"
      /\ UNCHANGED <<last_token, tokens, nodes, root, ref_stack, object_element>> /\ UNCHANGED tree
      /\ Located(where, item) /\ Stands(where, item) /\ IsArray(Last(ref_stack))
  BY DEF FirstElement, tree, Shape, ParserInv, Placed
<1>2. /\ ref_stack # <<>> /\ Depth \in Nat /\ Depth \in 1..Depth
      /\ Last(ref_stack) = ref_stack[Depth] /\ Depth' = Depth
  <2>1. ref_stack # <<>>
    <3>1. Len(ref_stack) = Len(states) + 1 /\ states \in Seq(BOOLEAN)
      BY <1>1 DEF ParserInv, Placed, ParserTypeOK
    <3> QED BY <3>1
  <2> QED BY <1>1, <2>1, Innermost DEF Depth
<1>3. Read' = Read /\ Read \in Nat /\ Read \in 1..Read
  <2>1. Read \in Nat /\ tokens \in Seq(Tokens) /\ tokens # <<>>
    BY <1>1, ParserTypes DEF Located
  <2>2. Read > 0
    BY <2>1, EmptySeq DEF Read
  <2> QED BY <1>1, <2>1, <2>2 DEF Read
<1>4. I \in [1..Depth -> 1..Read'] /\ (\A k \in 1..(Depth - 1) : I[k] = item[k]) /\ I[Depth] = Read
  <2>1. item \in [1..Depth -> 1..Read]
    BY <1>1 DEF Located
  <2> QED BY <1>2, <1>3, <2>1
<1>5. /\ Grows(where, item, where, I) /\ NothingEnds
      /\ Located(where, I)' /\ KeysDiffer' /\ ChildrenFollow'
  BY <1>1, <1>4, TreeStays
<1>6. IsArray(ref_stack[Depth])' /\ nodes'[ref_stack[Depth]].children = <<>>
  BY <1>1, <1>2 DEF IsArray, Stands
<1>7. Stands(where, I)'
  <2>1. ~AwaitsMember'
    BY <1>1, <1>2, <1>6 DEF AwaitsMember, IsArray
  <2>2. Inner(I, Depth)' = Read'
    BY <1>1, <1>2, <1>3, <1>4, <1>6 DEF Inner, IsArray
  <2> QED BY <1>1, <1>2, <2>1, <2>2 DEF Stands
<1>8. ASSUME NEW k \in 1..Depth', k >= Depth
      PROVE  RestFinished(I, k)' /\ Hangs(where, I, k)'
  <2>1. k = Depth
    BY <1>2, <1>8
  <2>2. ~IsHung(k)' /\ ~(k < Depth') /\ at' # "next"
    BY <1>1, <1>2, <2>1 DEF IsHung
  <2>3. Before(k)' = 0
    BY <1>1, <1>6, <2>1, <2>2 DEF Before
  <2>4. RestFinished(I, k)'
    <3>1. IsArray(ref_stack[k])'
      BY <1>2, <1>6, <2>1 DEF IsArray
    <3>2. Before(k)' \in Nat /\ 1..Before(k)' = {}
      BY <2>3
    <3> QED BY <3>1, <3>2 DEF RestFinished
  <2> QED BY <2>2, <2>4 DEF Hangs
<1> QED BY <1>5, <1>7, <1>8, ShapeKept

\* The elements of the array are all ahead.
LEMMA FirstElementAgrees ==
  ASSUME ParserInv, ParserInv', FirstElement, NEW where, NEW item, Shape(where, item),
         NEW I, I = [item EXCEPT ![Depth] = Read], NEW input, StartsAsRead(input),
         Agrees(input, where, item)
  PROVE  Agrees(input, where, I)'
<1>1. /\ at = "first_element" /\ at' = "value" /\ last_token # "]"
      /\ UNCHANGED <<last_token, tokens, nodes, root, ref_stack, object_element>>
      /\ Located(where, item) /\ Stands(where, item) /\ IsArray(Last(ref_stack))
  BY DEF FirstElement, tree, Shape, ParserInv, Placed
<1>2. /\ ref_stack # <<>> /\ Depth \in Nat /\ Depth \in 1..Depth
      /\ Last(ref_stack) = ref_stack[Depth] /\ Depth' = Depth
      /\ ref_stack[Depth] \in 1..Len(nodes)
  <2>1. ref_stack # <<>>
    <3>1. Len(ref_stack) = Len(states) + 1 /\ states \in Seq(BOOLEAN)
      BY <1>1 DEF ParserInv, Placed, ParserTypeOK
    <3> QED BY <3>1
  <2> QED BY <1>1, <2>1, Innermost DEF Depth
<1>3. PICK n : n = ref_stack[Depth]
  OBVIOUS
<1>4. /\ input \in Seq(Tokens) /\ Read \in Nat /\ Token(input, Read) = last_token
  BY <1>1, LastRead
<1>5. where[n] = Read - 1 /\ where[n] \in Nat /\ Token(input, where[n]) = "["
      /\ nodes[n].children = <<>>
  <2>1. where[n] = Read - 1 /\ nodes[n].children = <<>>
    BY <1>1, <1>2, <1>3 DEF Stands
  <2>2. where[n] \in Nat /\ Token(input, where[n]) = nodes[n].token
    BY <1>1, <1>2, <1>3, Places
  <2> QED BY <1>1, <1>2, <1>3, <2>1, <2>2 DEF IsArray
<1>6. where[n] + 1 = Read
  BY <1>4, <1>5
<1>7. ArrayMeans(input, where[n], Read, <<>>)
  BY <1>1, <1>4, <1>5, <1>6, ArrayBegins, Zenon
<1>8. I[Depth] = Read
  <2>1. item \in [1..Depth -> 1..Read]
    BY <1>1 DEF Located
  <2> QED BY <1>2, <2>1
<1>9. HeldElements(input, where, Depth)' = <<>>
  <2>1. ~IsHung(Depth)'
    BY <1>1, <1>2 DEF IsHung
  <2>2. Before(Depth)' = 0
    BY <1>1, <1>2, <1>3, <1>5, <2>1 DEF Before
  <2> QED BY <2>2 DEF HeldElements
<1>10. GoesOn(input, where, I, Depth)'
  <2>1. IsArray(ref_stack[Depth])' /\ ref_stack'[Depth'] = n
    BY <1>1, <1>2, <1>3 DEF IsArray
  <2> QED BY <1>1, <1>2, <1>3, <1>7, <1>8, <1>9, <2>1, Zenon DEF GoesOn
<1>11. Grows(where, item, where, I) /\ NothingEnds
  BY FirstElementShape
<1>12. FinishedMean(input, where)'
  BY <1>11, MeaningStill DEF Agrees
<1>13. HasRead(input, I)'
  BY <1>1 DEF HasRead
<1>14. \A k \in 1..Depth' : k >= Depth => k = Depth
  BY <1>2
<1>15. \A k \in 1..Depth' : k >= Depth => FailsAll(input, where[ref_stack'[k]])
  BY <1>1, <1>2, <1>14 DEF Agrees
<1>16. \A k \in 1..Depth' : k >= Depth /\ Entered(k)' => GoesOn(input, where, I, k)'
  BY <1>2, <1>10, <1>14, Zenon
<1> QED BY <1>11, <1>12, <1>13, <1>15, <1>16, AgreesKept

\* The colon behind a key.
LEMMA SeparatorShape ==
  ASSUME ParserInv, ParserInv', Separator, NEW where, NEW item, Shape(where, item)
  PROVE  /\ Grows(where, item, where, item) /\ NothingEnds
         /\ Others(item, Depth)' = Others(item, Depth) /\ Shape(where, item)'
<1>1. /\ at \in {"first_separator", "separator"} /\ at' = "value" /\ GetToken /\ last_token = ":"
      /\ UNCHANGED <<nodes, root, ref_stack, object_element>> /\ UNCHANGED tree
      /\ Located(where, item) /\ Stands(where, item)
      /\ ref_stack # <<>> /\ ~IsArray(Last(ref_stack))
  BY DEF Separator, tree, Shape, ParserInv, Placed
<1>2. /\ Depth \in Nat /\ Depth \in 1..Depth /\ Last(ref_stack) = ref_stack[Depth]
      /\ Depth' = Depth /\ Len(nodes) \in Nat
  BY <1>1, Innermost DEF Depth
<1>3. /\ Read \in Nat /\ Read' = Read + 1 /\ last_token = tokens[Read]
      /\ \A n \in 1..Read : tokens'[n] = tokens[n] /\ n \in 1..Read'
  BY <1>1, TokensGrow DEF Located
<1>4. item \in [1..Depth -> 1..Read'] /\ item[Depth] \in 1..Read
  <2>1. item \in [1..Depth -> 1..Read]
    BY <1>1 DEF Located
  <2> QED BY <1>2, <1>3, <2>1
<1>5. /\ Grows(where, item, where, item) /\ NothingEnds
      /\ Located(where, item)' /\ KeysDiffer' /\ ChildrenFollow'
  BY <1>1, <1>4, TreeStays
<1>6. item[Depth] = Read - 1 /\ item[Depth] + 1 = Read /\ item[Depth] + 2 = Read'
      /\ Read \in 1..Read
  <2>1. item[Depth] = Read - 1
    BY <1>1 DEF Stands
  <2> QED BY <1>3, <1>4, <2>1
<1>7. tokens'[item[Depth]] = tokens[item[Depth]] /\ tokens'[item[Depth] + 1] = ":"
  BY <1>1, <1>3, <1>4, <1>6
<1>8. Stands(where, item)'
  <2>1. Inner(item, Depth)' = Read'
    BY <1>1, <1>2, <1>6 DEF Inner, IsArray
  <2>2. AwaitsMember
    BY <1>1 DEF AwaitsMember
  <2>3. /\ tokens[item[Depth]] \in Strings
        /\ nodes[Last(ref_stack)].children[object_element.child].step = tokens[item[Depth]]
    BY <1>1, <2>2 DEF Stands
  <2> QED BY <1>1, <1>2, <1>7, <2>1, <2>3 DEF Stands
<1>9. ~IsHung(Depth)' /\ ~IsHung(Depth)
  BY <1>1, <1>2 DEF IsHung
<1>10. Others(item, Depth)' = Others(item, Depth)
  BY <1>1, <1>2, <1>7 DEF Others
<1>11. RestFinished(item, Depth) /\ ~IsArray(ref_stack[Depth])
  <2>1. Entered(Depth)
    BY <1>1 DEF Entered
  <2> QED BY <1>1, <1>2, <2>1 DEF Shape
<1>12. ASSUME NEW k \in 1..Depth', k >= Depth
       PROVE  RestFinished(item, k)' /\ Hangs(where, item, k)'
  <2>1. k = Depth
    BY <1>2, <1>12
  <2>2. \A c \in Others(item, k) : IsFinished(nodes[ref_stack[k]].children[c].node, ref_stack[k])
    BY <1>11, <2>1 DEF RestFinished
  <2>3. \A m, n : IsFinished(m, n)' <=> IsFinished(m, n)
    BY <1>1, <1>2 DEF IsFinished, IsNumber, IsOpen, Depth
  <2>4. ~IsArray(ref_stack[k])'
    BY <1>1, <1>11, <2>1 DEF IsArray
  <2>5. Others(item, k)' = Others(item, k)
    BY <1>1, <1>2, <1>7, <2>1 DEF Others
  <2>6. \A c \in Others(item, k)' :
          IsFinished(nodes[ref_stack[k]].children[c].node, ref_stack[k])'
    BY <1>1, <1>2, <2>2, <2>5 DEF IsFinished, IsNumber, IsOpen, Depth
  <2>7. RestFinished(item, k)'
    BY <2>4, <2>6 DEF RestFinished
  <2>8. ~(k < Depth') /\ at' # "next"
    BY <1>1, <1>2, <2>1
  <2> QED BY <2>7, <2>8 DEF Hangs
<1> QED BY <1>5, <1>8, <1>10, <1>12, ShapeKept

\* Nothing in front of the value has changed.
LEMMA SeparatorAgrees ==
  ASSUME ParserInv, ParserInv', Separator, NEW where, NEW item, Shape(where, item),
         NEW input, Agrees(input, where, item)
  PROVE  Agrees(input, where, item)'
<1>1. /\ at \in {"first_separator", "separator"} /\ at' = "value"
      /\ UNCHANGED <<nodes, root, ref_stack, object_element>>
      /\ ref_stack # <<>> /\ ~IsArray(Last(ref_stack))
  BY DEF Separator, tree, ParserInv, Placed
<1>2. /\ Depth \in Nat /\ Depth \in 1..Depth /\ Last(ref_stack) = ref_stack[Depth]
      /\ Depth' = Depth /\ Len(nodes) \in Nat
  BY <1>1, Innermost DEF Depth
<1>3. /\ Grows(where, item, where, item) /\ NothingEnds
      /\ Others(item, Depth)' = Others(item, Depth)
  BY SeparatorShape
<1>4. GoesOn(input, where, item, Depth) /\ ~IsArray(ref_stack[Depth])
  <2>1. Entered(Depth)
    BY <1>1 DEF Entered
  <2> QED BY <1>1, <1>2, <2>1 DEF Agrees
<1>5. HeldMembers(input, where, item, Depth)' = HeldMembers(input, where, item, Depth)
  BY <1>1, <1>2, <1>3 DEF HeldMembers
<1>6. GoesOn(input, where, item, Depth)'
  <2>1. ~IsArray(ref_stack[Depth])'
    BY <1>1, <1>2, <1>4 DEF IsArray
  <2> QED BY <1>1, <1>2, <1>4, <1>5, <2>1, Zenon DEF GoesOn
<1>7. FinishedMean(input, where)'
  BY <1>3, MeaningStill DEF Agrees
<1>8. HasRead(input, item)'
  BY <1>1 DEF HasRead
<1>9. \A k \in 1..Depth' : k >= Depth => k = Depth
  BY <1>2
<1>10. \A k \in 1..Depth' : k >= Depth => FailsAll(input, where[ref_stack'[k]])
  BY <1>1, <1>2, <1>9 DEF Agrees
<1>11. \A k \in 1..Depth' : k >= Depth /\ Entered(k)' => GoesOn(input, where, item, k)'
  BY <1>2, <1>6, <1>9, Zenon
<1> QED BY <1>3, <1>7, <1>8, <1>10, <1>11, AgreesKept

\* Behind a value: all that the innermost array or object holds is finished.
LEMMA BehindValue ==
  ASSUME ParserInv, at = "next", NEW where, NEW item, Shape(where, item)
  PROVE  /\ ref_stack # <<>> /\ Depth \in Nat /\ Depth \in 1..Depth /\ Len(states) = Depth
         /\ states \in Seq(BOOLEAN)
         /\ Last(ref_stack) = ref_stack[Depth] /\ ref_stack[Depth] \in 1..Len(nodes)
         /\ (InArray <=> IsArray(ref_stack[Depth]))
         /\ RestFinished(item, Depth)
         /\ \E m \in 1..Len(nodes) : HangsAt(where, item, Depth, m) /\ ~IsOpen(m)
<1>1. states # <<>> /\ LevelsAgree /\ Len(states) = Depth /\ states \in Seq(BOOLEAN)
  BY DEF ParserInv, Placed, RefsAlive, LevelsAgree, Depth, ParserTypeOK
<1>2. ref_stack # <<>> /\ Depth \in Nat
  <2>1. Depth > 0 /\ Depth \in Nat
    BY <1>1, LastFront
  <2> QED BY <2>1 DEF Depth
<1>3. /\ Depth \in 1..Depth /\ Last(ref_stack) = ref_stack[Depth]
      /\ ref_stack[Depth] \in 1..Len(nodes)
  BY <1>2, Innermost
<1>4. InArray <=> IsArray(ref_stack[Depth])
  BY <1>1, <1>3, Zenon DEF InArray, LevelsAgree, Last
<1>5. Entered(Depth)
  BY DEF Entered
<1>6. RestFinished(item, Depth) /\ Hangs(where, item, Depth)
  BY <1>3, <1>5 DEF Shape
<1>7. \E m \in 1..Len(nodes) : HangsAt(where, item, Depth, m) /\ ~IsOpen(m)
  BY <1>6, Zenon DEF Hangs
<1> QED BY <1>1, <1>2, <1>3, <1>4, <1>6, <1>7

\* All children of the innermost one are finished.
LEMMA AllFinished ==
  ASSUME ParserInv, at = "next", NEW where, NEW item, Shape(where, item),
         NEW n, n = ref_stack[Depth], NEW c \in DOMAIN nodes[n].children
  PROVE  IsFinished(nodes[n].children[c].node, n)
<1>1. RestFinished(item, Depth) /\ n \in 1..Len(nodes) /\ IsHung(Depth) /\ KeysDiffer
  BY BehindValue DEF IsHung, Shape
<1>2. PICK m \in 1..Len(nodes) : HangsAt(where, item, Depth, m) /\ ~IsOpen(m)
  BY BehindValue
<1>3. IsFinished(m, n)
  BY <1>2 DEF HangsAt, IsFinished
<1>4. CASE IsArray(n)
  <2>1. /\ Len(nodes[n].children) \in Nat /\ c \in 1..Len(nodes[n].children)
    BY <1>1, ParserTypes
  <2>2. /\ nodes[n].children[Len(nodes[n].children)].node = m
        /\ \A d \in 1..(Len(nodes[n].children) - 1) : IsFinished(nodes[n].children[d].node, n)
    BY <1>1, <1>2, <1>4, Zenon DEF HangsAt, RestFinished, Before
  <2>3. c = Len(nodes[n].children) \/ c \in 1..(Len(nodes[n].children) - 1)
    BY <2>1
  <2> QED BY <1>3, <2>2, <2>3
<1>5. CASE ~IsArray(n)
  <2>1. PICK d \in DOMAIN nodes[n].children :
          nodes[n].children[d].step = tokens[item[Depth]] /\ nodes[n].children[d].node = m
    BY <1>2, <1>5, Zenon DEF HangsAt
  <2>2. CASE c \in Others(item, Depth)
    BY <1>1, <1>5, <2>2, Zenon DEF RestFinished
  <2>3. CASE c \notin Others(item, Depth)
    <3>1. nodes[n].children[c].step = tokens[item[Depth]]
      BY <2>3 DEF Others
    <3>2. nodes[n].token = "{"
      <4>1. nodes[n].token \in {"[", "{"}
        BY BehindValue, Zenon DEF ParserInv, Nested, Depth
      <4> QED BY <1>5, <4>1 DEF IsArray
    <3>3. c = d
      BY <1>1, <2>1, <3>1, <3>2 DEF KeysDiffer
    <3> QED BY <1>3, <2>1, <3>3
  <2> QED BY <2>2, <2>3
<1> QED BY <1>4, <1>5

\* What the children of an array and of an object mean.
ElementsOf(input, where, n) ==
  [c \in 1..Len(nodes[n].children) |-> Value(input, where[nodes[n].children[c].node]).meaning]

\* The members that are the children of n.
MembersOf(input, where, n) ==
  {<<nodes[n].children[c].step, Value(input, where[nodes[n].children[c].node]).meaning>> :
     c \in DOMAIN nodes[n].children}

\* What it holds, the value just read included.
LEMMA AllElements ==
  ASSUME ParserInv, at = "next", NEW where, NEW item, Shape(where, item),
         NEW n, n = ref_stack[Depth], IsArray(n), NEW input, StartsAsRead(input)
  PROVE  /\ HeldElements(input, where, Depth) \in Seq(Meanings(input))
         /\ Append(HeldElements(input, where, Depth), Value(input, item[Depth]).meaning) =
              ElementsOf(input, where, n)
<1>1. /\ n \in 1..Len(nodes) /\ IsHung(Depth) /\ RestFinished(item, Depth)
      /\ Located(where, item) /\ Len(nodes) \in Nat
  BY BehindValue, ParserTypes DEF IsHung, Shape
<1>2. PICK m \in 1..Len(nodes) : HangsAt(where, item, Depth, m)
  BY BehindValue
<1>3. PICK b : b = Before(Depth)
  OBVIOUS
<1>4. b \in Nat /\ Len(nodes[n].children) = b + 1 /\ DOMAIN nodes[n].children = 1..(b + 1)
  <2>1. b \in Nat /\ b = Len(nodes[n].children) - 1
    BY <1>1, <1>3, Zenon DEF RestFinished, Before
  <2>2. Len(nodes[n].children) \in Nat /\ DOMAIN nodes[n].children = 1..Len(nodes[n].children)
    BY <1>1, ParserTypes
  <2> QED BY <2>1, <2>2
<1>5. nodes[n].children[b + 1].node = m /\ where[m] = item[Depth]
  BY <1>2, <1>4, Zenon DEF HangsAt, Inner
<1> DEFINE V(c) == Value(input, where[nodes[n].children[c].node]).meaning
           held == [c \in 1..b |-> V(c)]
<1>6. \A c \in 1..(b + 1) : V(c) \in Meanings(input)
  <2> SUFFICES ASSUME NEW c \in 1..(b + 1) PROVE V(c) \in Meanings(input)
    OBVIOUS
  <2>1. nodes[n].children[c].node \in 1..Len(nodes)
    <3>1. IsFinished(nodes[n].children[c].node, n)
      BY <1>4, AllFinished
    <3> QED BY <1>1, <3>1 DEF IsFinished, IsNumber
  <2>2. where[nodes[n].children[c].node] \in Nat
    BY <1>1, <2>1, Places
  <2> QED BY <2>2 DEF Meanings
<1>7. V(b + 1) = Value(input, item[Depth]).meaning
  BY <1>5
<1> HIDE DEF V
<1>8. held \in Seq(Meanings(input)) /\ Len(held) = b
  BY <1>4, <1>6
<1>9. V(b + 1) \in Meanings(input)
  BY <1>4, <1>6
<1>10. Append(held, V(b + 1)) = [c \in 1..(b + 1) |-> V(c)]
  <2>0. \A c \in 1..b : held[c] = V(c)
    OBVIOUS
  <2> HIDE DEF held
  <2>1. /\ Append(held, V(b + 1)) \in Seq(Meanings(input))
        /\ Len(Append(held, V(b + 1))) = b + 1
        /\ \A c \in 1..b : Append(held, V(b + 1))[c] = held[c]
        /\ Append(held, V(b + 1))[b + 1] = V(b + 1)
    <3>1. /\ Append(held, V(b + 1)) \in Seq(Meanings(input))
          /\ Len(Append(held, V(b + 1))) = Len(held) + 1
          /\ \A c \in 1..Len(held) : Append(held, V(b + 1))[c] = held[c]
          /\ Append(held, V(b + 1))[Len(held) + 1] = V(b + 1)
      BY <1>8, <1>9, AppendProperties
    <3> QED BY <1>8, <3>1, Zenon
  <2> DEFINE longer == Append(held, V(b + 1))
             whole == [c \in 1..(b + 1) |-> V(c)]
  <2>2. whole \in Seq(Meanings(input)) /\ Len(whole) = b + 1
    BY <1>4, <1>6
  <2>3. \A c \in 1..(b + 1) : longer[c] = whole[c]
    BY <1>4, <2>0, <2>1
  <2> HIDE DEF longer, whole
  <2>4. longer \in Seq(Meanings(input)) /\ Len(longer) = b + 1
    BY <2>1 DEF longer
  <2>5. longer = whole
    BY <2>2, <2>3, <2>4, SeqEqual
  <2> QED BY <2>5 DEF longer, whole
<1>11. held = HeldElements(input, where, Depth)
  BY <1>3, Zenon DEF HeldElements, held, V
<1> QED BY <1>4, <1>7, <1>8, <1>10, <1>11, Zenon DEF V, ElementsOf

\* The same of an object.
LEMMA AllMembers ==
  ASSUME ParserInv, at = "next", NEW where, NEW item, Shape(where, item),
         NEW n, n = ref_stack[Depth], ~IsArray(n), NEW input, StartsAsRead(input)
  PROVE  /\ HeldMembers(input, where, item, Depth) \union
              {<<Token(input, item[Depth]), Value(input, item[Depth] + 2).meaning>>} =
              MembersOf(input, where, n)
         /\ \A m \in HeldMembers(input, where, item, Depth) : m[1] # Token(input, item[Depth])
         /\ Token(input, item[Depth]) \in Strings /\ Token(input, item[Depth] + 1) = ":"
<1>1. /\ n \in 1..Len(nodes) /\ Depth \in 1..Depth /\ KeysDiffer /\ Located(where, item)
      /\ Read \in Nat
  BY BehindValue, ParserTypes DEF Shape
<1>2. PICK m \in 1..Len(nodes) : HangsAt(where, item, Depth, m)
  BY BehindValue
<1>3. PICK d \in DOMAIN nodes[n].children :
          nodes[n].children[d].step = tokens[item[Depth]] /\ nodes[n].children[d].node = m
  BY <1>2, Zenon DEF HangsAt
<1>4. where[m] = item[Depth] + 2 /\ tokens[item[Depth]] \in Strings /\ tokens[item[Depth] + 1] = ":"
  BY <1>2, Zenon DEF HangsAt, Inner
<1>5. /\ item[Depth] \in Nat /\ Token(input, item[Depth]) = tokens[item[Depth]]
      /\ where[m] \in 1..Read
  BY <1>1, Places
<1>6. Token(input, item[Depth] + 1) = ":"
  <2>1. item[Depth] + 1 \in 1..Read
    BY <1>1, <1>4, <1>5
  <2> QED BY <1>4, <2>1, TokenRead
<1> DEFINE P(c) == <<nodes[n].children[c].step,
                     Value(input, where[nodes[n].children[c].node]).meaning>>
           key == Token(input, item[Depth])
<1>7. P(d) = <<key, Value(input, item[Depth] + 2).meaning>>
  BY <1>3, <1>4, <1>5
<1>8. HeldMembers(input, where, item, Depth) = {P(c) : c \in Others(item, Depth)}
  BY Zenon DEF HeldMembers
<1>9. \A c \in DOMAIN nodes[n].children : c \in Others(item, Depth) \/ c = d
  <2>1. nodes[n].token = "{"
      <3>1. nodes[n].token \in {"[", "{"}
        BY BehindValue, Zenon DEF ParserInv, Nested, Depth
      <3> QED BY <3>1 DEF IsArray
  <2> QED BY <1>1, <1>3, <2>1, Zenon DEF Others, KeysDiffer
<1>10. \A c \in Others(item, Depth) :
         c \in DOMAIN nodes[n].children /\ nodes[n].children[c].step # key
  BY <1>5 DEF Others
<1>11. \A c : P(c)[1] = nodes[n].children[c].step
  OBVIOUS
<1>12. {P(c) : c \in Others(item, Depth)} \union {P(d)} = {P(c) : c \in DOMAIN nodes[n].children}
  <2> HIDE DEF P
  <2> QED BY <1>3, <1>9, <1>10
<1> HIDE DEF P
<1>13. \A q \in HeldMembers(input, where, item, Depth) : q[1] # key
  BY <1>8, <1>10, <1>11
<1> QED BY <1>4, <1>5, <1>6, <1>7, <1>8, <1>12, <1>13, Zenon DEF P, MembersOf

\* The next token is one of the text that continues.
LEMMA TokenNext ==
  ASSUME ParserInv', NEW input, StartsAsRead(input)', NEW n \in 1..Read'
  PROVE  Token(input, n) = tokens'[n]
<1>1. /\ tokens' \in Seq(Tokens) /\ Len(tokens') \in Nat /\ input \in Seq(Tokens)
      /\ Len(tokens') <= Len(input) /\ \A k \in 1..Len(tokens') : input[k] = tokens'[k]
      /\ n \in 1..Len(tokens')
  BY DEF ParserInv, ParserTypeOK, StartsAsRead, Read
<1>2. n \in DOMAIN input
  BY <1>1
<1> QED BY <1>1, <1>2 DEF Token

\* The end of a range.
LEMMA UpTo == \A n \in Nat : n + 1 \in 1..(n + 1)
OBVIOUS

\* A comma.
LEMMA CommaFacts ==
  ASSUME ParserInv, ParserInv', Comma, NEW where, NEW item, Shape(where, item),
         NEW I, I = [item EXCEPT ![Depth] = Read + 1]
  PROVE  /\ at = "next" /\ last_token = ","
         /\ at' = IF IsArray(ref_stack[Depth]) THEN "value" ELSE "key"
         /\ UNCHANGED <<nodes, root, ref_stack, object_element>> /\ UNCHANGED tree /\ GetToken
         /\ ref_stack # <<>> /\ Depth \in Nat /\ Depth \in 1..Depth /\ Depth' = Depth
         /\ Read \in Nat /\ Read' = Read + 1
         /\ \A n \in 1..Read : tokens'[n] = tokens[n] /\ n \in 1..Read'
         /\ Last(ref_stack) = ref_stack[Depth] /\ ref_stack[Depth] \in 1..Len(nodes)
         /\ Len(nodes) \in Nat
         /\ I[Depth] = Read'
         /\ Grows(where, item, where, I) /\ NothingEnds
         /\ Located(where, I)' /\ KeysDiffer' /\ ChildrenFollow'
<1>1. /\ at = "next" /\ at' = (IF InArray THEN "value" ELSE "key") /\ GetToken
      /\ last_token = ","
      /\ UNCHANGED <<nodes, root, ref_stack, object_element>> /\ UNCHANGED tree
      /\ Located(where, item)
  BY DEF Comma, tree, Shape
<1>2. /\ ref_stack # <<>> /\ Depth \in Nat /\ Depth \in 1..Depth
      /\ Last(ref_stack) = ref_stack[Depth] /\ ref_stack[Depth] \in 1..Len(nodes)
      /\ (InArray <=> IsArray(ref_stack[Depth])) /\ Len(nodes) \in Nat
  BY <1>1, BehindValue, ParserTypes
<1>3. /\ Read \in Nat /\ Read' = Read + 1
      /\ \A n \in 1..Read : tokens'[n] = tokens[n] /\ n \in 1..Read'
  BY <1>1, TokensGrow
<1>4. I \in [1..Depth -> 1..Read'] /\ (\A k \in 1..(Depth - 1) : I[k] = item[k]) /\ I[Depth] = Read'
  <2>1. item \in [1..Depth -> 1..Read]
    BY <1>1 DEF Located
  <2> QED BY <1>2, <1>3, <2>1
<1>5. /\ Grows(where, item, where, I) /\ NothingEnds
      /\ Located(where, I)' /\ KeysDiffer' /\ ChildrenFollow'
  BY <1>1, <1>4, TreeStays
<1>6. Depth' = Depth
  BY <1>1 DEF Depth
<1> QED BY <1>1, <1>2, <1>3, <1>4, <1>5, <1>6

\* The tree stays, the present element or member is the next.
LEMMA CommaShape ==
  ASSUME ParserInv, ParserInv', Comma, NEW where, NEW item, Shape(where, item),
         NEW I, I = [item EXCEPT ![Depth] = Read + 1]
  PROVE  Shape(where, I)'
<1>1. /\ at = "next" /\ at' = IF IsArray(ref_stack[Depth]) THEN "value" ELSE "key"
      /\ UNCHANGED <<nodes, root, ref_stack, object_element>>
      /\ ref_stack # <<>> /\ Depth \in Nat /\ Depth \in 1..Depth /\ Depth' = Depth
      /\ Last(ref_stack) = ref_stack[Depth] /\ ref_stack[Depth] \in 1..Len(nodes)
      /\ I[Depth] = Read'
  BY CommaFacts
<1>2. /\ Grows(where, item, where, I)
      /\ Located(where, I)' /\ KeysDiffer' /\ ChildrenFollow'
  BY CommaFacts
<1>3. Stands(where, I)'
  <2>1. CASE IsArray(ref_stack[Depth])
    <3>1. Inner(I, Depth)' = Read'
      BY <1>1, <2>1 DEF Inner, IsArray
    <3>2. at' = "value" /\ ~AwaitsMember'
      BY <1>1, <2>1 DEF AwaitsMember, IsArray
    <3> QED BY <1>1, <3>1, <3>2 DEF Stands
  <2>2. CASE ~IsArray(ref_stack[Depth])
    <3>1. at' = "key" /\ ~AwaitsMember'
      BY <1>1, <2>2 DEF AwaitsMember
    <3> QED BY <1>1, <3>1 DEF Stands
  <2> QED BY <2>1, <2>2
<1>4. PICK n : n = ref_stack[Depth]
  OBVIOUS
<1>5. \A c \in DOMAIN nodes[n].children : IsFinished(nodes[n].children[c].node, n)
  BY <1>1, <1>4, AllFinished
<1>6. \A c \in DOMAIN nodes[n].children : IsFinished(nodes[n].children[c].node, n)'
  BY <1>1, <1>5 DEF IsFinished, IsNumber, IsOpen, Depth
<1>7. ASSUME NEW k \in 1..Depth', k >= Depth
      PROVE  RestFinished(I, k)' /\ Hangs(where, I, k)'
  <2>1. k = Depth /\ ref_stack'[k] = n
    BY <1>1, <1>4, <1>7
  <2>2. ~(k < Depth') /\ at' # "next" /\ ~IsHung(k)'
    BY <1>1, <2>1 DEF IsHung
  <2>3. CASE IsArray(n)'
    <3>1. Before(k)' = Len(nodes[n].children) /\ Len(nodes[n].children) \in Nat
          /\ DOMAIN nodes[n].children = 1..Len(nodes[n].children)
      BY <1>1, <1>4, <2>1, <2>2, ParserTypes DEF Before
    <3>2. \A c \in 1..Before(k)' : IsFinished(nodes[n].children[c].node, n)'
      BY <1>6, <3>1
    <3> QED BY <2>1, <2>2, <2>3, <3>1, <3>2, Zenon DEF RestFinished, Hangs
  <2>4. CASE ~IsArray(n)'
    <3>1. \A c \in Others(I, k)' : c \in DOMAIN nodes[n].children
      BY <1>1, <2>1 DEF Others
    <3>2. \A c \in Others(I, k)' : IsFinished(nodes[n].children[c].node, n)'
      BY <1>6, <3>1
    <3> QED BY <2>1, <2>2, <2>4, <3>2, Zenon DEF RestFinished, Hangs
  <2> QED BY <2>3, <2>4
<1> QED BY <1>2, <1>3, <1>7, ShapeKept

\* The value just read is one of those held.
LEMMA CommaGoesOn ==
  ASSUME ParserInv, ParserInv', Comma, NEW where, NEW item, Shape(where, item),
         NEW I, I = [item EXCEPT ![Depth] = Read + 1], NEW input, StartsAsRead(input),
         StartsAsRead(input)', Agrees(input, where, item)
  PROVE  GoesOn(input, where, I, Depth)'
<1>1. /\ at = "next" /\ at' = IF IsArray(ref_stack[Depth]) THEN "value" ELSE "key"
      /\ UNCHANGED <<nodes, root, ref_stack, object_element>>
      /\ ref_stack # <<>> /\ Depth \in Nat /\ Depth \in 1..Depth /\ Depth' = Depth
      /\ Last(ref_stack) = ref_stack[Depth] /\ ref_stack[Depth] \in 1..Len(nodes)
      /\ Len(nodes) \in Nat
  BY CommaFacts
<1>1a. I[Depth] = Read' /\ Read' = Read + 1 /\ Read \in Nat /\ last_token = ","
  BY CommaFacts
<1>1b. at = "next"
  BY <1>1
<1>2. PICK n : n = ref_stack[Depth]
  OBVIOUS
<1>3. /\ input \in Seq(Tokens) /\ Token(input, Read) = "," /\ Located(where, item)
  BY <1>1a, LastRead DEF Shape
<1>3a. Value(input, Inner(item, Depth)).next = Read
  BY <1>1 DEF Agrees, HasRead
<1>4. /\ where[n] \in Nat /\ item[Depth] \in Nat
      /\ IsArray(n) => ArrayMeans(input, where[n], item[Depth], HeldElements(input, where, Depth))
      /\ ~IsArray(n) => ObjectMeans(input, where[n], item[Depth],
                                    HeldMembers(input, where, item, Depth))
  <2>1. at \notin {"first_element", "first_key"}
    BY <1>1
  <2> QED BY <1>1, <1>2, <1>3, <2>1, InnermostGoesOn, Zenon
<1>5. ~IsHung(Depth)'
  <2>1. at' # "next" /\ ~(Depth' < Depth')
    BY <1>1
  <2> QED BY <2>1 DEF IsHung
<1>6. /\ ref_stack'[Depth'] = n /\ nodes'[n].children = nodes[n].children
      /\ IsArray(n)' <=> IsArray(n)
  BY <1>1, <1>2 DEF IsArray
<1>7. CASE IsArray(n)
  <2>1. Value(input, item[Depth]).next = Read
    BY <1>2, <1>3a, <1>7 DEF Inner
  <2>2. HeldElements(input, where, Depth)' =
          [c \in 1..Len(nodes[n].children) |->
             Value(input, where[nodes[n].children[c].node]).meaning]
    <3>1. Before(Depth)' = Len(nodes[n].children)
      BY <1>5, <1>6, Zenon DEF Before
    <3> QED BY <1>6, <3>1, Zenon DEF HeldElements
  <2>3. /\ HeldElements(input, where, Depth) \in Seq(Meanings(input))
        /\ Append(HeldElements(input, where, Depth), Value(input, item[Depth]).meaning) =
             HeldElements(input, where, Depth)'
    <3>1. /\ HeldElements(input, where, Depth) \in Seq(Meanings(input))
          /\ Append(HeldElements(input, where, Depth), Value(input, item[Depth]).meaning) =
               ElementsOf(input, where, n)
      BY <1>1b, <1>2, <1>7, AllElements, Zenon
    <3> QED BY <2>2, <3>1, Zenon DEF ElementsOf
  <2>4. ArrayMeans(input, where[n], Value(input, item[Depth]).next + 1,
                   Append(HeldElements(input, where, Depth), Value(input, item[Depth]).meaning))
    BY <1>3, <1>4, <1>7, <2>1, <2>3, ArrayNext, Zenon
  <2>5. ArrayMeans(input, where[n], I[Depth], HeldElements(input, where, Depth)')
    BY <1>1a, <2>1, <2>3, <2>4, Zenon
  <2> QED BY <1>1, <1>6, <1>7, <2>5, Zenon DEF GoesOn
<1>8. CASE ~IsArray(n)
  <2> DEFINE all == MembersOf(input, where, n)
             others == HeldMembers(input, where, I, Depth)'
             held == HeldMembers(input, where, item, Depth)
  <2>1. Value(input, item[Depth] + 2).next = Read
    BY <1>2, <1>3a, <1>8 DEF Inner
  <2>2a. /\ HeldMembers(input, where, item, Depth) \union
               {<<Token(input, item[Depth]), Value(input, item[Depth] + 2).meaning>>} =
               MembersOf(input, where, n)
         /\ \A m \in HeldMembers(input, where, item, Depth) : m[1] # Token(input, item[Depth])
         /\ Token(input, item[Depth]) \in Strings /\ Token(input, item[Depth] + 1) = ":"
    <3> HIDE DEF all, others, held
    <3> QED BY <1>1b, <1>2, <1>8, AllMembers
  <2>2. /\ held \union {<<Token(input, item[Depth]), Value(input, item[Depth] + 2).meaning>>} = all
        /\ \A m \in held : m[1] # Token(input, item[Depth])
        /\ Token(input, item[Depth]) \in Strings /\ Token(input, item[Depth] + 1) = ":"
    BY <2>2a
  <2>3. Token(input, Read + 1) = tokens'[I[Depth]]
    <3>1. Read + 1 \in 1..Read'
      BY <1>1a, UpTo, Zenon
    <3> QED BY <1>1a, <3>1, TokenNext
  <2>4. others = {m \in all : m[1] # Token(input, Read + 1)}
    <3> DEFINE P(c) == <<nodes[n].children[c].step,
                         Value(input, where[nodes[n].children[c].node]).meaning>>
    <3>1. \A c : P(c)[1] = nodes[n].children[c].step
      OBVIOUS
    <3>2. Others(I, Depth)' =
            {c \in DOMAIN nodes[n].children : nodes[n].children[c].step # tokens'[I[Depth]]}
      BY <1>1, <1>6, Zenon DEF Others
    <3>3. others = {P(c) : c \in Others(I, Depth)'}
      BY <1>6, Zenon DEF HeldMembers
    <3>4. all = {P(c) : c \in DOMAIN nodes[n].children}
      BY Zenon DEF MembersOf
    <3> HIDE DEF all, others, P
    <3> QED BY <2>3, <3>1, <3>2, <3>3, <3>4
  <2>5. ObjectMeans(input, where[n], Value(input, item[Depth] + 2).next + 1, others)
    <3> HIDE DEF all, others, held
    <3>1. all = held \union {<<Token(input, item[Depth]), Value(input, item[Depth] + 2).meaning>>}
      BY <2>2, Zenon
    <3>2. others = {m \in all : m[1] # Token(input, Value(input, item[Depth] + 2).next + 1)}
      BY <2>1, <2>4, Zenon
    <3>3. Token(input, Value(input, item[Depth] + 2).next) = ","
      BY <1>3, <2>1, Zenon
    <3>4. ObjectMeans(input, where[n], item[Depth], held)
      BY <1>4, <1>8, Zenon DEF held
    <3> QED BY <1>3, <1>4, <2>2, <3>1, <3>2, <3>3, <3>4, ObjectNext, Zenon
  <2>6. ObjectMeans(input, where[n], I[Depth], others)
    BY <1>1a, <2>1, <2>5, Zenon
  <2> QED BY <1>1, <1>6, <1>8, <2>6, Zenon DEF GoesOn
<1> QED BY <1>7, <1>8

\* The rest of the text is as it was.
LEMMA CommaAgrees ==
  ASSUME ParserInv, ParserInv', Comma, NEW where, NEW item, Shape(where, item),
         NEW I, I = [item EXCEPT ![Depth] = Read + 1], NEW input, StartsAsRead(input),
         StartsAsRead(input)', Agrees(input, where, item)
  PROVE  Agrees(input, where, I)'
<1>1. /\ at' \in {"value", "key"} /\ UNCHANGED <<nodes, ref_stack>>
      /\ Depth \in Nat /\ Depth \in 1..Depth /\ Depth' = Depth
      /\ Grows(where, item, where, I) /\ NothingEnds
  BY CommaFacts
<1>2. FinishedMean(input, where)'
  BY <1>1, MeaningStill DEF Agrees
<1>3. HasRead(input, I)'
  BY <1>1 DEF HasRead
<1>4. \A k \in 1..Depth' : k >= Depth => k = Depth
  BY <1>1
<1>5. \A k \in 1..Depth' : k >= Depth => FailsAll(input, where[ref_stack'[k]])
  BY <1>1, <1>4 DEF Agrees
<1>6. GoesOn(input, where, I, Depth)'
  BY CommaGoesOn
<1>7. \A k \in 1..Depth' : k >= Depth /\ Entered(k)' => GoesOn(input, where, I, k)'
  BY <1>1, <1>4, <1>6, Zenon
<1> QED BY <1>1, <1>2, <1>3, <1>5, <1>7, AgreesKept

\* The places of the values of a tree that has grown.
LEMMA LocatedKept ==
  ASSUME ParserInv, ParserInv', NEW where, NEW item, NEW W, NEW I, Grows(where, item, W, I),
         Located(where, item), (tokens' = tokens /\ last_token' = last_token) \/ GetToken,
         W \in [1..Len(nodes') -> 1..Read'], I \in [1..Depth' -> 1..Read'],
         \A n \in 1..Len(nodes') : n > Len(nodes) => tokens'[W[n]] = nodes'[n].token,
         nodes' # <<>> => root' = 1 /\ W[1] = 1,
         ref_stack' # <<>> => ref_stack'[1] = 1
  PROVE  Located(W, I)'
<1>1. /\ \A n \in 1..Read : tokens'[n] = tokens[n] /\ n \in 1..Read'
      /\ tokens' # <<>> /\ last_token' = tokens'[Read']
  BY TokensGrow
<1>2. Len(nodes) \in Nat /\ Len(nodes') \in Nat
  BY ParserTypes
<1>3. ASSUME NEW n \in 1..Len(nodes') PROVE tokens'[W[n]] = nodes'[n].token
  <2>1. CASE n > Len(nodes)
    BY <2>1
  <2>2. CASE n \in 1..Len(nodes)
    <3>1. where[n] \in 1..Read /\ tokens[where[n]] = nodes[n].token
      BY <2>2 DEF Located
    <3>2. W[n] = where[n] /\ nodes'[n].token = nodes[n].token
      BY <2>2 DEF Grows
    <3> QED BY <1>1, <3>1, <3>2
  <2> QED BY <1>2, <2>1, <2>2
<1> QED BY <1>1, <1>3, Zenon DEF Located

\* A key of an object.
LEMMA KeyTree ==
  ASSUME ParserInv, ReadKey, NEW n, n = ref_stack[Depth]
  PROVE  /\ at \in {"first_key", "key"} /\ last_token \in Strings /\ GetToken
         /\ at' = IF at = "key" THEN "separator" ELSE "first_separator"
         /\ UNCHANGED <<root, ref_stack>> /\ Depth' = Depth
         /\ ref_stack # <<>> /\ Depth \in Nat /\ Depth \in 1..Depth /\ Last(ref_stack) = n
         /\ n \in 1..Len(nodes) /\ ~IsArray(n) /\ nodes[n].token = "{"
         /\ Len(nodes') = Len(nodes) /\ Len(nodes) \in Nat
         /\ \A m \in 1..Len(nodes) : nodes'[m].token = nodes[m].token
         /\ \A m \in 1..Len(nodes) : m # n => nodes'[m].children = nodes[m].children
         /\ \A c \in DOMAIN nodes[n].children :
              c \in DOMAIN nodes'[n].children /\ nodes'[n].children[c] = nodes[n].children[c]
         /\ \A c \in DOMAIN nodes'[n].children :
              c \in DOMAIN nodes[n].children
              \/ /\ nodes'[n].children[c].step = last_token /\ c = Len(nodes[n].children) + 1
                 /\ \A d \in DOMAIN nodes[n].children : nodes[n].children[d].step # last_token
         /\ nodes'[n].children[object_element'.child].step = last_token
<1>1. /\ at \in {"first_key", "key"} /\ last_token \in Strings /\ Key(last_token) /\ GetToken
      /\ at' = (IF at = "key" THEN "separator" ELSE "first_separator")
      /\ UNCHANGED <<states, root, ref_stack>>
  BY DEF ReadKey, Key
<1>2. ref_stack # <<>> /\ ~IsArray(Last(ref_stack)) /\ Nested
  BY <1>1 DEF ParserInv, Placed
<1>3. /\ Depth \in Nat /\ Depth \in 1..Depth /\ Last(ref_stack) = n
      /\ n \in 1..Len(nodes) /\ Len(nodes) \in Nat
  BY <1>2, Innermost
<1>4. ~IsArray(n) /\ nodes[n].token = "{"
  BY <1>2, <1>3 DEF Nested, IsArray, Depth
<1>5. /\ nodes \in Seq(Node) /\ nodes[n] \in Node /\ nodes[n].children \in Seq(Child)
      /\ Len(nodes[n].children) \in Nat
      /\ DOMAIN nodes[n].children = 1..Len(nodes[n].children)
  BY <1>3, ParserTypes, ElementOfSeq
<1> DEFINE members == nodes[n].children
<1>6. Depth' = Depth
  BY <1>1 DEF Depth
<1>7. CASE /\ \A c \in DOMAIN members : members[c].step # last_token
           /\ nodes' = [nodes EXCEPT ![n].children = Append(@, [step |-> last_token, node |-> 0])]
           /\ object_element' = [node |-> n, child |-> Len(members) + 1]
  <2> DEFINE new == [step |-> last_token, node |-> 0]
             longer == Append(members, new)
             grown == [nodes[n] EXCEPT !.children = longer]
  <2>1. new \in Child /\ new.step = last_token
    BY <1>1 DEF Child
  <2>1a. \A d \in DOMAIN members : members[d].step # last_token
    BY <1>7
  <2>1b. object_element'.child = Len(members) + 1
    BY <1>7
  <2>2. nodes' = [nodes EXCEPT ![n] = grown]
    BY <1>3, <1>7
  <2>3. members \in Seq(Child) /\ Len(members) \in Nat /\ DOMAIN members = 1..Len(members)
    BY <1>5
  <2> HIDE DEF new, members
  <2>4. /\ longer \in Seq(Child) /\ Len(longer) = Len(members) + 1
        /\ \A c \in 1..Len(members) : longer[c] = members[c]
        /\ longer[Len(members) + 1] = new
    BY <2>1, <2>3, LastOfAppend
  <2>5. DOMAIN longer = 1..(Len(members) + 1)
    BY <2>4, LenProperties
  <2> HIDE DEF longer
  <2>6. grown \in Node /\ grown.children = longer /\ grown.token = nodes[n].token
    BY <1>5, <2>4 DEF Node
  <2> HIDE DEF grown
  <2>7. /\ Len(nodes') = Len(nodes) /\ nodes'[n] = grown
        /\ \A k \in 1..Len(nodes) : k # n => nodes'[k] = nodes[k]
    BY <1>3, <1>5, <2>2, <2>6, ExceptSeq
  <2>8. nodes'[n].children = longer /\ nodes'[n].token = nodes[n].token
    BY <2>6, <2>7
  <2>9. \A c \in DOMAIN members : c \in DOMAIN longer /\ longer[c] = members[c]
    BY <2>3, <2>4, <2>5
  <2>10. \A c \in DOMAIN longer : c \in DOMAIN members \/ c = Len(members) + 1
    BY <2>3, <2>5
  <2>11. longer[Len(members) + 1].step = last_token
    BY <2>1, <2>4
  <2>12. \A m \in 1..Len(nodes) :
           nodes'[m].token = nodes[m].token /\ (m # n => nodes'[m].children = nodes[m].children)
    BY <2>7, <2>8
  <2> QED BY <1>1, <1>2, <1>3, <1>4, <1>6, <2>1a, <2>1b, <2>7, <2>8, <2>9, <2>10, <2>11, <2>12,
             Zenon DEF members
<1>8. CASE \E c \in DOMAIN members :
             /\ members[c].step = last_token
             /\ object_element' = [node |-> n, child |-> c]
             /\ UNCHANGED nodes
  <2>1. PICK c \in DOMAIN members : /\ members[c].step = last_token
                                    /\ object_element' = [node |-> n, child |-> c]
                                    /\ UNCHANGED nodes
    BY <1>8
  <2>2. object_element'.child = c /\ nodes' = nodes
    BY <2>1
  <2>3. nodes'[n].children[object_element'.child].step = last_token
    BY <2>1, <2>2
  <2> QED BY <1>1, <1>2, <1>3, <1>4, <1>6, <2>2, <2>3
<1> HIDE DEF members
<1>9. \/ /\ \A c \in DOMAIN members : members[c].step # last_token
         /\ nodes' = [nodes EXCEPT ![n].children = Append(@, [step |-> last_token, node |-> 0])]
         /\ object_element' = [node |-> n, child |-> Len(members) + 1]
      \/ \E c \in DOMAIN members : /\ members[c].step = last_token
                                   /\ object_element' = [node |-> n, child |-> c]
                                   /\ UNCHANGED nodes
  BY <1>1, <1>3 DEF Key, members
<1> QED BY <1>7, <1>8, <1>9

\* The tree has at most one member more, without a value.
LEMMA KeyGrows ==
  ASSUME ParserInv, ParserInv', ReadKey, NEW where, NEW item, Shape(where, item),
         NEW I, I = [item EXCEPT ![Depth] = Read]
  PROVE  /\ Grows(where, item, where, I) /\ NothingEnds
         /\ Located(where, I)' /\ KeysDiffer' /\ ChildrenFollow'
         /\ I[Depth] = Read /\ Read \in Nat /\ Read' = Read + 1 /\ Read \in 1..Read
         /\ tokens'[Read] = last_token /\ tokens[Read] = last_token
<1>0. PICK n : n = ref_stack[Depth]
  OBVIOUS
<1>1. /\ GetToken /\ UNCHANGED <<root, ref_stack>> /\ Depth' = Depth
      /\ ref_stack # <<>> /\ Depth \in Nat /\ Depth \in 1..Depth
      /\ n \in 1..Len(nodes) /\ ~IsArray(n)
      /\ Len(nodes') = Len(nodes) /\ Len(nodes) \in Nat
      /\ \A m \in 1..Len(nodes) : nodes'[m].token = nodes[m].token
      /\ \A m \in 1..Len(nodes) : m # n => nodes'[m].children = nodes[m].children
      /\ \A c \in DOMAIN nodes[n].children :
           c \in DOMAIN nodes'[n].children /\ nodes'[n].children[c] = nodes[n].children[c]
      /\ \A c \in DOMAIN nodes'[n].children :
           c \in DOMAIN nodes[n].children
           \/ /\ nodes'[n].children[c].step = last_token /\ c = Len(nodes[n].children) + 1
              /\ \A d \in DOMAIN nodes[n].children : nodes[n].children[d].step # last_token
  BY <1>0, KeyTree
<1>2. Located(where, item)
  BY DEF Shape
<1>3. /\ Read \in Nat /\ Read' = Read + 1 /\ last_token = tokens[Read]
      /\ \A m \in 1..Read : tokens'[m] = tokens[m] /\ m \in 1..Read'
      /\ tokens \in Seq(Tokens) /\ tokens # <<>>
  BY <1>1, <1>2, TokensGrow, ParserTypes DEF Located
<1>4. Read \in 1..Read
  <2>1. Read > 0
    BY <1>3, EmptySeq DEF Read
  <2> QED BY <1>3, <2>1
<1>5. I \in [1..Depth' -> 1..Read'] /\ (\A k \in 1..(Depth - 1) : I[k] = item[k]) /\ I[Depth] = Read
  <2>1. item \in [1..Depth -> 1..Read]
    BY <1>2 DEF Located
  <2> QED BY <1>1, <1>3, <1>4, <2>1
<1>6. \A m : IsOpen(m)' <=> IsOpen(m)
  BY <1>1 DEF IsOpen
<1>7. IsOpen(n) /\ \A m \in 1..Len(nodes) : ~IsOpen(m) => m # n
  BY <1>0, <1>1 DEF IsOpen
<1>8. ASSUME NEW k \in 1..(Depth - 1)
      PROVE  nodes'[ref_stack[k]].children = nodes[ref_stack[k]].children
  <2>1. k \in 1..Depth /\ k # Depth
    BY <1>1
  <2>2. ref_stack[k] # n /\ ref_stack[k] \in 1..Len(nodes)
    BY <1>0, <1>1, <2>1, LevelsDiffer, ParserTypes
  <2> QED BY <1>1, <2>2
<1>9. Grows(where, item, where, I)
  <2>1. /\ Len(nodes) <= Len(nodes') /\ Read <= Read' /\ \A m \in 1..Read : tokens'[m] = tokens[m]
        /\ Depth - 1 <= Depth' /\ ~(Depth' < Depth)
    BY <1>1, <1>3
  <2>2. \A m \in 1..Len(nodes) :
          /\ nodes'[m].token = nodes[m].token
          /\ ~IsOpen(m) => ~IsOpen(m)' /\ nodes'[m].children = nodes[m].children
    BY <1>1, <1>6, <1>7
  <2> QED BY <1>1, <1>5, <1>8, <2>1, <2>2 DEF Grows
<1>10. NothingEnds
  BY <1>1, <1>6 DEF NothingEnds
<1>11. Located(where, I)'
  <2>1. where \in [1..Len(nodes') -> 1..Read']
    <3>1. where \in [1..Len(nodes) -> 1..Read]
      BY <1>2 DEF Located
    <3> QED BY <1>1, <1>3, <3>1
  <2>2. nodes' # <<>> => root' = 1 /\ where[1] = 1
    <3>1. nodes # <<>>
      BY <1>1, EmptySeq
    <3> QED BY <1>1, <1>2, <3>1 DEF Located
  <2>3. ref_stack' # <<>> => ref_stack'[1] = 1
    BY <1>1, <1>2 DEF Located
  <2>4. \A m \in 1..Len(nodes') : ~(m > Len(nodes))
    BY <1>1
  <2> QED BY <1>1, <1>2, <1>5, <1>9, <2>1, <2>2, <2>3, <2>4, LocatedKept
<1>12. KeysDiffer'
  <2> SUFFICES ASSUME NEW m \in 1..Len(nodes'), nodes'[m].token = "{",
                      NEW c \in DOMAIN nodes'[m].children, NEW d \in DOMAIN nodes'[m].children,
                      nodes'[m].children[c].step = nodes'[m].children[d].step
               PROVE  c = d
    BY DEF KeysDiffer
  <2>1. KeysDiffer /\ m \in 1..Len(nodes) /\ nodes[m].token = "{"
    BY <1>1 DEF Shape
  <2>2. CASE m # n
    BY <1>1, <2>1, <2>2 DEF KeysDiffer
  <2>3. CASE m = n
    <3>1. \A a, b \in DOMAIN nodes[n].children :
            nodes[n].children[a].step = nodes[n].children[b].step => a = b
      BY <2>1, <2>3, Zenon DEF KeysDiffer
    <3>2. c \in DOMAIN nodes'[n].children /\ d \in DOMAIN nodes'[n].children
          /\ nodes'[n].children[c].step = nodes'[n].children[d].step
      BY <2>3
    <3>3. CASE c \in DOMAIN nodes[n].children /\ d \in DOMAIN nodes[n].children
      BY <1>1, <3>1, <3>2, <3>3
    <3>4. CASE c \in DOMAIN nodes[n].children /\ d \notin DOMAIN nodes[n].children
      BY <1>1, <3>2, <3>4
    <3>5. CASE c \notin DOMAIN nodes[n].children /\ d \in DOMAIN nodes[n].children
      BY <1>1, <3>2, <3>5
    <3>6. CASE c \notin DOMAIN nodes[n].children /\ d \notin DOMAIN nodes[n].children
      BY <1>1, <3>2, <3>6
    <3> QED BY <3>3, <3>4, <3>5, <3>6
  <2> QED BY <2>2, <2>3
<1>13. ChildrenFollow'
  BY <1>9, <1>10, ChildrenStill
<1> QED BY <1>3, <1>4, <1>5, <1>9, <1>10, <1>11, <1>12, <1>13

\* The members of other keys stay as they are.
LEMMA KeyOthers ==
  ASSUME ParserInv, ParserInv', ReadKey, NEW where, NEW item, Shape(where, item),
         NEW I, I = [item EXCEPT ![Depth] = Read], NEW n, n = ref_stack[Depth]
  PROVE  /\ at = "key" => Others(I, Depth)' = Others(item, Depth) /\ RestFinished(item, Depth)
         /\ at = "first_key" => Others(I, Depth)' = {}
         /\ \A c \in Others(I, Depth)' : nodes'[n].children[c] = nodes[n].children[c]
<1>1. /\ at \in {"first_key", "key"} /\ UNCHANGED ref_stack /\ Depth' = Depth
      /\ Last(ref_stack) = n /\ Depth \in 1..Depth
      /\ \A c \in DOMAIN nodes[n].children :
           c \in DOMAIN nodes'[n].children /\ nodes'[n].children[c] = nodes[n].children[c]
      /\ \A c \in DOMAIN nodes'[n].children :
           c \in DOMAIN nodes[n].children \/ nodes'[n].children[c].step = last_token
  BY KeyTree
<1>2. I[Depth] = Read /\ tokens'[Read] = last_token /\ tokens[Read] = last_token
  BY KeyGrows
<1>3. Others(I, Depth)' =
        {c \in DOMAIN nodes'[n].children : nodes'[n].children[c].step # last_token}
  <2>1. ref_stack'[Depth'] = n /\ tokens'[I[Depth']] = last_token
    BY <1>1, <1>2
  <2> QED BY <2>1, Zenon DEF Others
<1>4. Others(I, Depth)' = {c \in DOMAIN nodes[n].children : nodes[n].children[c].step # last_token}
  BY <1>1, <1>3
<1>5. ASSUME at = "key"
      PROVE  Others(I, Depth)' = Others(item, Depth) /\ RestFinished(item, Depth)
  <2>1. tokens[item[Depth]] = last_token
    BY <1>2, <1>5 DEF Shape, Stands
  <2>2. Entered(Depth)
    BY <1>5 DEF Entered
  <2> QED BY <1>1, <1>4, <2>1, <2>2 DEF Others, Shape
<1>6. ASSUME at = "first_key" PROVE Others(I, Depth)' = {}
  <2>1. nodes[n].children = <<>>
    BY <1>1, <1>6 DEF Shape, Stands
  <2>2. DOMAIN nodes[n].children = {}
    BY <2>1
  <2> QED BY <1>4, <2>2
<1> QED BY <1>1, <1>4, <1>5, <1>6

\* The object awaits the value of the key.
LEMMA KeyShape ==
  ASSUME ParserInv, ParserInv', ReadKey, NEW where, NEW item, Shape(where, item),
         NEW I, I = [item EXCEPT ![Depth] = Read]
  PROVE  Shape(where, I)'
<1>0. PICK n : n = ref_stack[Depth]
  OBVIOUS
<1>1. /\ at \in {"first_key", "key"} /\ last_token \in Strings
      /\ at' = (IF at = "key" THEN "separator" ELSE "first_separator")
      /\ UNCHANGED ref_stack /\ Depth' = Depth
      /\ Depth \in Nat /\ Depth \in 1..Depth /\ Last(ref_stack) = n
      /\ n \in 1..Len(nodes) /\ nodes[n].token = "{" /\ ~IsArray(n)
      /\ Len(nodes') = Len(nodes) /\ nodes'[n].token = nodes[n].token
      /\ nodes'[n].children[object_element'.child].step = last_token
  BY <1>0, KeyTree
<1>1a. Depth' = Depth /\ Depth \in Nat
  BY <1>1
<1>2. /\ Grows(where, item, where, I)
      /\ Located(where, I)' /\ KeysDiffer' /\ ChildrenFollow'
      /\ I[Depth] = Read /\ Read \in Nat /\ Read' = Read + 1
      /\ tokens'[Read] = last_token
  BY KeyGrows
<1>3. Stands(where, I)'
  <2>1. Read' - 1 = Read
    BY <1>2
  <2> QED BY <1>1, <1>2, <2>1 DEF Stands
<1>4. /\ at = "key" => Others(I, Depth)' = Others(item, Depth) /\ RestFinished(item, Depth)
      /\ at = "first_key" => Others(I, Depth)' = {}
      /\ \A c \in Others(I, Depth)' : nodes'[n].children[c] = nodes[n].children[c]
  BY <1>0, KeyOthers, Zenon
<1>5. ASSUME NEW k \in 1..Depth', k >= Depth
      PROVE  RestFinished(I, k)' /\ Hangs(where, I, k)'
  <2>0. k = Depth /\ ~(k < Depth')
    BY <1>1a, <1>5
  <2>1. k = Depth /\ ~(k < Depth') /\ at' # "next" /\ ref_stack'[k] = n
    BY <1>0, <1>1, <2>0
  <2>2. ~IsArray(n)'
    BY <1>1 DEF IsArray
  <2>3. \A c \in Others(I, k)' : IsFinished(nodes[n].children[c].node, n)'
    <3> SUFFICES ASSUME NEW c \in Others(I, k)', NEW m, m = nodes'[n].children[c].node
                 PROVE  IsFinished(m, n)'
      OBVIOUS
    <3>0. Others(I, k)' = Others(I, Depth)' /\ m = nodes[n].children[c].node
      <4>1. Others(I, k)' = Others(I, Depth)'
        BY <1>1a, <2>0
      <4> QED BY <1>4, <4>1
    <3>1. at = "key" /\ c \in Others(item, Depth) /\ RestFinished(item, Depth)
      BY <1>1, <1>4, <3>0
    <3>2. IsFinished(m, n)
      BY <1>0, <1>1, <3>0, <3>1 DEF RestFinished
    <3> QED BY <1>1, <3>2 DEF IsFinished, IsNumber, IsOpen
  <2> QED BY <2>1, <2>2, <2>3, Zenon DEF RestFinished, Hangs
<1> QED BY <1>2, <1>3, <1>5, ShapeKept

\* What the object means is what it did.
LEMMA KeyAgrees ==
  ASSUME ParserInv, ParserInv', ReadKey, NEW where, NEW item, Shape(where, item),
         NEW I, I = [item EXCEPT ![Depth] = Read], NEW input, StartsAsRead(input),
         Agrees(input, where, item)
  PROVE  Agrees(input, where, I)'
<1>0. PICK n : n = ref_stack[Depth]
  OBVIOUS
<1>1. /\ at \in {"first_key", "key"} /\ last_token \in Strings
      /\ at' = (IF at = "key" THEN "separator" ELSE "first_separator")
      /\ UNCHANGED ref_stack /\ Depth' = Depth /\ ref_stack # <<>>
      /\ Depth \in Nat /\ Depth \in 1..Depth /\ Last(ref_stack) = n
      /\ n \in 1..Len(nodes) /\ nodes[n].token = "{" /\ ~IsArray(n)
      /\ nodes'[n].token = nodes[n].token
  BY <1>0, KeyTree
<1>1a. Depth' = Depth /\ Depth \in Nat
  BY <1>1
<1>2. /\ Grows(where, item, where, I) /\ NothingEnds
      /\ I[Depth] = Read /\ Read \in Nat
  BY KeyGrows
<1>3. FinishedMean(input, where)'
  BY <1>2, MeaningStill DEF Agrees
<1>4. HasRead(input, I)'
  BY <1>1 DEF HasRead
<1>5. \A k \in 1..Depth' : k >= Depth => k = Depth
  BY <1>1a
<1>6. \A k \in 1..Depth' : k >= Depth => FailsAll(input, where[ref_stack'[k]])
  BY <1>1, <1>5 DEF Agrees
<1>7. /\ at = "key" => Others(I, Depth)' = Others(item, Depth)
      /\ at = "first_key" => Others(I, Depth)' = {}
      /\ \A c \in Others(I, Depth)' : nodes'[n].children[c] = nodes[n].children[c]
  BY <1>0, KeyOthers, Zenon
<1>8. HeldMembers(input, where, I, Depth)' =
        {<<nodes'[n].children[c].step, Value(input, where[nodes'[n].children[c].node]).meaning>> :
           c \in Others(I, Depth)'}
  <2>1. ref_stack'[Depth'] = n
    BY <1>0, <1>1
  <2> QED BY <2>1, Zenon DEF HeldMembers
<1>9. ObjectMeans(input, where[n], Read, HeldMembers(input, where, I, Depth)')
  <2>1. CASE at = "key"
    <3>1. HeldMembers(input, where, item, Depth) =
            {<<nodes[n].children[c].step, Value(input, where[nodes[n].children[c].node]).meaning>> :
               c \in Others(item, Depth)}
      BY <1>0, Zenon DEF HeldMembers
    <3>2. HeldMembers(input, where, I, Depth)' = HeldMembers(input, where, item, Depth)
      <4>1. PICK old, new, S : /\ old = nodes[n].children /\ new = nodes'[n].children
                               /\ S = Others(item, Depth)
        OBVIOUS
      <4>2. Others(I, Depth)' = S
        BY <1>7, <2>1, <4>1, Zenon
      <4>3. \A c \in S : new[c] = old[c]
        BY <1>7, <4>1, <4>2, Zenon
      <4>4. HeldMembers(input, where, I, Depth)' =
              {<<new[c].step, Value(input, where[new[c].node]).meaning>> : c \in S}
        BY <1>8, <4>1, <4>2, Zenon
      <4>5. HeldMembers(input, where, item, Depth) =
              {<<old[c].step, Value(input, where[old[c].node]).meaning>> : c \in S}
        BY <3>1, <4>1, Zenon
      <4> QED BY <4>3, <4>4, <4>5
    <3>3. ObjectMeans(input, where[n], item[Depth], HeldMembers(input, where, item, Depth))
      <4>1. at \notin {"first_element", "first_key"} /\ Located(where, item)
        BY <2>1 DEF Shape
      <4> QED BY <1>0, <1>1, <4>1, InnermostGoesOn, Zenon
    <3>4. item[Depth] = Read
      BY <2>1 DEF Shape, Stands
    <3> QED BY <3>2, <3>3, <3>4, Zenon
  <2>2. CASE at = "first_key"
    <3>1. HeldMembers(input, where, I, Depth)' = {}
      BY <1>7, <1>8, <2>2
    <3>2. where[n] = Read - 1
      BY <1>1, <2>2 DEF Shape, Stands
    <3>3. input \in Seq(Tokens) /\ Token(input, Read) = last_token
      BY LastRead DEF Shape
    <3>4. where[n] \in Nat /\ Token(input, where[n]) = "{"
      BY <1>1, Places DEF Shape
    <3>4a. last_token # "}"
      BY <1>1, TokensDiffer
    <3>5. where[n] + 1 = Read
      <4>1. Read \in Nat
        BY <1>2
      <4> QED BY <3>2, <4>1
    <3>6. ObjectMeans(input, where[n], where[n] + 1, {})
      BY <3>3, <3>4, <3>4a, <3>5, ObjectBegins, Zenon
    <3> QED BY <3>1, <3>5, <3>6, Zenon
  <2> QED BY <1>1, <2>1, <2>2
<1>10. GoesOn(input, where, I, Depth)'
  <2>1. ref_stack'[Depth'] = n /\ ~IsArray(n)' /\ I[Depth'] = Read
    BY <1>0, <1>1, <1>2 DEF IsArray
  <2> QED BY <1>9, <2>1, Zenon DEF GoesOn
<1>11. \A k \in 1..Depth' : k >= Depth /\ Entered(k)' => GoesOn(input, where, I, k)'
  BY <1>1, <1>5, <1>10, Zenon
<1> QED BY <1>2, <1>3, <1>4, <1>6, <1>11, AgreesKept

\* What a scalar and the beginning of an array or object have in common.
Hanging ==
  /\ at = "value" /\ last_token \in ValueTokens
  /\ HandleValue(last_token) /\ GetToken /\ UNCHANGED object_element
  /\ \/ /\ ref_stack' = ref_stack
        /\ at' = IF ref_stack = <<>> THEN "end" ELSE "next"
     \/ /\ ref_stack' = Append(ref_stack, NewNode)
        /\ at' \in {"first_element", "first_key"}

\* Where a value begins both stacks are empty or none is.
LEMMA SameEnd ==
  ASSUME ParserInv, at = "value"
  PROVE  states = <<>> <=> ref_stack = <<>>
<1>1. Len(states) = Len(ref_stack) /\ states \in Seq(BOOLEAN) /\ ref_stack \in Seq(1..Len(nodes))
  BY DEF ParserInv, ParserTypeOK, RefsAlive, LevelsAgree
<1> QED BY <1>1, EmptySeq

\* A scalar hangs a value into the tree.
LEMMA ScalarHangs ==
  ASSUME ParserInv, Scalar
  PROVE  /\ Hanging /\ last_token \in Strings \union Scalars /\ ref_stack' = ref_stack
         /\ at' = IF ref_stack = <<>> THEN "end" ELSE "next"
<1>1. /\ at = "value" /\ last_token \in Strings \union Scalars /\ HandleValue(last_token)
      /\ UNCHANGED <<states, ref_stack, object_element>>
      /\ at' = (IF states' = <<>> THEN "end" ELSE "next") /\ GetToken
  BY DEF Scalar, AfterValue
<1>2. states = <<>> <=> ref_stack = <<>>
  BY <1>1, SameEnd
<1>3. at' = IF ref_stack = <<>> THEN "end" ELSE "next"
  BY <1>1, <1>2
<1> QED BY <1>1, <1>3 DEF Hanging, ValueTokens

\* So does the beginning of an array or object, which opens it.
LEMMA BeginningHangs ==
  ASSUME ParserInv, BeginStructure
  PROVE  /\ Hanging /\ last_token \in {"[", "{"} /\ ref_stack' = Append(ref_stack, NewNode)
         /\ at' = IF last_token = "[" THEN "first_element" ELSE "first_key"
BY DEF BeginStructure, StartStructure, Hanging, ValueTokens

\* The levels below a new value.
LEMMA HangLevels ==
  ASSUME ParserInv, Hanging
  PROVE  /\ Depth \in Nat /\ Depth' \in Nat /\ Depth <= Depth' /\ Depth' <= Depth + 1
         /\ \A k \in 1..Depth : ref_stack'[k] = ref_stack[k] /\ ref_stack[k] \in 1..Len(nodes)
         /\ \A j \in 1..Len(nodes) : IsOpen(j)' <=> IsOpen(j)
         /\ Len(nodes) \in Nat /\ NewNode = Len(nodes) + 1
         /\ Depth' = Depth + 1 => ref_stack'[Depth'] = NewNode
         /\ Depth' = Depth => ref_stack' = ref_stack
<1>1. /\ Len(nodes) \in Nat /\ NewNode = Len(nodes) + 1 /\ ref_stack \in Seq(1..Len(nodes))
      /\ Depth \in Nat /\ \A k \in 1..Depth : ref_stack[k] \in 1..Len(nodes)
  BY ParserTypes DEF NewNode
<1>2. CASE ref_stack' = ref_stack
  <2>1. Depth' = Depth /\ \A j : IsOpen(j)' <=> IsOpen(j)
    BY <1>2, Zenon DEF Depth, IsOpen
  <2> QED BY <1>1, <1>2, <2>1
<1>3. CASE ref_stack' = Append(ref_stack, NewNode)
  <2>1. ref_stack \in Seq(Nat) /\ NewNode \in Nat
    <3>1. 1..Len(nodes) \subseteq Nat
      BY <1>1
    <3> QED BY <1>1, <3>1, SeqMonotonic
  <2>2. /\ Len(Append(ref_stack, NewNode)) = Len(ref_stack) + 1
        /\ \A k \in 1..Len(ref_stack) : Append(ref_stack, NewNode)[k] = ref_stack[k]
        /\ Append(ref_stack, NewNode)[Len(ref_stack) + 1] = NewNode
    BY <2>1, LastOfAppend
  <2>3. Depth' = Depth + 1 /\ ref_stack'[Depth + 1] = NewNode
        /\ \A k \in 1..Depth : ref_stack'[k] = ref_stack[k]
    BY <1>3, <2>2, Zenon DEF Depth
  <2>4. ASSUME NEW j \in 1..Len(nodes) PROVE IsOpen(j)' <=> IsOpen(j)
    <3>1. j # NewNode
      BY <1>1
    <3>2. \A k \in 1..(Depth + 1) : k \in 1..Depth \/ k = Depth + 1
      BY <1>1
    <3>3. \A k \in 1..Depth : k \in 1..(Depth + 1)
      BY <1>1
    <3>4. IsOpen(j) <=> \E k \in 1..Depth : ref_stack[k] = j
      BY DEF IsOpen
    <3>5. IsOpen(j)' <=> \E k \in 1..(Depth + 1) : ref_stack'[k] = j
      BY <2>3, Zenon DEF IsOpen
    <3> QED BY <2>3, <3>1, <3>2, <3>3, <3>4, <3>5, Zenon
  <2> QED BY <1>1, <2>3, <2>4
<1> QED BY <1>2, <1>3 DEF Hanging

\* The tree with the new value.
LEMMA HangTree ==
  ASSUME ParserInv, Hanging
  PROVE  /\ Len(nodes') = NewNode
         /\ nodes'[NewNode].token = last_token /\ nodes'[NewNode].children = <<>>
         /\ \A k \in 1..Len(nodes) : nodes'[k].token = nodes[k].token
         /\ \A k \in 1..Len(nodes) :
              ref_stack = <<>> \/ k # Last(ref_stack) => nodes'[k].children = nodes[k].children
         /\ root' = IF ref_stack = <<>> THEN NewNode ELSE root
         /\ ref_stack # <<>> =>
              nodes'[Last(ref_stack)].children =
                IF IsArray(Last(ref_stack))
                  THEN Append(nodes[Last(ref_stack)].children,
                              [step |-> ToString(Len(nodes[Last(ref_stack)].children)),
                               node |-> NewNode])
                  ELSE [nodes[Last(ref_stack)].children
                          EXCEPT ![object_element.child].node = NewNode]
         /\ ref_stack # <<>> /\ ~IsArray(Last(ref_stack)) =>
              object_element.child \in DOMAIN nodes[Last(ref_stack)].children
<1>1. /\ at = "value" /\ last_token \in ValueTokens /\ nodes' = Hung(last_token)
      /\ root' = IF ref_stack = <<>> THEN NewNode ELSE root
  BY DEF Hanging, HandleValue
<1>2. ParserTypeOK /\ ElementInside
  BY DEF ParserInv, RefsAlive
<1>3. ref_stack # <<>> /\ ~IsArray(Last(ref_stack)) =>
        /\ object_element.node = Last(ref_stack)
        /\ object_element.child \in DOMAIN nodes[Last(ref_stack)].children
  BY <1>1, <1>2 DEF ElementInside, AwaitsMember
<1>4. LET n == Last(ref_stack)
      IN  /\ Len(Hung(last_token)) = NewNode
          /\ Hung(last_token)[NewNode].token = last_token
          /\ \A k \in 1..Len(nodes) : Hung(last_token)[k].token = nodes[k].token
          /\ \A k \in 1..Len(nodes) :
               ref_stack = <<>> \/ k # n => Hung(last_token)[k].children = nodes[k].children
          /\ Hung(last_token)[NewNode].children = <<>>
          /\ ref_stack # <<>> =>
               Hung(last_token)[n].children =
                 IF IsArray(n)
                   THEN Append(nodes[n].children, [step |-> ToString(Len(nodes[n].children)),
                                                   node |-> NewNode])
                   ELSE [nodes[n].children EXCEPT ![object_element.child].node = NewNode]
  BY <1>1, <1>2, <1>3, HungTree
<1> QED BY <1>1, <1>3, <1>4

\* What the innermost array or object now holds.
LEMMA HangChildren ==
  ASSUME ParserInv, Hanging, ref_stack # <<>>, NEW n, n = ref_stack[Depth]
  PROVE  /\ IsArray(n) =>
              /\ Len(nodes'[n].children) = Len(nodes[n].children) + 1
              /\ nodes'[n].children[Len(nodes'[n].children)].node = NewNode
              /\ \A c \in 1..Len(nodes[n].children) : nodes'[n].children[c] = nodes[n].children[c]
         /\ ~IsArray(n) =>
              /\ DOMAIN nodes'[n].children = DOMAIN nodes[n].children
              /\ object_element.child \in DOMAIN nodes[n].children
              /\ nodes'[n].children[object_element.child].node = NewNode
              /\ \A c \in DOMAIN nodes[n].children :
                   /\ nodes'[n].children[c].step = nodes[n].children[c].step
                   /\ c # object_element.child => nodes'[n].children[c] = nodes[n].children[c]
<1>1. n \in 1..Len(nodes) /\ n = Last(ref_stack) /\ Len(nodes) \in Nat
  BY Innermost
<1>2. /\ nodes[n].children \in Seq(Child) /\ Len(nodes[n].children) \in Nat
      /\ DOMAIN nodes[n].children = 1..Len(nodes[n].children)
  BY <1>1, ParserTypes
<1>3. NewNode \in Nat
  BY <1>1 DEF NewNode
<1>4. CASE IsArray(n)
  <2> DEFINE new == [step |-> ToString(Len(nodes[n].children)), node |-> NewNode]
  <2>1. new \in Child /\ new.node = NewNode
    BY <1>2, <1>3 DEF Child
  <2>2. nodes'[n].children = Append(nodes[n].children, new)
    BY <1>1, <1>4, HangTree
  <2> HIDE DEF new
  <2>3. /\ Len(Append(nodes[n].children, new)) = Len(nodes[n].children) + 1
        /\ \A c \in 1..Len(nodes[n].children) :
             Append(nodes[n].children, new)[c] = nodes[n].children[c]
        /\ Append(nodes[n].children, new)[Len(nodes[n].children) + 1] = new
    BY <1>2, <2>1, LastOfAppend
  <2> QED BY <1>4, <2>1, <2>2, <2>3
<1>5. CASE ~IsArray(n)
  <2>1. /\ nodes'[n].children = [nodes[n].children EXCEPT ![object_element.child].node = NewNode]
        /\ object_element.child \in DOMAIN nodes[n].children
    BY <1>1, <1>5, HangTree
  <2>2. PICK old : old = nodes[n].children
    OBVIOUS
  <2>3. PICK e : e = object_element.child
    OBVIOUS
  <2>4. PICK new : new = nodes'[n].children
    OBVIOUS
  <2>5. old \in Seq(Child) /\ e \in DOMAIN old /\ new = [old EXCEPT ![e].node = NewNode]
    BY <1>2, <2>1, <2>2, <2>3, <2>4
  <2>6. old[e] \in Child
    BY <2>5
  <2>7. /\ DOMAIN new = DOMAIN old /\ new[e] = [old[e] EXCEPT !.node = NewNode]
        /\ \A c \in DOMAIN old : c # e => new[c] = old[c]
    BY <2>5
  <2>8. new[e].node = NewNode /\ new[e].step = old[e].step
    BY <2>6, <2>7 DEF Child
  <2> QED BY <1>5, <2>2, <2>3, <2>4, <2>5, <2>7, <2>8
<1> QED BY <1>4, <1>5

\* The new value begins with the token that was read last.
Placing(where, item, W, I) ==
  /\ W \in [1..Len(nodes') -> 1..Read'] /\ I \in [1..Depth' -> 1..Read']
  /\ \A n \in 1..Len(nodes) : W[n] = where[n]
  /\ W[NewNode] = Read
  /\ \A k \in 1..Depth : I[k] = item[k]

\* The new value leaves alone what is finished, and begins where the token is.
LEMMA HangGrows ==
  ASSUME ParserInv, ParserInv', Hanging, NEW where, NEW item, Shape(where, item),
         NEW W, NEW I, Placing(where, item, W, I)
  PROVE  /\ Grows(where, item, W, I) /\ Located(W, I)' /\ KeysDiffer'
         /\ \A n \in 1..Len(nodes) : ~IsOpen(n)' => ~IsOpen(n)
         /\ Read \in Nat /\ Read' = Read + 1 /\ last_token = tokens[Read]
         /\ tokens'[Read] = last_token
         /\ \A n \in 1..Read : tokens'[n] = tokens[n]
<1>1. Located(where, item) /\ GetToken
  BY DEF Shape, Hanging
<1>2. /\ Depth \in Nat /\ Depth' \in Nat /\ Depth <= Depth'
      /\ \A k \in 1..Depth : ref_stack'[k] = ref_stack[k] /\ ref_stack[k] \in 1..Len(nodes)
      /\ \A j \in 1..Len(nodes) : IsOpen(j)' <=> IsOpen(j)
      /\ Len(nodes) \in Nat /\ NewNode = Len(nodes) + 1
  BY HangLevels
<1>3. /\ Read \in Nat /\ Read' = Read + 1 /\ last_token = tokens[Read]
      /\ \A n \in 1..Read : tokens'[n] = tokens[n] /\ n \in 1..Read'
  BY <1>1, TokensGrow DEF Located
<1>4. Read \in 1..Read
  <2>1. tokens # <<>> /\ tokens \in Seq(Tokens)
    BY <1>1, ParserTypes DEF Located
  <2>2. Read > 0
    BY <2>1, EmptySeq DEF Read
  <2> QED BY <1>3, <2>2
<1>5. /\ Len(nodes') = NewNode /\ nodes'[NewNode].token = last_token
      /\ nodes'[NewNode].children = <<>>
      /\ \A k \in 1..Len(nodes) : nodes'[k].token = nodes[k].token
      /\ \A k \in 1..Len(nodes) :
           ref_stack = <<>> \/ k # Last(ref_stack) => nodes'[k].children = nodes[k].children
      /\ root' = IF ref_stack = <<>> THEN NewNode ELSE root
  BY HangTree
<1>6. /\ \A n \in 1..Len(nodes) : W[n] = where[n]
      /\ W[NewNode] = Read /\ \A k \in 1..Depth : I[k] = item[k]
      /\ W \in [1..Len(nodes') -> 1..Read'] /\ I \in [1..Depth' -> 1..Read']
  BY DEF Placing
<1>7. ref_stack # <<>> => Last(ref_stack) = ref_stack[Depth] /\ Depth \in 1..Depth
  BY Innermost
<1>8. \A n \in 1..Len(nodes) : ~IsOpen(n) => nodes'[n].children = nodes[n].children
  <2>1. \A n \in 1..Len(nodes) : ~IsOpen(n) => ref_stack = <<>> \/ n # Last(ref_stack)
    BY <1>7 DEF IsOpen
  <2> QED BY <1>5, <2>1
<1>9. ASSUME NEW k \in 1..(Depth - 1)
      PROVE  I[k] = item[k] /\ nodes'[ref_stack[k]].children = nodes[ref_stack[k]].children
  <2>1. k \in 1..Depth /\ k # Depth /\ Depth \in 1..Depth
    BY <1>2
  <2>2. ref_stack[k] # ref_stack[Depth] /\ ref_stack[k] \in 1..Len(nodes)
    BY <1>2, <2>1, LevelsDiffer
  <2> QED BY <1>5, <1>6, <1>7, <2>1, <2>2
<1>10. Grows(where, item, W, I)
  <2>1. Len(nodes) <= Len(nodes') /\ Read <= Read' /\ Depth - 1 <= Depth' /\ ~(Depth' < Depth)
    <3>1. Len(nodes') = Len(nodes) + 1
      BY <1>2, <1>5
    <3> QED BY <1>2, <1>3, <3>1
  <2> QED BY <1>2, <1>3, <1>5, <1>6, <1>8, <1>9, <2>1, Zenon DEF Grows
<1>11. Located(W, I)'
  <2>1. \A n \in 1..Len(nodes') : n > Len(nodes) => n = NewNode
    BY <1>2, <1>5
  <2>2. \A n \in 1..Len(nodes') : n > Len(nodes) => tokens'[W[n]] = nodes'[n].token
    <3>1. tokens'[W[NewNode]] = nodes'[NewNode].token
      BY <1>3, <1>4, <1>5, <1>6
    <3> QED BY <2>1, <3>1
  <2>3. root' = 1 /\ W[1] = 1
    <3>1. CASE nodes = <<>>
      <4>1. NewNode = 1
        BY <1>2, <3>1
      <4>2. ref_stack = <<>>
        <5>1. Depth = 0
          <6>1. 1..Len(nodes) = {}
            BY <3>1
          <6> QED BY <1>2, <6>1
        <5> QED BY <5>1, EmptySeq, ParserTypes DEF Depth
      <4>3. Read = 1
        BY <4>2 DEF Shape, Stands, Hanging
      <4> QED BY <1>5, <1>6, <4>1, <4>2, <4>3
    <3>2. CASE nodes # <<>>
      <4>1. 1 \in 1..Len(nodes)
        <5>1. Len(nodes) > 0
          BY <3>2, EmptySeq, ParserTypes
        <5> QED BY <1>2, <5>1
      <4>2. ref_stack # <<>>
        BY <3>2 DEF Shape, Stands, Hanging
      <4> QED BY <1>1, <1>5, <1>6, <3>2, <4>1, <4>2 DEF Located
    <3> QED BY <3>1, <3>2
  <2>4. ref_stack' # <<>> => ref_stack'[1] = 1
    <3>1. CASE ref_stack = <<>>
      <4>1. Depth = 0 /\ nodes = <<>>
        BY <3>1 DEF Shape, Stands, Hanging, Depth
      <4>2. NewNode = 1
        BY <1>2, <4>1
      <4>3. ref_stack' # <<>> => Depth' = 1
        <5>1. Depth' = 0 \/ Depth' = 1
          BY <1>2, <4>1, HangLevels
        <5> QED BY <5>1, EmptySeq, ParserTypes DEF Depth, Hanging
      <4> QED BY <4>1, <4>2, <4>3, HangLevels
    <3>2. CASE ref_stack # <<>>
      <4>1. 1 \in 1..Depth
        BY <1>2, <1>7, <3>2
      <4> QED BY <1>1, <1>2, <3>2, <4>1 DEF Located
    <3> QED BY <3>1, <3>2
  <2> QED BY <1>1, <1>6, <1>10, <2>2, <2>3, <2>4, LocatedKept
<1>11a. \A m \in 1..Len(nodes') : m = NewNode \/ m \in 1..Len(nodes)
  <2>1. Len(nodes') = Len(nodes) + 1 /\ NewNode = Len(nodes) + 1 /\ Len(nodes) \in Nat
    BY <1>2, <1>5
  <2> QED BY <2>1
<1>11b. DOMAIN <<>> = {}
  OBVIOUS
<1>12. KeysDiffer'
  <2> SUFFICES ASSUME NEW m \in 1..Len(nodes'), nodes'[m].token = "{",
                      NEW c \in DOMAIN nodes'[m].children, NEW d \in DOMAIN nodes'[m].children,
                      nodes'[m].children[c].step = nodes'[m].children[d].step
               PROVE  c = d
    BY DEF KeysDiffer
  <2>1. m = NewNode \/ m \in 1..Len(nodes)
    BY <1>11a, Zenon
  <2>2. CASE m = NewNode
    <3>1. nodes'[m].children = <<>>
      BY <1>5, <2>2, Zenon
    <3>2. c \in DOMAIN <<>>
      BY <3>1, Zenon
    <3> QED BY <1>11b, <3>2, Zenon
  <2>3. CASE m \in 1..Len(nodes) /\ (ref_stack = <<>> \/ m # Last(ref_stack))
    <3>1. KeysDiffer /\ nodes[m].token = "{" /\ nodes'[m].children = nodes[m].children
      BY <1>5, <2>3 DEF Shape
    <3> QED BY <2>3, <3>1 DEF KeysDiffer
  <2>4. CASE m \in 1..Len(nodes) /\ ref_stack # <<>> /\ m = Last(ref_stack)
    <3>1. KeysDiffer /\ nodes[m].token = "{"
      BY <1>5, <2>4 DEF Shape
    <3>2. m = ref_stack[Depth] /\ ~IsArray(m)
      BY <1>7, <2>4, <3>1 DEF IsArray
    <3>3. /\ DOMAIN nodes'[m].children = DOMAIN nodes[m].children
          /\ \A a \in DOMAIN nodes[m].children :
               nodes'[m].children[a].step = nodes[m].children[a].step
      BY <2>4, <3>2, HangChildren
    <3>4. \A a, b \in DOMAIN nodes[m].children :
            nodes[m].children[a].step = nodes[m].children[b].step => a = b
      BY <2>4, <3>1, Zenon DEF KeysDiffer
    <3> QED BY <3>3, <3>4
  <2> QED BY <2>1, <2>2, <2>3, <2>4
<1> QED BY <1>2, <1>3, <1>4, <1>10, <1>11, <1>12

\* The array or object that the new value hangs in.
LEMMA HangPlace ==
  ASSUME ParserInv, ParserInv', Hanging, NEW where, NEW item, Shape(where, item),
         NEW W, NEW I, Placing(where, item, W, I), ref_stack # <<>>,
         NEW d, d = Depth, NEW n, n = ref_stack[d]
  PROVE  /\ at = "value" /\ ref_stack'[d] = n /\ n \in 1..Len(nodes) /\ Len(nodes) \in Nat
         /\ n \in Nat /\ d \in 1..Depth' /\ d \in 1..Depth /\ d \in Nat
         /\ (IsArray(n)' <=> IsArray(n)) /\ IsHung(d)' /\ ~IsHung(d)
         /\ item[d] \in 1..Read /\ I[d] = item[d] /\ Inner(item, d) = Read
         /\ tokens'[I[d]] = tokens[item[d]] /\ W[n] = where[n]
         /\ RestFinished(item, d)
         /\ IsArray(n) => Before(d)' = Before(d) /\ Before(d) = Len(nodes[n].children)
         /\ ~IsArray(n) => /\ Others(I, d)' = Others(item, d)
                           /\ object_element.child \notin Others(item, d)
                           /\ tokens[item[d]] \in Strings /\ tokens[item[d] + 1] = ":"
                           /\ item[d] + 1 \in 1..Read
                           /\ nodes[n].children[object_element.child].step = tokens[item[d]]
<1>1. /\ at = "value" /\ Located(where, item) /\ Stands(where, item)
      /\ (at' = "next" \/ Depth' = Depth + 1)
  <2>1. CASE ref_stack' = ref_stack
    BY <2>1 DEF Hanging, Shape
  <2>2. CASE ref_stack' = Append(ref_stack, NewNode)
    <3>1. ref_stack \in Seq(Nat) /\ NewNode \in Nat
      <4>1. 1..Len(nodes) \subseteq Nat /\ NewNode \in Nat
        BY ParserTypes DEF NewNode
      <4> QED BY <4>1, ParserTypes, SeqMonotonic
    <3>2. Len(Append(ref_stack, NewNode)) = Len(ref_stack) + 1
      BY <3>1, LastOfAppend
    <3> QED BY <2>2, <3>2, Zenon DEF Hanging, Shape, Depth
  <2> QED BY <2>1, <2>2 DEF Hanging
<1>2. /\ Depth \in Nat /\ Depth \in 1..Depth /\ n = Last(ref_stack)
      /\ n \in 1..Len(nodes) /\ n \in Nat /\ Len(nodes) \in Nat
  BY Innermost
<1>3. /\ ref_stack'[d] = n /\ Depth <= Depth' /\ Depth' \in Nat
  BY <1>2, HangLevels
<1>4. d \in 1..Depth' /\ d \in 1..Depth /\ d \in Nat
  BY <1>2, <1>3
<1>5. IsArray(n)' <=> IsArray(n)
  BY <1>2, HangTree DEF IsArray
<1>6. IsHung(d)' /\ ~IsHung(d)
  <2>1. at' = "next" \/ d < Depth'
    BY <1>1, <1>4
  <2>2. ~(d < Depth)
    BY <1>2
  <2> QED BY <1>1, <2>1, <2>2 DEF IsHung
<1>7. I[d] = item[d] /\ W[n] = where[n]
  BY <1>2, <1>4 DEF Placing
<1>8. item[d] \in 1..Read /\ Read \in Nat /\ \A k \in 1..Read : tokens'[k] = tokens[k]
  <2>1. item \in [1..Depth -> 1..Read]
    BY <1>1 DEF Located
  <2> QED BY <1>4, <2>1, HangGrows
<1>9. tokens'[I[d]] = tokens[item[d]]
  BY <1>7, <1>8
<1>10. Inner(item, d) = Read
  BY <1>1 DEF Stands
<1>11. RestFinished(item, d)
  <2>1. Entered(d)
    BY <1>1 DEF Entered
  <2> QED BY <1>4, <2>1 DEF Shape
<1>12. ASSUME IsArray(n)
       PROVE  Before(d)' = Before(d) /\ Before(d) = Len(nodes[n].children)
  <2>1. Before(d) = Len(nodes[n].children)
    BY <1>6, Zenon DEF Before
  <2>2. Before(d)' = Len(nodes'[n].children) - 1
    BY <1>3, <1>6, Zenon DEF Before
  <2>3. Len(nodes'[n].children) = Len(nodes[n].children) + 1
    BY <1>12, HangChildren
  <2>4. Len(nodes[n].children) \in Nat
    BY <1>2, ParserTypes
  <2> QED BY <2>1, <2>2, <2>3, <2>4
<1>13. ASSUME ~IsArray(n)
       PROVE  /\ Others(I, d)' = Others(item, d)
              /\ object_element.child \notin Others(item, d)
              /\ tokens[item[d]] \in Strings /\ tokens[item[d] + 1] = ":"
              /\ item[d] + 1 \in 1..Read
              /\ nodes[n].children[object_element.child].step = tokens[item[d]]
  <2>1. AwaitsMember
    BY <1>1, <1>2, <1>13 DEF AwaitsMember
  <2>2. /\ tokens[item[d]] \in Strings /\ tokens[item[d] + 1] = ":"
        /\ nodes[n].children[object_element.child].step = tokens[item[d]]
    BY <1>1, <1>2, <2>1 DEF Stands
  <2>3. object_element.child \notin Others(item, d)
    BY <2>2 DEF Others
  <2>4. Others(item, d) = {c \in DOMAIN nodes[n].children :
                             nodes[n].children[c].step # tokens[item[d]]}
    BY DEF Others
  <2>5. Others(I, d)' = {c \in DOMAIN nodes'[n].children :
                           nodes'[n].children[c].step # tokens[item[d]]}
    BY <1>3, <1>9, Zenon DEF Others
  <2>6. /\ DOMAIN nodes'[n].children = DOMAIN nodes[n].children
        /\ \A c \in DOMAIN nodes[n].children :
             nodes'[n].children[c].step = nodes[n].children[c].step
    BY <1>13, HangChildren
  <2>7. item[d] + 2 = Read
    BY <1>10, <1>13 DEF Inner
  <2>8. item[d] + 1 \in 1..Read
    BY <1>8, <2>7
  <2> QED BY <2>2, <2>3, <2>4, <2>5, <2>6, <2>8
<1> QED BY <1>1, <1>2, <1>3, <1>4, <1>5, <1>6, <1>7, <1>8, <1>9, <1>10, <1>11, <1>12, <1>13

\* Beside the new value all is finished, and it hangs where it should.
LEMMA HangLevel ==
  ASSUME ParserInv, ParserInv', Hanging, NEW where, NEW item, Shape(where, item),
         NEW W, NEW I, Placing(where, item, W, I), ref_stack # <<>>,
         NEW d, d = Depth, NEW m, m = NewNode
  PROVE  RestFinished(I, d)' /\ HangsAt(W, I, d, m)'
<1>0. PICK n : n = ref_stack[d]
  OBVIOUS
<1>1. /\ ref_stack'[d] = n /\ n \in 1..Len(nodes) /\ Len(nodes) \in Nat
      /\ (IsArray(n)' <=> IsArray(n)) /\ n \in Nat
      /\ I[d] = item[d] /\ Inner(item, d) = Read /\ tokens'[I[d]] = tokens[item[d]]
      /\ RestFinished(item, d)
      /\ IsArray(n) => Before(d)' = Before(d) /\ Before(d) = Len(nodes[n].children)
      /\ ~IsArray(n) => /\ Others(I, d)' = Others(item, d)
                        /\ object_element.child \notin Others(item, d)
                        /\ tokens[item[d]] \in Strings /\ tokens[item[d] + 1] = ":"
                        /\ item[d] + 1 \in 1..Read
                        /\ nodes[n].children[object_element.child].step = tokens[item[d]]
  BY <1>0, HangPlace
<1>2. /\ \A j \in 1..Len(nodes) : IsOpen(j)' <=> IsOpen(j)
      /\ m = Len(nodes) + 1 /\ Len(nodes') = m
  BY HangLevels, HangTree
<1>3. ASSUME NEW c, IsFinished(c, n) PROVE IsFinished(c, n)'
  <2>1. c \in Nat /\ n < c /\ c <= Len(nodes) /\ ~IsOpen(c)
    BY <1>3 DEF IsFinished, IsNumber
  <2>2. c \in 1..Len(nodes)
    BY <1>1, <2>1
  <2>3. c <= Len(nodes') /\ ~IsOpen(c)'
    BY <1>1, <1>2, <2>1, <2>2
  <2> QED BY <2>1, <2>3 DEF IsFinished, IsNumber
<1>4. IsNumber(m, n)'
  <2>1. m \in Nat /\ n < m /\ m <= Len(nodes')
    BY <1>1, <1>2
  <2> QED BY <2>1 DEF IsNumber
<1>5. W[m] = Inner(I, d)'
  <2>1. W[m] = Read
    BY DEF Placing
  <2> QED BY <1>0, <1>1, <2>1 DEF Inner
<1>6. CASE IsArray(n)
  <2>1. /\ nodes'[n].children[Len(nodes'[n].children)].node = m
        /\ \A c \in 1..Len(nodes[n].children) : nodes'[n].children[c] = nodes[n].children[c]
    BY <1>0, <1>6, HangChildren
  <2>2. Before(d)' \in Nat
    <3>1. Before(d) \in Nat
      BY <1>0, <1>1, <1>6 DEF RestFinished
    <3> QED BY <1>1, <1>6, <3>1
  <2>3. ASSUME NEW c \in 1..Before(d)', NEW j, j = nodes'[n].children[c].node
        PROVE  IsFinished(j, n)'
    <3>1. c \in 1..Before(d) /\ c \in 1..Len(nodes[n].children)
      BY <1>1, <1>6, Zenon
    <3>2. j = nodes[n].children[c].node
      BY <2>1, <2>3, <3>1
    <3>3. IsFinished(j, n)
      BY <1>0, <1>6, <3>1, <3>2 , <1>1 DEF RestFinished
    <3> QED BY <1>3, <3>3
  <2>4. RestFinished(I, d)'
    BY <1>1, <1>6, <2>2, <2>3, Zenon DEF RestFinished
  <2>5. HangsAt(W, I, d, m)'
    BY <1>1, <1>4, <1>5, <1>6, <2>1, Zenon DEF HangsAt
  <2> QED BY <2>4, <2>5
<1>7. CASE ~IsArray(n)
  <2>1. /\ DOMAIN nodes'[n].children = DOMAIN nodes[n].children
        /\ object_element.child \in DOMAIN nodes[n].children
        /\ nodes'[n].children[object_element.child].node = m
        /\ \A c \in DOMAIN nodes[n].children :
             /\ nodes'[n].children[c].step = nodes[n].children[c].step
             /\ c # object_element.child => nodes'[n].children[c] = nodes[n].children[c]
    BY <1>0, <1>7, HangChildren
  <2>2. ASSUME NEW c \in Others(I, d)', NEW j, j = nodes'[n].children[c].node
        PROVE  IsFinished(j, n)'
    <3>1. c \in Others(item, d) /\ c # object_element.child
      BY <1>1, <1>7
    <3>2. c \in DOMAIN nodes[n].children
      BY <1>0, <3>1 DEF Others
    <3>3. j = nodes[n].children[c].node
      BY <2>1, <2>2, <3>1, <3>2
    <3>4. IsFinished(j, n)
      BY <1>0, <1>1, <1>7, <3>1, <3>3 DEF RestFinished
    <3> QED BY <1>3, <3>4
  <2>3. RestFinished(I, d)'
    BY <1>1, <1>7, <2>2, Zenon DEF RestFinished
  <2>4. tokens'[item[d] + 1] = ":" /\ tokens'[I[d]] \in Strings
    BY <1>1, <1>7, HangGrows
  <2>5. HangsAt(W, I, d, m)'
    <3>1. \E c \in DOMAIN nodes'[n].children :
            nodes'[n].children[c].step = tokens'[I[d]] /\ nodes'[n].children[c].node = m
      BY <1>1, <1>7, <2>1
    <3> QED BY <1>1, <1>4, <1>5, <1>7, <2>4, <3>1, Zenon DEF HangsAt
  <2> QED BY <2>3, <2>5
<1> QED BY <1>6, <1>7

\* It goes on in the text as it did.
LEMMA HangGoesOn ==
  ASSUME ParserInv, ParserInv', Hanging, NEW where, NEW item, Shape(where, item),
         NEW W, NEW I, Placing(where, item, W, I), ref_stack # <<>>,
         NEW d, d = Depth, NEW input, GoesOn(input, where, item, d)
  PROVE  GoesOn(input, W, I, d)'
<1>0. PICK n : n = ref_stack[d]
  OBVIOUS
<1>1. /\ ref_stack'[d] = n /\ n \in 1..Len(nodes) /\ Len(nodes) \in Nat
      /\ (IsArray(n)' <=> IsArray(n)) /\ n \in Nat
      /\ I[d] = item[d] /\ W[n] = where[n]
      /\ RestFinished(item, d)
      /\ IsArray(n) => Before(d)' = Before(d) /\ Before(d) = Len(nodes[n].children)
      /\ ~IsArray(n) => /\ Others(I, d)' = Others(item, d)
                        /\ object_element.child \notin Others(item, d)
  BY <1>0, HangPlace
<1>2. ASSUME NEW c, IsFinished(c, n) PROVE W[c] = where[c]
  <2>1. c \in Nat /\ n < c /\ c <= Len(nodes)
    BY <1>2 DEF IsFinished, IsNumber
  <2>2. c \in 1..Len(nodes)
    BY <1>1, <2>1
  <2> QED BY <2>2 DEF Placing
<1>3. PICK old, new : old = nodes[n].children /\ new = nodes'[n].children
  OBVIOUS
<1>4. CASE IsArray(n)
  <2>1. \A c \in 1..Len(old) : new[c] = old[c]
    BY <1>0, <1>3, <1>4, HangChildren
  <2>2. PICK b : b = Before(d)
    OBVIOUS
  <2>3. \A c \in 1..b : W[new[c].node] = where[old[c].node]
    <3> SUFFICES ASSUME NEW c \in 1..b PROVE W[new[c].node] = where[old[c].node]
      OBVIOUS
    <3>1. IsFinished(old[c].node, n)
      BY <1>0, <1>1, <1>3, <1>4, <2>2 DEF RestFinished
    <3>2. new[c] = old[c]
      BY <1>1, <1>3, <1>4, <2>1, <2>2
    <3> QED BY <1>2, <3>1, <3>2
  <2>4. HeldElements(input, where, d) = [c \in 1..b |-> Value(input, where[old[c].node]).meaning]
    BY <1>0, <1>3, <2>2, Zenon DEF HeldElements
  <2>5. HeldElements(input, W, d)' = [c \in 1..b |-> Value(input, W[new[c].node]).meaning]
    <3>1. Before(d)' = b
      BY <1>1, <1>4, <2>2
    <3> QED BY <1>1, <1>3, <3>1, Zenon DEF HeldElements
  <2>6. HeldElements(input, W, d)' = HeldElements(input, where, d)
    BY <2>3, <2>4, <2>5
  <2>7. ArrayMeans(input, where[n], item[d], HeldElements(input, where, d))
    BY <1>0, <1>4 DEF GoesOn
  <2>8. ArrayMeans(input, W[n], I[d], HeldElements(input, W, d)')
    BY <1>1, <2>6, <2>7, Zenon
  <2> QED BY <1>1, <1>4, <2>8, Zenon DEF GoesOn
<1>5. CASE ~IsArray(n)
  <2>1. \A c \in DOMAIN old : c # object_element.child => new[c] = old[c]
    BY <1>0, <1>3, <1>5, HangChildren
  <2>2. PICK S : S = Others(item, d)
    OBVIOUS
  <2>3. \A c \in S : new[c].step = old[c].step /\ W[new[c].node] = where[old[c].node]
    <3> SUFFICES ASSUME NEW c \in S
                 PROVE  new[c].step = old[c].step /\ W[new[c].node] = where[old[c].node]
      OBVIOUS
    <3>1. IsFinished(old[c].node, n)
      BY <1>0, <1>1, <1>3, <1>5, <2>2 DEF RestFinished
    <3>2. c \in DOMAIN old /\ c # object_element.child
      BY <1>0, <1>1, <1>3, <1>5, <2>2 DEF Others
    <3>3. new[c] = old[c]
      BY <2>1, <3>2
    <3> QED BY <1>2, <3>1, <3>3
  <2>4. HeldMembers(input, where, item, d) =
          {<<old[c].step, Value(input, where[old[c].node]).meaning>> : c \in S}
    BY <1>0, <1>3, <2>2, Zenon DEF HeldMembers
  <2>5. HeldMembers(input, W, I, d)' =
          {<<new[c].step, Value(input, W[new[c].node]).meaning>> : c \in S}
    <3>1. Others(I, d)' = S
      BY <1>1, <1>5, <2>2
    <3> QED BY <1>1, <1>3, <3>1, Zenon DEF HeldMembers
  <2>6. HeldMembers(input, W, I, d)' = HeldMembers(input, where, item, d)
    BY <2>3, <2>4, <2>5
  <2>7. ObjectMeans(input, where[n], item[d], HeldMembers(input, where, item, d))
    BY <1>0, <1>5 DEF GoesOn
  <2>8. ObjectMeans(input, W[n], I[d], HeldMembers(input, W, I, d)')
    BY <1>1, <2>6, <2>7, Zenon
  <2> QED BY <1>1, <1>5, <2>8, Zenon DEF GoesOn
<1> QED BY <1>4, <1>5

\* A scalar.
LEMMA ScalarTree ==
  ASSUME ParserInv, Scalar, NEW m, m = NewNode
  PROVE  /\ Hanging /\ ref_stack' = ref_stack /\ at' = IF ref_stack = <<>> THEN "end" ELSE "next"
         /\ Depth' = Depth /\ Depth \in Nat /\ Len(nodes) \in Nat /\ m = Len(nodes) + 1
         /\ Len(nodes') = m /\ nodes'[m].children = <<>> /\ nodes'[m].token = last_token
         /\ \A j \in 1..Len(nodes) : IsOpen(j)' <=> IsOpen(j)
         /\ ~IsOpen(m)'
         /\ \A j \in 1..Len(nodes') : j = m \/ j \in 1..Len(nodes)
<1>1. /\ Hanging /\ ref_stack' = ref_stack
      /\ at' = IF ref_stack = <<>> THEN "end" ELSE "next"
  BY ScalarHangs
<1>2. /\ Depth' = Depth /\ Depth \in Nat /\ Len(nodes) \in Nat /\ m = Len(nodes) + 1
      /\ \A j \in 1..Len(nodes) : IsOpen(j)' <=> IsOpen(j)
      /\ \A k \in 1..Depth : ref_stack[k] \in 1..Len(nodes)
  BY <1>1, HangLevels DEF Depth
<1>3. Len(nodes') = m /\ nodes'[m].children = <<>> /\ nodes'[m].token = last_token
  BY <1>1, HangTree
<1>4. ~IsOpen(m)'
  <2>1. \A k \in 1..Depth : ref_stack'[k] # m
    BY <1>1, <1>2
  <2> QED BY <1>2, <2>1, Zenon DEF IsOpen
<1>5. \A j \in 1..Len(nodes') : j = m \/ j \in 1..Len(nodes)
  BY <1>2, <1>3
<1> QED BY <1>1, <1>2, <1>3, <1>4, <1>5

\* The present element or member is finished with it.
LEMMA ScalarShape ==
  ASSUME ParserInv, ParserInv', Scalar, NEW where, NEW item, Shape(where, item),
         NEW W, NEW I, Placing(where, item, W, I)
  PROVE  Shape(W, I)'
<1>0. PICK m : m = NewNode
  OBVIOUS
<1>1. /\ Hanging /\ ref_stack' = ref_stack /\ at' = IF ref_stack = <<>> THEN "end" ELSE "next"
      /\ Depth' = Depth /\ Depth \in Nat /\ Len(nodes) \in Nat /\ m = Len(nodes) + 1
      /\ Len(nodes') = m /\ nodes'[m].children = <<>>
      /\ \A j \in 1..Len(nodes) : IsOpen(j)' <=> IsOpen(j)
      /\ ~IsOpen(m)'
      /\ \A j \in 1..Len(nodes') : j = m \/ j \in 1..Len(nodes)
  BY <1>0, ScalarTree
<1>2. Grows(where, item, W, I) /\ Located(W, I)' /\ KeysDiffer'
  BY <1>1, HangGrows
<1>3. ChildrenFollow'
  <2> SUFFICES ASSUME NEW j \in 1..Len(nodes'), ~IsOpen(j)', NEW c \in DOMAIN nodes'[j].children
               PROVE  IsNumber(nodes[j].children[c].node, j)'
    BY DEF ChildrenFollow
  <2>1. CASE j = m
    <3>1. c \in DOMAIN <<>>
      BY <1>1, <2>1, Zenon
    <3>2. DOMAIN <<>> = {}
      OBVIOUS
    <3> QED BY <3>1, <3>2, Zenon
  <2>2. CASE j \in 1..Len(nodes)
    <3>1. ~IsOpen(j) /\ ChildrenFollow
      BY <1>1, <2>2 DEF Shape
    <3> QED BY <1>2, <2>2, <3>1, OldChildrenFollow
  <2> QED BY <1>1, <2>1, <2>2
<1>4. Stands(W, I)'
  <2>1. at' \in {"next", "end"} /\ ~AwaitsMember'
    BY <1>1 DEF AwaitsMember
  <2>2. nodes' # <<>>
    BY <1>1, EmptySeq, ParserTypes
  <2>3. at' = "end" => ref_stack' = <<>>
    BY <1>1
  <2> QED BY <2>1, <2>2, <2>3 DEF Stands
<1>5. ASSUME NEW k \in 1..Depth', k >= Depth
      PROVE  RestFinished(I, k)' /\ Hangs(W, I, k)'
  <2>1. k = Depth /\ ~(k < Depth') /\ k \in 1..Depth
    <3>1. Depth' = Depth /\ Depth \in Nat
      BY <1>1
    <3> QED BY <1>5, <3>1
  <2>2. ref_stack # <<>>
    BY <2>1, <1>1 DEF Depth
  <2>3. RestFinished(I, k)' /\ HangsAt(W, I, k, m)'
    BY <1>0, <1>1, <2>1, <2>2, HangLevel
  <2>4. m \in 1..Len(nodes')
    <3>1. m = Len(nodes) + 1 /\ Len(nodes) \in Nat /\ Len(nodes') = m
      BY <1>1
    <3> QED BY <3>1
  <2> QED BY <1>1, <2>1, <2>3, <2>4, Zenon DEF Hangs
<1> QED BY <1>2, <1>3, <1>4, <1>5, ShapeKept

\* It means what the token does.
LEMMA ScalarAgrees ==
  ASSUME ParserInv, ParserInv', Scalar, NEW where, NEW item, Shape(where, item),
         NEW W, NEW I, Placing(where, item, W, I), NEW input, StartsAsRead(input),
         Agrees(input, where, item)
  PROVE  Agrees(input, W, I)'
<1>0. PICK m : m = NewNode
  OBVIOUS
<1>1. /\ Hanging /\ ref_stack' = ref_stack /\ at' = IF ref_stack = <<>> THEN "end" ELSE "next"
      /\ Depth' = Depth /\ Depth \in Nat /\ Len(nodes) \in Nat
      /\ nodes'[m].children = <<>> /\ nodes'[m].token = last_token
      /\ \A j \in 1..Len(nodes) : IsOpen(j)' <=> IsOpen(j)
      /\ \A j \in 1..Len(nodes') : j = m \/ j \in 1..Len(nodes)
  BY <1>0, ScalarTree
<1>2. /\ Grows(where, item, W, I) /\ Read \in Nat /\ Read' = Read + 1
  BY <1>1, HangGrows
<1>3. /\ input \in Seq(Tokens) /\ Token(input, Read) = last_token
      /\ last_token \in Strings \union Scalars
  BY LastRead, ScalarHangs DEF Shape
<1>4. /\ Value(input, Read).next = Read'
      /\ Value(input, Read).meaning = Meaning(last_token, <<>>)
  BY <1>2, <1>3, LeafValue
<1>5. FinishedMean(input, W)'
  <2> SUFFICES ASSUME NEW j \in 1..Len(nodes'), ~IsOpen(j)'
               PROVE  Value(input, W[j]).meaning = MeaningBy(Means(input, W), j)'
    BY DEF FinishedMean
  <2>1. CASE j = m
    <3>1. W[j] = Read
      BY <1>0, <2>1 DEF Placing
    <3>2. last_token # "{"
      BY <1>3, TokensDiffer
    <3>3. MeaningBy(Means(input, W), j)' =
            Meaning(last_token, [c \in DOMAIN <<>> |->
                                  Means(input, W)'[nodes'[j].children[c].node]])
      BY <1>1, <2>1, <3>2, Zenon DEF MeaningBy
    <3>4. \A F : [c \in DOMAIN <<>> |-> F[nodes'[j].children[c].node]] = <<>>
      OBVIOUS
    <3> QED BY <1>4, <3>1, <3>3, <3>4, Zenon
  <2>2. CASE j \in 1..Len(nodes)
    <3>1. ~IsOpen(j) /\ ChildrenFollow /\ FinishedMean(input, where)
      BY <1>1, <2>2 DEF Shape, Agrees
    <3> QED BY <1>2, <2>2, <3>1, FinishedKept
  <2> QED BY <1>1, <2>1, <2>2
<1>6. HasRead(input, I)'
  <2>1. CASE ref_stack = <<>>
    <3>1. Read = 1
      BY <1>1, <2>1 DEF Shape, Stands, Hanging
    <3> QED BY <1>1, <1>4, <2>1, <3>1 DEF HasRead
  <2>2. CASE ref_stack # <<>>
    <3>1. Inner(I, Depth)' = Read
      <4>1. PICK d, n : d = Depth /\ n = ref_stack[d]
        OBVIOUS
      <4>2. /\ ref_stack'[d] = n /\ (IsArray(n)' <=> IsArray(n)) /\ I[d] = item[d]
            /\ Inner(item, d) = Read
        BY <1>1, <2>2, <4>1, HangPlace
      <4>3. Inner(I, d)' = Inner(item, d)
        BY <4>1, <4>2, Zenon DEF Inner
      <4>4. Depth' = d
        BY <1>1, <4>1
      <4> QED BY <4>2, <4>3, <4>4
    <3> QED BY <1>1, <1>4, <2>2, <3>1 DEF HasRead
  <2> QED BY <2>1, <2>2
<1>7. \A k \in 1..Depth' : k >= Depth => k = Depth /\ k \in 1..Depth
  <2>1. Depth' = Depth /\ Depth \in Nat
    BY <1>1
  <2> QED BY <2>1
<1>8. ASSUME NEW k \in 1..Depth', k >= Depth
      PROVE  FailsAll(input, W[ref_stack'[k]]) /\ GoesOn(input, W, I, k)'
  <2>1. k = Depth /\ k \in 1..Depth
    BY <1>7, <1>8
  <2>2. ref_stack # <<>> /\ at = "value"
    BY <1>1, <2>1 DEF Depth, Hanging
  <2>3. PICK n : n = ref_stack[k]
    OBVIOUS
  <2>4. W[n] = where[n] /\ ref_stack'[k] = n
    BY <1>1, <2>1, <2>2, <2>3, HangPlace
  <2>5. FailsAll(input, where[n])
    BY <2>1, <2>3 DEF Agrees
  <2>6. GoesOn(input, where, item, k)
    <3>1. Entered(k)
      BY <2>2 DEF Entered
    <3> QED BY <2>1, <3>1 DEF Agrees
  <2>7. GoesOn(input, W, I, k)'
    BY <1>1, <2>1, <2>2, <2>6, HangGoesOn
  <2> QED BY <2>4, <2>5, <2>7
<1> QED BY <1>2, <1>5, <1>6, <1>8, AgreesKept

\* The beginning of an array or object.
LEMMA BeginningTree ==
  ASSUME ParserInv, BeginStructure, NEW m, m = NewNode
  PROVE  /\ Hanging /\ at' \in {"first_element", "first_key"} /\ last_token \in {"[", "{"}
         /\ Depth' = Depth + 1 /\ Depth \in Nat /\ Depth' \in 1..Depth'
         /\ ref_stack'[Depth'] = m /\ Last(ref_stack') = m
         /\ nodes'[m].children = <<>> /\ m \in 1..Len(nodes')
         /\ NothingEnds
         /\ \A k \in 1..Depth : ref_stack'[k] = ref_stack[k]
<1>1. /\ Hanging /\ at' \in {"first_element", "first_key"} /\ last_token \in {"[", "{"}
      /\ ref_stack' = Append(ref_stack, NewNode)
  BY BeginningHangs
<1>2. /\ Depth \in Nat /\ Len(nodes) \in Nat /\ m = Len(nodes) + 1
      /\ \A j \in 1..Len(nodes) : IsOpen(j)' <=> IsOpen(j)
      /\ \A k \in 1..Depth : ref_stack'[k] = ref_stack[k]
  BY <1>1, HangLevels
<1>3. Len(nodes') = m /\ nodes'[m].children = <<>>
  BY <1>1, HangTree
<1>4. Depth' = Depth + 1 /\ ref_stack'[Depth + 1] = m
  <2>1. ref_stack \in Seq(Nat) /\ NewNode \in Nat
    <3>1. 1..Len(nodes) \subseteq Nat /\ NewNode \in Nat
      BY <1>2 DEF NewNode
    <3> QED BY <3>1, ParserTypes, SeqMonotonic
  <2>2. /\ Len(Append(ref_stack, NewNode)) = Len(ref_stack) + 1
        /\ Append(ref_stack, NewNode)[Len(ref_stack) + 1] = NewNode
    BY <2>1, LastOfAppend
  <2> QED BY <1>1, <2>2, Zenon DEF Depth
<1>5. Depth' \in 1..Depth' /\ ref_stack'[Depth'] = m
  BY <1>2, <1>4
<1>6. Last(ref_stack') = m
  BY <1>5, Zenon DEF Last, Depth
<1>7. m \in 1..Len(nodes')
  BY <1>2, <1>3
<1>8. NothingEnds
  <2>1. IsOpen(m)'
    BY <1>5, Zenon DEF IsOpen
  <2>2. \A j \in 1..Len(nodes') : j = m \/ j \in 1..Len(nodes)
    BY <1>2, <1>3
  <2> QED BY <1>2, <2>1, <2>2 DEF NothingEnds
<1> QED BY <1>1, <1>2, <1>3, <1>4, <1>5, <1>6, <1>7, <1>8

\* The new level is open and empty.
LEMMA BeginningShape ==
  ASSUME ParserInv, ParserInv', BeginStructure, NEW where, NEW item, Shape(where, item),
         NEW W, NEW I, Placing(where, item, W, I)
  PROVE  Shape(W, I)'
<1>0. PICK m : m = NewNode
  OBVIOUS
<1>1. /\ Hanging /\ at' \in {"first_element", "first_key"}
      /\ Depth' = Depth + 1 /\ Depth \in Nat /\ Depth' \in 1..Depth'
      /\ ref_stack'[Depth'] = m /\ Last(ref_stack') = m
      /\ nodes'[m].children = <<>> /\ m \in 1..Len(nodes')
      /\ NothingEnds
  BY <1>0, BeginningTree
<1>2. /\ Grows(where, item, W, I) /\ Located(W, I)' /\ KeysDiffer'
      /\ Read \in Nat /\ Read' = Read + 1
  BY <1>1, HangGrows
<1>3. ChildrenFollow'
  BY <1>1, <1>2, ChildrenStill
<1>4. Stands(W, I)'
  <2>1. ~AwaitsMember'
    BY <1>1 DEF AwaitsMember
  <2>2. W[m] = Read' - 1
    <3>1. W[m] = Read
      BY <1>0 DEF Placing
    <3> QED BY <1>2, <3>1
  <2> QED BY <1>1, <2>1, <2>2 DEF Stands
<1>5. ASSUME NEW k \in 1..Depth', k >= Depth, Entered(k)'
      PROVE  RestFinished(I, k)' /\ Hangs(W, I, k)'
  <2>1. k # Depth'
    BY <1>1, <1>5 DEF Entered
  <2>2. k = Depth /\ k < Depth' /\ k \in 1..Depth /\ k + 1 = Depth'
    <3>1. Depth' = Depth + 1 /\ Depth \in Nat
      BY <1>1
    <3> QED BY <1>5, <2>1, <3>1
  <2>3. ref_stack # <<>>
    BY <2>2, <1>1 DEF Depth
  <2>4. RestFinished(I, k)' /\ HangsAt(W, I, k, m)'
    BY <1>0, <1>1, <2>2, <2>3, HangLevel
  <2>5. k # Depth' /\ ref_stack'[k + 1] = m
    BY <1>1, <2>1, <2>2
  <2> QED BY <2>4, <2>5, Zenon DEF Hangs
<1> QED BY <1>2, <1>3, <1>4, <1>5, ShapeKept

\* A value that fails where the parser is fails the text.
LEMMA ValueFails ==
  ASSUME ParserInv, Hanging, NEW where, NEW item, Shape(where, item),
         NEW input, StartsAsRead(input), Agrees(input, where, item),
         Value(input, Read).next = 0
  PROVE  Value(input, 1).next = 0
<1>1. /\ at = "value" /\ Located(where, item) /\ Stands(where, item) /\ input \in Seq(Tokens)
  BY LastRead DEF Hanging, Shape
<1>2. CASE ref_stack = <<>>
  BY <1>1, <1>2 DEF Stands
<1>3. CASE ref_stack # <<>>
  <2>0. PICK n : n = ref_stack[Depth]
    OBVIOUS
  <2>1. Depth \in 1..Depth /\ Inner(item, Depth) = Read
    BY <1>1, <1>3, Innermost DEF Stands
  <2>2. /\ where[n] \in Nat /\ item[Depth] \in Nat
        /\ IsArray(n) => ArrayMeans(input, where[n], item[Depth],
                                    HeldElements(input, where, Depth))
        /\ ~IsArray(n) => ObjectMeans(input, where[n], item[Depth],
                                      HeldMembers(input, where, item, Depth))
    <3>1. at \notin {"first_element", "first_key"}
      BY <1>1
    <3> QED BY <1>1, <1>3, <2>0, <3>1, InnermostGoesOn, Zenon
  <2>3. Token(input, 0) \notin {"]", "}", ","}
    BY <1>1, NothingAtZero
  <2>4. Value(input, where[n]).next = 0
    <3>1. CASE IsArray(n)
      <4>1. item[Depth] = Read
        BY <2>0, <2>1, <3>1 DEF Inner
      <4>2. Token(input, Value(input, item[Depth]).next) \notin {"]", ","}
        BY <2>3, <4>1
      <4> QED BY <1>1, <2>2, <3>1, <4>2, ArrayFails
    <3>2. CASE ~IsArray(n)
      <4>1. item[Depth] + 2 = Read
        BY <2>0, <2>1, <3>2 DEF Inner
      <4>2. Token(input, Value(input, item[Depth] + 2).next) \notin {"}", ","}
        BY <2>3, <4>1
      <4> QED BY <1>1, <2>2, <3>2, <4>2, ObjectFails
    <3> QED BY <3>1, <3>2
  <2>5. FailsAll(input, where[n])
    BY <2>0, <2>1 DEF Agrees
  <2> QED BY <2>4, <2>5 DEF FailsAll
<1> QED BY <1>2, <1>3

\* What it means is still ahead, and its failure is that of the text.
LEMMA BeginningAgrees ==
  ASSUME ParserInv, ParserInv', BeginStructure, NEW where, NEW item, Shape(where, item),
         NEW W, NEW I, Placing(where, item, W, I), NEW input, StartsAsRead(input),
         Agrees(input, where, item)
  PROVE  Agrees(input, W, I)'
<1>0. PICK m : m = NewNode
  OBVIOUS
<1>1. /\ Hanging /\ at' \in {"first_element", "first_key"}
      /\ Depth' = Depth + 1 /\ Depth \in Nat /\ Depth' \in 1..Depth'
      /\ ref_stack'[Depth'] = m
      /\ NothingEnds
      /\ \A k \in 1..Depth : ref_stack'[k] = ref_stack[k]
  BY <1>0, BeginningTree
<1>2. Grows(where, item, W, I)
  BY <1>1, HangGrows
<1>3. FinishedMean(input, W)'
  BY <1>1, <1>2, MeaningStill DEF Agrees
<1>4. HasRead(input, I)'
  BY <1>1 DEF HasRead
<1>5. ASSUME NEW k \in 1..Depth', k >= Depth
      PROVE  k = Depth' \/ (k = Depth /\ k \in 1..Depth)
  <2>1. Depth' = Depth + 1 /\ Depth \in Nat
    BY <1>1
  <2> QED BY <1>5, <2>1
<1>6. \A k \in 1..Depth : k = Depth =>
        FailsAll(input, W[ref_stack[k]]) /\ GoesOn(input, W, I, k)'
  <2> SUFFICES ASSUME NEW k \in 1..Depth, k = Depth
               PROVE  FailsAll(input, W[ref_stack[k]]) /\ GoesOn(input, W, I, k)'
    OBVIOUS
  <2>1. ref_stack # <<>> /\ at = "value"
    BY <1>1 DEF Depth, Hanging
  <2>2. PICK n : n = ref_stack[k]
    OBVIOUS
  <2>3. W[n] = where[n]
    BY <1>1, <2>1, <2>2, HangPlace
  <2>4. FailsAll(input, where[n])
    BY <2>2 DEF Agrees
  <2>5. GoesOn(input, where, item, k)
    <3>1. Entered(k)
      BY <2>1 DEF Entered
    <3> QED BY <3>1 DEF Agrees
  <2>6. GoesOn(input, W, I, k)'
    BY <1>1, <2>1, <2>5, HangGoesOn
  <2> QED BY <2>2, <2>3, <2>4, <2>6
<1>7. FailsAll(input, W[m])
  <2>1. W[m] = Read
    BY <1>0 DEF Placing
  <2> QED BY <1>1, <2>1, ValueFails DEF FailsAll
<1>8. \A k \in 1..Depth' : k >= Depth => FailsAll(input, W[ref_stack'[k]])
  BY <1>1, <1>5, <1>6, <1>7
<1>9. \A k \in 1..Depth' : k >= Depth /\ Entered(k)' => GoesOn(input, W, I, k)'
  <2>1. \A k \in 1..Depth' : Entered(k)' => k # Depth'
    BY <1>1 DEF Entered
  <2> QED BY <1>5, <1>6, <2>1
<1> QED BY <1>2, <1>3, <1>4, <1>8, <1>9, AgreesKept

\* The end of an array or object.
Ending ==
  /\ ref_stack # <<>> /\ EndStructure /\ GetToken
  /\ at' = IF Depth = 1 THEN "end" ELSE "next"

\* Everything in n has ended.
Inside(n) == \A c \in DOMAIN nodes[n].children : IsFinished(nodes[n].children[c].node, n)

\* An empty array or object ends.
LEMMA EmptyEnds ==
  ASSUME ParserInv, EmptyStructure
  PROVE  Ending
<1>1. /\ at \in {"first_element", "first_key"} /\ EndStructure /\ UNCHANGED states
      /\ at' = (IF states' = <<>> THEN "end" ELSE "next") /\ GetToken
  BY DEF EmptyStructure, AfterValue
<1>2. /\ Len(ref_stack) = Len(states) + 1 /\ states \in Seq(BOOLEAN)
      /\ ref_stack \in Seq(1..Len(nodes))
  BY <1>1 DEF ParserInv, ParserTypeOK, Placed
<1>3. ref_stack # <<>> /\ (states = <<>> <=> Depth = 1)
  BY <1>2, EmptySeq DEF Depth
<1> QED BY <1>1, <1>3 DEF Ending

\* So does another.
LEMMA CloseEnds ==
  ASSUME ParserInv, CloseStructure
  PROVE  Ending
<1>1. /\ at = "next" /\ EndStructure /\ states' = Front(states)
      /\ at' = (IF states' = <<>> THEN "end" ELSE "next") /\ GetToken
  BY DEF CloseStructure, AfterValue
<1>2. /\ Len(ref_stack) = Len(states) /\ states \in Seq(BOOLEAN) /\ states # <<>>
      /\ ref_stack \in Seq(1..Len(nodes))
  BY <1>1 DEF ParserInv, RefsAlive, ParserTypeOK, Placed, LevelsAgree
<1>3. /\ states' \in Seq(BOOLEAN) /\ Len(states') = Len(states) - 1 /\ Len(states) \in Nat
  BY <1>1, <1>2, LastFront
<1>3a. states' = <<>> <=> Len(states') = 0
  BY <1>3, EmptySeq
<1>4. ref_stack # <<>> /\ (states' = <<>> <=> Depth = 1)
  BY <1>2, <1>3, <1>3a, EmptySeq DEF Depth
<1> QED BY <1>1, <1>4 DEF Ending

\* The levels that are left.
LEMMA EndLevels ==
  ASSUME ParserInv, Ending, NEW n, n = ref_stack[Depth]
  PROVE  /\ Depth \in Nat /\ Depth \in 1..Depth /\ Depth' = Depth - 1 /\ Len(nodes) \in Nat
         /\ UNCHANGED <<nodes, root, object_element>> /\ n \in 1..Len(nodes) /\ n \in Nat
         /\ \A k \in 1..(Depth - 1) : k \in 1..Depth /\ ref_stack'[k] = ref_stack[k]
         /\ \A j : IsOpen(j)' <=> (IsOpen(j) /\ j # n)
         /\ IsOpen(n)
<1>1. /\ ref_stack # <<>> /\ EndStructure
  BY DEF Ending
<1>2. /\ Depth \in Nat /\ Depth \in 1..Depth /\ Len(nodes) \in Nat
      /\ n \in 1..Len(nodes) /\ n \in Nat
  BY <1>1, Innermost
<1>3. /\ ref_stack' = Front(ref_stack) /\ UNCHANGED <<nodes, root, object_element>>
      /\ ref_stack \in Seq(1..Len(nodes))
  BY <1>1, ParserTypes DEF EndStructure
<1>4. /\ Depth' = Depth - 1 /\ \A k \in 1..(Depth - 1) : ref_stack'[k] = ref_stack[k]
  <2>1. /\ Len(Front(ref_stack)) = Len(ref_stack) - 1
        /\ \A k \in 1..(Len(ref_stack) - 1) : Front(ref_stack)[k] = ref_stack[k]
    BY <1>1, <1>3, LastFront
  <2> QED BY <1>3, <2>1, Zenon DEF Depth
<1>5. /\ \A k \in 1..(Depth - 1) : k \in 1..Depth /\ k # Depth
      /\ \A k \in 1..Depth : k = Depth \/ k \in 1..(Depth - 1)
  BY <1>2
<1>6. ASSUME NEW j PROVE IsOpen(j)' <=> (IsOpen(j) /\ j # n)
  <2>1. IsOpen(j)' <=> \E k \in 1..(Depth - 1) : ref_stack[k] = j
    <3>1. IsOpen(j)' <=> \E k \in 1..(Depth - 1) : ref_stack'[k] = j
      BY <1>4, Zenon DEF IsOpen
    <3> QED BY <1>4, <3>1, Zenon
  <2>2. \A k \in 1..(Depth - 1) : ref_stack[k] # n
    BY <1>2, <1>5, LevelsDiffer
  <2> QED BY <1>5, <2>1, <2>2, Zenon DEF IsOpen
<1>7. IsOpen(n)
  BY <1>2 DEF IsOpen
<1> QED BY <1>2, <1>3, <1>4, <1>5, <1>6, <1>7

\* The end of the innermost one leaves the tree alone.
LEMMA EndGrows ==
  ASSUME ParserInv, ParserInv', Ending, NEW where, NEW item, Shape(where, item),
         NEW I, I = [k \in 1..(Depth - 1) |-> item[k]]
  PROVE  /\ Grows(where, item, where, I) /\ Located(where, I)'
         /\ Read \in Nat /\ Read' = Read + 1
<1>0. PICK n : n = ref_stack[Depth]
  OBVIOUS
<1>1. /\ Depth \in Nat /\ Depth \in 1..Depth /\ Depth' = Depth - 1 /\ Len(nodes) \in Nat
      /\ UNCHANGED <<nodes, root, object_element>> /\ n \in 1..Len(nodes)
      /\ \A k \in 1..(Depth - 1) : k \in 1..Depth /\ ref_stack'[k] = ref_stack[k]
      /\ \A j : IsOpen(j)' <=> (IsOpen(j) /\ j # n)
  BY <1>0, EndLevels
<1>2. /\ Located(where, item) /\ GetToken /\ ref_stack # <<>>
      /\ at' = (IF Depth = 1 THEN "end" ELSE "next")
  BY DEF Shape, Ending
<1>3. /\ Read \in Nat /\ Read' = Read + 1
      /\ \A m \in 1..Read : tokens'[m] = tokens[m] /\ m \in 1..Read'
  BY <1>2, TokensGrow
<1>4. \A k \in 1..(Depth - 1) : I[k] = item[k]
  OBVIOUS
<1>5. Grows(where, item, where, I)
  <2>1. /\ Read <= Read' /\ Len(nodes) <= Len(nodes') /\ Depth - 1 <= Depth'
        /\ Depth' # 0 => Depth # 1
    BY <1>1, <1>3
  <2>2. \A k \in 1..Depth : k <= Depth' => ref_stack'[k] = ref_stack[k]
    <3>1. \A k \in 1..Depth : k <= Depth' => k \in 1..(Depth - 1)
      BY <1>1
    <3> QED BY <1>1, <3>1, Zenon
  <2> QED BY <1>1, <1>2, <1>3, <1>4, <2>1, <2>2, Zenon DEF Grows
<1>6. Located(where, I)'
  <2>1. where \in [1..Len(nodes') -> 1..Read']
    <3>1. where \in [1..Len(nodes) -> 1..Read]
      BY <1>2 DEF Located
    <3> QED BY <1>1, <1>3, <3>1
  <2>2. I \in [1..Depth' -> 1..Read']
    <3>1. item \in [1..Depth -> 1..Read]
      BY <1>2 DEF Located
    <3>2. \A k \in 1..(Depth - 1) : item[k] \in 1..Read'
      BY <1>1, <1>3, <3>1
    <3> QED BY <1>1, <3>2
  <2>3. nodes' # <<>> => root' = 1 /\ where[1] = 1
    BY <1>1, <1>2 DEF Located
  <2>4. ref_stack' # <<>> => ref_stack'[1] = 1
    <3>1. ref_stack' # <<>> => Depth' # 0
      BY EmptySeq, ParserTypes DEF Depth
    <3>2. Depth' # 0 => 1 \in 1..(Depth - 1)
      BY <1>1
    <3> QED BY <1>1, <1>2, <3>1, <3>2 DEF Located
  <2>5. \A m \in 1..Len(nodes') : ~(m > Len(nodes))
    BY <1>1
  <2> QED BY <1>2, <1>5, <2>1, <2>2, <2>3, <2>4, <2>5, LocatedKept
<1> QED BY <1>3, <1>5, <1>6

\* The innermost one is finished with it.
LEMMA EndShape ==
  ASSUME ParserInv, ParserInv', Ending, NEW where, NEW item, Shape(where, item),
         NEW I, I = [k \in 1..(Depth - 1) |-> item[k]],
         NEW n, n = ref_stack[Depth], Inside(n)
  PROVE  Shape(where, I)'
<1>1. /\ Depth \in Nat /\ Depth \in 1..Depth /\ Depth' = Depth - 1 /\ Len(nodes) \in Nat
      /\ UNCHANGED <<nodes, root, object_element>> /\ n \in 1..Len(nodes)
      /\ \A j : IsOpen(j)' <=> (IsOpen(j) /\ j # n)
  BY EndLevels
<1>2. Grows(where, item, where, I) /\ Located(where, I)'
  BY EndGrows
<1>3. KeysDiffer'
  BY <1>1 DEF KeysDiffer, Shape
<1>4. ChildrenFollow'
  <2> SUFFICES ASSUME NEW j \in 1..Len(nodes'), ~IsOpen(j)', NEW c \in DOMAIN nodes'[j].children
               PROVE  IsNumber(nodes[j].children[c].node, j)'
    BY DEF ChildrenFollow
  <2>1. j \in 1..Len(nodes) /\ c \in DOMAIN nodes[j].children /\ (j = n \/ ~IsOpen(j))
    BY <1>1
  <2>2. IsNumber(nodes[j].children[c].node, j)
    BY <2>1 DEF Inside, IsFinished, Shape, ChildrenFollow
  <2> QED BY <1>1, <2>2 DEF IsNumber
<1>5. Stands(where, I)'
  <2>1. at' = (IF Depth = 1 THEN "end" ELSE "next")
    BY DEF Ending
  <2>2. nodes' # <<>>
    BY <1>1, EmptySeq, ParserTypes
  <2>3. Depth = 1 => ref_stack' = <<>>
    <3>1. Depth = 1 => Depth' = 0
      BY <1>1
    <3> QED BY <3>1, EmptySeq, ParserTypes DEF Depth
  <2>4. at' \in {"end", "next"} /\ (at' = "end" => Depth = 1)
    BY <2>1
  <2>5. ~AwaitsMember'
    BY <2>4 DEF AwaitsMember
  <2> QED BY <2>2, <2>3, <2>4, <2>5 DEF Stands
<1>6. \A k \in 1..Depth' : ~(k >= Depth)
  <2>1. Depth' = Depth - 1 /\ Depth \in Nat
    BY <1>1
  <2> QED BY <2>1
<1> QED BY <1>2, <1>3, <1>4, <1>5, <1>6, ShapeKept

\* The tree alone tells what a node means.
LEMMA MeaningStays ==
  ASSUME nodes' = nodes, NEW input, NEW where, NEW j
  PROVE  MeaningBy(Means(input, where), j)' = MeaningBy(Means(input, where), j)
<1>1. Means(input, where)' = Means(input, where)
  BY Zenon DEF Means
<1>2. MeaningBy(Means(input, where), j) =
        MeaningNow(nodes[j].token, nodes[j].children, Means(input, where))
  BY Zenon DEF MeaningBy, MeaningNow
<1>3. MeaningBy(Means(input, where), j)' =
        MeaningNow(nodes'[j].token, nodes'[j].children, Means(input, where)')
  BY Zenon DEF MeaningBy, MeaningNow
<1> QED BY <1>1, <1>2, <1>3, Zenon

\* It means in the tree what it means in the text.
LEMMA EndAgrees ==
  ASSUME ParserInv, ParserInv', Ending, NEW where, NEW item, Shape(where, item),
         NEW I, I = [k \in 1..(Depth - 1) |-> item[k]],
         NEW n, n = ref_stack[Depth],
         NEW input, Agrees(input, where, item),
         Value(input, where[n]).next = Read + 1,
         Value(input, where[n]).meaning = MeaningBy(Means(input, where), n)
  PROVE  Agrees(input, where, I)'
<1>1. /\ Depth \in Nat /\ Depth \in 1..Depth /\ Depth' = Depth - 1 /\ Len(nodes) \in Nat
      /\ UNCHANGED <<nodes, root, object_element>> /\ n \in 1..Len(nodes)
      /\ \A k \in 1..(Depth - 1) : k \in 1..Depth /\ ref_stack'[k] = ref_stack[k]
      /\ \A j : IsOpen(j)' <=> (IsOpen(j) /\ j # n)
  BY EndLevels
<1>2. Grows(where, item, where, I) /\ Read' = Read + 1
  BY EndGrows
<1>3. FinishedMean(input, where)'
  <2> SUFFICES ASSUME NEW j \in 1..Len(nodes'), ~IsOpen(j)'
               PROVE  Value(input, where[j]).meaning = MeaningBy(Means(input, where), j)'
    BY DEF FinishedMean
  <2>1. j \in 1..Len(nodes) /\ (j = n \/ ~IsOpen(j))
    BY <1>1
  <2>2. CASE j = n
    <3>1. MeaningBy(Means(input, where), j)' = MeaningBy(Means(input, where), j)
      BY <1>1, MeaningStays
    <3> QED BY <2>2, <3>1, Zenon
  <2>3. CASE ~IsOpen(j)
    <3>1. ChildrenFollow /\ FinishedMean(input, where)
      BY DEF Shape, Agrees
    <3> QED BY <1>2, <2>1, <2>3, <3>1, FinishedKept
  <2> QED BY <2>1, <2>2, <2>3
<1>4. at' = (IF Depth = 1 THEN "end" ELSE "next")
  BY DEF Ending
<1>5. HasRead(input, I)'
  <2>1. CASE Depth = 1
    <3>1. n = 1 /\ where[1] = 1
      <4>1. ref_stack # <<>> /\ nodes # <<>>
        BY <1>1, EmptySeq, ParserTypes DEF Ending
      <4> QED BY <2>1, <4>1 DEF Shape, Located
    <3> QED BY <1>2, <1>4, <2>1, <3>1 DEF HasRead
  <2>2. CASE Depth # 1
    <3>1. PICK d : d = Depth - 1
      OBVIOUS
    <3>2. d \in 1..Depth /\ d < Depth /\ d + 1 = Depth /\ Depth' = d /\ d \in 1..(Depth - 1)
          /\ Depth \in Nat
      <4>1. Depth' = Depth - 1 /\ Depth \in Nat /\ Depth \in 1..Depth
        BY <1>1
      <4> QED BY <2>2, <3>1, <4>1
    <3>3. Entered(d)
      BY <3>2 DEF Entered
    <3>4. HangsAt(where, item, d, n)
      BY <3>2, <3>3 DEF Shape, Hangs
    <3>5. where[n] = Inner(item, d)
      BY <3>4 DEF HangsAt
    <3>6. Inner(I, d)' = Inner(item, d)
      BY <1>2, <3>2, LevelRests
    <3>7. Value(input, Inner(I, Depth)').next = Read'
      BY <1>2, <3>2, <3>5, <3>6
    <3> QED BY <1>4, <2>2, <3>7 DEF HasRead
  <2> QED BY <2>1, <2>2
<1>6. \A k \in 1..Depth' : ~(k >= Depth)
  <2>1. Depth' = Depth - 1 /\ Depth \in Nat
    BY <1>1
  <2> QED BY <2>1
<1> QED BY <1>2, <1>3, <1>5, <1>6, AgreesKept

\* What stands behind the last thing read in an array or object that ends.
LEMMA EmptyMeans ==
  ASSUME ParserInv, EmptyStructure, NEW where, NEW item, Shape(where, item),
         NEW n, n = ref_stack[Depth], NEW input, StartsAsRead(input)
  PROVE  /\ Inside(n)
         /\ Value(input, where[n]).next = Read + 1
         /\ Value(input, where[n]).meaning = MeaningBy(Means(input, where), n)
<1>1. /\ at \in {"first_element", "first_key"}
      /\ at = "first_element" => last_token = "]"
      /\ at = "first_key" => last_token = "}"
      /\ Located(where, item) /\ Stands(where, item) /\ Ending
  BY EmptyEnds DEF EmptyStructure, Shape
<1>2. ref_stack # <<>> /\ n = Last(ref_stack) /\ n \in 1..Len(nodes) /\ Depth \in 1..Depth
  BY <1>1, Innermost DEF Ending
<1>3. where[n] = Read - 1 /\ nodes[n].children = <<>>
  BY <1>1, <1>2 DEF Stands
<1>4. /\ input \in Seq(Tokens) /\ Read \in Nat /\ Token(input, Read) = last_token
      /\ where[n] \in Nat /\ Token(input, where[n]) = nodes[n].token
  BY <1>1, <1>2, LastRead, Places
<1>5. where[n] + 1 = Read /\ where[n] + 2 = Read + 1
  <2>1. Read \in Nat
    BY <1>4
  <2> QED BY <1>3, <2>1
<1>6. DOMAIN <<>> = {}
  OBVIOUS
<1>7. Inside(n)
  BY <1>3, <1>6, Zenon DEF Inside
<1>8. /\ at = "first_element" => nodes[n].token = "["
      /\ at = "first_key" => nodes[n].token = "{"
  <2>1. at = "first_key" => nodes[n].token # "["
    BY <1>2 DEF ParserInv, Placed, IsArray
  <2>2. at = "first_element" => nodes[n].token = "["
    BY <1>2 DEF ParserInv, Placed, IsArray
  <2>3. nodes[n].token \in {"[", "{"}
    BY <1>2, Zenon DEF ParserInv, Nested, Depth
  <2> QED BY <2>1, <2>2, <2>3
<1>9. MeaningBy(Means(input, where), n) =
        Meaning(nodes[n].token, IF nodes[n].token = "{" THEN {} ELSE <<>>)
  <2> DEFINE V == Means(input, where)
  <2>1. MeaningBy(V, n) =
          Meaning(nodes[n].token,
            IF nodes[n].token = "{"
              THEN {<<nodes[n].children[c].step, V[nodes[n].children[c].node]>> :
                      c \in DOMAIN <<>>}
              ELSE [c \in DOMAIN <<>> |-> V[nodes[n].children[c].node]])
    BY <1>3, Zenon DEF MeaningBy
  <2> HIDE DEF V
  <2>2. {<<nodes[n].children[c].step, V[nodes[n].children[c].node]>> : c \in DOMAIN <<>>} = {}
    BY <1>6
  <2>3. [c \in DOMAIN <<>> |-> V[nodes[n].children[c].node]] = <<>>
    OBVIOUS
  <2>4. MeaningBy(V, n) = Meaning(nodes[n].token, IF nodes[n].token = "{" THEN {} ELSE <<>>)
    BY <2>1, <2>2, <2>3, Zenon
  <2> QED BY <2>4 DEF V
<1>10. CASE at = "first_element"
  <2>1. Token(input, where[n]) = "[" /\ Token(input, where[n] + 1) = "]" /\ nodes[n].token = "["
    BY <1>1, <1>4, <1>5, <1>8, <1>10
  <2> QED BY <1>4, <1>5, <1>7, <1>9, <2>1, EmptyArrayValue
<1>11. CASE at = "first_key"
  <2>1. Token(input, where[n]) = "{" /\ Token(input, where[n] + 1) = "}" /\ nodes[n].token = "{"
    BY <1>1, <1>4, <1>5, <1>8, <1>11
  <2> QED BY <1>4, <1>5, <1>7, <1>9, <2>1, EmptyObjectValue
<1> QED BY <1>1, <1>10, <1>11

\* The same behind the last element or member.
LEMMA CloseMeans ==
  ASSUME ParserInv, CloseStructure, NEW where, NEW item, Shape(where, item),
         NEW n, n = ref_stack[Depth], NEW input, StartsAsRead(input),
         Agrees(input, where, item)
  PROVE  /\ Inside(n)
         /\ Value(input, where[n]).next = Read + 1
         /\ Value(input, where[n]).meaning = MeaningBy(Means(input, where), n)
<1>1. at = "next" /\ last_token = Closing
  BY DEF CloseStructure
<1>2. /\ ref_stack # <<>> /\ Depth \in Nat /\ Depth \in 1..Depth
      /\ Last(ref_stack) = ref_stack[Depth] /\ n \in 1..Len(nodes)
      /\ (InArray <=> IsArray(n))
  BY <1>1, BehindValue
<1>3. Inside(n)
  BY <1>1, AllFinished DEF Inside
<1>4. /\ input \in Seq(Tokens) /\ Read \in Nat /\ Token(input, Read) = last_token
      /\ where[n] \in Nat /\ item[Depth] \in Nat
      /\ Value(input, Inner(item, Depth)).next = Read
      /\ Len(nodes) \in Nat
  BY <1>1, <1>2, LastRead, Places, ParserTypes DEF Agrees, HasRead, Shape
<1>5. /\ IsArray(n) => ArrayMeans(input, where[n], item[Depth], HeldElements(input, where, Depth))
      /\ ~IsArray(n) => ObjectMeans(input, where[n], item[Depth],
                                    HeldMembers(input, where, item, Depth))
  <2>1. at \notin {"first_element", "first_key"} /\ Located(where, item)
    BY <1>1 DEF Shape
  <2> QED BY <1>2, <2>1, InnermostGoesOn, Zenon
<1>6. PICK children : children = nodes[n].children
  OBVIOUS
<1>7. \A c \in DOMAIN children :
        Means(input, where)[children[c].node] = Value(input, where[children[c].node]).meaning
  <2> SUFFICES ASSUME NEW c \in DOMAIN children
               PROVE  Means(input, where)[children[c].node] =
                        Value(input, where[children[c].node]).meaning
    OBVIOUS
  <2>1. IsFinished(children[c].node, n)
    BY <1>3, <1>6 DEF Inside
  <2>2. children[c].node \in 1..Len(nodes)
    BY <1>2, <1>4, <2>1 DEF IsFinished, IsNumber
  <2> QED BY <2>2 DEF Means
<1>8. DOMAIN children = 1..Len(children)
  BY <1>2, <1>6, ParserTypes
<1>9. CASE IsArray(n)
  <2>1. Value(input, item[Depth]).next = Read
    BY <1>4, <1>9 DEF Inner
  <2>2. Token(input, Value(input, item[Depth]).next) = "]"
    BY <1>1, <1>2, <1>4, <1>9, <2>1 DEF Closing
  <2>3. /\ HeldElements(input, where, Depth) \in Seq(Meanings(input))
        /\ Append(HeldElements(input, where, Depth), Value(input, item[Depth]).meaning) =
             ElementsOf(input, where, n)
    BY <1>1, <1>9, AllElements, Zenon
  <2>4. /\ Value(input, where[n]).next = Read + 1
        /\ Value(input, where[n]).meaning = Meaning("[", ElementsOf(input, where, n))
    <3>1. /\ Value(input, where[n]).next = Value(input, item[Depth]).next + 1
          /\ Value(input, where[n]).meaning =
               Meaning("[", Append(HeldElements(input, where, Depth),
                                   Value(input, item[Depth]).meaning))
      BY <1>4, <1>5, <1>9, <2>2, <2>3, ArrayEnd, Zenon
    <3> QED BY <2>1, <2>3, <3>1, Zenon
  <2>5. MeaningBy(Means(input, where), n) = Meaning("[", ElementsOf(input, where, n))
    <3>1. nodes[n].token = "[" /\ "[" # "{"
      BY <1>9 DEF IsArray
    <3>2. MeaningBy(Means(input, where), n) =
            Meaning("[", [c \in DOMAIN children |-> Means(input, where)[children[c].node]])
      BY <1>6, <3>1, Zenon DEF MeaningBy
    <3>3. ElementsOf(input, where, n) =
            [c \in 1..Len(children) |-> Value(input, where[children[c].node]).meaning]
      BY <1>6, Zenon DEF ElementsOf
    <3>4. PICK V : V = Means(input, where)
      OBVIOUS
    <3>5. [c \in DOMAIN children |-> V[children[c].node]] =
            [c \in 1..Len(children) |-> Value(input, where[children[c].node]).meaning]
      BY <1>7, <1>8, <3>4
    <3> QED BY <3>2, <3>3, <3>4, <3>5, Zenon
  <2> QED BY <1>3, <2>4, <2>5, Zenon
<1>10. CASE ~IsArray(n)
  <2>1. Value(input, item[Depth] + 2).next = Read
    BY <1>4, <1>10 DEF Inner
  <2>2. Token(input, Value(input, item[Depth] + 2).next) = "}"
    BY <1>1, <1>2, <1>4, <1>10, <2>1 DEF Closing
  <2>3. /\ HeldMembers(input, where, item, Depth) \union
             {<<Token(input, item[Depth]), Value(input, item[Depth] + 2).meaning>>} =
             MembersOf(input, where, n)
        /\ \A m \in HeldMembers(input, where, item, Depth) : m[1] # Token(input, item[Depth])
        /\ Token(input, item[Depth]) \in Strings /\ Token(input, item[Depth] + 1) = ":"
    BY <1>1, <1>10, AllMembers
  <2>4. /\ Value(input, where[n]).next = Read + 1
        /\ Value(input, where[n]).meaning = Meaning("{", MembersOf(input, where, n))
    <3>1. PICK held : held = HeldMembers(input, where, item, Depth)
      OBVIOUS
    <3>2. PICK begin, first : begin = where[n] /\ first = item[Depth]
      OBVIOUS
    <3>3. /\ input \in Seq(Tokens) /\ begin \in Nat /\ first \in Nat
          /\ ObjectMeans(input, begin, first, held)
      BY <1>4, <1>5, <1>10, <3>1, <3>2
    <3>4. /\ ~Overridden(Token(input, first), held)
          /\ Token(input, first) \in Strings /\ Token(input, first + 1) = ":"
          /\ Token(input, Value(input, first + 2).next) = "}"
          /\ MembersOf(input, where, n) = WithMember(held, input, first)
      BY <2>2, <2>3, <3>1, <3>2 DEF WithMember, Overridden
    <3>5. /\ Value(input, begin).next = Value(input, first + 2).next + 1
          /\ Value(input, begin).meaning = Meaning("{", WithMember(held, input, first))
      BY <3>3, <3>4, ObjectEnd, Zenon
    <3> QED BY <2>1, <3>2, <3>4, <3>5, Zenon
  <2>5. MeaningBy(Means(input, where), n) = Meaning("{", MembersOf(input, where, n))
    <3>1. nodes[n].token = "{"
      <4>1. nodes[n].token \in {"[", "{"}
        BY <1>2, Zenon DEF ParserInv, Nested, Depth
      <4> QED BY <1>10, <4>1 DEF IsArray
    <3>2. MeaningBy(Means(input, where), n) =
            Meaning("{", {<<children[c].step, Means(input, where)[children[c].node]>> :
                            c \in DOMAIN children})
      BY <1>6, <3>1, Zenon DEF MeaningBy
    <3>3. MembersOf(input, where, n) =
            {<<children[c].step, Value(input, where[children[c].node]).meaning>> :
               c \in DOMAIN children}
      BY <1>6, Zenon DEF MembersOf
    <3>4. PICK V : V = Means(input, where)
      OBVIOUS
    <3>5. {<<children[c].step, V[children[c].node]>> : c \in DOMAIN children} =
            {<<children[c].step, Value(input, where[children[c].node]).meaning>> :
               c \in DOMAIN children}
      BY <1>7, <3>4
    <3> QED BY <3>2, <3>3, <3>4, <3>5, Zenon
  <2> QED BY <1>3, <2>4, <2>5, Zenon
<1> QED BY <1>9, <1>10

\* The end of the text.
LEMMA EndOfTextKept ==
  ASSUME ParserInv, ParserInv', EndOfText, last_token = "end_of_input",
         NEW where, NEW item, Shape(where, item)
  PROVE  /\ Shape(where, item)'
         /\ \A input : Agrees(input, where, item) => Agrees(input, where, item)'
<1>1. /\ at = "end" /\ at' = "done"
      /\ UNCHANGED <<last_token, tokens, nodes, root, ref_stack, object_element>>
  BY DEF EndOfText, tree
<1>2. Depth' = Depth /\ Read' = Read /\ \A j : IsOpen(j)' <=> IsOpen(j)
  BY <1>1, Zenon DEF Depth, Read, IsOpen
<1>3. ref_stack = <<>> /\ nodes # <<>> /\ Depth = 0 /\ Located(where, item)
  BY <1>1 DEF Shape, Stands, Depth
<1>4. Located(where, item)' /\ KeysDiffer' /\ ChildrenFollow'
  BY <1>1, <1>2 DEF Shape, Located, KeysDiffer, ChildrenFollow, IsNumber
<1>5. Stands(where, item)'
  BY <1>1, <1>3 DEF Stands, AwaitsMember
<1>6. \A k : k \notin 1..Depth'
  BY <1>2, <1>3
<1>7. Shape(where, item)'
  BY <1>4, <1>5, <1>6 DEF Shape
<1>8. ASSUME NEW input, Agrees(input, where, item) PROVE Agrees(input, where, item)'
  <2>1. FinishedMean(input, where)'
    <3>1. \A j : MeaningBy(Means(input, where), j)' = MeaningBy(Means(input, where), j)
      BY <1>1, MeaningStays
    <3> QED BY <1>1, <1>2, <1>8, <3>1 DEF FinishedMean, Agrees
  <2>2. HasRead(input, item)'
    <3>1. tokens[Read] = "end_of_input"
      BY <1>3 DEF Located
    <3> QED BY <1>1, <1>2, <1>8, <3>1 DEF HasRead, Agrees
  <2> QED BY <1>6, <2>1, <2>2 DEF Agrees
<1> QED BY <1>7, <1>8

\* What a step has to show.
LEMMA ReadsOn ==
  ASSUME ParserInv, tokens' = tokens \/ GetToken, NEW where, NEW item, Reads(where, item),
         NEW W, NEW I, Shape(W, I)',
         \A input : StartsAsRead(input) /\ StartsAsRead(input)' /\ Agrees(input, where, item) =>
           Agrees(input, W, I)'
  PROVE  \E V, J : Reads(V, J)'
<1>1. ASSUME NEW input, StartsAsRead(input)' PROVE Agrees(input, W, I)'
  <2>1. StartsAsRead(input)
    BY <1>1, ContinuesBefore
  <2> QED BY <1>1, <2>1 DEF Reads
<1>2. Reads(W, I)'
  BY <1>1 DEF Reads
<1> QED BY <1>2

\* A place for the new value, whatever there is of it.
LEMMA HasPlace ==
  ASSUME ParserInv, ParserInv', Hanging, NEW where, NEW item, Shape(where, item)
  PROVE  \E W, I : Placing(where, item, W, I)
<1>1. /\ Located(where, item) /\ GetToken
  BY DEF Shape, Hanging
<1>2. /\ Depth \in Nat /\ Depth' \in Nat /\ Depth <= Depth' /\ Depth' <= Depth + 1
      /\ Len(nodes) \in Nat /\ NewNode = Len(nodes) + 1 /\ Len(nodes') = NewNode
  BY HangLevels, HangTree
<1>3. Read \in Nat /\ Read' = Read + 1
  BY <1>1, TokensGrow DEF Located
<1>4. Read \in 1..Read
  <2>1. tokens # <<>> /\ tokens \in Seq(Tokens)
    BY <1>1, ParserTypes DEF Located
  <2>2. Read > 0
    BY <2>1, EmptySeq DEF Read
  <2> QED BY <1>3, <2>2
<1>5. PICK old, new, d, e, r, s :
        old = Len(nodes) /\ new = NewNode /\ d = Depth /\ e = Depth' /\ r = Read /\ s = Read'
  OBVIOUS
<1>6. where \in [1..old -> 1..r] /\ item \in [1..d -> 1..r]
  BY <1>1, <1>5 DEF Located
<1>7. /\ d \in Nat /\ e \in Nat /\ d <= e /\ old \in Nat /\ new = old + 1
      /\ r \in Nat /\ s = r + 1 /\ r \in 1..r
  BY <1>2, <1>3, <1>4, <1>5
<1> DEFINE W == [n \in 1..new |-> IF n = new THEN r ELSE where[n]]
           I == [k \in 1..e |-> IF k <= d THEN item[k] ELSE r]
<1>8. /\ W \in [1..new -> 1..s] /\ W[new] = r /\ \A n \in 1..old : W[n] = where[n]
  BY <1>6, <1>7
<1>9. /\ I \in [1..e -> 1..s] /\ \A k \in 1..d : I[k] = item[k]
  BY <1>6, <1>7
<1> HIDE DEF W, I
<1>10. Placing(where, item, W, I)
  BY <1>2, <1>5, <1>8, <1>9 DEF Placing
<1> QED BY <1>10

\* A scalar.
LEMMA ScalarReads ==
  ASSUME ParserInv, ParserInv', Scalar, NEW where, NEW item, Reads(where, item)
  PROVE  \E V, J : Reads(V, J)'
<1>1. Shape(where, item) /\ Hanging /\ GetToken
  BY ScalarHangs DEF Reads, Hanging
<1>2. PICK W, I : Placing(where, item, W, I)
  BY <1>1, HasPlace
<1>3. Shape(W, I)'
  BY <1>1, <1>2, ScalarShape
<1>4. \A input : StartsAsRead(input) /\ StartsAsRead(input)' /\ Agrees(input, where, item) =>
        Agrees(input, W, I)'
  BY <1>1, <1>2, ScalarAgrees
<1> QED BY <1>1, <1>3, <1>4, ReadsOn

\* The beginning of an array or object.
LEMMA BeginningReads ==
  ASSUME ParserInv, ParserInv', BeginStructure, NEW where, NEW item, Reads(where, item)
  PROVE  \E V, J : Reads(V, J)'
<1>1. Shape(where, item) /\ Hanging /\ GetToken
  BY BeginningHangs DEF Reads, Hanging
<1>2. PICK W, I : Placing(where, item, W, I)
  BY <1>1, HasPlace
<1>3. Shape(W, I)'
  BY <1>1, <1>2, BeginningShape
<1>4. \A input : StartsAsRead(input) /\ StartsAsRead(input)' /\ Agrees(input, where, item) =>
        Agrees(input, W, I)'
  BY <1>1, <1>2, BeginningAgrees
<1> QED BY <1>1, <1>3, <1>4, ReadsOn

\* Whatever comes, some text goes on as the tokens read.
LEMMA SomeText ==
  ASSUME ParserInv
  PROVE  StartsAsRead(tokens)
BY ParserTypes DEF StartsAsRead, Read

\* An array or object without anything in it.
LEMMA EmptyReads ==
  ASSUME ParserInv, ParserInv', EmptyStructure, NEW where, NEW item, Reads(where, item)
  PROVE  \E V, J : Reads(V, J)'
<1>1. Shape(where, item) /\ Ending /\ GetToken
  BY EmptyEnds DEF Reads, Ending
<1>2. PICK n : n = ref_stack[Depth]
  OBVIOUS
<1>3. PICK I : I = [k \in 1..(Depth - 1) |-> item[k]]
  OBVIOUS
<1>4. Inside(n)
  <2>1. PICK input : StartsAsRead(input)
    BY SomeText
  <2> QED BY <1>1, <1>2, <2>1, EmptyMeans
<1>5. Shape(where, I)'
  BY <1>1, <1>2, <1>3, <1>4, EndShape
<1>6. ASSUME NEW input, StartsAsRead(input), Agrees(input, where, item)
      PROVE  Agrees(input, where, I)'
  <2>1. /\ Value(input, where[n]).next = Read + 1
        /\ Value(input, where[n]).meaning = MeaningBy(Means(input, where), n)
    BY <1>1, <1>2, <1>6, EmptyMeans, Zenon
  <2> QED BY <1>1, <1>2, <1>3, <1>6, <2>1, EndAgrees
<1> QED BY <1>1, <1>5, <1>6, ReadsOn

\* The end of an array or object.
LEMMA CloseReads ==
  ASSUME ParserInv, ParserInv', CloseStructure, NEW where, NEW item, Reads(where, item)
  PROVE  \E V, J : Reads(V, J)'
<1>1. Shape(where, item) /\ Ending /\ GetToken
  BY CloseEnds DEF Reads, Ending
<1>2. PICK n : n = ref_stack[Depth]
  OBVIOUS
<1>3. PICK I : I = [k \in 1..(Depth - 1) |-> item[k]]
  OBVIOUS
<1>4. Inside(n)
  BY <1>1, <1>2, AllFinished DEF Inside, CloseStructure
<1>5. Shape(where, I)'
  BY <1>1, <1>2, <1>3, <1>4, EndShape
<1>6. ASSUME NEW input, StartsAsRead(input), Agrees(input, where, item)
      PROVE  Agrees(input, where, I)'
  <2>1. /\ Value(input, where[n]).next = Read + 1
        /\ Value(input, where[n]).meaning = MeaningBy(Means(input, where), n)
    BY <1>1, <1>2, <1>6, CloseMeans
  <2> QED BY <1>1, <1>2, <1>3, <1>6, <2>1, EndAgrees
<1> QED BY <1>1, <1>5, <1>6, ReadsOn

\* The first element of an array.
LEMMA FirstElementReads ==
  ASSUME ParserInv, ParserInv', FirstElement, NEW where, NEW item, Reads(where, item)
  PROVE  \E V, J : Reads(V, J)'
<1>1. Shape(where, item) /\ tokens' = tokens
  BY DEF Reads, FirstElement
<1>2. PICK I : I = [item EXCEPT ![Depth] = Read]
  OBVIOUS
<1>3. Shape(where, I)'
  BY <1>1, <1>2, FirstElementShape
<1>4. \A input : StartsAsRead(input) /\ StartsAsRead(input)' /\ Agrees(input, where, item) =>
        Agrees(input, where, I)'
  BY <1>1, <1>2, FirstElementAgrees
<1> QED BY <1>1, <1>3, <1>4, ReadsOn

\* A key.
LEMMA KeyReads ==
  ASSUME ParserInv, ParserInv', ReadKey, NEW where, NEW item, Reads(where, item)
  PROVE  \E V, J : Reads(V, J)'
<1>1. Shape(where, item) /\ GetToken
  BY DEF Reads, ReadKey
<1>2. PICK I : I = [item EXCEPT ![Depth] = Read]
  OBVIOUS
<1>3. Shape(where, I)'
  BY <1>1, <1>2, KeyShape
<1>4. \A input : StartsAsRead(input) /\ StartsAsRead(input)' /\ Agrees(input, where, item) =>
        Agrees(input, where, I)'
  BY <1>1, <1>2, KeyAgrees
<1> QED BY <1>1, <1>3, <1>4, ReadsOn

\* A colon.
LEMMA SeparatorReads ==
  ASSUME ParserInv, ParserInv', Separator, NEW where, NEW item, Reads(where, item)
  PROVE  \E V, J : Reads(V, J)'
<1>1. Shape(where, item) /\ GetToken
  BY DEF Reads, Separator
<1>2. Shape(where, item)'
  BY <1>1, SeparatorShape
<1>3. \A input : StartsAsRead(input) /\ StartsAsRead(input)' /\ Agrees(input, where, item) =>
        Agrees(input, where, item)'
  BY <1>1, SeparatorAgrees
<1> QED BY <1>1, <1>2, <1>3, ReadsOn

\* A comma.
LEMMA CommaReads ==
  ASSUME ParserInv, ParserInv', Comma, NEW where, NEW item, Reads(where, item)
  PROVE  \E V, J : Reads(V, J)'
<1>1. Shape(where, item) /\ GetToken
  BY DEF Reads, Comma
<1>2. PICK I : I = [item EXCEPT ![Depth] = Read + 1]
  OBVIOUS
<1>3. Shape(where, I)'
  BY <1>1, <1>2, CommaShape
<1>4. \A input : StartsAsRead(input) /\ StartsAsRead(input)' /\ Agrees(input, where, item) =>
        Agrees(input, where, I)'
  BY <1>1, <1>2, CommaAgrees
<1> QED BY <1>1, <1>3, <1>4, ReadsOn

\* The end of the text.
LEMMA EndReads ==
  ASSUME ParserInv, ParserInv', EndOfText, last_token = "end_of_input",
         NEW where, NEW item, Reads(where, item)
  PROVE  \E V, J : Reads(V, J)'
<1>1. Shape(where, item) /\ tokens' = tokens
  BY DEF Reads, EndOfText
<1>2. /\ Shape(where, item)'
      /\ \A input : Agrees(input, where, item) => Agrees(input, where, item)'
  BY <1>1, EndOfTextKept
<1> QED BY <1>1, <1>2, ReadsOn

\* An error, wherever it is found, is in no text that continues what was read.
LEMMA ErrorFound ==
  ASSUME ParserInv, NEW where, NEW item, Reads(where, item),
         \/ NoValue \/ NoKey \/ NoSeparator \/ NotClosed
         \/ EndOfText /\ last_token # "end_of_input",
         NEW input, StartsAsRead(input)'
  PROVE  ~IsText(input)
<1>1. Shape(where, item) /\ tokens' = tokens
  BY DEF Reads, NoValue, NoKey, NoSeparator, NotClosed, EndOfText, ParseError
<1>2. StartsAsRead(input) /\ Agrees(input, where, item)
  BY <1>1, ContinuesBefore DEF Reads
<1>3. CASE NoValue
  BY <1>1, <1>2, <1>3, NoValueFails
<1>4. CASE NoKey
  BY <1>1, <1>2, <1>4, NoKeyFails
<1>5. CASE NoSeparator
  BY <1>1, <1>2, <1>5, NoSeparatorFails
<1>6. CASE NotClosed
  BY <1>1, <1>2, <1>6, NotClosedFails
<1>7. CASE EndOfText /\ last_token # "end_of_input"
  BY <1>1, <1>2, <1>7, NoEndFails
<1> QED BY <1>3, <1>4, <1>5, <1>6, <1>7

\* Every step of the parser keeps the invariant.
LEMMA GrammarStep ==
  ASSUME ParserInv, ParserInv', GrammarInv, ParserNext
  PROVE  GrammarInv'
<1>1. at # "error"
  BY DEF ParserNext, BeginStructure, Scalar, NoValue, EmptyStructure, FirstElement, ReadKey, NoKey,
         Separator, NoSeparator, Comma, CloseStructure, NotClosed, EndOfText
<1>2. PICK where, item : Reads(where, item)
  BY <1>1 DEF GrammarInv
<1>3. ASSUME \/ NoValue \/ NoKey \/ NoSeparator \/ NotClosed
             \/ EndOfText /\ last_token # "end_of_input"
      PROVE  GrammarInv'
  <2>1. at' = "error"
    BY <1>3 DEF NoValue, NoKey, NoSeparator, NotClosed, EndOfText, ParseError
  <2>2. \A input : StartsAsRead(input)' => ~IsText(input)
    BY <1>2, <1>3, ErrorFound
  <2> QED BY <2>1, <2>2 DEF GrammarInv
<1>4. ASSUME \/ BeginStructure \/ Scalar \/ EmptyStructure \/ FirstElement \/ ReadKey
             \/ Separator \/ Comma \/ CloseStructure
             \/ EndOfText /\ last_token = "end_of_input"
      PROVE  GrammarInv'
  <2>1. at' # "error"
    BY <1>4 DEF BeginStructure, Scalar, EmptyStructure, FirstElement, ReadKey, Separator, Comma,
                CloseStructure, EndOfText, AfterValue
  <2>2. \E V, J : Reads(V, J)'
    BY <1>2, <1>4, BeginningReads, ScalarReads, EmptyReads, FirstElementReads, KeyReads,
       SeparatorReads, CommaReads, CloseReads, EndReads, Zenon
  <2> QED BY <2>1, <2>2 DEF GrammarInv
<1> QED BY <1>3, <1>4 DEF ParserNext

\* A step that leaves the parser alone changes nothing of it.
LEMMA GrammarStays ==
  ASSUME GrammarInv, UNCHANGED parserVars
  PROVE  GrammarInv'
<1>1. /\ at' = at /\ last_token' = last_token /\ tokens' = tokens /\ states' = states
      /\ nodes' = nodes /\ root' = root /\ ref_stack' = ref_stack
      /\ object_element' = object_element
  BY DEF parserVars, parser, tree
<1>2. /\ Depth' = Depth /\ Read' = Read
      /\ \A n : IsOpen(n)' <=> IsOpen(n)
      /\ \A n : IsArray(n)' <=> IsArray(n)
      /\ \A k : (Entered(k)' <=> Entered(k)) /\ (IsHung(k)' <=> IsHung(k))
      /\ AwaitsMember' <=> AwaitsMember
  BY <1>1, Zenon DEF Depth, Read, IsOpen, IsArray, Entered, IsHung, AwaitsMember
<1>3. /\ \A n, m : (IsNumber(n, m)' <=> IsNumber(n, m)) /\ (IsFinished(n, m)' <=> IsFinished(n, m))
      /\ \A k : Before(k)' = Before(k)
  <2>1. \A n, m : IsNumber(n, m)' <=> IsNumber(n, m)
    BY <1>1, Zenon DEF IsNumber
  <2>2. \A n, m : IsFinished(n, m)' <=> IsFinished(n, m)
    BY <1>2, <2>1, Zenon DEF IsFinished
  <2>3. \A k : Before(k)' = Before(k)
    <3> SUFFICES ASSUME NEW k PROVE Before(k)' = Before(k)
      OBVIOUS
    <3> QED BY <1>1, <1>2, Zenon DEF Before
  <2> QED BY <2>1, <2>2, <2>3
<1>4. \A item, k : Inner(item, k)' = Inner(item, k) /\ Others(item, k)' = Others(item, k)
  <2> SUFFICES ASSUME NEW item, NEW k
               PROVE  Inner(item, k)' = Inner(item, k) /\ Others(item, k)' = Others(item, k)
    OBVIOUS
  <2>1. Inner(item, k)' = Inner(item, k)
    <3>1. IsArray(ref_stack[k])' <=> IsArray(ref_stack[k])
      BY <1>1, Zenon DEF IsArray
    <3> QED BY <3>1, Zenon DEF Inner
  <2>2. Others(item, k)' = Others(item, k)
    BY <1>1 DEF Others
  <2> QED BY <2>1, <2>2
<1>5. ASSUME NEW where, NEW item, Shape(where, item)
      PROVE  Shape(where, item)'
  <2>1. Located(where, item)' /\ KeysDiffer' /\ ChildrenFollow'
    <3>1. Located(where, item)'
      BY <1>1, <1>2, <1>5 DEF Shape, Located
    <3>2. KeysDiffer'
      BY <1>1, <1>5, Zenon DEF Shape, KeysDiffer
    <3>3. ChildrenFollow'
      <4>1. \A n, c : IsNumber(nodes[n].children[c].node, n)' <=>
                     IsNumber(nodes[n].children[c].node, n)
        BY <1>1, Zenon DEF IsNumber
      <4> QED BY <1>1, <1>2, <1>5, <4>1, Zenon DEF Shape, ChildrenFollow
    <3> QED BY <3>1, <3>2, <3>3
  <2>2. ASSUME NEW k \in 1..Depth', Entered(k)'
        PROVE  RestFinished(item, k)' /\ Hangs(where, item, k)'
    <3>1. RestFinished(item, k) /\ Hangs(where, item, k)
      BY <1>2, <1>5, <2>2 DEF Shape
    <3>2. RestFinished(item, k)'
      BY <1>1, <1>2, <1>3, <1>4, <3>1 DEF RestFinished
    <3>3. \A m : HangsAt(where, item, k, m)' <=> HangsAt(where, item, k, m)
      BY <1>1, <1>2, <1>3, <1>4, Zenon DEF HangsAt
    <3>4. Hangs(where, item, k)'
      BY <1>1, <1>2, <3>1, <3>3 DEF Hangs
    <3> QED BY <3>2, <3>4
  <2>3. Stands(where, item)'
    BY <1>1, <1>2, <1>4, <1>5 DEF Shape, Stands
  <2> QED BY <2>1, <2>2, <2>3 DEF Shape
<1>6. ASSUME NEW where, NEW item, NEW input, Agrees(input, where, item)
      PROVE  Agrees(input, where, item)'
  <2>1. FinishedMean(input, where)'
    <3>1. \A j : MeaningBy(Means(input, where), j)' = MeaningBy(Means(input, where), j)
      BY <1>1, MeaningStays
    <3> QED BY <1>1, <1>2, <1>6, <3>1 DEF FinishedMean, Agrees
  <2>2. HasRead(input, item)'
    BY <1>1, <1>2, <1>4, <1>6 DEF HasRead, Agrees
  <2>3. \A k \in 1..Depth' : FailsAll(input, where[ref_stack'[k]])
    BY <1>1, <1>2, <1>6 DEF Agrees
  <2>4. ASSUME NEW k \in 1..Depth', Entered(k)'
        PROVE  GoesOn(input, where, item, k)'
    <3>1. GoesOn(input, where, item, k)
      BY <1>2, <1>6, <2>4 DEF Agrees
    <3>2. /\ HeldElements(input, where, k)' = HeldElements(input, where, k)
          /\ HeldMembers(input, where, item, k)' = HeldMembers(input, where, item, k)
      BY <1>1, <1>3, <1>4 DEF HeldElements, HeldMembers
    <3> QED BY <1>1, <1>2, <3>1, <3>2, Zenon DEF GoesOn
  <2> QED BY <2>1, <2>2, <2>3, <2>4 DEF Agrees
<1>7. ASSUME NEW where, NEW item, Reads(where, item) PROVE Reads(where, item)'
  <2>1. \A input : StartsAsRead(input)' => StartsAsRead(input)
    BY <1>1 DEF StartsAsRead
  <2> QED BY <1>5, <1>6, <1>7, <2>1 DEF Reads
<1>8. CASE at = "error"
  <2>1. \A input : StartsAsRead(input)' => ~IsText(input)
    BY <1>1, <1>8 DEF GrammarInv, StartsAsRead
  <2> QED BY <1>1, <1>8, <2>1 DEF GrammarInv
<1>9. CASE at # "error"
  <2>1. \E where, item : Reads(where, item)'
    BY <1>7, <1>9 DEF GrammarInv
  <2> QED BY <1>1, <1>9, <2>1 DEF GrammarInv
<1> QED BY <1>8, <1>9

\* At the start nothing is read but the first token, and no value has begun.
LEMMA GrammarInit == ParserInit => GrammarInv
<1> SUFFICES ASSUME ParserInit PROVE GrammarInv
  OBVIOUS
<1>1. /\ at = "value" /\ last_token \in Tokens /\ tokens = <<last_token>>
      /\ nodes = <<>> /\ ref_stack = <<>>
  BY DEF ParserInit
<1>2. /\ Len(nodes) = 0 /\ Depth = 0 /\ Read = 1 /\ tokens[1] = last_token
  BY <1>1 DEF Depth, Read
<1>3. PICK nothing : nothing = [n \in 1..0 |-> 1]
  OBVIOUS
<1>4. nothing \in [1..0 -> 1..1] /\ \A n : n \notin 1..0
  BY <1>3
<1>5. Located(nothing, nothing)
  BY <1>1, <1>2, <1>4 DEF Located
<1>6. KeysDiffer /\ ChildrenFollow
  BY <1>2, <1>4 DEF KeysDiffer, ChildrenFollow
<1>7. Stands(nothing, nothing)
  BY <1>1, <1>2 DEF Stands, AwaitsMember
<1>8. Shape(nothing, nothing)
  BY <1>2, <1>4, <1>5, <1>6, <1>7 DEF Shape
<1>9. ASSUME NEW input PROVE Agrees(input, nothing, nothing)
  <2>1. FinishedMean(input, nothing)
    BY <1>2, <1>4 DEF FinishedMean
  <2>2. HasRead(input, nothing)
    BY <1>1 DEF HasRead
  <2> QED BY <1>2, <1>4, <2>1, <2>2 DEF Agrees
<1>10. Reads(nothing, nothing)
  BY <1>8, <1>9 DEF Reads
<1> QED BY <1>1, <1>10 DEF GrammarInv

\* Among the numbers of a tree there is a last one of those that differ.
LEMMA Greatest ==
  ASSUME NEW max \in Nat, NEW S \in SUBSET (1..max), S # {}
  PROVE  \E x \in S : \A y \in S : y <= x
<1> DEFINE L == {max - x : x \in S}
<1>1. L \in SUBSET Nat /\ L # {}
  <2>1. \A x \in S : max - x \in Nat
    OBVIOUS
  <2>2. PICK x \in S : TRUE
    OBVIOUS
  <2>3. max - x \in L
    OBVIOUS
  <2> QED BY <2>1, <2>3
<1>2. PICK least \in L : \A y \in L : least <= y
  <2> HIDE DEF L
  <2> QED BY <1>1, Least
<1>3. PICK x \in S : least = max - x
  OBVIOUS
<1>4. \A y \in S : max - y \in L
  OBVIOUS
<1> QED BY <1>2, <1>3, <1>4

\* A node says what its value means, whatever the tree it is in: its children
\* were made after it.
LEMMA OneMeaning ==
  ASSUME ParserInv, \A n \in 1..Len(nodes) : \A c \in DOMAIN nodes[n].children :
                      IsNumber(nodes[n].children[c].node, n),
         NEW f, \A n \in 1..Len(nodes) : f[n] = MeaningBy(f, n),
         NEW g, \A n \in 1..Len(nodes) : g[n] = MeaningBy(g, n)
  PROVE  \A n \in 1..Len(nodes) : f[n] = g[n]
<1> DEFINE S == {n \in 1..Len(nodes) : f[n] # g[n]}
<1> SUFFICES ASSUME S # {} PROVE FALSE
  OBVIOUS
<1>1. Len(nodes) \in Nat
  BY ParserTypes
<1>2. PICK n \in S : \A m \in S : m <= n
  <2>1. S \in SUBSET (1..Len(nodes))
    OBVIOUS
  <2> HIDE DEF S
  <2> QED BY <1>1, <2>1, Greatest
<1>3. ASSUME NEW c \in DOMAIN nodes[n].children
      PROVE  f[nodes[n].children[c].node] = g[nodes[n].children[c].node]
  <2>1. PICK m : m = nodes[n].children[c].node
    OBVIOUS
  <2>2. IsNumber(m, n)
    BY <2>1
  <2>3. m \in 1..Len(nodes) /\ n < m
    BY <1>1, <2>2 DEF IsNumber
  <2>4. m \notin S
    BY <1>1, <1>2, <2>3
  <2> QED BY <2>1, <2>3, <2>4
<1>4. /\ f[n] = MeaningNow(nodes[n].token, nodes[n].children, f)
      /\ g[n] = MeaningNow(nodes[n].token, nodes[n].children, g)
  <2>1. f[n] = MeaningBy(f, n) /\ g[n] = MeaningBy(g, n)
    OBVIOUS
  <2> QED BY <2>1, Zenon DEF MeaningBy, MeaningNow
<1>5. f[n] = g[n]
  BY <1>3, <1>4, SameMeaning
<1> QED BY <1>5

\* The recursive function of the tree exists, and what it says is unique.
LEMMA BuiltMeans ==
  ASSUME ParserInv, \A n \in 1..Len(nodes) : \A c \in DOMAIN nodes[n].children :
                      IsNumber(nodes[n].children[c].node, n),
         NEW f, f = [n \in 1..Len(nodes) |-> MeaningBy(f, n)],
         NEW n \in 1..Len(nodes)
  PROVE  Built[n] = f[n]
<1> DEFINE Is(built) == built = [m \in DOMAIN nodes |-> MeaningBy(built, m)]
<1>1. DOMAIN nodes = 1..Len(nodes)
  BY ParserTypes
<1>2. \E built : Is(built)
  BY <1>1
<1>3. Built = CHOOSE built : Is(built)
  BY Zenon DEF Built
<1>4. Is(Built)
  <2> HIDE DEF Is
  <2> QED BY <1>2, <1>3
<1>5. \A m \in 1..Len(nodes) : Built[m] = MeaningBy(Built, m)
  BY <1>1, <1>4
<1>6. \A m \in 1..Len(nodes) : f[m] = MeaningBy(f, m)
  OBVIOUS
<1> QED BY <1>5, <1>6, OneMeaning

\* At the end the tokens read are the text.
LEMMA GrammarMeans ==
  ASSUME ParserInv, GrammarInv
  PROVE  TreeIsText
<1>1. StartsAsRead(tokens)
  BY SomeText
<1>2. CASE at = "error"
  <2>1. \A e \in Seq(Tokens) : StartsAsRead(tokens \o e)
    BY ParserTypes DEF StartsAsRead
  <2>2. NoTextBegins(tokens)
    BY <1>1, <1>2, <2>1 DEF GrammarInv, NoTextBegins
  <2> QED BY <1>2, <2>2 DEF TreeIsText
<1>3. CASE at = "done"
  <2>1. PICK where, item : Reads(where, item)
    BY <1>3 DEF GrammarInv
  <2>2. Agrees(tokens, where, item) /\ Shape(where, item)
    BY <1>1, <2>1 DEF Reads
  <2>3. Located(where, item) /\ nodes # <<>> /\ ref_stack = <<>>
    BY <1>3, <2>2 DEF Shape, Stands
  <2>4. IsText(tokens)
    <3>1. Value(tokens, 1).next = Read /\ tokens[Read] = "end_of_input"
      BY <1>3, <2>2 DEF Agrees, HasRead
    <3>2. Token(tokens, Read) = last_token /\ last_token = tokens[Read]
      BY <1>1, <2>3, LastRead DEF Located
    <3> QED BY <3>1, <3>2 DEF IsText
  <2>5. \A n : ~IsOpen(n)
    BY <2>3 DEF IsOpen, Depth
  <2>6. \A n \in 1..Len(nodes) : \A c \in DOMAIN nodes[n].children :
          IsNumber(nodes[n].children[c].node, n)
    BY <2>2, <2>5 DEF Shape, ChildrenFollow
  <2>7. PICK V : V = Means(tokens, where)
    OBVIOUS
  <2>8. V = [n \in 1..Len(nodes) |-> Value(tokens, where[n]).meaning]
    BY <2>7 DEF Means
  <2>9. \A n \in 1..Len(nodes) : Value(tokens, where[n]).meaning = MeaningBy(V, n)
    BY <2>2, <2>5, <2>7 DEF Agrees, FinishedMean
  <2>10. V = [n \in 1..Len(nodes) |-> MeaningBy(V, n)]
    <3>1. [n \in 1..Len(nodes) |-> MeaningBy(V, n)] =
            [n \in 1..Len(nodes) |-> Value(tokens, where[n]).meaning]
      BY <2>9
    <3> QED BY <2>8, <3>1, Zenon
  <2>11. root = 1 /\ where[1] = 1 /\ 1 \in 1..Len(nodes)
    BY <2>3, ParserTypes, EmptySeq DEF Located
  <2>12. Built[1] = V[1]
    BY <2>6, <2>10, <2>11, BuiltMeans
  <2>13. Built[root] = Value(tokens, 1).meaning
    BY <2>8, <2>11, <2>12
  <2> QED BY <1>3, <2>4, <2>13 DEF TreeIsText
<1> QED BY <1>2, <1>3 DEF TreeIsText

\* For any strings and scalars: what sax_parse_internal accepts is a text of the grammar
\* and the tree it has built means what the text means, the last of two members with one
\* key included; what it refuses no shortest ending makes a text of (json.hpp:10285).
THEOREM TreeIsTheText == ParserSpec => []TreeIsText
<1>1. ParserInit => GrammarInv
  BY GrammarInit
<1>2. ParserInv /\ ParserInv' /\ GrammarInv /\ [ParserNext]_parserVars => GrammarInv'
  BY GrammarStep, GrammarStays
<1>3. ParserInv /\ GrammarInv => TreeIsText
  BY GrammarMeans
<1> QED BY ParserInitInv, ParserInductive, <1>1, <1>2, <1>3, PTL DEF ParserSpec

\* Whatever had come behind a parse_error, there would have been no text.
NoTextIsRefused == at = "error" => \A input : StartsAsRead(input) => ~IsText(input)

\* For any strings and scalars: the parser stops at an error only where no text goes on as
\* the tokens do that it has read, so that nothing unread could have made one of them.
THEOREM ErrorsAreFinal == ParserSpec => []NoTextIsRefused
<1>1. ParserInv /\ ParserInv' /\ GrammarInv /\ [ParserNext]_parserVars => GrammarInv'
  BY GrammarStep, GrammarStays
<1>2. GrammarInv => NoTextIsRefused
  BY DEF GrammarInv, NoTextIsRefused
<1> QED BY ParserInitInv, ParserInductive, GrammarInit, <1>1, <1>2, PTL DEF ParserSpec

=============================================================================
