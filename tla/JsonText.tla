------------------------------ MODULE JsonText ------------------------------
(***************************************************************************)
(* How a string becomes JSON text and a string again (3rd/json.hpp).       *)
(*                                                                         *)
(* browser_events2.cpp:320 writes the page's URL, cookies and HTML into    *)
(* the message for the callback service with error_handler_t::ignore: they *)
(* come from _bstr_t conversions and need not be UTF-8.  web_server.cpp    *)
(* writes its answers with the default, error_handler_t::strict.           *)
(* settings.cpp:35 reads what a person has written.                        *)
(*                                                                         *)
(* Each action of the serializer is one turn of the loop of dump_escaped,  *)
(* each action of the lexer one turn of the loop of scan_string.  Bytes    *)
(* are numbers.  string_buffer is the part of the array in use: its length *)
(* is `bytes' of the code.                                                 *)
(***************************************************************************)
EXTENDS Integers, Sequences, FiniteSets

CONSTANTS
  Sources,     \* the strings that are written
  Texts,       \* what may stand behind an opening quote in a file
  BufferSize   \* string_buffer.size(), 512 in the code

Byte == 0..255

ASSUME TextAssumption ==
  /\ Sources \subseteq Seq(Byte)
  /\ Texts \subseteq Seq(Byte)
  /\ BufferSize \in Nat /\ BufferSize >= 13

VARIABLES
  pc,                       \* "dump", then "scan", then "done", or "thrown"
  given,                    \* what was given: a "value" to write or a "text" to read
  error_handler,            \* "strict" or "ignore"
  ensure_ascii,
  source,                   \* the string that is written
  i,                        \* its bytes read so far
  state, codepoint,         \* of decode
  string_buffer,
  bytes_after_last_accept,
  undumped_chars,
  peak,                     \* bytes of the array ever in use, the NUL of snprintf included
  text,                     \* the output of the serializer, the input of the lexer
  pos,                      \* characters of text read
  token_buffer,
  result                    \* of scan_string

call == <<given, error_handler, ensure_ascii, source>>
dumper == <<i, state, codepoint, string_buffer, bytes_after_last_accept,
            undumped_chars, peak>>
lexer == <<pos, token_buffer, result>>
vars == <<pc, call, dumper, text, lexer>>

TypeOK ==
  /\ pc \in {"dump", "thrown", "scan", "done"}
  /\ given \in {"value", "text"}
  /\ error_handler \in {"strict", "ignore"}
  /\ ensure_ascii \in BOOLEAN
  /\ source \in Seq(Byte)
  /\ i \in 0..Len(source)
  /\ state \in {0} \union 2..8
  /\ codepoint \in Int
  /\ string_buffer \in Seq(Int)
  /\ bytes_after_last_accept \in 0..Len(string_buffer)
  /\ undumped_chars \in 0..3
  /\ peak \in Int
  /\ text \in Seq(Int)
  /\ pos \in Nat
  /\ result \in {"none", "value_string", "parse_error"}

Init ==
  /\ \/ /\ pc = "dump" /\ given = "value"
        /\ error_handler \in {"strict", "ignore"} /\ ensure_ascii \in BOOLEAN
        /\ source \in Sources /\ text = <<>>
     \/ /\ pc = "scan" /\ given = "text"
        /\ error_handler = "strict" /\ ensure_ascii = FALSE
        /\ source = <<>> /\ text \in Texts
  /\ i = 0
  /\ state = 0
  /\ codepoint = 0
  /\ string_buffer = <<>>
  /\ bytes_after_last_accept = 0
  /\ undumped_chars = 0
  /\ peak = 0
  /\ pos = 0
  /\ token_buffer = <<>>
  /\ result = "none"

-----------------------------------------------------------------------------
(***************************************************************************)
(* decode: the automaton of Bjoern Hoehrmann.  State 0 accepts, state 1    *)
(* rejects; in 2 one byte is missing, in 3 to 5 two, in 6 to 8 three.      *)
(***************************************************************************)
\* The first 256 entries of utf8d: the class of a byte.
Type(b) ==
  CASE b < 128 -> 0
    [] b \in 128..143 -> 1
    [] b \in 144..159 -> 9
    [] b \in 160..191 -> 7
    [] b \in {192, 193} \union 245..255 -> 8
    [] b \in 194..223 -> 2
    [] b = 224 -> 10
    [] b = 237 -> 4
    [] b \in (225..236) \union {238, 239} -> 3
    [] b = 240 -> 11
    [] b \in 241..243 -> 6
    [] b = 244 -> 5

\* The row of state 0: where a first byte of each class leads.
First == [t \in 0..11 |-> <<0, 1, 2, 3, 5, 8, 7, 1, 1, 1, 4, 6>>[t + 1]]

\* The other rows: the classes that continue a sequence, and where they lead.
Continues(s) ==
  CASE s \in {2, 3, 7} -> {1, 7, 9}
    [] s = 4 -> {7}
    [] s = 5 -> {1, 9}
    [] s = 6 -> {7, 9}
    [] s = 8 -> {1}

Remaining(s) == IF s = 2 THEN 0 ELSE IF s \in 3..5 THEN 2 ELSE 3

Decode(s, b) ==
  IF s = 0 THEN First[Type(b)]
  ELSE IF Type(b) \in Continues(s) THEN Remaining(s) ELSE 1

\* 0xFF >> type leaves a number below this one.
Payload == [t \in 0..11 |-> <<256, 128, 64, 32, 16, 8, 4, 2, 1, 1, 1, 1>>[t + 1]]

\* codep: the payload of a first byte, or six more bits.
CodepointWith(b) ==
  IF state # 0 THEN 64 * codepoint + (b % 64) ELSE b % Payload[Type(b)]

-----------------------------------------------------------------------------
(***************************************************************************)
(* dump_escaped.                                                           *)
(***************************************************************************)
Backslash == 92
LetterU == 117
Quote == 34

\* The characters whose escape has a letter of its own, \b \t \n \f \r \" \\.
Short == {8, 9, 10, 12, 13, Quote, Backslash}

Letter(c) ==
  CASE c = 8 -> 98 [] c = 9 -> 116 [] c = 10 -> 110 [] c = 12 -> 102
    [] c = 13 -> 114 [] OTHER -> c

HexDigit(d) == IF d < 10 THEN 48 + d ELSE 87 + d

\* \u%04x
Escape(n) ==
  <<Backslash, LetterU, HexDigit(n \div 4096), HexDigit((n \div 256) % 16),
    HexDigit((n \div 16) % 16), HexDigit(n % 16)>>

\* What is written for code point c, whose last byte is b.
Dumped(c, b) ==
  IF c \in Short THEN <<Backslash, Letter(c)>>
  ELSE IF c <= 31 \/ (ensure_ascii /\ c >= 127)
    THEN IF c <= 65535 THEN Escape(c)
         ELSE Escape(55232 + c \div 1024) \o Escape(56320 + (c % 1024))
  ELSE <<b>>

\* snprintf ends what it writes with a NUL.
Used(c, b) ==
  Len(string_buffer) + Len(Dumped(c, b)) + (IF Len(Dumped(c, b)) > 2 THEN 1 ELSE 0)

\* Mutant: the buffer is written when it is full.
FlushWhenFull(buffer) == BufferSize - Len(buffer) < 1

\* There must be 13 bytes left for the next code point.
MustFlush(buffer) == BufferSize - Len(buffer) < 13

AcceptByte(b) ==
  LET c == CodepointWith(b)
      buffer == string_buffer \o Dumped(c, b)
  IN /\ Decode(state, b) = 0
     /\ codepoint' = c
     /\ peak' = IF Used(c, b) > peak THEN Used(c, b) ELSE peak
     /\ \/ /\ MustFlush(buffer)
           /\ text' = text \o buffer
           /\ string_buffer' = <<>>
        \/ /\ ~MustFlush(buffer)
           /\ string_buffer' = buffer
           /\ UNCHANGED text
     /\ bytes_after_last_accept' = Len(string_buffer')
     /\ state' = 0
     /\ undumped_chars' = 0
     /\ i' = i + 1
     /\ UNCHANGED pc

\* Mutant: the byte that ended a sequence is dropped with it.
RejectWithoutReread(b) ==
  /\ Decode(state, b) = 1
  /\ i' = i + 1
  /\ string_buffer' = SubSeq(string_buffer, 1, bytes_after_last_accept)
  /\ state' = 0
  /\ codepoint' = CodepointWith(b)
  /\ undumped_chars' = 0
  /\ UNCHANGED <<pc, bytes_after_last_accept, peak, text>>

\* Mutant: the count of the bytes not dumped is kept.
RejectKeepingCount(b) ==
  /\ Decode(state, b) = 1
  /\ i' = IF undumped_chars > 0 THEN i ELSE i + 1
  /\ string_buffer' = SubSeq(string_buffer, 1, bytes_after_last_accept)
  /\ state' = 0
  /\ codepoint' = CodepointWith(b)
  /\ UNCHANGED <<pc, bytes_after_last_accept, undumped_chars, peak, text>>

\* A byte that does not continue its sequence is read again: it may be good for
\* itself.
RejectByte(b) ==
  /\ Decode(state, b) = 1
  /\ \/ /\ error_handler = "strict"
        /\ pc' = "thrown"
        /\ UNCHANGED <<dumper, text>>
     \/ /\ error_handler = "ignore"
        /\ i' = IF undumped_chars > 0 THEN i ELSE i + 1
        /\ string_buffer' = SubSeq(string_buffer, 1, bytes_after_last_accept)
        /\ state' = 0
        /\ codepoint' = CodepointWith(b)
        /\ undumped_chars' = 0
        /\ UNCHANGED <<pc, bytes_after_last_accept, peak, text>>

KeepByte(b) ==
  /\ Decode(state, b) \notin {0, 1}
  /\ state' = Decode(state, b)
  /\ codepoint' = CodepointWith(b)
  /\ string_buffer' = IF ensure_ascii THEN string_buffer ELSE Append(string_buffer, b)
  /\ peak' = IF Len(string_buffer') > peak THEN Len(string_buffer') ELSE peak
  /\ undumped_chars' = undumped_chars + 1
  /\ i' = i + 1
  /\ UNCHANGED <<pc, bytes_after_last_accept, text>>

DumpByte ==
  /\ pc = "dump" /\ i < Len(source)
  /\ \/ AcceptByte(source[i + 1])
     \/ RejectByte(source[i + 1])
     \/ KeepByte(source[i + 1])
  /\ UNCHANGED <<call, lexer>>

\* The string has been read; dump writes the closing quote.
EndDump ==
  /\ pc = "dump" /\ i = Len(source)
  /\ \/ /\ state = 0
        /\ text' = text \o string_buffer \o <<Quote>>
        /\ pc' = "scan"
     \/ /\ state # 0 /\ error_handler = "ignore"
        /\ text' = text \o SubSeq(string_buffer, 1, bytes_after_last_accept) \o <<Quote>>
        /\ pc' = "scan"
     \/ /\ state # 0 /\ error_handler = "strict"
        /\ pc' = "thrown"
        /\ UNCHANGED text
  /\ UNCHANGED <<call, dumper, lexer>>

-----------------------------------------------------------------------------
(***************************************************************************)
(* scan_string, which starts behind the opening quote.                     *)
(***************************************************************************)
Eof == -1

\* The k-th character that get() will return.
Ahead(k) == IF pos + k <= Len(text) THEN text[pos + k] ELSE Eof

Add(bytes, length) ==
  /\ token_buffer' = token_buffer \o bytes
  /\ pos' = pos + length
  /\ UNCHANGED <<pc, result>>

End(token) ==
  /\ pc' = "done"
  /\ result' = token
  /\ UNCHANGED <<pos, token_buffer>>

ClosingQuote == Ahead(1) = Quote /\ End("value_string")

\* The end of the file, a control character, or a byte that begins nothing.
Forbidden ==
  /\ Ahead(1) \in {Eof} \union 0..31 \union 128..193 \union 245..255
  /\ End("parse_error")

Plain ==
  /\ Ahead(1) \in (32..127) \ {Quote, Backslash}
  /\ Add(<<Ahead(1)>>, 1)

\* The characters an escape of one letter stands for.
Unescape == [l \in {Quote, Backslash, 47, 98, 102, 110, 114, 116} |->
  CASE l = 98 -> 8 [] l = 102 -> 12 [] l = 110 -> 10 [] l = 114 -> 13
    [] l = 116 -> 9 [] OTHER -> l]

EscapedLetter ==
  /\ Ahead(1) = Backslash
  /\ \/ /\ Ahead(2) \in DOMAIN Unescape
        /\ Add(<<Unescape[Ahead(2)]>>, 2)
     \/ /\ Ahead(2) \notin DOMAIN Unescape \union {LetterU}
        /\ End("parse_error")

HexValue(d) ==
  CASE d \in 48..57 -> d - 48
    [] d \in 65..70 -> d - 55
    [] d \in 97..102 -> d - 87
    [] OTHER -> -1

\* get_codepoint, for the digits that begin with the k-th character.
GetCodepoint(k) ==
  LET d(n) == HexValue(Ahead(k + n))
  IN IF \E n \in 0..3 : d(n) = -1 THEN -1
     ELSE 4096 * d(0) + 256 * d(1) + 16 * d(2) + d(3)

\* The code point as UTF-8.
Utf8(c) ==
  IF c < 128 THEN <<c>>
  ELSE IF c <= 2047 THEN <<192 + c \div 64, 128 + (c % 64)>>
  ELSE IF c <= 65535
    THEN <<224 + c \div 4096, 128 + ((c \div 64) % 64), 128 + (c % 64)>>
  ELSE <<240 + c \div 262144, 128 + ((c \div 4096) % 64),
         128 + ((c \div 64) % 64), 128 + (c % 64)>>

High == 55296..56319
Low == 56320..57343

\* \uXXXX, or two of them that stand for one character.
EscapedCodepoint ==
  LET c1 == GetCodepoint(3)
      c2 == GetCodepoint(9)
      paired == Ahead(7) = Backslash /\ Ahead(8) = LetterU /\ c2 \in Low
  IN /\ Ahead(1) = Backslash /\ Ahead(2) = LetterU
     /\ \/ /\ c1 \notin {-1} \union High \union Low
           /\ Add(Utf8(c1), 6)
        \/ /\ c1 \in High /\ paired
           /\ Add(Utf8(1024 * c1 + c2 - 56613888), 12)
        \/ /\ c1 = -1 \/ c1 \in Low \/ (c1 \in High /\ ~paired)
           /\ End("parse_error")

\* Mutant: every byte that continues something continues this.
AnyTail(b) ==
  IF b \in 194..223 THEN <<128..191>>
  ELSE IF b \in 224..239 THEN <<128..191, 128..191>>
  ELSE <<128..191, 128..191, 128..191>>

\* next_byte_in_range: the ranges that follow a first byte.
Following(b) ==
  CASE b \in 194..223 -> <<128..191>>
    [] b = 224 -> <<160..191, 128..191>>
    [] b \in (225..236) \union {238, 239} -> <<128..191, 128..191>>
    [] b = 237 -> <<128..159, 128..191>>
    [] b = 240 -> <<144..191, 128..191, 128..191>>
    [] b \in 241..243 -> <<128..191, 128..191, 128..191>>
    [] b = 244 -> <<128..143, 128..191, 128..191>>

Multibyte ==
  /\ Ahead(1) \in 194..244
  /\ LET ranges == Following(Ahead(1))
         inRange == \A k \in DOMAIN ranges : Ahead(k + 1) \in ranges[k]
     IN \/ inRange /\ Add([k \in 1..(Len(ranges) + 1) |-> Ahead(k)], Len(ranges) + 1)
        \/ ~inRange /\ End("parse_error")

ScanCharacter ==
  /\ pc = "scan"
  /\ ClosingQuote \/ Forbidden \/ Plain \/ EscapedLetter \/ EscapedCodepoint \/ Multibyte
  /\ UNCHANGED <<call, dumper, text>>

-----------------------------------------------------------------------------
Next == DumpByte \/ EndDump \/ ScanCharacter

Spec == Init /\ [][Next]_vars

\* Serializer and lexer are loops that nothing interrupts.
FairSpec == Spec /\ WF_vars(DumpByte \/ EndDump)

-----------------------------------------------------------------------------
(***************************************************************************)
(* Well-formed UTF-8, after table 3-7 of the Unicode standard.  The        *)
(* sequences do not overlap, so that a byte is good if some window around  *)
(* it is a sequence.                                                       *)
(***************************************************************************)
\* The n bytes of s from position a on are one character.
SequenceAt(s, a, n) ==
  /\ a + n - 1 <= Len(s)
  /\ \A k \in (a + 1)..(a + n - 1) : s[k] \in 128..191
  /\ \/ n = 1 /\ s[a] \in 0..127
     \/ n = 2 /\ s[a] \in 194..223
     \/ n = 3 /\ s[a] \in 224..239 /\ (s[a] = 224 => s[a + 1] >= 160)
                                  /\ (s[a] = 237 => s[a + 1] <= 159)
     \/ n = 4 /\ s[a] \in 240..244 /\ (s[a] = 240 => s[a + 1] >= 144)
                                  /\ (s[a] = 244 => s[a + 1] <= 143)

Good(s, k) == \E a \in 1..k, n \in 1..4 : a + n > k /\ SequenceAt(s, a, n)

IsUtf8(s) == \A k \in 1..Len(s) : Good(s, k)

\* The good ones of the first n bytes.
GoodBytes(s, n) == {k \in 1..n : Good(s, k)}

\* t is the good ones of the first n bytes of s, in their order.
IsGoodPart(t, s, n) ==
  /\ Len(t) = Cardinality(GoodBytes(s, n))
  /\ \A k \in GoodBytes(s, n) : t[Cardinality(GoodBytes(s, k))] = s[k]

(***************************************************************************)
(* Properties.                                                             *)
(***************************************************************************)

\* What is written is read again: the lexer accepts the output of the
\* serializer and gives back the string, without the bytes that are not UTF-8
\* if they are ignored; a strict serializer throws at these and only at these.
RoundTrip ==
  given = "value" =>
    /\ pc = "thrown" => error_handler = "strict" /\ ~IsUtf8(source)
    /\ pc = "done" =>
         /\ result = "value_string" /\ IsGoodPart(token_buffer, source, Len(source))
         /\ error_handler = "strict" => token_buffer = source

\* A string that the lexer accepts is UTF-8, whatever escapes, surrogates and
\* bytes it was written with.
AcceptedIsUtf8 == result = "value_string" => IsUtf8(token_buffer)

\* string_buffer has room for everything that is put into it between two
\* flushes, escapes and broken sequences included (json.hpp:15919).
BufferFits == peak <= BufferSize

\* The loop that reads a byte again comes to its end (json.hpp:15949): the UI
\* thread gets its message, or an exception, for every string.
DumpEnds == <>(pc # "dump")

\* What the dumping loop has left to do, however often it reads a byte again.
Left == 2 * (Len(source) - i) + undumped_chars

\* The reason for DumpEnds: each turn of the loop leaves less, or throws
\* (json.hpp:15949 moves i back only after bytes that it had kept).
DumpRunsDown ==
  [][pc = "dump" => Left \in Nat /\ (pc' = "dump" => Left' < Left)]_vars

=============================================================================
