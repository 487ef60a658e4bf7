------------------------ MODULE HttpConnection_proofs ------------------------
(***************************************************************************)
(* What holds of a connection for every set of requests, every number of   *)
(* them and every keep-alive count.                                        *)
(***************************************************************************)
EXTENDS HttpConnection, TLAPS

-----------------------------------------------------------------------------
(***************************************************************************)
(* Positions.                                                              *)
(***************************************************************************)
LEMMA RequestType ==
  ASSUME TypeOK, NEW k \in 1..MaxRequests
  PROVE  requests[k] \in Request
BY ConnectionAssumption DEF TypeOK

LEMMA AfterType ==
  ASSUME TypeOK, NEW p \in Position, p.k \in 1..MaxRequests
  PROVE  After(p) \in Position
<1>1. p.k \in 1..(MaxRequests + 1) /\ p.k + 1 \in 1..(MaxRequests + 1) /\ p.unit \in Nat
  BY ConnectionAssumption DEF Position
<1>2. \A part \in Part, u \in Nat : To(p, part, u) \in Position
  BY <1>1 DEF To, Position
<1>3. Start(p.k + 1) \in Position
  BY <1>1 DEF Start, Position, Part
<1>4. \A u \in Nat : NextUnit(p, u) \in Position
  BY <1>2, <1>3 DEF NextUnit, Part
<1>5. p.part \in Part
  BY DEF Position
<1>6. QED
  BY <1>1, <1>2, <1>3, <1>4, <1>5 DEF After, Part

LEMMA AnswerType ==
  ASSUME TypeOK, NEW i \in DOMAIN answers
  PROVE  answers[i].of \in 0..MaxRequests /\ answers[i].of \in Nat
<1>1. answers \in Seq(Answer)
  BY DEF TypeOK
<1>2. answers[i] \in Answer
  BY <1>1
<1>3. QED
  BY <1>2 DEF Answer

-----------------------------------------------------------------------------
LEMMA InitIInv == Init => IInv
<1> SUFFICES ASSUME Init PROVE IInv
  OBVIOUS
<1> USE ConnectionAssumption DEF Init
<1>1. TypeOK
  <2>1. Start(1) \in Position
    BY DEF Start, Position, Part
  <2>2. answers \in Seq(Answer) /\ requests \in [1..MaxRequests -> Requests]
    OBVIOUS
  <2>3. /\ got \in Nat /\ continued \subseteq 1..MaxRequests
        /\ count \in 1..KeepAliveMax /\ current \in 0..MaxRequests
    OBVIOUS
  <2>4. torn \in BOOLEAN /\ junk \in BOOLEAN /\ mixed \in BOOLEAN /\ gaveUp \in BOOLEAN
    BY Zenon
  <2>5. begun \in IF wpos.k > MaxRequests THEN {"no"} ELSE {"no", "sent", "read"}
    OBVIOUS
  <2>6. QED
    BY <2>1, <2>2, <2>3, <2>4, <2>5 DEF TypeOK, LinePlaces
<1>2. Len(answers) = 0 /\ DOMAIN answers = {}
  OBVIOUS
<1>3. FieldsInv /\ EndInv /\ CloseAgreed /\ FramesAgree
  BY <1>2 DEF FieldsInv, EndInv, CloseAgreed, FramesAgree
<1>4. FrameInv /\ Place /\ OrderInv
  BY <1>2 DEF FrameInv, Sequence, Place, NextAnswer, Clean, OrderInv
<1>5. QED
  BY <1>1, <1>3, <1>4 DEF IInv

-----------------------------------------------------------------------------
(***************************************************************************)
(* What the steps that write no response have in common.                   *)
(***************************************************************************)
LEMMA NoAnswer ==
  ASSUME IInv, UNCHANGED <<requests, answers>>, \A k : CutAt(k) => CutAt(k)'
  PROVE  /\ FramesAgree' /\ (AllSound' <=> AllSound) /\ NextAnswer' = NextAnswer
         /\ pc' # "closed" /\ pc # "closed" => CloseAgreed'
<1>1. \A i : Sound(i)' <=> Sound(i)
  BY DEF Sound
<1>2. FramesAgree' /\ (AllSound' <=> AllSound) /\ NextAnswer' = NextAnswer
  BY <1>1 DEF IInv, FramesAgree, AllSound, NextAnswer
<1>3. pc' # "closed" /\ pc # "closed" => CloseAgreed'
  BY DEF IInv, CloseAgreed
<1>4. QED
  BY <1>2, <1>3

LEMMA ClientStep == IInv /\ (Write \/ Trickle \/ HangUp) => IInv'
<1> SUFFICES ASSUME IInv, Write \/ Trickle \/ HangUp PROVE IInv'
  OBVIOUS
<1>1. /\ UNCHANGED <<requests, rpos, torn, continued, pc, count, parsing, status, answers, gaveUp>>
      /\ pc # "closed" /\ client = "open"
  BY DEF Write, Trickle, Writes, HangUp
<1>2. TypeOK'
  <2>1. client' \in {"open", "gone"}
    BY DEF IInv, TypeOK, Write, Trickle, Writes, HangUp
  <2>2. /\ wpos' \in Position
        /\ begun' \in IF wpos'.k > MaxRequests THEN {"no"} ELSE {"no", "sent", "read"}
    <3>1. CASE Write \/ Trickle
      <4>1. wpos.k \in 1..MaxRequests
        BY <3>1 DEF Write, Trickle, Writes
      <4>2. wpos' \in Position /\ begun' \in {"no", "sent"} /\ (begun' = "no" \/ wpos' = wpos)
        BY <3>1, <4>1, AfterType DEF IInv, TypeOK, Write, Trickle, Writes
      <4>3. QED
        BY <4>1, <4>2, ConnectionAssumption
    <3>2. CASE HangUp
      BY <3>2 DEF IInv, TypeOK, HangUp
    <3>3. QED
      BY <3>1, <3>2
  <2>3. QED
    BY <1>1, <2>1, <2>2 DEF IInv, TypeOK, parsing
<1>3. FramesAgree' /\ CloseAgreed' /\ (AllSound' <=> AllSound) /\ NextAnswer' = NextAnswer
  BY <1>1, NoAnswer DEF CutAt
<1>4. FieldsInv' /\ EndInv'
  BY <1>1 DEF IInv, FieldsInv, EndInv, parsing
<1>5. ~Spent /\ ~Truncated
  BY <1>1 DEF Spent, Truncated
<1>6. Place'
  BY <1>1, <1>5 DEF IInv, Place, At, InContent, Size, parsing, Framed, Clean, Complete
<1>7. FrameInv'
  <2>1. \A k : ~CutAt(k)
    BY <1>1 DEF CutAt
  <2>2. QED
    BY <1>1, <1>3, <1>5, <2>1 DEF IInv, FrameInv, Sequence, parsing, Clean
<1>8. OrderInv'
  BY <1>1 DEF IInv, OrderInv, Passed, parsing
<1>9. QED
  BY <1>2, <1>3, <1>4, <1>6, <1>7, <1>8 DEF IInv

-----------------------------------------------------------------------------
(***************************************************************************)
(* Reading.                                                                *)
(***************************************************************************)
LEMMA TakeStep ==
  ASSUME TypeOK, Take
  PROVE  /\ rpos # wpos /\ rpos' = After(rpos) /\ rpos' \in Position
         /\ torn' = FALSE /\ begun' \in {"no", begun}
         /\ rpos.k \in 1..MaxRequests
         /\ UNCHANGED <<requests, wpos, begun, client, count, answers, gaveUp>>
BY AfterType DEF TypeOK, Take

\* getline returns a line that the client has ended, or the client has gone behind
\* the beginning of one and nothing more is there.
LEMMA GetLineStep ==
  ASSUME TypeOK, NEW kind, GetLine(kind)
  PROVE  /\ junk' = FALSE /\ rpos' \in Position /\ torn' \in BOOLEAN
         /\ begun' \in {"no", begun}
         /\ UNCHANGED <<requests, wpos, client, count, answers, gaveUp>>
         /\ Take \/ (UNCHANGED rpos /\ (torn => torn'))
         /\ \/ /\ Take /\ rpos # wpos /\ rpos' = After(rpos) /\ torn' = FALSE
               /\ rpos.k \in 1..MaxRequests /\ rpos.part # "data"
               /\ Clean => kind = Kind(rpos.part)
               /\ ~Clean => kind = "junk"
            \/ /\ Spent' /\ ~Spent /\ CutShort /\ rpos' = rpos /\ rpos = wpos
               /\ client = "gone"
               /\ kind = "line" => Clean /\ torn' /\ rpos.part = "line"
                                     /\ requests[rpos.k].line = "long"
               /\ kind \in {"line", "junk"}
<1>1. CASE Take /\ rpos.part # "data" /\ kind = IF junk \/ torn THEN "junk" ELSE Kind(rpos.part)
  <2>1. torn' \in BOOLEAN
    BY <1>1 DEF Take
  <2>2. junk' = FALSE
    BY DEF GetLine
  <2>3. QED
    BY <1>1, <2>1, <2>2, TakeStep DEF Clean
<1>2. CASE /\ Nothing /\ CutShort /\ UNCHANGED gaveUp
           /\ kind \in IF junk \/ torn THEN {"junk"} ELSE CutKinds(rpos)
  <2>1. torn' \in BOOLEAN
    BY <1>2 DEF Nothing
  <2>2. Spent' /\ ~Spent
    BY <1>2 DEF GetLine, Nothing, Spent, CutShort
  <2>3. kind = "line" => Clean /\ rpos.part = "line" /\ requests[rpos.k].line = "long"
    BY <1>2 DEF CutKinds, Clean
  <2>4. kind = "line" => torn'
    BY <1>2, <2>3 DEF Nothing, CutShort, Clean
  <2>5. QED
    BY <1>2, <2>1, <2>2, <2>3, <2>4 DEF GetLine, Nothing, TypeOK, CutShort, CutKinds
<1>3. QED
  BY <1>1, <1>2 DEF GetLine

LEMMA NothingStep ==
  ASSUME TypeOK, Nothing
  PROVE  /\ rpos' = rpos /\ rpos' \in Position /\ begun' \in {"no", begun}
         /\ torn' \in BOOLEAN /\ (torn => torn')
         /\ UNCHANGED <<requests, wpos, client, count, answers>>
<1>1. torn' \in BOOLEAN
  BY DEF Nothing
<1>2. QED
  BY <1>1 DEF Nothing, TypeOK

\* The types of what no reader changes.
LEMMA ReaderType ==
  ASSUME TypeOK, UNCHANGED <<requests, wpos, client, count, answers, gaveUp>>,
         rpos' \in Position, begun' \in {"no", begun}, torn' \in BOOLEAN,
         continued' \subseteq 1..MaxRequests,
         current' \in 0..MaxRequests, fields' \in {"none", "some", "all"},
         junk' \in BOOLEAN, mixed' \in BOOLEAN, got' \in Nat,
         pc' \in LinePlaces \union {"select", "length", "rest", "chunk", "respond"},
         status' \in {"none", "handler", "400", "414", "415"}
  PROVE  TypeOK'
<1>1. begun' \in IF wpos'.k > MaxRequests THEN {"no"} ELSE {"no", "sent", "read"}
  BY DEF TypeOK
<1>2. QED
  BY <1>1 DEF TypeOK

\* A line that has been read stays so.
LEMMA PassedTake ==
  ASSUME TypeOK, Take, NEW k \in Nat, k <= rpos.k
  PROVE  Passed(k)'
<1>1. rpos.k \in Nat /\ rpos.part \in Part /\ rpos' = After(rpos)
  BY DEF TypeOK, Position, Take
<1>2. \/ rpos'.k = rpos.k + 1
      \/ rpos'.k = rpos.k /\ rpos'.part # "line"
  BY <1>1 DEF After, NextUnit, To, Start, Part
<1>3. QED
  BY <1>1, <1>2 DEF Passed

LEMMA PassedStays ==
  ASSUME TypeOK, Take \/ (UNCHANGED rpos /\ (torn => torn')), NEW k \in Nat, Passed(k)
  PROVE  Passed(k)'
<1>1. k <= rpos.k
  BY DEF Passed, TypeOK, Position
<1>2. QED
  BY <1>1, PassedTake DEF Passed

\* A step that writes nothing and leaves the worker at work.
LEMMA QuietStep ==
  ASSUME IInv, UNCHANGED <<requests, wpos, client, answers>>, pc # "closed",
         Take \/ (UNCHANGED rpos /\ (torn => torn')),
         pc' \notin {"idle", "closed"}
  PROVE  /\ FramesAgree' /\ CloseAgreed' /\ EndInv'
         /\ AllSound' <=> AllSound
         /\ NextAnswer' = NextAnswer
         /\ \A i \in DOMAIN answers : answers[i].of # 0 => Passed(answers[i].of)'
         /\ (\/ pc' \in {"select", "line"}
             \/ current' = current /\ pc \notin {"select", "line", "idle"}) => OrderInv'
<1>1. FramesAgree' /\ CloseAgreed' /\ EndInv' /\ (AllSound' <=> AllSound) /\ NextAnswer' = NextAnswer
  BY NoAnswer DEF IInv, EndInv, CutAt
<1>2. \A i \in DOMAIN answers : answers[i].of \in Nat
  BY AnswerType DEF IInv
<1>3. \A i \in DOMAIN answers : answers[i].of # 0 => Passed(answers[i].of)'
  BY <1>2, PassedStays DEF IInv, OrderInv
<1>4. current \in Nat
  BY DEF IInv, TypeOK
<1>5. ASSUME \/ pc' \in {"select", "line"}
             \/ current' = current /\ pc \notin {"select", "line", "idle"}
      PROVE  OrderInv'
  <2>1. CASE pc' \in {"select", "line"}
    BY <1>3, <2>1 DEF OrderInv
  <2>2. CASE pc' \notin {"select", "line"}
    <3>1. current # 0 =>
            Passed(current)' /\ \A i \in DOMAIN answers : answers[i].of < current
      BY <1>4, <1>5, <2>2, PassedStays DEF IInv, OrderInv
    <3>2. QED
      BY <1>3, <1>5, <2>2, <3>1 DEF OrderInv, Passed
  <2>3. QED
    BY <2>1, <2>2
<1>6. QED
  BY <1>1, <1>3, <1>5

LEMMA SelectReadStep == IInv /\ SelectRead => IInv'
<1> SUFFICES ASSUME IInv, SelectRead PROVE IInv'
  OBVIOUS
<1> USE DEF SelectRead
<1>1. UNCHANGED <<requests, wpos, rpos, begun, torn, client, continued, count, junk, status,
                  answers, gaveUp>>
  BY DEF wire
<1>2. TypeOK'
  <2>1. mixed' \in BOOLEAN /\ torn' \in BOOLEAN /\ junk' \in BOOLEAN
    BY <1>1 DEF IInv, TypeOK
  <2>2. QED
    BY <1>1, <2>1, ReaderType, ConnectionAssumption DEF IInv, TypeOK, LinePlaces
<1>3. /\ FramesAgree' /\ CloseAgreed' /\ EndInv' /\ (AllSound' <=> AllSound)
      /\ NextAnswer' = NextAnswer /\ OrderInv'
  BY <1>1, QuietStep
<1>4. FieldsInv'
  BY DEF IInv, FieldsInv
<1>5. Place'
  BY DEF Place
<1>6. FrameInv'
  BY <1>1, <1>3 DEF IInv, FrameInv, Sequence, Clean, Spent
<1>7. QED
  BY <1>2, <1>3, <1>4, <1>5, <1>6 DEF IInv

LEMMA ReadBeginningStep == IInv /\ ReadBeginning => IInv'
<1> SUFFICES ASSUME IInv, ReadBeginning PROVE IInv'
  OBVIOUS
<1>1. /\ UNCHANGED <<requests, wpos, rpos, torn, client, continued, pc, count, current,
                     junk, got, mixed, status, answers, gaveUp>>
      /\ begun = "sent" /\ begun' = "read" /\ pc \in LinePlaces \union {"rest"}
      /\ fields' \in {fields, "some"} /\ (pc # "headers" => fields' = fields)
  BY DEF ReadBeginning
<1>2. TypeOK'
  BY <1>1 DEF IInv, TypeOK
<1>3. /\ FramesAgree' /\ CloseAgreed' /\ EndInv' /\ (AllSound' <=> AllSound)
      /\ NextAnswer' = NextAnswer /\ OrderInv'
  BY <1>1, QuietStep DEF LinePlaces
<1>4. FieldsInv'
  BY <1>1 DEF IInv, FieldsInv
<1>5. ~Spent
  BY <1>1 DEF Spent
<1>6. Place'
  BY <1>1, <1>5 DEF IInv, Place, LinePlaces, At, InContent, Size, Framed, Clean
<1>7. FrameInv'
  BY <1>1, <1>3, <1>5 DEF IInv, FrameInv, Sequence, Clean, LinePlaces
<1>8. QED
  BY <1>2, <1>3, <1>4, <1>6, <1>7 DEF IInv

LEMMA ReadRequestLineStep == IInv /\ ReadRequestLine => IInv'
<1> SUFFICES ASSUME IInv, ReadRequestLine PROVE IInv'
  OBVIOUS
<1>0. PICK kind \in Lines :
        /\ GetLine(kind)
        /\ \/ /\ kind = "line" /\ requests[rpos.k].line = "good"
              /\ current' = rpos.k
              /\ pc' = "headers" /\ UNCHANGED status
           \/ /\ kind = "line" /\ requests[rpos.k].line = "long"
              /\ current' = rpos.k
              /\ pc' = "long" /\ UNCHANGED status
           \/ /\ kind = "line" /\ requests[rpos.k].line = "bad"
              /\ current' = rpos.k
              /\ RespondWith("400")
           \/ /\ kind # "line"
              /\ UNCHANGED current
              /\ RespondWith("400")
  BY DEF ReadRequestLine
<1>1. /\ pc = "line" /\ junk' = FALSE /\ UNCHANGED <<continued, fields, got, mixed>>
      /\ UNCHANGED <<requests, wpos, client, count, answers, gaveUp>>
      /\ rpos' \in Position /\ torn' \in BOOLEAN /\ begun' \in {"no", begun}
      /\ Take \/ (UNCHANGED rpos /\ (torn => torn'))
  BY <1>0, GetLineStep DEF ReadRequestLine, IInv
<1>2. got = 0 /\ ~mixed /\ current = 0 /\ rpos.k \in 1..(MaxRequests + 1)
  BY <1>1 DEF IInv, Place, TypeOK, Position
<1>3. kind = "line" => /\ Clean /\ rpos.part = "line"
                       /\ Take \/ (torn' /\ rpos' = rpos /\ requests[rpos.k].line = "long")
  BY <1>0, GetLineStep DEF IInv, Kind
<1>4. kind = "line" => rpos.k \in 1..MaxRequests
  <2>1. CASE Take
    BY <2>1 DEF Take
  <2>2. CASE kind = "line" /\ ~Take
    <3>1. Nothing /\ CutShort /\ Clean
      BY <1>0, <1>3, <2>2 DEF GetLine
    <3>2. wpos = rpos
      BY <3>1 DEF Nothing
    <3>3. begun = "read"
      BY <3>1 DEF CutShort, Clean
    <3>4. ~(wpos.k > MaxRequests)
      BY <3>3 DEF IInv, TypeOK
    <3>5. QED
      BY <1>2, <3>2, <3>4, ConnectionAssumption
  <2>3. QED
    BY <2>1, <2>2
<1>5. /\ pc' \in {"headers", "long", "respond"} /\ current' \in 0..MaxRequests
      /\ status' \in {"none", "400"} /\ (status' # "none" <=> pc' = "respond")
      /\ (pc' # "respond" => current' # 0)
  BY <1>0, <1>1, <1>2, <1>4 DEF IInv, FieldsInv, TypeOK, RespondWith
<1>6. TypeOK'
  BY <1>1, <1>5, ReaderType DEF IInv, TypeOK, LinePlaces
<1>7. /\ FramesAgree' /\ CloseAgreed' /\ EndInv' /\ (AllSound' <=> AllSound)
      /\ NextAnswer' = NextAnswer
      /\ \A i \in DOMAIN answers : answers[i].of # 0 => Passed(answers[i].of)'
  BY <1>1, <1>5, QuietStep
<1>8. FieldsInv'
  BY <1>1, <1>5 DEF IInv, FieldsInv
<1>9. Place'
  <2>1. CASE pc' = "headers"
    <3>1. Take /\ Clean /\ rpos.part = "line" /\ current' = rpos.k
          /\ requests[rpos.k].line = "good"
      BY <1>0, <1>3, <2>1 DEF RespondWith
    <3>2. rpos' = [k |-> current', part |-> "field", unit |-> 0] /\ torn' = FALSE
      BY <3>1 DEF Take, After, To
    <3>3. QED
      BY <1>1, <1>2, <2>1, <3>1, <3>2 DEF Place, At, Clean
  <2>2. QED
    BY <1>5, <2>1 DEF Place
<1>10. FrameInv'
  <2>1. SUFFICES ASSUME AllSound PROVE Sequence'
    BY <1>7 DEF FrameInv
  <2>2. ~Spent
    BY <1>0, GetLineStep DEF IInv, Spent
  <2>3. rpos = Start(NextAnswer) /\ Clean
    BY <1>1, <2>1, <2>2 DEF IInv, FrameInv, Sequence
  <2>4. CASE kind = "line"
    BY <1>0, <1>5, <1>7, <2>3, <2>4 DEF Sequence, Start
  <2>5. CASE kind # "line"
    <3>1. client = "gone" /\ rpos = wpos
      BY <1>0, <2>3, <2>5, GetLineStep DEF IInv, Kind, Start
    <3>2. QED
      BY <1>0, <1>1, <1>7, <2>3, <2>5, <3>1 DEF Sequence, CutAt, Start, RespondWith
  <2>6. QED
    BY <2>4, <2>5
<1>11. OrderInv'
  <2>1. CASE kind = "line"
    <3>1. PICK k \in Nat : k = rpos.k
      BY <1>2
    <3>4. Passed(k)'
      <4>1. CASE Take
        BY <3>1, <4>1, PassedTake DEF IInv
      <4>2. CASE torn' /\ rpos' = rpos
        BY <3>1, <4>2 DEF Passed
      <4>3. QED
        BY <1>3, <2>1, <4>1, <4>2
    <3>2. ASSUME NEW i \in DOMAIN answers PROVE answers[i].of < rpos.k
      <4>1. answers[i].of \in Nat
        BY AnswerType DEF IInv
      <4>2. ~torn /\ rpos.part = "line"
        BY <1>3, <2>1 DEF Clean
      <4>3. answers[i].of # 0 => Passed(answers[i].of)
        BY DEF IInv, OrderInv
      <4>4. QED
        BY <1>2, <4>1, <4>2, <4>3 DEF Passed
    <3>3. current' = rpos.k
      BY <1>0, <2>1
    <3>5. QED
      BY <1>1, <1>7, <3>1, <3>2, <3>3, <3>4 DEF OrderInv
  <2>2. CASE kind # "line"
    <3>1. current' = 0
      BY <1>0, <1>2, <2>2
    <3>2. QED
      BY <1>1, <1>7, <3>1 DEF OrderInv, Passed
  <2>3. QED
    BY <2>1, <2>2
<1>12. QED
  BY <1>6, <1>7, <1>8, <1>9, <1>10, <1>11 DEF IInv

LEMMA ReadDataStep == IInv /\ ReadData => IInv'
<1> SUFFICES ASSUME IInv, ReadData PROVE IInv'
  OBVIOUS
<1>1. /\ Take /\ rpos.part = "data" /\ pc \in LinePlaces /\ junk' = TRUE
      /\ UNCHANGED <<continued, pc, current, fields, got, mixed, status>>
  BY DEF ReadData
<1>2. /\ rpos' \in Position /\ torn' \in BOOLEAN /\ begun' \in {"no", begun}
      /\ rpos # wpos
      /\ UNCHANGED <<requests, wpos, client, count, answers, gaveUp>>
  BY <1>1, TakeStep DEF IInv
<1>3. TypeOK'
  BY <1>1, <1>2, ReaderType DEF IInv, TypeOK, LinePlaces
<1>4. pc \in {"line", "long"}
  BY <1>1 DEF IInv, Place, LinePlaces, At
<1>5. /\ FramesAgree' /\ CloseAgreed' /\ EndInv' /\ (AllSound' <=> AllSound)
      /\ NextAnswer' = NextAnswer /\ OrderInv'
  BY <1>1, <1>2, <1>4, QuietStep
<1>6. FieldsInv'
  BY <1>1 DEF IInv, FieldsInv
<1>7. Place'
  BY <1>1, <1>4 DEF IInv, Place
<1>8. FrameInv'
  <2>1. pc = "line" => ~AllSound
    BY <1>1, <1>2 DEF IInv, FrameInv, Sequence, Start, Spent
  <2>2. QED
    BY <1>1, <1>2, <1>4, <1>5, <2>1 DEF IInv, FrameInv, Sequence
<1>9. QED
  BY <1>3, <1>5, <1>6, <1>7, <1>8 DEF IInv

LEMMA ReadFieldStep == IInv /\ ReadField => IInv'
<1> SUFFICES ASSUME IInv, ReadField PROVE IInv'
  OBVIOUS
<1>1. PICK kind \in Lines \ {"blank"} :
        /\ GetLine(kind)
        /\ fields' = IF pc = "headers" /\ kind = "field" THEN "some" ELSE fields
  BY DEF ReadField
<1>2. /\ pc \in {"headers", "long"} /\ junk' = FALSE /\ rpos' \in Position
      /\ torn' \in BOOLEAN /\ begun' \in {"no", begun}
      /\ UNCHANGED <<continued, pc, current, got, mixed, status>>
      /\ UNCHANGED <<requests, wpos, client, count, answers, gaveUp>>
      /\ Take \/ (UNCHANGED rpos /\ (torn => torn'))
      /\ fields' \in {fields, "some"} /\ (pc = "long" => fields' = fields)
  BY <1>1, GetLineStep DEF ReadField, IInv
<1>3. TypeOK'
  BY <1>2, ReaderType DEF IInv, TypeOK, LinePlaces
<1>4. /\ FramesAgree' /\ CloseAgreed' /\ EndInv' /\ (AllSound' <=> AllSound)
      /\ NextAnswer' = NextAnswer /\ OrderInv'
  BY <1>2, QuietStep
<1>5. FieldsInv'
  BY <1>2 DEF IInv, FieldsInv
<1>6. Place'
  <2>1. CASE pc = "headers"
    <3>1. /\ At("field", 0) \/ At("blank", 0)
          /\ requests[current].line = "good" /\ (Clean \/ Spent) /\ got = 0 /\ ~mixed
      BY <2>1 DEF IInv, Place
    <3>2. CASE Take
      <4>1. ~Spent
        BY <3>2 DEF Spent, Take
      <4>2. Clean /\ ~(rpos' = rpos /\ rpos = wpos)
        BY <3>1, <3>2, <4>1 DEF Take
      <4>3. kind = Kind(rpos.part) /\ rpos' = After(rpos) /\ torn' = FALSE
        BY <1>1, <4>2, GetLineStep DEF IInv
      <4>4. rpos' = [k |-> current, part |-> "blank", unit |-> 0]
        BY <1>1, <3>1, <4>3 DEF At, Kind, After, To
      <4>5. QED
        BY <1>2, <2>1, <3>1, <4>3, <4>4 DEF Place, At, Clean
    <3>3. CASE ~Take
      <4>1. Spent' /\ rpos' = rpos
        BY <1>1, <3>3, GetLineStep DEF IInv
      <4>2. QED
        BY <1>2, <2>1, <3>1, <4>1 DEF Place, At
    <3>4. QED
      BY <3>2, <3>3
  <2>2. CASE pc = "long"
    BY <1>2, <2>2 DEF Place
  <2>3. QED
    BY <1>2, <2>1, <2>2
<1>7. FrameInv'
  BY <1>2, <1>4 DEF IInv, FrameInv, Sequence
<1>8. QED
  BY <1>3, <1>4, <1>5, <1>6, <1>7 DEF IInv

\* What follows the blank line in a request, where the worker goes on.
LEMMA RouteStep ==
  ASSUME NEW k \in 1..MaxRequests, Route(requests[k]), requests[k] \in Request
  PROVE  /\ pc' \in {"length", "rest", "size", "respond"}
         /\ status' \in {status, "handler", "400", "415"}
         /\ pc' = "respond" => status' \in {"handler", "400", "415"}
         /\ pc' # "respond" => status' = status /\ requests[k].method = "POST"
         /\ pc' = "length" => requests[k].framing = "length" /\ requests[k].size > 0
         /\ pc' = "rest" => requests[k].framing = "none"
         /\ pc' = "size" => requests[k].framing = "chunked"
         /\ pc' = "respond" /\ status' = "handler" =>
              \/ requests[k].method = "GET"
              \/ requests[k].framing = "length" /\ requests[k].size = 0
BY DEF Route, RespondWith

LEMMA EndOfHeadersStep == IInv /\ EndOfHeaders => IInv'
<1> SUFFICES ASSUME IInv, EndOfHeaders PROVE IInv'
  OBVIOUS
<1>1. /\ pc = "headers" /\ fields' = "all" /\ junk' = FALSE
      /\ rpos' \in Position /\ torn' \in BOOLEAN /\ begun' \in {"no", begun}
      /\ UNCHANGED <<current, got, mixed>>
      /\ UNCHANGED <<requests, wpos, client, count, answers, gaveUp>>
      /\ current \in 1..MaxRequests
      /\ Take /\ Clean /\ Kind(rpos.part) = "blank" /\ rpos' = After(rpos) /\ torn' = FALSE
  <2>1. GetLine("blank") /\ TypeOK
    BY DEF EndOfHeaders, IInv
  <2>2. current \in 1..MaxRequests
    BY ConnectionAssumption DEF EndOfHeaders, IInv, FieldsInv, TypeOK
  <2>3. /\ Take /\ rpos' = After(rpos) /\ torn' = FALSE
        /\ Clean /\ Kind(rpos.part) = "blank"
    <3>1. PICK kind : kind = "blank"
      OBVIOUS
    <3>2. GetLine(kind) /\ kind \notin {"line", "junk"}
      BY <2>1, <3>1
    <3>3. Take /\ rpos' = After(rpos) /\ torn' = FALSE
      BY <2>1, <3>2, GetLineStep
    <3>4. Clean /\ kind = Kind(rpos.part)
      BY <2>1, <3>2, GetLineStep
    <3>5. QED
      BY <3>1, <3>3, <3>4
  <2>4. QED
    BY <2>1, <2>2, <2>3, GetLineStep DEF EndOfHeaders
<1>2. requests[current] \in Request /\ Route(requests[current])
  BY <1>1, RequestType DEF EndOfHeaders, IInv
<1>3. TypeOK'
  <2>1. continued' \subseteq 1..MaxRequests
    BY <1>1 DEF EndOfHeaders, IInv, TypeOK
  <2>2. QED
    BY <1>1, <1>2, <2>1, RouteStep, ReaderType DEF IInv, TypeOK, LinePlaces
<1>4. /\ FramesAgree' /\ CloseAgreed' /\ EndInv' /\ (AllSound' <=> AllSound)
      /\ NextAnswer' = NextAnswer /\ OrderInv'
  BY <1>1, <1>2, RouteStep, QuietStep
<1>5. FieldsInv'
  BY <1>1, <1>2, RouteStep DEF IInv, FieldsInv
<1>6. FrameInv'
  BY <1>1, <1>2, <1>4, RouteStep DEF IInv, FrameInv, Sequence
<1>7. Place'
  <2>1. Place
    BY DEF IInv
  <2>2. Clean'
    BY <1>1 DEF Clean
  <2>3. /\ At("blank", 0) /\ got = 0 /\ ~mixed
        /\ requests[current].line = "good" /\ rpos' = NextUnit(rpos, 0)
    BY <2>1, <1>1 DEF Place, At, Kind, After
  <2>4. /\ requests[current].size \in Nat
        /\ requests[current].framing = "none" => requests[current].size = 0
    BY <1>1, <1>2, ConnectionAssumption DEF Request, IInv, TypeOK
  <2>5. CASE pc' = "length"
    BY <1>1, <1>2, <2>2, <2>3, <2>4, <2>5, RouteStep DEF Place, At, InContent, Size, NextUnit, Chunked, To
  <2>6. CASE pc' = "rest"
    <3>1. ~Framed(requests[current])
      BY <1>1, <1>2, <2>6, RouteStep DEF Framed
    <3>2. QED
      BY <1>1, <2>6, <3>1 DEF Place
  <2>7. CASE pc' = "size"
    BY <1>1, <1>2, <2>2, <2>3, <2>4, <2>7, RouteStep DEF Place, At, InContent, Size, NextUnit, Chunked, To
  <2>8. CASE pc' = "respond"
    <3>1. ASSUME status' = "handler", Framed(requests[current])
          PROVE  Complete'
      <4>1. requests[current].size = 0 /\ requests[current].framing # "chunked"
        BY <1>1, <1>2, <2>4, <2>8, <3>1, RouteStep DEF Framed
      <4>2. rpos' = Start(current + 1)
        BY <1>1, <2>3, <2>4, <4>1 DEF NextUnit, Chunked, At
      <4>3. QED
        BY <1>1, <2>2, <2>3, <4>1, <4>2 DEF Complete, Size, Start
    <3>2. Framed(requests'[current']) <=> Framed(requests[current])
      BY <1>1
    <3>3. QED
      BY <1>1, <2>8, <3>1, <3>2 DEF Place
  <2>9. QED
    BY <1>1, <1>2, <2>5, <2>6, <2>7, <2>8, RouteStep
<1>8. QED
  BY <1>3, <1>4, <1>5, <1>6, <1>7 DEF IInv

\* A reader gives up, or skips a line that is too long: whatever was read, a
\* response is due, and a handler decides it only where the request has no frame.
LEMMA GiveUpStep ==
  ASSUME IInv, pc \notin {"select", "line", "respond", "idle", "closed"},
         rpos' \in Position, junk' \in BOOLEAN, begun' \in {"no", begun}, torn' \in BOOLEAN,
         Take \/ (UNCHANGED rpos /\ (torn => torn')),
         UNCHANGED <<requests, wpos, client, continued, count, current, fields, got, mixed,
                     answers, gaveUp>>,
         NEW s \in {"handler", "400", "414", "415"}, RespondWith(s),
         s = "handler" => fields = "all" /\ ~Framed(requests[current]),
         fields = "some" => s = "400"
  PROVE  IInv'
<1>1. pc' = "respond" /\ status' = s
  BY DEF RespondWith
<1>2. TypeOK'
  BY <1>1, ReaderType DEF IInv, TypeOK, LinePlaces
<1>3. /\ FramesAgree' /\ CloseAgreed' /\ EndInv' /\ (AllSound' <=> AllSound)
      /\ NextAnswer' = NextAnswer /\ OrderInv'
  BY <1>1, QuietStep
<1>4. FieldsInv'
  BY <1>1 DEF IInv, FieldsInv
<1>5. FrameInv'
  BY <1>1, <1>3 DEF IInv, FrameInv, Sequence
<1>6. Place'
  <2>1. fields = "all" => current # 0
    BY DEF IInv, FieldsInv
  <2>2. Framed(requests'[current]) <=> Framed(requests[current])
    OBVIOUS
  <2>3. QED
    BY <1>1, <2>1, <2>2 DEF Place
<1>7. QED
  BY <1>2, <1>3, <1>4, <1>5, <1>6 DEF IInv

LEMMA EndOfLongStep == IInv /\ EndOfLong => IInv'
<1> SUFFICES ASSUME IInv, EndOfLong PROVE IInv'
  OBVIOUS
<1>1. /\ pc = "long" /\ RespondWith("414")
      /\ UNCHANGED <<continued, current, fields, got, mixed>>
  BY DEF EndOfLong
<1>2. /\ junk' = FALSE /\ rpos' \in Position /\ begun' \in {"no", begun} /\ torn' \in BOOLEAN
      /\ Take \/ (UNCHANGED rpos /\ (torn => torn'))
      /\ UNCHANGED <<requests, wpos, client, count, answers, gaveUp>>
  BY GetLineStep, NothingStep DEF EndOfLong, NoLine, IInv
<1>3. fields = "none"
  BY <1>1 DEF IInv, FieldsInv
<1>4. junk' \in BOOLEAN
  BY <1>2
<1>5. QED
  BY <1>1, <1>2, <1>3, <1>4, GiveUpStep

LEMMA NoHeadersStep == IInv /\ NoHeaders => IInv'
<1> SUFFICES ASSUME IInv, NoHeaders PROVE IInv'
  OBVIOUS
<1>1. /\ pc = "headers" /\ RespondWith("400") /\ junk' = FALSE
      /\ UNCHANGED <<continued, current, fields, got, mixed, gaveUp>>
  BY DEF NoHeaders, NoLine
<1>2. /\ rpos' \in Position /\ begun' \in {"no", begun} /\ torn' \in BOOLEAN
      /\ UNCHANGED rpos /\ (torn => torn')
      /\ UNCHANGED <<requests, wpos, client, count, answers>>
  BY NothingStep DEF NoHeaders, NoLine, IInv
<1>3. junk' \in BOOLEAN
  BY <1>1
<1>4. QED
  BY <1>1, <1>2, <1>3, GiveUpStep

LEMMA NoContentStep == IInv /\ NoContent => IInv'
<1> SUFFICES ASSUME IInv, NoContent PROVE IInv'
  OBVIOUS
<1>1. /\ pc \in {"length", "chunk", "size", "end", "trailer"} /\ RespondWith("400")
      /\ UNCHANGED <<continued, current, fields, got, mixed, gaveUp>>
  BY DEF NoContent
<1>2. /\ rpos' \in Position /\ begun' \in {"no", begun} /\ torn' \in BOOLEAN
      /\ UNCHANGED rpos /\ (torn => torn')
      /\ UNCHANGED <<requests, wpos, client, count, answers>>
  BY NothingStep DEF NoContent, NoLine, IInv
<1>3. junk' \in BOOLEAN
  BY DEF NoContent, NoLine, IInv, TypeOK
<1>4. QED
  BY <1>1, <1>2, <1>3, GiveUpStep

LEMMA EndOfRestStep == IInv /\ EndOfRest => IInv'
<1> SUFFICES ASSUME IInv, EndOfRest PROVE IInv'
  OBVIOUS
<1>1. /\ pc = "rest" /\ Nothing /\ UNCHANGED <<continued, parsing, gaveUp>>
      /\ pc' = "respond" /\ status' = IF client = "gone" THEN "handler" ELSE "400"
  BY DEF EndOfRest, RespondWith
<1>2. /\ rpos' \in Position /\ begun' \in {"no", begun} /\ torn' \in BOOLEAN
      /\ UNCHANGED rpos /\ (torn => torn')
      /\ UNCHANGED <<requests, wpos, client, count, answers>>
  BY <1>1, NothingStep DEF IInv
<1>3. UNCHANGED <<continued, current, fields, junk, got, mixed, gaveUp>> /\ junk' \in BOOLEAN
  BY <1>1 DEF parsing, IInv, TypeOK
<1>4. fields = "all" /\ ~Framed(requests[current])
  BY <1>1 DEF IInv, FieldsInv, Place
<1>5. CASE RespondWith("400")
  BY <1>1, <1>2, <1>3, <1>4, <1>5, GiveUpStep
<1>6. CASE RespondWith("handler")
  BY <1>1, <1>2, <1>3, <1>4, <1>6, GiveUpStep
<1>7. QED
  BY <1>1, <1>5, <1>6 DEF RespondWith

-----------------------------------------------------------------------------
(***************************************************************************)
(* The content.                                                            *)
(***************************************************************************)
\* What is known of a request whose content is read.
LEMMA ContentType ==
  ASSUME IInv, pc \in {"length", "size", "chunk", "end", "trailer"}
  PROVE  /\ current \in 1..MaxRequests /\ Size \in Nat /\ got \in Nat
         /\ fields = "all" /\ status = "none"
<1>1. fields = "all" /\ current # 0 /\ status = "none"
  BY DEF IInv, FieldsInv
<1>2. current \in 1..MaxRequests
  BY <1>1, ConnectionAssumption DEF IInv, TypeOK
<1>3. requests[current] \in Request
  BY <1>2, RequestType DEF IInv
<1>4. QED
  BY <1>1, <1>2, <1>3 DEF Request, Size, IInv, TypeOK

\* A reader of content that goes on, or has come to its end.
LEMMA ContentStep ==
  ASSUME IInv, pc \in {"length", "rest", "size", "chunk", "end", "trailer"},
         UNCHANGED <<requests, wpos, client, continued, count, current, fields, answers, gaveUp>>,
         rpos' \in Position, begun' \in {"no", begun}, torn' \in BOOLEAN,
         Take \/ (UNCHANGED rpos /\ (torn => torn')),
         junk' \in BOOLEAN, mixed' \in BOOLEAN, got' \in Nat,
         pc' \in {"length", "rest", "size", "chunk", "end", "trailer", "respond"},
         status' \in {"none", "handler", "400"}, status' # "none" <=> pc' = "respond",
         Place'
  PROVE  IInv'
<1>1. fields = "all" /\ current # 0
  BY DEF IInv, FieldsInv
<1>2. TypeOK'
  BY ReaderType DEF IInv, TypeOK, LinePlaces
<1>3. /\ FramesAgree' /\ CloseAgreed' /\ EndInv' /\ (AllSound' <=> AllSound)
      /\ NextAnswer' = NextAnswer /\ OrderInv'
  BY QuietStep
<1>4. FieldsInv'
  BY <1>1 DEF FieldsInv
<1>5. FrameInv'
  BY <1>3 DEF IInv, FrameInv, Sequence
<1>6. QED
  BY <1>2, <1>3, <1>4, <1>5 DEF IInv

LEMMA UnitStep ==
  ASSUME IInv, ReadUnit
  PROVE  /\ Take /\ rpos' = After(rpos) /\ rpos' \in Position
         /\ begun' \in {"no", begun} /\ torn' = FALSE /\ torn' \in BOOLEAN
         /\ got' = got + 1 /\ got' \in Nat /\ mixed' \in BOOLEAN /\ junk' \in BOOLEAN
         /\ rpos.k = current /\ rpos.part = "data" /\ ~mixed => ~mixed'
         /\ UNCHANGED <<requests, wpos, client, count, answers, gaveUp, continued,
                        current, fields, junk>>
<1>1. got \in Nat /\ (mixed' <=> mixed \/ rpos.k # current \/ rpos.part # "data")
  BY DEF ReadUnit, IInv, TypeOK
<1>2. mixed' \in BOOLEAN /\ junk' \in BOOLEAN
  BY Zenon DEF ReadUnit, IInv, TypeOK
<1>3. torn' \in BOOLEAN
  BY DEF ReadUnit, Take
<1>4. QED
  BY <1>1, <1>2, <1>3, TakeStep DEF ReadUnit, IInv

LEMMA ReadLengthStep == IInv /\ ReadLength => IInv'
<1> SUFFICES ASSUME IInv, ReadLength PROVE IInv'
  OBVIOUS
<1>1. /\ pc = "length" /\ ReadUnit
      /\ \/ got' = Size /\ pc' = "respond" /\ status' = "handler"
         \/ got' # Size /\ UNCHANGED <<pc, status>>
  BY DEF ReadLength, RespondWith, Size
<1>2. /\ current \in 1..MaxRequests /\ Size \in Nat /\ got \in Nat
      /\ fields = "all" /\ status = "none"
  BY <1>1, ContentType
<1>3. Place'
  <2>1. InContent("length") /\ got < Size /\ At("data", got + 1)
    BY <1>1 DEF IInv, Place
  <2>2. /\ rpos' = NextUnit(rpos, got + 1) /\ got' = got + 1 /\ ~mixed' /\ Size' = Size
        /\ UNCHANGED <<requests, current, junk>> /\ Clean'
    BY <2>1, UnitStep, <1>1 DEF At, After, Chunked, InContent, Size, Clean
  <2>3. CASE got' = Size
    <3>1. rpos' = Start(current + 1)
      BY <1>2, <2>1, <2>2, <2>3 DEF NextUnit, At, Chunked, InContent, Size
    <3>2. Complete'
      BY <2>2, <2>3, <3>1 DEF Complete, Start
    <3>3. QED
      BY <1>1, <1>2, <2>2, <2>3, <3>2 DEF Place
  <2>4. CASE got' # Size
    <3>1. got' < Size /\ rpos' = [k |-> current, part |-> "data", unit |-> got' + 1]
      BY <1>2, <2>1, <2>2, <2>4 DEF NextUnit, At, Chunked, InContent, Size, To
    <3>2. QED
      BY <1>1, <2>1, <2>2, <2>4, <3>1 DEF Place, InContent, At
  <2>5. QED
    BY <2>3, <2>4
<1>4. QED
  BY <1>1, <1>2, <1>3, UnitStep, ContentStep

LEMMA ReadRestStep == IInv /\ ReadRest => IInv'
<1> SUFFICES ASSUME IInv, ReadRest PROVE IInv'
  OBVIOUS
<1>1. pc = "rest" /\ ReadUnit /\ UNCHANGED <<pc, status>> /\ status = "none"
  BY DEF ReadRest, IInv, FieldsInv
<1>2. Place'
  <2>1. ~Framed(requests[current])
    BY <1>1 DEF IInv, Place
  <2>2. Framed(requests'[current']) <=> Framed(requests[current])
    BY <1>1, UnitStep
  <2>3. QED
    BY <1>1, <2>1, <2>2 DEF Place
<1>3. QED
  BY <1>1, <1>2, UnitStep, ContentStep

LEMMA ReadChunkStep == IInv /\ ReadChunk => IInv'
<1> SUFFICES ASSUME IInv, ReadChunk PROVE IInv'
  OBVIOUS
<1>1. pc = "chunk" /\ ReadUnit /\ pc' = "end" /\ UNCHANGED status
  BY DEF ReadChunk
<1>2. /\ current \in 1..MaxRequests /\ Size \in Nat /\ got \in Nat
      /\ fields = "all" /\ status = "none"
  BY <1>1, ContentType
<1>3. Place'
  <2>1. InContent("chunked") /\ got < Size /\ At("data", got + 1)
    BY <1>1 DEF IInv, Place
  <2>2. /\ rpos' = [k |-> current, part |-> "end", unit |-> got'] /\ got' = got + 1 /\ ~mixed'
        /\ Size' = Size /\ UNCHANGED <<requests, current, junk>> /\ Clean'
    BY <2>1, UnitStep, <1>1 DEF At, After, To, Chunked, InContent, Size, Clean
  <2>3. got' <= Size
    BY <1>2, <2>1, <2>2
  <2>4. QED
    BY <1>1, <2>1, <2>2, <2>3 DEF Place, InContent, At
<1>4. QED
  BY <1>1, <1>2, <1>3, UnitStep, ContentStep

\* The lines between the chunks: each has its end, or is the last there is.
LEMMA ReadChunkSizeStep == IInv /\ ReadChunkSize => IInv'
<1> SUFFICES ASSUME IInv, ReadChunkSize PROVE IInv'
  OBVIOUS
<1>1. PICK kind \in Lines :
        /\ GetLine(kind)
        /\ \/ kind = "size" /\ pc' = "chunk" /\ UNCHANGED status
           \/ kind = "last" /\ pc' = "trailer" /\ UNCHANGED status
           \/ kind \notin {"size", "last"} /\ RespondWith("400")
  BY DEF ReadChunkSize
<1>2. /\ pc = "size" /\ UNCHANGED <<continued, current, fields, got, mixed>>
      /\ junk' = FALSE /\ rpos' \in Position /\ begun' \in {"no", begun} /\ torn' \in BOOLEAN
      /\ Take \/ (UNCHANGED rpos /\ (torn => torn'))
      /\ UNCHANGED <<requests, wpos, client, count, answers, gaveUp>>
      /\ Clean /\ kind \notin {"line", "junk"} =>
           kind = Kind(rpos.part) /\ rpos' = After(rpos) /\ torn' = FALSE
  BY <1>1, GetLineStep DEF ReadChunkSize, IInv
<1>3. /\ current \in 1..MaxRequests /\ Size \in Nat /\ got \in Nat
      /\ fields = "all" /\ status = "none"
  BY <1>2, ContentType
<1>4. /\ pc' \in {"chunk", "trailer", "respond"} /\ status' \in {"none", "400"}
      /\ status' # "none" <=> pc' = "respond"
  BY <1>1, <1>3 DEF RespondWith
<1>5. Place'
  <2>1. /\ InContent("chunked")
        /\ \/ got < Size /\ At("size", got + 1)
           \/ got = Size /\ At("last", 0)
    BY <1>2 DEF IInv, Place
  <2>2. CASE pc' = "respond"
    BY <1>4, <2>2 DEF Place
  <2>3. CASE pc' # "respond"
    <3>1. kind \in {"size", "last"} /\ (kind = "size" <=> pc' = "chunk") /\ pc' \in {"chunk", "trailer"}
      BY <1>1, <2>3 DEF RespondWith
    <3>2. /\ kind = Kind(rpos.part) /\ rpos' = After(rpos) /\ torn' = FALSE
      BY <1>2, <2>1, <3>1 DEF InContent
    <3>3. Size' = Size /\ InContent("chunked")'
      BY <1>2, <2>1, <3>2 DEF Size, InContent, Clean
    <3>4. CASE got < Size /\ At("size", got + 1)
      <4>1. kind = "size" /\ rpos' = [k |-> current, part |-> "data", unit |-> got + 1]
        BY <3>2, <3>4 DEF At, Kind, After, To
      <4>2. QED
        BY <1>2, <3>1, <3>3, <3>4, <4>1 DEF Place, At
    <3>5. CASE got = Size /\ At("last", 0)
      <4>1. kind = "last" /\ rpos' = [k |-> current, part |-> "trailer", unit |-> 0]
        BY <3>2, <3>5 DEF At, Kind, After, To
      <4>2. QED
        BY <1>2, <3>1, <3>3, <3>5, <4>1 DEF Place, At
    <3>6. QED
      BY <2>1, <3>4, <3>5
  <2>4. QED
    BY <2>2, <2>3
<1>6. junk' \in BOOLEAN /\ mixed' \in BOOLEAN /\ got' \in Nat
  BY <1>2, <1>3 DEF IInv, TypeOK
<1>7. QED
  BY <1>2, <1>4, <1>5, <1>6, ContentStep

LEMMA ReadEndOfChunkStep == IInv /\ ReadEndOfChunk => IInv'
<1> SUFFICES ASSUME IInv, ReadEndOfChunk PROVE IInv'
  OBVIOUS
<1>1. PICK kind \in Lines :
        /\ GetLine(kind)
        /\ IF kind = "blank" THEN pc' = "size" /\ UNCHANGED status
           ELSE RespondWith("handler")
  BY DEF ReadEndOfChunk
<1>2. /\ pc = "end" /\ UNCHANGED <<continued, current, fields, got, mixed>>
      /\ junk' = FALSE /\ rpos' \in Position /\ begun' \in {"no", begun} /\ torn' \in BOOLEAN
      /\ Take \/ (UNCHANGED rpos /\ (torn => torn'))
      /\ UNCHANGED <<requests, wpos, client, count, answers, gaveUp>>
      /\ \/ rpos' = After(rpos) /\ torn' = FALSE /\ (Clean => kind = Kind(rpos.part))
         \/ Spent' /\ rpos' = rpos /\ kind # "blank"
  BY <1>1, GetLineStep DEF ReadEndOfChunk, IInv
<1>3. /\ current \in 1..MaxRequests /\ Size \in Nat /\ got \in Nat
      /\ fields = "all" /\ status = "none"
  BY <1>2, ContentType
<1>4. /\ pc' \in {"size", "respond"} /\ status' \in {"none", "handler"}
      /\ status' # "none" <=> pc' = "respond"
  BY <1>1, <1>3 DEF RespondWith
<1>5. Place'
  <2>1. InContent("chunked") /\ got <= Size /\ At("end", got)
    BY <1>2 DEF IInv, Place
  <2>2. CASE rpos' = After(rpos) /\ torn' = FALSE /\ (Clean => kind = Kind(rpos.part))
    <3>1. pc' = "size"
      BY <1>1, <2>1, <2>2 DEF At, Kind, InContent
    <3>2. Size' = Size /\ InContent("chunked")'
      BY <1>2, <2>1, <2>2 DEF Size, InContent, Clean
    <3>3. rpos' = NextUnit(rpos, got)
      BY <2>1, <2>2 DEF At, After
    <3>4. \/ got < Size /\ rpos' = [k |-> current, part |-> "size", unit |-> got + 1]
          \/ got = Size /\ rpos' = [k |-> current, part |-> "last", unit |-> 0]
      BY <1>3, <2>1, <3>3 DEF At, NextUnit, Chunked, To, InContent, Size
    <3>5. QED
      BY <1>2, <3>1, <3>2, <3>4 DEF Place, At
  <2>3. CASE Spent' /\ rpos' = rpos /\ kind # "blank"
    <3>1. pc' = "respond"
      BY <1>1, <2>3 DEF RespondWith
    <3>2. Truncated'
      BY <1>2, <2>1, <2>3 DEF Truncated, InContent, At
    <3>3. QED
      BY <1>2, <1>3, <3>1, <3>2 DEF Place
  <2>4. QED
    BY <1>2, <2>2, <2>3
<1>6. junk' \in BOOLEAN /\ mixed' \in BOOLEAN /\ got' \in Nat
  BY <1>2, <1>3 DEF IInv, TypeOK
<1>7. QED
  BY <1>2, <1>4, <1>5, <1>6, ContentStep

LEMMA ReadTrailerStep == IInv /\ ReadTrailer => IInv'
<1> SUFFICES ASSUME IInv, ReadTrailer PROVE IInv'
  OBVIOUS
<1>1. PICK kind \in Lines :
        GetLine(kind) /\ RespondWith(IF kind = "blank" THEN "handler" ELSE "400")
  BY DEF ReadTrailer
<1>2. /\ pc = "trailer" /\ UNCHANGED <<continued, current, fields, got, mixed>>
      /\ junk' = FALSE /\ rpos' \in Position /\ begun' \in {"no", begun} /\ torn' \in BOOLEAN
      /\ Take \/ (UNCHANGED rpos /\ (torn => torn'))
      /\ UNCHANGED <<requests, wpos, client, count, answers, gaveUp>>
      /\ kind = "blank" => rpos' = After(rpos) /\ torn' = FALSE
  BY <1>1, GetLineStep DEF ReadTrailer, IInv
<1>3. /\ current \in 1..MaxRequests /\ Size \in Nat /\ got \in Nat
      /\ fields = "all" /\ status = "none"
  BY <1>2, ContentType
<1>4. pc' = "respond" /\ status' \in {"handler", "400"} /\ (status' = "handler" => kind = "blank")
  BY <1>1 DEF RespondWith
<1>5. Place'
  <2>1. InContent("chunked") /\ got = Size /\ At("trailer", 0)
    BY <1>2 DEF IInv, Place
  <2>2. ASSUME status' = "handler" PROVE Complete'
    <3>1. rpos' = Start(current + 1)
      BY <1>2, <1>4, <2>1, <2>2 DEF At, After
    <3>2. QED
      BY <1>2, <1>4, <2>1, <2>2, <3>1 DEF Complete, InContent, Size, Start, Clean
  <2>3. QED
    BY <1>2, <1>3, <1>4, <2>2 DEF Place
<1>6. junk' \in BOOLEAN /\ mixed' \in BOOLEAN /\ got' \in Nat
  BY <1>2, <1>3 DEF IInv, TypeOK
<1>7. QED
  BY <1>2, <1>4, <1>5, <1>6, ContentStep

-----------------------------------------------------------------------------
(***************************************************************************)
(* The end of a request and of the connection.                             *)
(***************************************************************************)
LEMMA CloseIdleStep == IInv /\ (KeepAliveTimeout \/ CloseIdle \/ NoRequestLine) => IInv'
<1> SUFFICES ASSUME IInv, KeepAliveTimeout \/ CloseIdle \/ NoRequestLine PROVE IInv'
  OBVIOUS
<1>1. /\ UNCHANGED <<requests, wpos, rpos, client, continued, count, current, fields, got, mixed,
                     status, answers>>
      /\ pc \in {"select", "idle", "line"} /\ junk' \in BOOLEAN
      /\ pc' \in {"idle", "closed"}
      /\ begun' \in {"no", begun} /\ torn' \in BOOLEAN /\ (torn => torn')
  <2>1. CASE CloseIdle
    BY <2>1 DEF CloseIdle, wire, parsing, IInv, TypeOK
  <2>2. CASE KeepAliveTimeout \/ NoRequestLine
    BY <2>2, NothingStep DEF KeepAliveTimeout, NoRequestLine, NoLine, Nothing, parsing, IInv, TypeOK
  <2>3. QED
    BY <2>1, <2>2
<1>2. gaveUp' \in BOOLEAN
  BY Zenon DEF KeepAliveTimeout, CloseIdle, NoRequestLine, IInv, TypeOK
<1>3. TypeOK'
  <2>1. begun' \in IF wpos'.k > MaxRequests THEN {"no"} ELSE {"no", "sent", "read"}
    BY <1>1 DEF IInv, TypeOK
  <2>2. QED
    BY <1>1, <1>2, <2>1 DEF IInv, TypeOK, LinePlaces
<1>4. FramesAgree' /\ (AllSound' <=> AllSound)
  BY <1>1, NoAnswer DEF CutAt
<1>5. FieldsInv' /\ FrameInv' /\ Place'
  BY <1>1 DEF IInv, FieldsInv, FrameInv, Place
<1>6. OrderInv'
  <2>1. \A i \in DOMAIN answers : answers[i].of # 0 => Passed(answers[i].of)'
    BY <1>1, AnswerType, PassedStays DEF IInv, OrderInv
  <2>2. QED
    BY <1>1, <2>1 DEF OrderInv
<1>7. CloseAgreed' /\ EndInv'
  <2>1. \A i \in DOMAIN answers' :
           ~answers'[i].asked /\ (answers'[i].close => answers'[i].status = "400")
    BY <1>1 DEF IInv, EndInv
  <2>2. gaveUp' \/ client' = "gone"
    BY DEF KeepAliveTimeout, CloseIdle, NoRequestLine, IInv, EndInv, TypeOK, NoLine, Nothing, wire
  <2>3. pc' = "idle" => gaveUp'
    BY DEF KeepAliveTimeout, CloseIdle, NoRequestLine
  <2>4. Len(answers') \in Nat /\ DOMAIN answers' = 1..Len(answers')
    BY <1>3 DEF TypeOK
  <2>5. QED
    BY <2>1, <2>2, <2>3, <2>4 DEF CloseAgreed, EndInv
<1>8. QED
  BY <1>3, <1>4, <1>5, <1>6, <1>7 DEF IInv

LEMMA RespondStep == IInv /\ Respond => IInv'
<1> SUFFICES ASSUME IInv, Respond PROVE IInv'
  OBVIOUS
<1>0. PICK n \in Nat : n = Len(answers)
  BY DEF IInv, TypeOK
<1> DEFINE answer(s) == [of |-> current, status |-> s, content |-> ContentRead,
                         close |-> CloseAnnounced, asked |-> CloseAsked]
<1>1. PICK s \in IF status = "handler" THEN Handled ELSE {status} :
        answers' = Append(answers, answer(s))
  BY DEF Respond, WriteResponse
<1>2. /\ pc = "respond" /\ status' = "none" /\ CountDown
      /\ UNCHANGED <<requests, wire, continued, parsing, gaveUp>>
  BY DEF Respond
<1>3. UNCHANGED <<requests, wpos, rpos, begun, torn, client, continued, current, fields,
                  junk, got, mixed, gaveUp>>
  BY <1>2 DEF wire, parsing
<1>4. /\ status \in {"handler", "400", "414", "415"} /\ s \in Handled \union {"400", "414", "415"}
      /\ s \in Handled <=> status = "handler"
      /\ status # "handler" => s = status
  BY <1>1, <1>2 DEF IInv, TypeOK, FieldsInv, Handled
<1>5. answer(s) \in Answer
  <2>1. CloseAnnounced \in BOOLEAN /\ CloseAsked \in BOOLEAN
    BY DEF CloseAnnounced, CloseAsked
  <2>2. ContentRead \in {"whole", "part", "mixed"}
    BY DEF ContentRead
  <2>3. current \in 0..MaxRequests
    BY DEF IInv, TypeOK
  <2>4. QED
    BY <1>4, <2>1, <2>2, <2>3 DEF Answer
<1>6. /\ n \in Nat /\ DOMAIN answers = 1..n /\ answers \in Seq(Answer)
      /\ answers' \in Seq(Answer) /\ Len(answers') = n + 1 /\ DOMAIN answers' = 1..(n + 1)
      /\ answers'[n + 1] = answer(s)
      /\ \A i \in 1..n : answers'[i] = answers[i]
  BY <1>0, <1>1, <1>5 DEF IInv, TypeOK
<1> HIDE DEF answer
<1>7. /\ count' \in 1..KeepAliveMax /\ pc' \in {"select", "closed"}
      /\ pc' = "select" => ~CloseAsked /\ count # 1
      /\ pc' = "closed" => CloseAsked \/ count = 1
  BY <1>2, ConnectionAssumption DEF CountDown, IInv, TypeOK
<1>8. TypeOK'
  BY <1>2, <1>3, <1>6, <1>7 DEF IInv, TypeOK, LinePlaces
<1>9. FieldsInv'
  BY <1>2, <1>3, <1>7 DEF IInv, FieldsInv
<1>10. \A i \in 1..n : Sound(i)' <=> Sound(i)
  BY <1>3, <1>6 DEF Sound
<1>11. AllSound => current = n + 1 \/ (status = "400" /\ CutAt(n + 1))
  BY <1>0, <1>2 DEF IInv, FrameInv, Sequence, NextAnswer
<1>12. status = "handler" =>
         /\ current # 0 /\ Passed(current) /\ \A i \in 1..n : answers[i].of < current
         /\ Framed(requests[current]) => Complete \/ Truncated
  BY <1>2, <1>6 DEF IInv, Place, OrderInv
<1>13. FramesAgree'
  <2>1. \A k : CutAt(k)' <=> CutAt(k)
    BY <1>3 DEF CutAt
  <2>2. SUFFICES ASSUME NEW i \in 1..(n + 1)
                 PROVE  /\ (\A j \in 1..(i - 1) : Sound(j)') =>
                             answers'[i].of = i \/ (answers'[i].status = "400" /\ CutAt(i))
                        /\ answers'[i].status \in Handled =>
                             /\ answers'[i].of # 0
                             /\ \A j \in 1..(i - 1) : answers'[j].of < answers'[i].of
                             /\ Framed(requests[answers'[i].of]) =>
                                  \/ answers'[i].content = "whole"
                                  \/ answers'[i].content = "part" /\ CutAt(answers'[i].of)
    BY <1>3, <1>6, <2>1 DEF FramesAgree, Framed
  <2>3. CASE i \in 1..n
    <3>1. \A j \in 1..(i - 1) : j \in 1..n /\ answers'[j] = answers[j] /\ (Sound(j)' <=> Sound(j))
      BY <1>6, <1>10, <2>3
    <3>2. QED
      BY <1>6, <2>3, <3>1 DEF IInv, FramesAgree
  <2>4. CASE i = n + 1
    <3>1. 1..(i - 1) = 1..n
      BY <1>6, <2>4
    <3>2. (\A j \in 1..(i - 1) : Sound(j)') => AllSound
      BY <1>6, <1>10, <3>1 DEF AllSound
    <3>3. /\ answers'[i].of = current /\ answers'[i].status = s
          /\ answers'[i].content = ContentRead
      BY <1>6, <2>4 DEF answer
    <3>4. Complete => ContentRead = "whole"
      BY DEF Complete, ContentRead, Size
    <3>5. Truncated => ContentRead \in {"whole", "part"} /\ CutAt(current)
      BY DEF Truncated, Spent, ContentRead, CutAt
    <3>6. s \in Handled =>
            /\ current # 0
            /\ \A j \in 1..(i - 1) : answers'[j].of < current
            /\ Framed(requests[current]) =>
                 \/ ContentRead = "whole"
                 \/ ContentRead = "part" /\ CutAt(current)
      BY <1>4, <1>6, <1>12, <3>1, <3>4, <3>5
    <3>7. AllSound => current = i \/ (s = "400" /\ CutAt(i))
      BY <1>4, <1>11, <2>4
    <3>8. QED
      BY <3>2, <3>3, <3>6, <3>7
  <2>5. QED
    BY <1>6, <2>3, <2>4
<1>14. FrameInv'
  <2>1. SUFFICES ASSUME AllSound', pc' = "select" PROVE Sequence'
    BY <1>7 DEF FrameInv
  <2>2. AllSound /\ Sound(n + 1)'
    BY <1>6, <1>10, <2>1 DEF AllSound
  <2>3. s \in Handled /\ Framed(requests[n + 1])
    BY <1>3, <1>6, <2>2 DEF Sound, answer, Framed
  <2>4. status = "handler" /\ current = n + 1
    BY <1>4, <1>11, <2>2, <2>3
  <2>5. Complete \/ Truncated
    BY <1>12, <2>3, <2>4
  <2>6. NextAnswer' = n + 2 /\ Len(answers') = n + 1
    BY <1>6 DEF NextAnswer
  <2>7. CASE Complete
    BY <1>3, <1>6, <2>1, <2>4, <2>6, <2>7 DEF Complete, Sequence, Clean, Start
  <2>8. CASE Truncated
    BY <1>3, <2>1, <2>4, <2>6, <2>8 DEF Truncated, Sequence, Spent
  <2>9. QED
    BY <2>5, <2>7, <2>8
<1>15. OrderInv' /\ Place'
  <2>1. ASSUME NEW i \in 1..(n + 1), answers'[i].of # 0 PROVE Passed(answers[i].of)'
    <3>1. CASE i \in 1..n
      BY <1>3, <1>6, <2>1, <3>1 DEF IInv, OrderInv, Passed
    <3>2. CASE i = n + 1
      <4>1. answers'[i].of = current
        BY <1>6, <3>2 DEF answer
      <4>2. QED
        BY <1>2, <1>3, <2>1, <4>1 DEF IInv, OrderInv, Passed
    <3>3. QED
      BY <3>1, <3>2
  <2>2. QED
    BY <1>6, <1>7, <2>1 DEF OrderInv, Place
<1>16. \A i \in 1..n : ~answers'[i].asked /\ (answers'[i].close => answers'[i].status = "400")
  BY <1>2, <1>6 DEF IInv, EndInv
<1>17. EndInv'
  <2>1. SUFFICES ASSUME pc' = "select"
                 PROVE  ~answer(s).asked /\ (answer(s).close => answer(s).status = "400")
    BY <1>6, <1>7, <1>16 DEF EndInv
  <2>2. ~CloseAsked /\ count # 1
    BY <1>7, <2>1
  <2>3. CloseAnnounced => fields = "some"
    BY <2>2 DEF CloseAnnounced, CloseAsked, IInv, TypeOK
  <2>4. fields = "some" => s = "400"
    BY <1>2, <1>4 DEF IInv, FieldsInv
  <2>5. QED
    BY <2>2, <2>3, <2>4 DEF answer
<1>18. CloseAgreed'
  <2>1. pc' = "closed" => answer(s).close \/ answer(s).asked
    BY <1>7 DEF answer, CloseAnnounced
  <2>2. answers' # <<>>
    BY <1>6
  <2>3. QED
    BY <1>6, <1>16, <2>1, <2>2 DEF CloseAgreed
<1>19. QED
  BY <1>8, <1>9, <1>13, <1>14, <1>15, <1>17, <1>18 DEF IInv

LEMMA StepIInv == IInv /\ [Next]_vars => IInv'
<1> SUFFICES ASSUME IInv, [Next]_vars PROVE IInv'
  OBVIOUS
<1>1. CASE UNCHANGED vars
  <2>1. UNCHANGED <<requests, wpos, rpos, begun, torn, client, continued, pc, count, current,
                    fields, junk, got, mixed, status, answers, gaveUp>>
    BY <1>1 DEF vars, wire, parsing
  <2>2. TypeOK' /\ FieldsInv' /\ EndInv' /\ CloseAgreed'
    BY <2>1 DEF IInv, TypeOK, FieldsInv, EndInv, CloseAgreed
  <2>3. FramesAgree' /\ (AllSound' <=> AllSound) /\ NextAnswer' = NextAnswer
    BY <2>1, NoAnswer DEF CutAt
  <2>4. Place'
    BY <2>1 DEF IInv, Place, At, InContent, Size, Framed, Clean, Complete, Truncated, Spent
  <2>5. FrameInv' /\ OrderInv'
    BY <2>1, <2>3 DEF IInv, FrameInv, Sequence, Clean, Spent, CutAt, OrderInv, Passed
  <2>6. QED
    BY <2>2, <2>3, <2>4, <2>5 DEF IInv
<1>2. CASE Write \/ Trickle \/ HangUp
  BY <1>2, ClientStep
<1>3. CASE Reading
  BY <1>3, SelectReadStep, ReadBeginningStep, ReadRequestLineStep, ReadDataStep, ReadFieldStep, EndOfHeadersStep,
     EndOfLongStep, ReadLengthStep, ReadRestStep, EndOfRestStep, ReadChunkSizeStep,
     ReadChunkStep, ReadEndOfChunkStep, ReadTrailerStep DEF Reading
<1>4. CASE GivingUp
  BY <1>4, CloseIdleStep, NoHeadersStep, NoContentStep DEF GivingUp
<1>5. CASE Respond
  BY <1>5, RespondStep
<1>6. QED
  BY <1>1, <1>2, <1>3, <1>4, <1>5 DEF Next, Worker

LEMMA Invariance == Spec => []IInv
BY InitIInv, StepIInv, PTL DEF Spec

-----------------------------------------------------------------------------
(***************************************************************************)
(* The results.                                                            *)
(***************************************************************************)
\* The types; the keep-alive count never passes zero (httplib.h:1372).
THEOREM TypeCorrect == Spec => []TypeOK
<1>1. IInv => TypeOK
  BY DEF IInv
<1>2. QED
  BY <1>1, Invariance, PTL

\* However the requests are framed, pipelined, left off or cut in mid-line, no
\* response goes to the wrong request as long as all go well, and no handler ever
\* sees content that is not its request's, or runs twice for one (httplib.h:1161,
\* 1891, 1939, 1964, 3694, 3718).
THEOREM FramingHolds == Spec => []FramesAgree
<1>1. IInv => FramesAgree
  BY DEF IInv
<1>2. QED
  BY <1>1, Invariance, PTL

\* The end of the connection is announced, and nothing follows what announced
\* it (httplib.h:1379, 3238, 3725).
THEOREM ClosesAreAnnounced == Spec => []CloseAgreed
<1>1. IInv => CloseAgreed
  BY DEF IInv
<1>2. QED
  BY <1>1, Invariance, PTL

-----------------------------------------------------------------------------
(***************************************************************************)
(* The worker of WebServer.                                                *)
(***************************************************************************)
Shown == Pool!HandleRequest("it") \/ Pool!Respond("it") \/ Pool!KeepAliveEnds("it")

AtWork == LinePlaces \union {"select", "length", "rest", "chunk", "idle"}

LEMMA PoolStutters ==
  ASSUME \/ UNCHANGED pc
         \/ pc \in AtWork /\ pc' \in AtWork,
         UNCHANGED count
  PROVE  UNCHANGED Pool!vars
BY DEF AtWork, LinePlaces, One, Pool!vars, Pool!socket, Pool!pool, Pool!service

LEMMA PoolHandles ==
  ASSUME pc \in AtWork, pc' = "respond", UNCHANGED count
  PROVE  Pool!HandleRequest("it")
BY DEF AtWork, LinePlaces, One, Pool!HandleRequest, Pool!socket, Pool!pool

LEMMA PoolResponds ==
  ASSUME pc = "respond", pc' = "select", count > 1, count' = count - 1
  PROVE  Pool!Respond("it")
BY DEF One, Pool!Respond, Pool!socket, Pool!pool

LEMMA PoolCloses ==
  ASSUME pc # "closed", pc' = "closed"
  PROVE  Pool!CloseConn("it") /\ UNCHANGED <<Pool!socket, Pool!pool>>
BY DEF One, Pool!CloseConn, Pool!socket, Pool!pool

LEMMA WorkerShown == IInv /\ [Next]_vars => [Shown]_(Pool!vars)
<1> SUFFICES ASSUME IInv, [Next]_vars PROVE Shown \/ UNCHANGED Pool!vars
  OBVIOUS
<1> USE DEF AtWork, LinePlaces
<1>1. CASE UNCHANGED vars
  BY <1>1, PoolStutters DEF vars
<1>2. CASE Write \/ Trickle \/ HangUp
  BY <1>2, PoolStutters DEF Write, Trickle, Writes, HangUp
<1>3. CASE Reading \/ NoHeaders \/ NoContent \/ KeepAliveTimeout
  <2>1. UNCHANGED count
    BY <1>3, TakeStep, GetLineStep, NothingStep
       DEF IInv, Reading, SelectRead, ReadBeginning, ReadRequestLine, ReadData, ReadField, EndOfHeaders, EndOfLong,
           ReadLength, ReadRest, EndOfRest, ReadChunkSize, ReadChunk, ReadEndOfChunk, ReadTrailer,
           ReadUnit, NoHeaders, NoContent, NoLine, KeepAliveTimeout
  <2>2. pc \in AtWork
    BY <1>3 DEF Reading, SelectRead, ReadBeginning, ReadRequestLine, ReadData, ReadField, EndOfHeaders, EndOfLong,
           ReadLength, ReadRest, EndOfRest, ReadChunkSize, ReadChunk, ReadEndOfChunk, ReadTrailer,
           NoHeaders, NoContent, KeepAliveTimeout
  <2>3. pc' \in AtWork \union {"respond"}
    BY <1>3, <2>2 DEF Reading, SelectRead, ReadBeginning, ReadRequestLine, ReadData, ReadField, EndOfHeaders, EndOfLong,
           ReadLength, ReadRest, EndOfRest, ReadChunkSize, ReadChunk, ReadEndOfChunk, ReadTrailer,
           NoHeaders, NoContent, KeepAliveTimeout, Route, RespondWith
  <2>4. CASE pc' = "respond"
    BY <2>1, <2>2, <2>4, PoolHandles DEF Shown
  <2>5. CASE pc' \in AtWork
    BY <2>1, <2>2, <2>5, PoolStutters
  <2>6. QED
    BY <2>3, <2>4, <2>5
<1>4. CASE CloseIdle \/ NoRequestLine
  <2>1. pc \in {"idle", "line"} /\ pc' = "closed"
    BY <1>4 DEF CloseIdle, NoRequestLine
  <2>2. Pool!CloseConn("it") /\ UNCHANGED <<Pool!socket, Pool!pool>>
    BY <2>1, PoolCloses
  <2>3. Pool!KeepAliveEnds("it")
    BY <2>1, <2>2 DEF One, Pool!KeepAliveEnds
  <2>4. QED
    BY <2>3 DEF Shown
<1>5. CASE Respond
  <2>1. pc = "respond" /\ CountDown
    BY <1>5 DEF Respond
  <2>2. CASE pc' = "closed"
    <3>1. Pool!CloseConn("it") /\ UNCHANGED <<Pool!socket, Pool!pool>>
      BY <2>1, <2>2, PoolCloses
    <3>2. Pool!Respond("it")
      BY <2>1, <3>1 DEF One, Pool!Respond
    <3>3. QED
      BY <3>2 DEF Shown
  <2>3. CASE pc' # "closed"
    <3>1. pc' = "select" /\ count' = count - 1 /\ count > 1
      BY <2>1, <2>3, ConnectionAssumption DEF CountDown, IInv, TypeOK
    <3>2. QED
      BY <2>1, <3>1, PoolResponds DEF Shown
  <2>4. QED
    BY <2>2, <2>3
<1>6. QED
  BY <1>1, <1>2, <1>3, <1>4, <1>5 DEF Next, Worker, GivingUp

\* The life of a connection is what WebServer has a worker do with one.
THEOREM ConnectionImplementsWorker == Spec => ImplementsWorker
<1>1. IInv /\ [Next]_vars =>
        [Pool!HandleRequest("it") \/ Pool!Respond("it") \/ Pool!KeepAliveEnds("it")]_(Pool!vars)
  BY WorkerShown DEF Shown
<1>2. QED
  BY <1>1, Invariance, PTL DEF Spec, ImplementsWorker

-----------------------------------------------------------------------------
(***************************************************************************)
(* The way of the worker to the close.                                     *)
(***************************************************************************)
\* The places of a worker that reads a request.
Midway == {"headers", "long", "length", "rest", "size", "chunk", "end", "trailer"}

LEMMA LeftAtPlace ==
  ASSUME NEW place
  PROVE  /\ place = "select" => LeftAt(place) = 4
         /\ place = "line" => LeftAt(place) = 3
         /\ place \in Midway => LeftAt(place) = 2
         /\ place \in {"idle", "respond"} => LeftAt(place) = 1
         /\ place = "closed" => LeftAt(place) = 0
BY Zenon DEF LeftAt, Midway

\* A part is read, or the beginning of one, or the cut line that is left.
Reads ==
  \/ rpos # wpos /\ rpos' = After(rpos)
  \/ begun = "sent" /\ begun' = "read"
  \/ CutShort /\ ~junk' /\ begun' = "no"

\* A reader keeps the count and goes on to the next place, or reads something.
LEMMA ReadersGoOn ==
  ASSUME TypeOK, TypeOK', Reading \/ GivingUp
  PROVE  /\ UNCHANGED count
         /\ \/ pc = "select" /\ pc' \in {"line", "idle"}
            \/ pc = "line" /\ pc' \in Midway \union {"respond", "closed"}
            \/ pc \in Midway /\ pc' = "respond"
            \/ pc = "idle" /\ pc' = "closed"
            \/ /\ pc' = pc \/ {pc, pc'} \subseteq Midway
               /\ Reads
<1>1. Take => Reads /\ UNCHANGED count
  BY DEF Take, Reads
<1>2. Nothing => UNCHANGED count
  BY DEF Nothing
<1>3. \A kind : GetLine(kind) => Reads /\ UNCHANGED count
  BY <1>1, <1>2 DEF GetLine, Reads, Nothing
<1>4. CASE SelectRead \/ KeepAliveTimeout \/ CloseIdle
  BY <1>2, <1>4 DEF SelectRead, KeepAliveTimeout, CloseIdle
<1>5. CASE ReadBeginning
  BY <1>5 DEF ReadBeginning, Reads
<1>6. CASE ReadRequestLine \/ NoRequestLine
  BY <1>2, <1>3, <1>6 DEF ReadRequestLine, NoRequestLine, NoLine, RespondWith, Midway
<1>7. CASE ReadData
  BY <1>1, <1>7 DEF ReadData
<1>8. CASE ReadField
  BY <1>3, <1>8 DEF ReadField
<1>9. CASE EndOfHeaders
  BY <1>3, <1>9 DEF EndOfHeaders, Route, RespondWith, Midway
<1>10. CASE EndOfLong \/ NoHeaders \/ NoContent \/ EndOfRest
  <2>1. UNCHANGED count
    BY <1>2, <1>3, <1>10 DEF EndOfLong, NoHeaders, NoContent, EndOfRest, NoLine
  <2>2. pc \in Midway /\ pc' = "respond"
    BY <1>10 DEF EndOfLong, NoHeaders, NoContent, EndOfRest, RespondWith, Midway
  <2> QED BY <2>1, <2>2
<1>11. CASE ReadLength \/ ReadRest \/ ReadChunk
  BY <1>1, <1>11 DEF ReadLength, ReadRest, ReadChunk, ReadUnit, RespondWith, Midway
<1>12. CASE ReadChunkSize
  BY <1>3, <1>12 DEF ReadChunkSize, RespondWith, Midway
<1>13. CASE ReadEndOfChunk \/ ReadTrailer
  BY <1>3, <1>13 DEF ReadEndOfChunk, ReadTrailer, RespondWith, Midway
<1>14. QED
  BY <1>4, <1>5, <1>6, <1>7, <1>8, <1>9, <1>10, <1>11, <1>12, <1>13 DEF Reading, GivingUp

LEMMA WorkerShrinks ==
  ASSUME TypeOK, TypeOK', Next
  PROVE  \/ WorkerLeft' < WorkerLeft
         \/ /\ WorkerLeft' = WorkerLeft
            /\ (pc' = pc /\ (Write \/ Trickle \/ HangUp)) \/ Reads
<1>1. count \in Nat /\ count' \in Nat /\ count >= 1
  BY ConnectionAssumption DEF TypeOK
<1>2. /\ pc = "select" => LeftAt(pc) = 4
      /\ pc = "line" => LeftAt(pc) = 3
      /\ pc \in Midway => LeftAt(pc) = 2
      /\ pc \in {"idle", "respond"} => LeftAt(pc) = 1
      /\ pc = "closed" => LeftAt(pc) = 0
  BY LeftAtPlace
<1>3. /\ pc' = "select" => LeftAt(pc') = 4
      /\ pc' = "line" => LeftAt(pc') = 3
      /\ pc' \in Midway => LeftAt(pc') = 2
      /\ pc' \in {"idle", "respond"} => LeftAt(pc') = 1
      /\ pc' = "closed" => LeftAt(pc') = 0
  BY LeftAtPlace
<1>4. CASE Write \/ Trickle \/ HangUp
  <2>1. UNCHANGED <<pc, count>>
    BY <1>4 DEF Write, Trickle, Writes, HangUp
  <2>2. WorkerLeft' = WorkerLeft
    BY <2>1 DEF WorkerLeft
  <2>3. QED
    BY <1>4, <2>1, <2>2
<1>5. CASE Respond
  <2>1. /\ pc = "respond"
        /\ \/ pc' = "closed" /\ count' = count
           \/ pc' = "select" /\ count' = count - 1
    BY <1>5 DEF Respond, CountDown
  <2>2. QED
    BY <1>1, <1>2, <1>3, <2>1 DEF WorkerLeft
<1>6. CASE Reading \/ GivingUp
  <2>1. UNCHANGED count
    BY <1>6, ReadersGoOn
  <2>2. CASE \/ pc = "select" /\ pc' \in {"line", "idle"}
             \/ pc = "line" /\ pc' \in Midway \union {"respond", "closed"}
             \/ pc \in Midway /\ pc' = "respond"
             \/ pc = "idle" /\ pc' = "closed"
    BY <1>1, <1>2, <1>3, <2>1, <2>2 DEF WorkerLeft
  <2>3. CASE /\ pc' = pc \/ {pc, pc'} \subseteq Midway
             /\ Reads
    <3>1. CASE pc' = pc
      <4>1. WorkerLeft' = WorkerLeft
        BY <2>1, <3>1 DEF WorkerLeft
      <4>2. QED
        BY <2>3, <4>1
    <3>2. CASE {pc, pc'} \subseteq Midway
      <4>1. WorkerLeft' = WorkerLeft
        BY <1>2, <1>3, <2>1, <3>2 DEF WorkerLeft
      <4>2. QED
        BY <2>3, <4>1
    <3>3. QED
      BY <2>3, <3>1, <3>2
  <2>4. QED
    BY <1>6, <2>2, <2>3, ReadersGoOn
<1>7. QED
  BY <1>4, <1>5, <1>6 DEF Next, Worker

\* Every step of the worker brings it nearer to the close, but for what the client
\* has written: a part, the beginning of one, or the line it has cut.
THEOREM WorkerOnlyRunsDown == Spec => WorkerRunsDown
<1>1. IInv /\ IInv' /\ [Next]_vars =>
        [\/ WorkerLeft' < WorkerLeft
         \/ /\ WorkerLeft' = WorkerLeft
            /\ \/ pc' = pc /\ (Write \/ Trickle \/ HangUp)
               \/ rpos # wpos /\ rpos' = After(rpos)
               \/ begun = "sent" /\ begun' = "read"
               \/ CutShort /\ ~junk' /\ begun' = "no"]_vars
  BY WorkerShrinks DEF IInv, Reads
<1>2. QED
  BY <1>1, Invariance, PTL DEF Spec, WorkerRunsDown

-----------------------------------------------------------------------------
(***************************************************************************)
(* No request is left unanswered.                                          *)
(***************************************************************************)
\* The worker leaves to the client what the client writes.
LEMMA WorkerOnWire ==
  ASSUME Worker
  PROVE  UNCHANGED <<requests, wpos>>
<1>1. Take => UNCHANGED <<requests, wpos>>
  BY DEF Take
<1>2. Nothing => UNCHANGED <<requests, wpos>>
  BY DEF Nothing
<1>3. \A kind : GetLine(kind) => UNCHANGED <<requests, wpos>>
  BY <1>1, <1>2 DEF GetLine
<1>4. CASE Reading
  BY <1>1, <1>2, <1>3, <1>4
     DEF Reading, SelectRead, ReadBeginning, ReadRequestLine, ReadData, ReadField, EndOfHeaders,
         EndOfLong, ReadLength, ReadRest, EndOfRest, ReadChunkSize, ReadChunk, ReadEndOfChunk,
         ReadTrailer, ReadUnit, NoLine, wire
<1>5. CASE GivingUp \/ Respond
  BY <1>2, <1>5
     DEF GivingUp, KeepAliveTimeout, CloseIdle, NoRequestLine, NoHeaders, NoContent, NoLine,
         Respond, wire
<1>6. QED
  BY <1>4, <1>5 DEF Worker

\* What has been answered stays so.
LEMMA AnsweredStays ==
  ASSUME TypeOK, TypeOK', NEW k \in 1..MaxRequests, Answered(k), UNCHANGED requests,
         UNCHANGED answers \/ \E a \in Answer : answers' = Append(answers, a)
  PROVE  Answered(k)'
<1>1. CASE UNCHANGED answers
  BY <1>1 DEF Answered, Sound, Framed
<1>2. CASE \E a \in Answer : answers' = Append(answers, a)
  <2>1. answers \in Seq(Answer)
    BY DEF TypeOK
  <2>2. /\ Len(answers) \in Nat /\ Len(answers') = Len(answers) + 1
        /\ \A i \in DOMAIN answers : i \in DOMAIN answers' /\ answers'[i] = answers[i]
    BY <1>2, <2>1
  <2>3. QED
    BY <2>2 DEF Answered, Sound, Framed
<1>3. QED
  BY <1>1, <1>2

\* When nothing lies between the two ends and the worker awaits a request, either a frame
\* was lost or all requests written are answered, and none is begun.
LEMMA NothingLeft ==
  ASSUME IInv, Nothing, pc \in {"select", "line"}, NEW k \in 1..MaxRequests,
         wpos.k > k \/ AtContent(k)
  PROVE  Answered(k)
<1>1. CASE AllSound
  <2>1. rpos = wpos
    BY DEF Nothing
  <2>2. Len(answers) \in Nat
    BY DEF IInv, TypeOK
  <2>3. CASE rpos = Start(NextAnswer)
    <3>1. ~AtContent(k) /\ wpos.k = Len(answers) + 1
      BY <2>1, <2>3 DEF AtContent, Start, NextAnswer
    <3>2. QED
      BY <2>2, <3>1 DEF Answered
  <2>4. CASE rpos.k = Len(answers)
    <3>1. wpos.k = Len(answers) /\ (wpos.k > k \/ wpos.k = k)
      BY <2>1, <2>4 DEF AtContent
    <3>2. QED
      BY <2>2, <3>1 DEF Answered
  <2>5. QED
    BY <1>1, <2>3, <2>4 DEF IInv, FrameInv, Sequence
<1>2. CASE ~AllSound
  BY <1>2 DEF AllSound, Answered
<1>3. QED
  BY <1>1, <1>2

\* The last response of a connection says so, or answers a request that does.
LEMMA LastAnswers ==
  ASSUME IInv, IInv', Respond, pc' = "closed", NEW k \in 1..MaxRequests
  PROVE  Answered(k)'
<1>1. CloseAsked \/ CloseAnnounced
  BY DEF Respond, CountDown, CloseAnnounced
<1>2. PICK a : answers' = Append(answers, a) /\ a.close = CloseAnnounced /\ a.asked = CloseAsked
  BY DEF Respond, WriteResponse
<1>3. answers \in Seq(Answer) /\ answers' \in Seq(Answer)
  BY DEF IInv, TypeOK
<1>4. Len(answers') \in DOMAIN answers' /\ answers'[Len(answers')] = a
  BY <1>2, <1>3
<1>5. QED
  BY <1>1, <1>2, <1>4 DEF Answered

\* What the worker stops after.
LEMMA WorkerStops ==
  ASSUME IInv, Worker, IsServing, ~IsServing'
  PROVE  \/ Nothing /\ pc \in {"select", "line"}
         \/ Respond /\ pc' = "closed"
<1> USE DEF IsServing
<1>1. CASE Reading \/ NoHeaders \/ NoContent
  BY <1>1
     DEF Reading, SelectRead, ReadBeginning, ReadRequestLine, ReadData, ReadField, EndOfHeaders, EndOfLong,
         ReadLength, ReadRest, EndOfRest, ReadChunkSize, ReadChunk, ReadEndOfChunk, ReadTrailer,
         NoHeaders, NoContent, RespondWith, ReadUnit, Route
<1>2. CASE KeepAliveTimeout \/ CloseIdle \/ NoRequestLine
  BY <1>2 DEF KeepAliveTimeout, CloseIdle, NoRequestLine, NoLine
<1>3. CASE Respond
  BY <1>3 DEF Respond, CountDown
<1>4. QED
  BY <1>1, <1>2, <1>3 DEF Worker, GivingUp

\* The client only goes on, and not while it waits.
LEMMA ClientGoesOn ==
  ASSUME TypeOK, Write \/ Trickle \/ HangUp, NEW k \in 1..MaxRequests
  PROVE  /\ Arrived(k) => Arrived(k)'
         /\ AwaitsContinue(k) => AwaitsContinue(k)'
<1>1. CASE Write
  <2>1. wpos \in Position /\ wpos.k \in Nat /\ wpos' = After(wpos)
    BY <1>1 DEF Write, Writes, TypeOK, Position
  <2>2. wpos'.k \in {wpos.k, wpos.k + 1}
    BY <2>1 DEF After, NextUnit, To, Start, Position, Part
  <2>3. Arrived(k) => Arrived(k)'
    BY <1>1, <2>1, <2>2 DEF Arrived, Write, Writes
  <2>4. ~AwaitsContinue(k)
    BY <1>1 DEF Write, Writes, AwaitsContinue, AtContent
  <2>5. QED
    BY <2>3, <2>4
<1>2. CASE Trickle \/ HangUp
  BY <1>2 DEF Trickle, Writes, HangUp, Arrived, AwaitsContinue, AtContent
<1>3. QED
  BY <1>1, <1>2

\* Nor does the worker stop for one whose time has come.
LEMMA WorkerKeeps ==
  ASSUME IInv, IInv', Worker, NEW k \in 1..MaxRequests, IsServing,
         wpos.k > k \/ AwaitsContinue(k)
  PROVE  IsServing' \/ Answered(k)'
<1> SUFFICES ASSUME ~IsServing' PROVE Answered(k)'
  OBVIOUS
<1>1. CASE Nothing /\ pc \in {"select", "line"}
  <2>1. Answered(k)
    BY <1>1, NothingLeft DEF AwaitsContinue
  <2>2. UNCHANGED <<requests, answers>>
    BY <1>1 DEF Nothing
  <2>3. QED
    BY <2>1, <2>2, AnsweredStays DEF IInv
<1>2. CASE Respond /\ pc' = "closed"
  BY <1>2, LastAnswers
<1>3. QED
  BY <1>1, <1>2, WorkerStops

\* A request that has been written whole is not left, nor is a client that awaits "100
\* Continue" (the safety half of RequestIsAnswered).
THEOREM NoRequestIsDropped == Spec => RequestsAreKept
<1>1. ASSUME IInv, IInv', [Next]_vars, NEW k \in 1..MaxRequests
      PROVE  /\ Arrived(k) => Arrived(k)' \/ Answered(k)'
             /\ AwaitsContinue(k) /\ IsServing =>
                  \/ AwaitsContinue(k)' /\ IsServing'
                  \/ k \in continued' \/ Answered(k)'
  <2>1. CASE Write \/ Trickle \/ HangUp
    <3>1. UNCHANGED pc
      BY <2>1 DEF Write, Trickle, Writes, HangUp
    <3>2. QED
      BY <1>1, <2>1, <3>1, ClientGoesOn DEF IInv, IsServing
  <2>2. CASE Worker
    <3>1. UNCHANGED <<requests, wpos>>
      BY <2>2, WorkerOnWire
    <3>2. Arrived(k) => Arrived(k)' \/ Answered(k)'
      BY <1>1, <2>2, <3>1, WorkerKeeps DEF Arrived, IsServing
    <3>3. AwaitsContinue(k) => AwaitsContinue(k)' \/ k \in continued'
      BY <3>1 DEF AwaitsContinue, AtContent
    <3>4. QED
      BY <1>1, <2>2, <3>2, <3>3, WorkerKeeps
  <2>3. CASE UNCHANGED vars
    <3>1. UNCHANGED <<requests, wpos, continued, pc>>
      BY <2>3 DEF vars, wire
    <3>2. Arrived(k)' <=> Arrived(k)
      BY <3>1 DEF Arrived
    <3>3. AwaitsContinue(k)' <=> AwaitsContinue(k)
      BY <3>1 DEF AwaitsContinue, AtContent
    <3>4. QED
      BY <3>1, <3>2, <3>3 DEF IsServing
  <2>4. QED
    BY <1>1, <2>1, <2>2, <2>3 DEF Next
<1>2. IInv /\ IInv' /\ [Next]_vars =>
        [\A k \in 1..MaxRequests :
           /\ Arrived(k) => Arrived(k)' \/ Answered(k)'
           /\ AwaitsContinue(k) /\ IsServing =>
                \/ AwaitsContinue(k)' /\ IsServing'
                \/ k \in continued' \/ Answered(k)']_vars
  BY <1>1
<1>3. QED
  BY <1>2, Invariance, PTL DEF Spec, RequestsAreKept

=============================================================================
