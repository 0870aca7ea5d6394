------------------------------- MODULE GuestProofs ------------------------------
(***************************************************************************)
(* Proofs of the invariants of Guest, for every size of a read, every      *)
(* longest line that fits three reads, and every bound.                    *)
(*                                                                         *)
(* The buffer has room because what it holds before a read is the          *)
(* beginning of one line (BufferBegins, BufferIsPart), and a line is short *)
(* (LinesAreShort).                                                        *)
(***************************************************************************)
EXTENDS Guest, TLAPS

\* What follows the beginning of a line is its end, or less than the longest line.
LinesAreShort ==
    \A b \in Begins :
        \/ written < b + MaxLine
        \/ \E e \in ends : b < e /\ e <= b + MaxLine

\* The buffer begins where a line does.
BufferBegins == kept \in Begins

\* Between two reads of a call, and between calls, there is no end of a line in it.
BufferIsPart == EndsIn(kept, taken) = {}

\* A call that gives up counts one error more, and three of them end the connection.
ErrorsLeft ==
    /\ pc \in {"idle", "read"} /\ connected => errors < Faults
    /\ pc = "read" => connected
    /\ pc = "connect" => ~connected

\* A line that was returned was read, and a call that fails returns none.
AnswerWasRead ==
    /\ answer # NoLine => answer.to <= taken
    /\ pc = "none" => answer = NoLine

IInv ==
    /\ TypeOK
    /\ LinesAreShort
    /\ BufferBegins
    /\ BufferIsPart
    /\ ErrorsLeft
    /\ AnswerWasRead
    /\ AnswerIsOneLine
    /\ AnswerIsNewest

-------------------------------------------------------------------------------

\* A read takes a byte at least, and no byte that is not there.
LEMMA ReadEndBounds ==
    ASSUME TypeOK, taken < written
    PROVE  ReadEnd \in Nat /\ taken < ReadEnd /\ ReadEnd <= written
BY GuestAssumption DEF TypeOK, ReadEnd

\* The empty line, which stands for no answer, has the type of a line.
LEMMA NoLineIsALine == NoLine \in [from : Nat, to : Nat]
BY DEF NoLine

\* The initial state.
LEMMA GuestInit == Init => IInv
<1> SUFFICES ASSUME Init PROVE IInv
  OBVIOUS
<1> USE GuestAssumption DEF Init
<1>1. TypeOK
  <2>1. answer \in [from : Nat, to : Nat]
    BY NoLineIsALine
  <2>2. 0 \in 0 .. Bytes /\ 0 \in 0 .. Connections /\ 0 \in 0 .. Faults
    BY DEF Faults
  <2>3. running \in BOOLEAN /\ connected \in BOOLEAN
    OBVIOUS
  <2>4. kept \in Nat /\ taken \in Nat /\ kept <= taken /\ taken <= written
    OBVIOUS
  <2>5. ends \subseteq 1 .. written /\ pc \in {"idle", "connect", "read", "none"}
    OBVIOUS
  <2> QED
    BY <2>1, <2>2, <2>3, <2>4, <2>5 DEF TypeOK
<1>2. LinesAreShort
  BY DEF LinesAreShort, Begins
<1>3. BufferBegins /\ BufferIsPart /\ ErrorsLeft
  BY DEF BufferBegins, BufferIsPart, ErrorsLeft, Begins, EndsIn, Faults
<1>4. AnswerWasRead /\ AnswerIsOneLine /\ AnswerIsNewest
  BY DEF AnswerWasRead, AnswerIsOneLine, AnswerIsNewest
<1> QED
  BY <1>1, <1>2, <1>3, <1>4 DEF IInv

\* The guest prints one byte: it keeps its lines short.
LEMMA PrintKeeps ==
    ASSUME IInv, PrintByte
    PROVE  IInv'
<1> USE GuestAssumption DEF IInv, PrintByte, buffer
<1>1. TypeOK'
  BY DEF TypeOK
<1>2. LinesAreShort'
  <2>1. PICK last \in Begins : written + 1 < last + MaxLine /\ EndsIn(last, written) = {}
    OBVIOUS
  <2> SUFFICES ASSUME NEW b \in Begins, ~ \E e \in ends : b < e /\ e <= b + MaxLine
               PROVE  written + 1 < b + MaxLine
    BY DEF LinesAreShort, Begins
  <2>2. written < b + MaxLine
    BY DEF LinesAreShort
  <2>3. ~(last < b)
    BY <2>1 DEF TypeOK, Begins, EndsIn
  <2>4. ~(b < last)
    BY <2>2 DEF TypeOK, Begins
  <2> QED
    BY <2>1, <2>3, <2>4 DEF TypeOK, Begins
<1>3. BufferBegins' /\ BufferIsPart' /\ ErrorsLeft' /\ AnswerWasRead'
  BY DEF BufferBegins, BufferIsPart, ErrorsLeft, AnswerWasRead, Begins, EndsIn
<1>4. AnswerIsOneLine' /\ AnswerIsNewest'
  BY DEF AnswerIsOneLine, AnswerIsNewest, Begins, EndsIn
<1> QED
  BY <1>1, <1>2, <1>3, <1>4

\* The end of a line is after all that was read.
LEMMA PrintEndKeeps ==
    ASSUME IInv, PrintEnd
    PROVE  IInv'
<1> USE GuestAssumption DEF IInv, PrintEnd, buffer
<1>1. TypeOK'
  BY DEF TypeOK
<1>2. LinesAreShort'
  <2> SUFFICES ASSUME NEW b \in Begins'
               PROVE  \/ written' < b + MaxLine
                      \/ \E e \in ends' : b < e /\ e <= b + MaxLine
    BY DEF LinesAreShort
  <2>1. CASE b \in Begins
    BY <2>1 DEF LinesAreShort, TypeOK, Begins
  <2>2. CASE b = written + 1
    BY <2>2 DEF TypeOK
  <2> QED
    BY <2>1, <2>2 DEF Begins
<1>3. BufferBegins' /\ ErrorsLeft' /\ AnswerWasRead'
  BY DEF BufferBegins, ErrorsLeft, AnswerWasRead, Begins
<1>4. ASSUME NEW x \in Nat, NEW y \in Nat, y <= taken
      PROVE  EndsIn(x, y)' = EndsIn(x, y)
  BY <1>4 DEF EndsIn, TypeOK
<1>5. BufferIsPart'
  BY <1>4 DEF BufferIsPart, TypeOK
<1>6. AnswerIsOneLine' /\ AnswerIsNewest'
  BY <1>4 DEF AnswerIsOneLine, AnswerIsNewest, AnswerWasRead, Begins, TypeOK
<1> QED
  BY <1>1, <1>2, <1>3, <1>5, <1>6

\* Every read leaves the buffer with the beginning of one line.
LEMMA ReadKeeps ==
    ASSUME IInv, ReadPart \/ ReadTail \/ ReadLine
    PROVE  IInv'
<1> USE GuestAssumption DEF IInv, Reads, guest
<1>0. /\ pc = "read" /\ faults < Faults /\ taken < written /\ taken' = ReadEnd
      /\ running' = running /\ written' = written /\ ends' = ends
      /\ connected' = connected /\ opened' = opened
  BY DEF ReadPart, ReadTail, ReadLine
<1>1. ReadEnd \in Nat /\ taken < ReadEnd /\ ReadEnd <= written
  BY <1>0, ReadEndBounds
<1>2. LinesAreShort'
  BY <1>0 DEF LinesAreShort, Begins
<1>3. CASE ReadPart
  <2>1. kept' = kept /\ faults' = faults + 1 /\ errors' = errors /\ pc' = pc /\ answer' = answer
    BY <1>3 DEF ReadPart, Incomplete
  <2>2. TypeOK'
    BY <1>0, <1>1, <2>1 DEF TypeOK, Faults
  <2>3. BufferBegins' /\ BufferIsPart'
    BY <1>0, <1>3, <2>1 DEF ReadPart, BufferBegins, BufferIsPart, Begins, EndsIn
  <2>4. ErrorsLeft' /\ AnswerWasRead' /\ AnswerIsNewest'
    BY <1>0, <1>1, <2>1 DEF ErrorsLeft, AnswerWasRead, AnswerIsNewest, TypeOK
  <2>5. AnswerIsOneLine'
    BY <1>0, <2>1 DEF AnswerIsOneLine, Begins, EndsIn
  <2> QED
    BY <1>2, <2>2, <2>3, <2>4, <2>5
<1>4. CASE ReadTail
  <2>1. faults' = faults + 1 /\ errors' = errors /\ pc' = pc /\ answer' = answer
    BY <1>4 DEF ReadTail, Incomplete
  <2>2. PICK last \in EndsIn(kept, ReadEnd) :
          EndsIn(last, ReadEnd) = {} /\ last < ReadEnd /\ kept' = last
    BY <1>4 DEF ReadTail
  <2>3. TypeOK'
    BY <1>0, <1>1, <2>1, <2>2 DEF TypeOK, Faults, EndsIn
  <2>4. BufferBegins' /\ BufferIsPart'
    BY <1>0, <2>2 DEF BufferBegins, BufferIsPart, Begins, EndsIn
  <2>5. ErrorsLeft' /\ AnswerWasRead' /\ AnswerIsNewest'
    BY <1>0, <1>1, <2>1 DEF ErrorsLeft, AnswerWasRead, AnswerIsNewest, TypeOK
  <2>6. AnswerIsOneLine'
    BY <1>0, <2>1 DEF AnswerIsOneLine, Begins, EndsIn
  <2> QED
    BY <1>2, <2>3, <2>4, <2>5, <2>6
<1>5. CASE ReadLine
  <2>1. PICK n \in ends : n = ReadEnd
    BY <1>5 DEF ReadLine, EndsIn
  <2>2. /\ kept' = n /\ taken' = n /\ errors' = 0 /\ pc' = "idle" /\ faults' = faults
        /\ n \in Nat /\ n <= written /\ n > 0
    BY <1>0, <1>1, <1>5, <2>1 DEF ReadLine, TypeOK
  <2>3. PICK b \in Begins :
          EndsIn(b, n) = {n} /\ answer' = [from |-> b, to |-> n]
    BY <1>5, <2>1 DEF ReadLine
  <2>4. b \in Nat
    BY DEF TypeOK, Begins
  <2>5. TypeOK'
    BY <1>0, <2>2, <2>3, <2>4 DEF TypeOK, Faults
  <2>6. EndsIn(n, n) = {}
    <3>1. ends \subseteq Int
      BY DEF TypeOK
    <3>2. \A e \in ends : ~(n < e /\ e <= n)
      BY <2>2, <3>1
    <3> QED
      BY <3>2 DEF EndsIn
  <2>7. BufferBegins' /\ BufferIsPart'
    BY <1>0, <2>2, <2>6 DEF BufferBegins, BufferIsPart, Begins, EndsIn
  <2>8. ErrorsLeft' /\ AnswerWasRead'
    BY <1>0, <2>2, <2>3 DEF ErrorsLeft, AnswerWasRead, Faults
  <2>9. answer'.from = b /\ answer'.to = n
    BY <2>3
  <2>10. AnswerIsNewest'
    BY <1>0, <2>2, <2>6, <2>9 DEF AnswerIsNewest, EndsIn
  <2>11. AnswerIsOneLine'
    BY <1>0, <2>3, <2>9 DEF AnswerIsOneLine, Begins, EndsIn
  <2> QED
    BY <1>2, <2>5, <2>7, <2>8, <2>10, <2>11
<1> QED
  BY <1>3, <1>4, <1>5

\* A step that leaves the pipe and the buffer alone.
LEMMA BufferKeeps ==
    ASSUME IInv, UNCHANGED <<written, ends, buffer>>
    PROVE  LinesAreShort' /\ BufferBegins' /\ BufferIsPart'
BY DEF IInv, buffer, LinesAreShort, BufferBegins, BufferIsPart, Begins, EndsIn

\* A step that also ends without an answer, or leaves the one there is.
LEMMA OtherKeeps ==
    ASSUME IInv, Exit \/ ConnectThrows \/ Pull \/ ReadFails \/ GiveUp \/ Patience \/ Reconnect
    PROVE  IInv'
<1> USE GuestAssumption DEF guest, buffer
<1>1. UNCHANGED <<written, ends, buffer, opened>>
  BY DEF Exit, ConnectThrows, Pull, ReadFails, GiveUp, NoAnswer, Patience, Reconnect
<1>2. LinesAreShort' /\ BufferBegins' /\ BufferIsPart'
  BY <1>1, BufferKeeps
<1>3. answer' = answer \/ answer' = NoLine
  BY DEF Exit, ConnectThrows, Pull, ReadFails, GiveUp, NoAnswer, Patience, Reconnect
<1>4. AnswerIsOneLine'
  BY <1>1, <1>3 DEF IInv, AnswerIsOneLine, Begins, EndsIn
<1>5. TypeOK' /\ ErrorsLeft' /\ AnswerWasRead'
  <2>1. CASE Exit
    BY <2>1 DEF Exit, IInv, TypeOK, ErrorsLeft, AnswerWasRead
  <2>2. CASE ConnectThrows
    BY <2>2, NoLineIsALine DEF ConnectThrows, IInv, TypeOK, ErrorsLeft, AnswerWasRead
  <2>3. CASE Pull
    BY <2>3 DEF Pull, IInv, TypeOK, ErrorsLeft, AnswerWasRead, Faults
  <2>4. CASE ReadFails \/ GiveUp
    <3>1. NoAnswer /\ pc = "read"
      BY <2>4 DEF ReadFails, GiveUp
    <3>2. errors' \in 0 .. Faults
      BY <3>1 DEF NoAnswer, IInv, TypeOK, ErrorsLeft, Faults
    <3>3. TypeOK'
      BY <3>1, <3>2, NoLineIsALine DEF NoAnswer, IInv, TypeOK
    <3>4. ErrorsLeft' /\ AnswerWasRead'
      BY <3>1 DEF NoAnswer, ErrorsLeft, AnswerWasRead
    <3> QED
      BY <3>3, <3>4
  <2>5. CASE Patience
    BY <2>5 DEF Patience, IInv, TypeOK, ErrorsLeft, AnswerWasRead, Faults
  <2>6. CASE Reconnect
    BY <2>6 DEF Reconnect, IInv, TypeOK, ErrorsLeft, AnswerWasRead, Faults
  <2> QED
    BY <2>1, <2>2, <2>3, <2>4, <2>5, <2>6
<1>6. AnswerIsNewest'
  BY <1>1 DEF Exit, ConnectThrows, Pull, ReadFails, GiveUp, NoAnswer, Patience, Reconnect,
     IInv, AnswerIsNewest, AnswerWasRead, EndsIn
<1> QED
  BY <1>2, <1>4, <1>5, <1>6 DEF IInv

\* A new connection has nothing in its pipe.
LEMMA ConnectKeeps ==
    ASSUME IInv, Connect
    PROVE  IInv'
BY GuestAssumption DEF Connect, IInv, TypeOK, LinesAreShort, BufferBegins, BufferIsPart,
   ErrorsLeft, AnswerWasRead, AnswerIsOneLine, AnswerIsNewest, Begins, EndsIn, NoLine, Faults

\* The steps of the specification keep the invariant.
LEMMA GuestSteps == IInv /\ [Next]_vars => IInv'
<1> SUFFICES ASSUME IInv, [Next]_vars PROVE IInv'
  OBVIOUS
<1>1. CASE UNCHANGED vars
  BY <1>1 DEF vars, guest, buffer, IInv, TypeOK, LinesAreShort, BufferBegins, BufferIsPart,
     ErrorsLeft, AnswerWasRead, AnswerIsOneLine, AnswerIsNewest, Begins, EndsIn
<1> QED
  BY <1>1, PrintKeeps, PrintEndKeeps, ReadKeeps, OtherKeeps, ConnectKeeps
     DEF Next, Agent, GetLastLine

-------------------------------------------------------------------------------

\* The inductive invariant of the connection.
THEOREM GuestInvariant == Spec => []IInv
BY GuestInit, GuestSteps, PTL DEF Spec

\* Every variable keeps its type, and the buffer is between what was taken and printed.
THEOREM GuestTypeCorrect == Spec => []TypeOK
<1>1. IInv => TypeOK
  BY DEF IInv
<1> QED
  BY <1>1, GuestInvariant, PTL

\* The assertion of getLastLine holds for every line of three reads at most.
THEOREM GuestBufferHasRoom == Spec => []BufferHasRoom
<1>1. IInv => BufferHasRoom
  <2> SUFFICES ASSUME IInv PROVE taken - kept < BufferSize - ReadSize
    BY DEF BufferHasRoom
  <2>1. \/ written < kept + MaxLine
        \/ \E e \in ends : kept < e /\ e <= kept + MaxLine
    BY DEF IInv, LinesAreShort, BufferBegins
  <2>2. taken < kept + MaxLine
    BY <2>1, GuestAssumption DEF IInv, BufferIsPart, EndsIn, TypeOK
  <2> QED
    BY <2>2, GuestAssumption DEF BufferSize, Faults, IInv, TypeOK
<1> QED
  BY <1>1, GuestInvariant, PTL

\* An answer is one whole line, and the newest one that was read.
THEOREM GuestAnswers == Spec => []AnswerIsTheNewestLine
<1>1. IInv => AnswerIsTheNewestLine
  BY DEF IInv, AnswerIsTheNewestLine
<1> QED
  BY <1>1, GuestInvariant, PTL

\* A connection does not outlive three errors.
THEOREM GuestErrors == Spec => []ErrorsAreBounded
<1>1. IInv => ErrorsAreBounded
  BY DEF IInv, ErrorsLeft, ErrorsAreBounded
<1> QED
  BY <1>1, GuestInvariant, PTL

===============================================================================
