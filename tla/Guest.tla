---------------------------------- MODULE Guest ---------------------------------
(***************************************************************************)
(* The connection to a Linux VM of src/ve.cpp: a program in the guest      *)
(* prints a line of counters now and then, and the agent reads the pipe of *)
(* its output at each pull (dataFromLinVM), on the scheduler thread.       *)
(*                                                                         *)
(* A byte is its position in what the program has printed.  The buffer has *)
(* the bytes after kept, up to taken; readBytes is taken - kept.           *)
(***************************************************************************)
EXTENDS Integers, FiniteSets

CONSTANTS
    ReadSize,   \* readSize: the bytes of one read
    MaxLine,    \* the bytes of the longest line, its end included
    Bytes,      \* bound of the bytes that a program prints
    Connections \* bound of the connections

\* maxFaults, and bufferSize in reads.
Faults == 3
BufferSize == 4 * ReadSize

\* The line that the program prints fits three reads.
ASSUME GuestAssumption ==
    /\ ReadSize \in Nat \ {0}
    /\ MaxLine \in Nat \ {0} /\ MaxLine <= Faults * ReadSize
    /\ Bytes \in Nat /\ Connections \in Nat

VARIABLES
    \* the guest
    running,    \* does the program run?
    written,    \* the bytes that it has printed
    ends,       \* the positions of the ends of lines among them
    \* the agent
    connected,  \* is there a ConnectionToVM for the VM?
    opened,     \* how many there were, each with two descriptors, none ever closed
    kept,
    taken,
    errors,
    pc,
    faults,
    answer      \* the line that getLastLine returned, or NoLine

guest == <<running, written, ends>>
buffer == <<kept, taken>>
vars == <<guest, connected, opened, buffer, errors, pc, faults, answer>>

NoLine == [from |-> 0, to |-> 0]

\* Where lines begin.
Begins == ends \cup {0}

\* The ends of lines in the bytes after x up to y.
EndsIn(x, y) == {e \in ends : x < e /\ e <= y}

Init ==
    /\ running = FALSE
    /\ written = 0 /\ ends = {}
    /\ connected = FALSE /\ opened = 0
    /\ kept = 0 /\ taken = 0
    /\ errors = 0
    /\ pc = "idle" /\ faults = 0
    /\ answer = NoLine

-------------------------------------------------------------------------------
(* The guest.                                                              *)

\* The next byte of a line, and its last.
PrintByte ==
    /\ running
    /\ written < Bytes
    /\ \E b \in Begins : written + 1 < b + MaxLine /\ EndsIn(b, written) = {}
    /\ written' = written + 1
    /\ UNCHANGED <<running, ends, connected, opened, buffer, errors, pc, faults, answer>>

PrintEnd ==
    /\ running
    /\ written < Bytes
    /\ written' = written + 1
    /\ ends' = ends \cup {written + 1}
    /\ UNCHANGED <<running, connected, opened, buffer, errors, pc, faults, answer>>

Exit ==
    /\ running
    /\ running' = FALSE
    /\ UNCHANGED <<written, ends, connected, opened, buffer, errors, pc, faults, answer>>

-------------------------------------------------------------------------------
(* The agent.                                                              *)

\* ConnectionToVM::ConnectionToVM, which throws if the guest does not let it in.
\* The agent keeps the writing end of the pipe: no read meets the end of it.
Connect ==
    /\ pc = "connect"
    /\ opened < Connections
    /\ opened' = opened + 1
    /\ connected' = TRUE /\ running' = TRUE
    /\ written' = 0 /\ ends' = {} /\ kept' = 0 /\ taken' = 0
    /\ errors' = 0
    /\ pc' = "idle" /\ answer' = NoLine
    /\ UNCHANGED faults

ConnectThrows ==
    /\ pc = "connect"
    /\ pc' = "idle" /\ answer' = NoLine
    /\ UNCHANGED <<guest, connected, opened, buffer, errors, faults>>

\* dataFromLinVM.
Pull ==
    /\ pc = "idle"
    /\ pc' = IF connected THEN "read" ELSE "connect"
    /\ faults' = 0
    /\ UNCHANGED <<guest, connected, opened, buffer, errors, answer>>

\* Where a read ends.  It waits while there is nothing to read.
ReadEnd == IF written - taken < ReadSize THEN written ELSE taken + ReadSize

Reads ==
    /\ pc = "read" /\ faults < Faults
    /\ taken < written
    /\ taken' = ReadEnd
    /\ UNCHANGED <<guest, connected, opened>>

Incomplete ==
    /\ faults' = faults + 1
    /\ UNCHANGED <<errors, pc, answer>>

\* No end of a line.
ReadPart ==
    /\ Reads
    /\ EndsIn(kept, ReadEnd) = {}
    /\ UNCHANGED kept
    /\ Incomplete

\* Mutant of ReadTail: the tail is not moved to the front of the buffer.
ReadTailStays ==
    /\ Reads
    /\ \E last \in EndsIn(kept, ReadEnd) : EndsIn(last, ReadEnd) = {} /\ last < ReadEnd
    /\ UNCHANGED kept
    /\ Incomplete

\* Something after the last end of a line: what was before is dropped.
ReadTail ==
    /\ Reads
    /\ \E last \in EndsIn(kept, ReadEnd) :
         /\ EndsIn(last, ReadEnd) = {}
         /\ last < ReadEnd
         /\ kept' = last
    /\ Incomplete

\* Mutant of ReadLine: the string up to the end before the last is returned.
ReadOld ==
    /\ Reads
    /\ ReadEnd \in EndsIn(kept, ReadEnd)
    /\ \E b \in EndsIn(kept, ReadEnd) :
         /\ \A e \in EndsIn(kept, ReadEnd) : b <= e
         /\ answer' = [from |-> kept, to |-> b]
    /\ UNCHANGED kept
    /\ errors' = 0
    /\ pc' = "idle"
    /\ UNCHANGED faults

\* The bytes end with the end of a line: the last line is the answer.
ReadLine ==
    /\ Reads
    /\ ReadEnd \in EndsIn(kept, ReadEnd)
    /\ \E b \in Begins :
         /\ kept <= b /\ b < ReadEnd
         /\ EndsIn(b, ReadEnd) = {ReadEnd}
         /\ answer' = [from |-> b, to |-> ReadEnd]
    /\ kept' = ReadEnd
    /\ errors' = 0
    /\ pc' = "idle"
    /\ UNCHANGED faults

NoAnswer ==
    /\ errors' = errors + 1
    /\ answer' = NoLine
    /\ pc' = "none"
    /\ UNCHANGED <<guest, connected, opened, buffer, faults>>

\* read() returns -1.
ReadFails == pc = "read" /\ faults < Faults /\ NoAnswer

GiveUp == pc = "read" /\ faults = Faults /\ NoAnswer

\* jobAlive() and not lostSignal().
Patience ==
    /\ pc = "none"
    /\ running /\ errors # Faults
    /\ pc' = "idle"
    /\ UNCHANGED <<guest, connected, opened, buffer, errors, faults, answer>>

\* ConnectionToVM::~ConnectionToVM, and the constructor again.
Reconnect ==
    /\ pc = "none"
    /\ ~running \/ errors = Faults
    /\ connected' = FALSE
    /\ running' = FALSE
    /\ pc' = "connect"
    /\ UNCHANGED <<written, ends, opened, buffer, errors, faults, answer>>

GetLastLine == ReadPart \/ ReadTail \/ ReadLine \/ GiveUp

Agent == Connect \/ ConnectThrows \/ Pull \/ GetLastLine \/ Patience \/ Reconnect

Next == PrintByte \/ PrintEnd \/ Exit \/ Agent \/ ReadFails

Spec == Init /\ [][Next]_vars

-------------------------------------------------------------------------------
(* Properties.                                                             *)

\* Types of the variables; the buffer is between the start and what was printed.
TypeOK ==
    /\ running \in BOOLEAN /\ connected \in BOOLEAN
    /\ written \in 0 .. Bytes
    /\ ends \subseteq 1 .. written
    /\ opened \in 0 .. Connections
    /\ kept \in Nat /\ taken \in Nat
    /\ kept <= taken /\ taken <= written
    /\ errors \in 0 .. Faults
    /\ pc \in {"idle", "connect", "read", "none"}
    /\ faults \in 0 .. Faults
    /\ answer \in [from : Nat, to : Nat]

\* The assertion of getLastLine (src/ve.cpp:323), which is compiled in: a line of at
\* most three reads, however its bytes arrive and whatever an earlier call has left in
\* the buffer, leaves room for one more read and the zero after it.
BufferHasRoom ==
    pc = "read" /\ faults < Faults => taken - kept < BufferSize - ReadSize

\* What getLastLine returns is one line, from its first byte to its end.
AnswerIsOneLine ==
    answer # NoLine =>
        /\ answer.from \in Begins
        /\ EndsIn(answer.from, answer.to) = {answer.to}

\* No later line was read when getLastLine returned: of several lines in the buffer the
\* oldest are dropped, and never the newest.
AnswerIsNewest ==
    pc = "idle" /\ answer # NoLine => EndsIn(answer.to, taken) = {}

\* The answer is the newest line, and nothing else.
AnswerIsTheNewestLine == AnswerIsOneLine /\ AnswerIsNewest

\* No more than two pulls in a row go without an answer before the connection is
\* replaced: between pulls errors is less than maxFaults.
ErrorsAreBounded ==
    pc = "idle" /\ connected => errors < Faults

===============================================================================
