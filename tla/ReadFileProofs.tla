--------------------------- MODULE ReadFileProofs ----------------------------
(* Theorems about reading a container, for containers of every length, every *)
(* way of cutting the answers, every word size, and any number of rewrites,  *)
(* failed exchanges and reused length variables.                             *)
EXTENDS ReadFile, TLAPS

\* Words that do not overflow are what they were before.
LEMMA WordKeeps == \A n \in 0 .. WordSize - 1 : Word(n) = n
BY ReadFileAssumption DEF Word, CMD_MAX_LEN

\* A conversion to the word is in the word.
LEMMA WordIsWord == \A n \in Nat : Word(n) \in 0 .. WordSize - 1
BY ReadFileAssumption DEF Word, CMD_MAX_LEN

------------------------------------------------------------------------------
(* What the loop keeps, which none of the properties says by itself: the     *)
(* bytes written end at the offset, and the offset was below the length when *)
(* the last answer of at most 255 bytes was added to it.                     *)

LoopInv == pc = "read" => /\ buffer = "live"
                          /\ room = dataLen + READ_LINE_LEN
                          /\ top = offset
                          /\ offset <= dataLen + READ_LINE_LEN - 1

\* While no rewrite came between, the length is that of the container.
LengthInv == (asked /\ ~torn) =>
               /\ pc # "select"
               /\ pc = "search" => announced = size
               /\ pc = "read" => /\ dataLen = size
                                 /\ size < WordSize - 1
                                 /\ offset <= size

\* Between malloc and the return only the loop, and an abort in it, has a buffer.
BufferInv == buffer = "live" =>
               pc \in {"read", "aborted"} \/ (pc = "idle" /\ result = "ERR_NOERR")

ReadInv == TypeOK /\ LoopInv /\ LengthInv /\ BufferInv
             /\ WritesInBounds /\ WholeContainer

\* TypeOK in two parts: the flags, and what the solver does arithmetic with.
FlagsOK == asked \in BOOLEAN /\ torn \in BOOLEAN

NumbersOK ==
  /\ pc \in {"idle", "select", "ask", "search", "read", "aborted", "overrun"}
  /\ dataLen \in 0 .. WordSize - 1 /\ offset \in 0 .. WordSize - 1
  /\ idLen \in IdLens \cup {0}
  /\ index \in Nat \ {0} /\ announced \in 0 .. WordSize - 1
  /\ buffer \in {"none", "live"} /\ room \in Nat /\ top \in Nat
  /\ result \in Results
  /\ size \in Sizes /\ layout \in Layouts
  /\ reuses \in 0 .. MaxReuses
  /\ rewrites \in 0 .. MaxRewrites /\ faults \in 0 .. MaxFaults

\* The types in two halves, the flags and the numbers.
LEMMA TypeParts == TypeOK <=> FlagsOK /\ NumbersOK
BY DEF TypeOK, FlagsOK, NumbersOK

\* No read has begun.
LEMMA InitReadInv == Init => ReadInv
<1> SUFFICES ASSUME Init PROVE ReadInv
  OBVIOUS
<1>1. TypeOK
  <2>1. FlagsOK BY DEF Init, FlagsOK
  <2>2. NumbersOK BY ReadFileAssumption DEF Init, NumbersOK, Results, CMD_MAX_LEN
  <2> QED BY <2>1, <2>2, TypeParts
<1>2. LoopInv /\ LengthInv /\ BufferInv /\ WritesInBounds /\ WholeContainer
  BY DEF Init, LoopInv, LengthInv, BufferInv, WritesInBounds, WholeContainer
<1> QED BY <1>1, <1>2 DEF ReadInv

\* malloc, reached with a length and without a buffer.
LEMMA AllocateKeeps ==
  ASSUME NEW len \in 1 .. WordSize - 1, Allocate(len), dataLen' = len,
         TypeOK, buffer = "none"
  PROVE  /\ pc' \in {"idle", "read"} /\ offset' \in 0 .. WordSize - 1
         /\ buffer' \in {"none", "live"} /\ room' \in Nat /\ top' \in Nat
         /\ result' \in Results
         /\ LoopInv' /\ BufferInv' /\ WritesInBounds'
         /\ pc' = "idle" => result' = "ERR_OUT_OF_MEMORY"
         /\ pc' = "read" => offset' = 0
BY ReadFileAssumption
DEF Allocate, Return, TypeOK, Results, LoopInv, BufferInv, WritesInBounds,
    memory, READ_LINE_LEN, CMD_MAX_LEN

\* The terminator, written where the loop ends.
LEMMA TerminateKeeps ==
  ASSUME TypeOK, LoopInv, pc = "read", Terminate(offset)
  PROVE  /\ pc' = "idle" /\ result' = "ERR_NOERR"
         /\ dataLen' = Word(dataLen + 1) /\ dataLen' \in 0 .. WordSize - 1
         /\ top' = offset + 1 /\ buffer' = buffer /\ room' = room
         /\ top' <= room'
<1>1. dataLen + 1 \in Nat BY ReadFileAssumption DEF TypeOK, CMD_MAX_LEN
<1>2. dataLen' \in 0 .. WordSize - 1 BY <1>1, WordIsWord DEF Terminate
<1> QED BY <1>2, ReadFileAssumption
        DEF Terminate, Return, TypeOK, LoopInv, Longer, READ_LINE_LEN, CMD_MAX_LEN

------------------------------------------------------------------------------
(* The invariant, one action at a time.                                      *)

\* A call that begins.
LEMMA CallReadInv == ReadInv /\ Call => ReadInv'
<1> SUFFICES ASSUME ReadInv, Call PROVE ReadInv'
  OBVIOUS
<1> USE ReadFileAssumption
    DEF ReadInv, TypeOK, LoopInv, LengthInv, BufferInv, WritesInBounds,
        WholeContainer, Results, caller, memory, disk, bounds, CMD_MAX_LEN
<1>1. CASE ReadFileNull BY <1>1 DEF ReadFileNull
<1>2. ASSUME NEW len \in Requested \cup {dataLen}, NEW id \in IdLens, ReadFile(len, id)
      PROVE  ReadInv'
  <2>1. FlagsOK' /\ NumbersOK'
    <3>1. FlagsOK' BY <1>2 DEF ReadFile, FlagsOK
    <3>2. NumbersOK' BY <1>2 DEF ReadFile, NumbersOK
    <3> QED BY <3>1, <3>2
  <2>2. LoopInv' /\ LengthInv' /\ BufferInv' /\ WritesInBounds' /\ WholeContainer'
    BY <1>2 DEF ReadFile
  <2>3. TypeOK' BY <2>1, TypeParts, PTL
  <2> QED BY <2>2, <2>3
<1> QED BY <1>1, <1>2 DEF Call

\* Selecting the container, asking for its metadata and searching them.
LEMMA BeforeLoopReadInv ==
  ReadInv /\ (SelectFails \/ Selected \/ AskFails \/ Asked \/ SearchSkips
                \/ SearchFinds \/ SearchEnds) => ReadInv'
<1> SUFFICES ASSUME ReadInv,
                    SelectFails \/ Selected \/ AskFails \/ Asked \/ SearchSkips
                      \/ SearchFinds \/ SearchEnds
             PROVE  ReadInv'
  OBVIOUS
<1>0. pc \in {"select", "ask", "search"} => buffer = "none"
  BY DEF ReadInv, TypeOK, BufferInv
<1> USE <1>0, ReadFileAssumption
    DEF ReadInv, TypeOK, LoopInv, LengthInv, BufferInv, WritesInBounds,
        WholeContainer, Results, caller, memory, disk, bounds, CMD_MAX_LEN,
        Return, ExchangeFails, NoLength
<1>1. CASE SelectFails BY <1>1 DEF SelectFails
<1>2. CASE Selected
  <2>1. CASE CommandLength <= CMD_MAX_LEN /\ dataLen # 0 /\ Allocate(dataLen)
             /\ UNCHANGED <<asked, index>>
    <3>1. dataLen \in 1 .. WordSize - 1 /\ dataLen' = dataLen
      BY <1>2, <2>1 DEF Selected
    <3>2. FlagsOK' BY <1>2, <2>1 DEF Selected, FlagsOK
    <3>3. NumbersOK' BY <1>2, <2>1, <3>1, AllocateKeeps DEF Selected, NumbersOK
    <3>4. LoopInv' /\ BufferInv' /\ WritesInBounds'
      BY <1>0, <1>2, <2>1, <3>1, AllocateKeeps DEF Selected
    <3>5. LengthInv' /\ WholeContainer'
      BY <1>0, <1>2, <2>1, <3>1, AllocateKeeps DEF Selected
    <3>6. TypeOK' BY <3>2, <3>3, TypeParts, PTL
    <3> QED BY <3>4, <3>5, <3>6
  <2>2. CASE ~(CommandLength <= CMD_MAX_LEN /\ dataLen # 0 /\ Allocate(dataLen)
               /\ UNCHANGED <<asked, index>>)
    <3>1. FlagsOK' /\ NumbersOK'
      <4>1. FlagsOK' BY <1>2, <2>2 DEF Selected, FlagsOK
      <4>2. CASE CommandLength > CMD_MAX_LEN /\ Return("ERR_INVALID_PARAMETERS")
                 /\ UNCHANGED <<asked, index, offset, memory>>
        <5>1. NumbersOK' BY <1>2, <4>2 DEF Selected, NumbersOK
        <5> QED BY <4>1, <5>1
      <4>3. CASE pc' = "ask" /\ asked' = TRUE /\ UNCHANGED <<result, index, offset, memory>>
        <5>1. NumbersOK' BY <1>2, <4>3 DEF Selected, NumbersOK
        <5> QED BY <4>1, <5>1
      <4> QED BY <1>2, <2>2, <4>2, <4>3 DEF Selected
    <3>2. LoopInv' /\ LengthInv' /\ BufferInv' /\ WritesInBounds' /\ WholeContainer'
      BY <1>2, <2>2 DEF Selected
    <3>3. TypeOK' BY <3>1, TypeParts, PTL
    <3> QED BY <3>2, <3>3
  <2> QED BY <2>1, <2>2
<1>3. CASE AskFails BY <1>3 DEF AskFails
<1>4. CASE Asked
  <2>1. pc' \in {"search", "overrun"} BY <1>4 DEF Asked, MetadataCopied
  <2> QED BY <1>4, <2>1 DEF Asked
<1>5. CASE SearchSkips BY <1>5 DEF SearchSkips
<1>6. CASE SearchFinds
  <2>1. CASE announced # WordSize - 1 /\ dataLen' = announced /\ Allocate(announced)
    <3>1. announced \in 1 .. WordSize - 1 BY <1>6 DEF SearchFinds
    <3> QED BY <1>6, <2>1, <3>1, AllocateKeeps DEF SearchFinds
  <2>2. CASE announced = WordSize - 1 /\ NoLength /\ UNCHANGED <<memory, offset>>
    BY <1>6, <2>2 DEF SearchFinds
  <2> QED BY <1>6, <2>1, <2>2 DEF SearchFinds
<1>7. CASE SearchEnds BY <1>7 DEF SearchEnds
<1> QED BY <1>1, <1>2, <1>3, <1>4, <1>5, <1>6, <1>7

\* An answer of n bytes moves the offset on, inside the container.
LEMMA PieceAdvances ==
  ASSUME ReadInv, MoreToRead, offset < size, NEW piece \in Pieces,
         NEW n, n = Shorter(piece, size - offset)
  PROVE  /\ n \in 1 .. 256
         /\ offset + n \in 1 .. size
         /\ Advanced(n) = offset + n
<1>1. /\ offset \in Nat /\ size \in Nat /\ size \in 0 .. WordSize - 1
      /\ piece \in 1 .. 256 /\ WordSize \in Nat
  BY ReadFileAssumption DEF ReadInv, TypeOK, CMD_MAX_LEN
<1>2. n \in 1 .. 256 /\ offset + n \in 1 .. size BY <1>1 DEF Shorter
<1> QED BY <1>1, <1>2, WordKeeps DEF Advanced

\* The loop: a piece, an answer with nothing, an error, the end.
LEMMA LoopReadInv ==
  ReadInv /\ (ReadPiece \/ ReadNothing \/ ReadFails \/ ReadEnds) => ReadInv'
<1> SUFFICES ASSUME ReadInv, ReadPiece \/ ReadNothing \/ ReadFails \/ ReadEnds
             PROVE  ReadInv'
  OBVIOUS
<1> USE ReadFileAssumption
    DEF ReadInv, TypeOK, LoopInv, LengthInv, BufferInv, WritesInBounds,
        WholeContainer, Results, caller, memory, disk, bounds, CMD_MAX_LEN,
        READ_LINE_LEN, Return, ExchangeFails, MoreToRead
<1>1. CASE ReadPiece
  <2>1. PICK piece \in Pieces :
          LET n == Shorter(piece, size - offset)
          IN \/ /\ n <= 255
                /\ offset' = Advanced(n)
                /\ top' = Longer(top, offset + n)
                /\ UNCHANGED pc
             \/ /\ n > 255
                /\ pc' = "aborted"
                /\ UNCHANGED <<offset, top>>
    BY <1>1 DEF ReadPiece
  <2> DEFINE n == Shorter(piece, size - offset)
  <2>2. /\ n \in 1 .. 256 /\ offset + n \in 1 .. size /\ Advanced(n) = offset + n
    BY <1>1, PieceAdvances DEF ReadPiece
  <2> HIDE DEF n
  <2>3. CASE n <= 255 /\ offset' = Advanced(n) /\ top' = Longer(top, offset + n)
             /\ UNCHANGED pc
    <3>1. offset' = offset + n /\ top' = offset' /\ offset' <= size
      BY <1>1, <2>2, <2>3 DEF ReadPiece, Longer
    <3>2. offset' <= dataLen + READ_LINE_LEN - 1 BY <1>1, <2>2, <2>3, <3>1 DEF ReadPiece
    <3> QED BY <1>1, <2>2, <3>1, <3>2, <2>3 DEF ReadPiece
  <2>4. CASE n > 255 /\ pc' = "aborted" /\ UNCHANGED <<offset, top>>
    BY <1>1, <2>4 DEF ReadPiece
  <2> QED BY <2>1, <2>3, <2>4 DEF n
<1>2. CASE ReadNothing
  <2>1. /\ pc' = "idle" /\ result' = "ERR_NOERR"
        /\ dataLen' \in 0 .. WordSize - 1
        /\ top' = offset + 1 /\ buffer' = buffer /\ room' = room /\ top' <= room'
    BY <1>2, TerminateKeeps DEF ReadNothing
  <2>2. ~(asked /\ ~torn) BY <1>2 DEF ReadNothing
  <2> QED BY <1>2, <2>1, <2>2 DEF ReadNothing
<1>3. CASE ReadFails BY <1>3 DEF ReadFails, Freed
<1>4. CASE ReadEnds
  <2>1. /\ pc' = "idle" /\ result' = "ERR_NOERR"
        /\ dataLen' = Word(dataLen + 1) /\ dataLen' \in 0 .. WordSize - 1
        /\ top' = offset + 1 /\ buffer' = buffer /\ room' = room /\ top' <= room'
    BY <1>4, TerminateKeeps DEF ReadEnds
  <2>2. asked /\ ~torn => top' = size + 1 BY <1>4, <2>1 DEF ReadEnds
  <2> QED BY <1>4, <2>1, <2>2 DEF ReadEnds
<1> QED BY <1>1, <1>2, <1>3, <1>4

\* The invariant is inductive.
LEMMA NextReadInv == ReadInv /\ [Next]_vars => ReadInv'
<1> SUFFICES ASSUME ReadInv, [Next]_vars PROVE ReadInv'
  OBVIOUS
<1>1. CASE Call BY <1>1, CallReadInv
<1>2. CASE Step BY <1>2, BeforeLoopReadInv, LoopReadInv DEF Step
<1>3. CASE CallerFrees
  BY <1>3 DEF CallerFrees, ReadInv, TypeOK, LoopInv, LengthInv, BufferInv,
              WritesInBounds, WholeContainer, Results, caller, disk, bounds
<1>4. CASE Rewrite
  BY <1>4, ReadFileAssumption
  DEF Rewrite, ReadInv, TypeOK, LoopInv, LengthInv, BufferInv,
      WritesInBounds, WholeContainer, caller, memory
<1>5. CASE UNCHANGED vars
  BY <1>5 DEF vars, ReadInv, TypeOK, LoopInv, LengthInv, BufferInv,
              WritesInBounds, WholeContainer
<1> QED BY <1>1, <1>2, <1>3, <1>4, <1>5 DEF Next

------------------------------------------------------------------------------
(* The theorems.                                                             *)

\* The invariant of the loop and of the buffer holds in every reachable state.
THEOREM ReadInvariant == Spec => []ReadInv
<1> QED BY InitReadInv, NextReadInv, PTL DEF Spec

\* Every variable keeps its type: the offset and *dataLen stay 16-bit words.
THEOREM TypeCorrect == Spec => []TypeOK
<1>1. ReadInv => TypeOK BY DEF ReadInv
<1> QED BY <1>1, ReadInvariant, PTL

\* No answer and no terminator is written outside what malloc gave
\* (ROT.cpp:205, 226, 244), for every length and every cut of the answers.
THEOREM BufferIsLargeEnough == Spec => []WritesInBounds
<1>1. ReadInv => WritesInBounds BY DEF ReadInv
<1> QED BY <1>1, ReadInvariant, PTL

\* A read that was not disturbed and returned 0 has the whole container.
THEOREM ReadsWholeContainer == Spec => []WholeContainer
<1>1. ReadInv => WholeContainer BY DEF ReadInv
<1> QED BY <1>1, ReadInvariant, PTL

\* The caller owns a buffer only after a success (ROT.cpp:247-251).
THEOREM OwnedOnlyBySuccess == Spec => []OwnedBySuccess
<1>1. ReadInv => OwnedBySuccess BY DEF ReadInv, BufferInv, OwnedBySuccess
<1> QED BY <1>1, ReadInvariant, PTL

\* The 16-bit offset never wraps round while a container is read.
THEOREM OffsetNeverWraps == Spec => OffsetAdvances
<1>1. ReadInv /\ [Next]_vars => [pc = "read" /\ pc' = "read" => offset' > offset]_offset
  <2> SUFFICES ASSUME ReadInv, [Next]_vars, pc = "read", pc' = "read", offset' # offset
               PROVE  offset' > offset
    OBVIOUS
  <2>1. CASE ReadPiece
    <3>1. PICK piece \in Pieces :
            \/ offset' = Advanced(Shorter(piece, size - offset))
            \/ pc' = "aborted"
      BY <2>1 DEF ReadPiece
    <3>2. /\ Shorter(piece, size - offset) \in 1 .. 256
          /\ Advanced(Shorter(piece, size - offset))
               = offset + Shorter(piece, size - offset)
      BY <2>1, PieceAdvances DEF ReadPiece
    <3> QED BY <3>1, <3>2 DEF ReadInv, TypeOK
  <2>2. CASE ~ReadPiece
    BY <2>2
    DEF Next, vars, Call, Step, ReadFile, ReadFileNull, SelectFails, Selected,
        AskFails, Asked, SearchSkips, SearchFinds, SearchEnds, ReadNothing,
        ReadFails, ReadEnds, CallerFrees, Rewrite, Terminate, Return
  <2> QED BY <2>1, <2>2
<1>2. Spec => [][Next]_vars BY PTL DEF Spec
<1> QED BY <1>1, <1>2, ReadInvariant, PTL DEF OffsetAdvances
==============================================================================
