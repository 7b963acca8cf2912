------------------------------- MODULE ReadFile ------------------------------
(* getCertificateByContainerId, ROT.cpp: readFile selects the applet, asks   *)
(* for the length of the container unless the caller gives one, allocates a  *)
(* buffer and reads the container piece by piece with a 16-bit offset.  The  *)
(* length comes from the metadata of the container, in which getFileLength   *)
(* looks for tag 20.  The card is modelled as this code uses it.  Between    *)
(* two exchanges the container may be rewritten (over the air).              *)
EXTENDS Integers, Sequences

CONSTANTS
  Sizes,       \* the lengths of the container
  Layouts,     \* the items of its metadata: "length" (tag 20), "other", or "long",
               \* another one with which the metadata have more than 50 bytes
  Requested,   \* the lengths callers ask for in *dataLen, 0: ask the card
  IdLens,      \* the lengths of container identifiers callers pass
  WordSize,    \* 65536: offsets and lengths have 16 bits
  Pieces,      \* how much the card gives in one answer, at most
  MaxReuses,   \* bound: calls with the length the call before left behind
  MaxRewrites, \* bound: rewrites of the container
  MaxFaults    \* bound: exchanges that fail

CMD_MAX_LEN == 255
READ_LINE_LEN == 255

ASSUME ReadFileAssumption ==
  /\ WordSize \in Nat /\ WordSize > CMD_MAX_LEN
  /\ Sizes \subseteq 0 .. WordSize - 1
  /\ Layouts \subseteq Seq({"other", "long", "length"})
  /\ Requested \subseteq 0 .. WordSize - 1
  /\ IdLens \subseteq 0 .. WordSize - 3
  /\ Pieces \subseteq 1 .. 256
  /\ MaxReuses \in Nat /\ MaxRewrites \in Nat /\ MaxFaults \in Nat

VARIABLES
  pc,       \* "idle", the exchange or step readFile is at, "aborted", or "overrun":
            \* a write past an array, after which nothing is known of the program
  dataLen,  \* *dataLen, the caller's variable; it keeps its value after a call
  idLen,    \* fileIdLen of the call
  asked,    \* the length of this call came from the card
  index,    \* of getFileLength: the item of the metadata it looks at
  announced, \* the length in the metadata it received
  offset,   \* of readFile, 16 bits
  buffer,   \* "none", or "live" from malloc to free
  room,     \* how many bytes were allocated
  top,      \* history: the bytes written into the buffer, from its start
  result,   \* what the last call returned
  size,     \* the card: the length of the container
  layout,   \* the card: the metadata of the container
  torn,     \* history: the container was rewritten during this call
  reuses,   \* the calls so far that reused the variable
  rewrites, \* the rewrites so far
  faults    \* the failed exchanges so far

caller == <<idLen, asked, announced>>
memory == <<buffer, room, top>>
bounds == <<reuses, rewrites, faults>>
disk   == <<size, layout, torn>>
vars == <<pc, dataLen, idLen, asked, announced, index, offset, buffer, room, top, result,
          size, layout, torn, reuses, rewrites, faults>>

Word_Wider(n) == n
Word(n) == n % WordSize

Init == /\ pc = "idle" /\ dataLen = 0 /\ idLen = 0 /\ asked = FALSE
        /\ index = 1 /\ announced = 0 /\ offset = 0
        /\ buffer = "none" /\ room = 0 /\ top = 0 /\ result = "none"
        /\ size \in Sizes /\ layout \in Layouts /\ torn = FALSE
        /\ reuses = 0 /\ rewrites = 0 /\ faults = 0

------------------------------------------------------------------------------

\* The caller frees what it was given before it reads again.  It passes a
\* length of its own, or the variable as the call before left it.
ReadFile(len, id) ==
  /\ pc = "idle" /\ buffer = "none"
  /\ \/ len \in Requested /\ UNCHANGED reuses
     \/ len = dataLen /\ reuses < MaxReuses /\ reuses' = reuses + 1
  /\ dataLen' = len /\ idLen' = id
  /\ asked' = FALSE /\ torn' = FALSE
  /\ result' = "none" /\ pc' = "select"
  /\ UNCHANGED <<index, announced, offset, memory, size, layout, rewrites, faults>>

\* A null data pointer.
ReadFileNull == /\ pc = "idle" /\ buffer = "none"
                /\ result' = "ERR_INVALID_PARAMETERS"
                /\ UNCHANGED <<pc, dataLen, caller, index, offset, memory, disk, bounds>>

Return(value) == pc' = "idle" /\ result' = value

\* An exchange that transmit reports as failed, or that ends with a status
\* other than 9000.
ExchangeFails == faults < MaxFaults /\ faults' = faults + 1

\* The command carries the identifier behind a tag and its length.
CommandLength == idLen + (IF idLen > 0 THEN 2 ELSE 0)

\* malloc, and the loop's first offset.
Allocate(len) ==
  \/ /\ buffer' = "live" /\ room' = len + READ_LINE_LEN /\ top' = 0
     /\ offset' = 0 /\ pc' = "read"
     /\ UNCHANGED result
  \/ /\ Return("ERR_OUT_OF_MEMORY")
     /\ UNCHANGED <<memory, offset>>

SelectFails == /\ pc = "select" /\ ExchangeFails
               /\ Return("ERR_GENERIC")
               /\ UNCHANGED <<dataLen, caller, index, offset, memory, disk, reuses, rewrites>>

Selected == /\ pc = "select"
            /\ \/ /\ CommandLength > CMD_MAX_LEN
                  /\ Return("ERR_INVALID_PARAMETERS")
                  /\ UNCHANGED <<asked, index, offset, memory>>
               \/ /\ CommandLength <= CMD_MAX_LEN /\ dataLen = 0
                  /\ pc' = "ask" /\ asked' = TRUE
                  /\ UNCHANGED <<result, index, offset, memory>>
               \/ /\ CommandLength <= CMD_MAX_LEN /\ dataLen # 0
                  /\ Allocate(dataLen)
                  /\ UNCHANGED <<asked, index>>
            /\ UNCHANGED <<dataLen, idLen, announced, disk, bounds>>

------------------------------------------------------------------------------
(* getFileLength.                                                            *)

\* (uint16_t) -1 makes readFile return.
NoLength == /\ dataLen' = 0
            /\ Return("ERR_INVALID_PARAMETERS")

AskFails == /\ pc = "ask" /\ ExchangeFails
            /\ NoLength
            /\ UNCHANGED <<caller, index, offset, memory, disk, reuses, rewrites>>

\* data has 50 bytes, and getResponse copies the whole answer into it.  Behind the
\* array may be memory that nobody needs any more.
Fits == \A i \in DOMAIN layout : layout[i] # "long"
MetadataCopied == pc' \in IF Fits THEN {"search"} ELSE {"search", "overrun"}

\* The metadata is in the local buffer, and the search begins at its first tag.
Asked == /\ pc = "ask"
         /\ index' = 1 /\ announced' = size
         /\ MetadataCopied
         /\ UNCHANGED <<dataLen, idLen, asked, offset, memory, result, disk, bounds>>

\* Tag 20: its two bytes are the length.  A length of 0 is taken for "not found
\* yet", and the index stays where it is.
SearchSkips == /\ pc = "search" /\ index <= Len(layout)
               /\ layout[index] # "length"
               /\ index' = index + 1
               /\ UNCHANGED <<pc, dataLen, caller, offset, memory, result, disk, bounds>>

SearchFinds == /\ pc = "search" /\ index <= Len(layout)
               /\ layout[index] = "length"
               /\ announced # 0
               /\ \/ /\ announced = WordSize - 1
                     /\ NoLength
                     /\ UNCHANGED <<memory, offset>>
                  \/ /\ announced # WordSize - 1
                     /\ dataLen' = announced
                     /\ Allocate(announced)
               /\ UNCHANGED <<caller, index, disk, bounds>>

SearchEnds == /\ pc = "search" /\ index > Len(layout)
              /\ NoLength
              /\ UNCHANGED <<caller, index, offset, memory, disk, bounds>>

------------------------------------------------------------------------------
(* The loop of readFile.                                                     *)

MoreToRead_NotStrict == offset <= dataLen
MoreToRead == offset < dataLen

Shorter(a, b) == IF a < b THEN a ELSE b
Longer(a, b) == IF a < b THEN b ELSE a

\* The terminator, and the caller's length.
Terminate(end) == /\ Return("ERR_NOERR")
                  /\ top' = Longer(top, end + 1)
                  /\ dataLen' = Word(dataLen + 1)
                  /\ UNCHANGED <<buffer, room>>

\* getResponse copies an answer of up to 255 bytes and asserts otherwise.
Advanced_ByLine(n) == Word(offset + READ_LINE_LEN)
Advanced_OneByte(n) == (offset + n) % 256
Advanced_NotMoved(n) == offset
Advanced(n) == Word(offset + n)

ReadPiece == /\ pc = "read" /\ MoreToRead /\ offset < size
             /\ \E piece \in Pieces :
                  LET n == Shorter(piece, size - offset)
                  IN \/ /\ n <= 255
                        /\ offset' = Advanced(n)
                        /\ top' = Longer(top, offset + n)
                        /\ UNCHANGED pc
                     \/ /\ n > 255
                        /\ pc' = "aborted"
                        /\ UNCHANGED <<offset, top>>
             /\ UNCHANGED <<dataLen, caller, index, buffer, room, result, disk, bounds>>

\* At the end of the container the card gives nothing, and the loop ends.
ReadNothing == /\ pc = "read" /\ MoreToRead /\ offset >= size
               /\ Terminate(offset)
               /\ UNCHANGED <<caller, index, offset, disk, bounds>>

Freed_Kept == buffer
Freed == "none"

\* A card may also refuse an offset at the end.
ReadFails == /\ pc = "read" /\ MoreToRead
             /\ \/ ExchangeFails
                \/ offset >= size /\ UNCHANGED faults
             /\ Return("ERR_INVALID_RESPONSE")
             /\ buffer' = Freed
             /\ UNCHANGED <<dataLen, caller, index, offset, room, top, disk, reuses, rewrites>>

ReadEnds == /\ pc = "read" /\ ~MoreToRead
            /\ Terminate(offset)
            /\ UNCHANGED <<caller, index, offset, disk, bounds>>

------------------------------------------------------------------------------
(* The caller's free, and the container.                                     *)

CallerFrees == /\ pc = "idle" /\ result = "ERR_NOERR" /\ buffer = "live"
               /\ buffer' = "none"
               /\ result' = "none"
               /\ UNCHANGED <<pc, dataLen, caller, index, offset, room, top, disk, bounds>>

Rewrite == /\ rewrites < MaxRewrites /\ rewrites' = rewrites + 1
           /\ size' \in Sizes /\ size' # size
           /\ torn' = TRUE
           /\ UNCHANGED <<pc, dataLen, caller, index, offset, memory, result, layout, reuses, faults>>

------------------------------------------------------------------------------

Call == \/ \E len \in Requested \cup {dataLen}, id \in IdLens : ReadFile(len, id)
        \/ ReadFileNull

Step == \/ SelectFails \/ Selected
        \/ AskFails \/ Asked \/ SearchSkips \/ SearchFinds \/ SearchEnds
        \/ ReadPiece \/ ReadNothing \/ ReadFails \/ ReadEnds

Next == Call \/ Step \/ CallerFrees \/ Rewrite

Spec == Init /\ [][Next]_vars

\* The call runs in one thread, and every exchange returns.
FairSpec == Spec /\ WF_vars(Step)

------------------------------------------------------------------------------
(* Properties.                                                               *)

Results == {"none", "ERR_NOERR", "ERR_GENERIC", "ERR_INVALID_PARAMETERS",
            "ERR_OUT_OF_MEMORY", "ERR_INVALID_RESPONSE"}

\* Every variable keeps its type: the offset and *dataLen are 16-bit words.
TypeOK ==
  /\ pc \in {"idle", "select", "ask", "search", "read", "aborted", "overrun"}
  /\ dataLen \in 0 .. WordSize - 1 /\ offset \in 0 .. WordSize - 1
  /\ idLen \in IdLens \cup {0} /\ asked \in BOOLEAN
  /\ index \in Nat \ {0} /\ announced \in 0 .. WordSize - 1
  /\ buffer \in {"none", "live"} /\ room \in Nat /\ top \in Nat
  /\ result \in Results
  /\ size \in Sizes /\ layout \in Layouts /\ torn \in BOOLEAN
  /\ reuses \in 0 .. MaxReuses
  /\ rewrites \in 0 .. MaxRewrites /\ faults \in 0 .. MaxFaults

\* The answers and the terminator stay within what malloc gave
\* (ROT.cpp:205, 226, 244), however the answers are cut, whatever the caller
\* asked for, and though the container may have grown since its length was read:
\* the 255 bytes of READ_LINE_LEN are room for the last answer and its NUL.
WritesInBounds == buffer = "live" => top <= room

\* A read whose length came from the card, and during which the container was
\* not rewritten, ends with the whole container and its terminator in the
\* buffer, and nothing behind them, or with an error (ROT.cpp:193-245).  It is
\* about the buffer; the length handed over with it counts the terminator too.
WholeContainer ==
  (pc = "idle" /\ result = "ERR_NOERR" /\ asked /\ ~torn) => top = size + 1

\* The caller is left with a buffer only if the call succeeded; every other way
\* out of readFile has freed it or never allocated it (ROT.h:112-113).
OwnedBySuccess == pc = "idle" => (buffer = "live" => result = "ERR_NOERR")

\* From one answer to the next the 16-bit offset only grows (ROT.cpp:213-227):
\* it never wraps round to a part of the container that was read before.
OffsetAdvances == [][pc = "read" /\ pc' = "read" => offset' > offset]_offset

\* A read ends: it returns (ROT.h:115 promises 0 or an error code), or the
\* assertion on an answer of 256 bytes or a write past an array ends the program.
Ended == {"idle", "aborted", "overrun"}
ReadReturns == pc \notin Ended ~> pc \in Ended
==============================================================================
