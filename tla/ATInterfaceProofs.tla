-------------------------- MODULE ATInterfaceProofs --------------------------
(* Theorems about ATInterface.                                               *)
(*                                                                           *)
(* The argument is about everything that is under way: the commands in       *)
(* toModem, the one the modem is at and the numbered lines in toHost.  They  *)
(* come in order (OrderInv), and all of them belong to a window of commands  *)
(* that holds one command for the call in progress and one for each restart  *)
(* of the host program (WindowInv).  A call returns when it has read the     *)
(* last line of the oldest command under way, so the window moves on by one  *)
(* with each call.  Without a restart it is empty between two calls.         *)
EXTENDS ATInterface, SequenceTheorems, TLAPS

\* The lines the modem writes.
Lines == [kind : Kinds, of : 0 .. MaxCommands] \cup {OtherLine}

\* The window: a call owns the command it has sent, or is about to send; each
\* restart leaves one more behind.
Oldest == IF pc = "idle" THEN command - crashes + 1 ELSE command - crashes
Newest == IF pc = "send" THEN command - 1 ELSE command
Window == Oldest .. Newest

\* A line that answers a command, and not a notification.
Numbered(line) == line.kind # "other"

\* What is under way belongs to the window.
WindowInv ==
  /\ \A j \in 1 .. Len(toModem) : toModem[j] \in Window
  /\ IF modem.phase = "rest" THEN modem.at = 0 ELSE modem.at \in Window
  /\ \A i \in 1 .. Len(toHost) : Numbered(toHost[i]) => toHost[i].of \in Window
  /\ pc = "drain" => got \in Window

\* A call in progress is that of a command and has no result yet.
CallInv == pc # "idle" => command # 0 /\ result = "none"

\* The commands not yet answered come in the order they were sent ...
QueueOrder ==
  /\ \A i, j \in 1 .. Len(toModem) : i < j => toModem[i] < toModem[j]
  /\ modem.phase # "rest" => \A j \in 1 .. Len(toModem) : modem.at < toModem[j]

\* ... and the lines on their way to the host are of earlier commands, in order,
\* the final result of a command being its last line.
Before(line, n) == line.of < n \/ line = Line("csim", n)

LineOrder ==
  \A i \in 1 .. Len(toHost) : Numbered(toHost[i]) =>
    /\ \A j \in 1 .. Len(toModem) : toHost[i].of < toModem[j]
    /\ modem.phase = "working" => toHost[i].of < modem.at
    /\ modem.phase = "answered" => Before(toHost[i], modem.at)
    /\ \A j \in 1 .. Len(toHost) :
         i < j /\ Numbered(toHost[j]) => Before(toHost[i], toHost[j].of)

\* The invariant in its two halves.
TypeInv == TypeOK /\ CallInv
OrderInv == QueueOrder /\ LineOrder
FlowInv == WindowInv /\ OrderInv /\ LagBound

------------------------------------------------------------------------------
(* What reading, writing and sending do to the two sequences.                *)

\* readLine takes the first line and moves the others up.
LEMMA ReadMoves ==
  ASSUME TypeOK, ReadLine
  PROVE  /\ Head(toHost) = toHost[1] /\ Head(toHost) \in Lines
         /\ Len(toHost) \in Nat \ {0} /\ Len(toHost') = Len(toHost) - 1
         /\ toHost' \in Seq(Lines)
         /\ \A i \in 1 .. Len(toHost') : toHost'[i] = toHost[i + 1]
<1>1. toHost \in Seq(Lines) /\ toHost # <<>> /\ toHost' = Tail(toHost)
  BY DEF TypeOK, ReadLine, Lines
<1>2. Head(toHost) = toHost[1]
  BY <1>1
<1>3. QED
  BY <1>1, <1>2, HeadTailProperties, EmptySeq

\* The modem's line is appended, or dropped when nobody has the port open.
LEMMA WriteAppends ==
  ASSUME TypeOK, NEW line \in Lines, Write(line)
  PROVE  /\ toHost' \in Seq(Lines)
         /\ Len(toHost) \in Nat /\ Len(toHost') \in Nat
         /\ \A i \in 1 .. Len(toHost') :
              \/ i \in 1 .. Len(toHost) /\ toHost'[i] = toHost[i]
              \/ i = Len(toHost) + 1 /\ toHost'[i] = line
<1>1. toHost \in Seq(Lines) /\ Len(toHost) \in Nat
  BY LenProperties DEF TypeOK, Lines
<1>2. CASE port = "open"
  <2>1. toHost' = Append(toHost, line)
    BY <1>2 DEF Write
  <2>2. QED
    BY <1>1, <2>1, AppendProperties
<1>3. CASE port # "open"
  BY <1>1, <1>3 DEF Write
<1>4. QED
  BY <1>2, <1>3

\* The modem takes the first command and leaves the others in order.
LEMMA TakeMoves ==
  ASSUME TypeOK, toModem # <<>>, toModem' = Tail(toModem)
  PROVE  /\ Head(toModem) = toModem[1] /\ Head(toModem) \in 1 .. MaxCommands
         /\ Len(toModem) \in Nat \ {0} /\ Len(toModem') = Len(toModem) - 1
         /\ toModem' \in Seq(1 .. MaxCommands)
         /\ \A j \in 1 .. Len(toModem') : toModem'[j] = toModem[j + 1]
<1>1. toModem \in Seq(1 .. MaxCommands)
  BY DEF TypeOK
<1>2. Head(toModem) = toModem[1]
  BY <1>1
<1>3. QED
  BY <1>1, <1>2, HeadTailProperties, EmptySeq

\* Send appends the command, or writes nothing when the port is not usable.
LEMMA SendAppends ==
  ASSUME TypeOK, Send, command # 0
  PROVE  /\ toModem' \in Seq(1 .. MaxCommands)
         /\ Len(toModem) \in Nat /\ Len(toModem') \in Nat
         /\ \A j \in 1 .. Len(toModem') :
              \/ j \in 1 .. Len(toModem) /\ toModem'[j] = toModem[j]
              \/ j = Len(toModem) + 1 /\ toModem'[j] = command
<1>1. /\ toModem \in Seq(1 .. MaxCommands) /\ Len(toModem) \in Nat
      /\ command \in 1 .. MaxCommands
  BY LenProperties, ATInterfaceAssumption DEF TypeOK
<1>2. CASE Usable
  <2>1. toModem' = Append(toModem, command)
    BY <1>2 DEF Send
  <2>2. QED
    BY <1>1, <2>1, AppendProperties
<1>3. CASE ~Usable
  BY <1>1, <1>3 DEF Send
<1>4. QED
  BY <1>2, <1>3

------------------------------------------------------------------------------
(* Types.                                                                    *)

\* Nothing is called, and the line and the modem are at rest.
LEMMA InitTypeInv == Init => TypeInv
<1> SUFFICES ASSUME Init PROVE TypeInv
  OBVIOUS
<1>1. <<>> \in Seq(1 .. MaxCommands) /\ <<>> \in Seq(Lines)
  OBVIOUS
<1>2. /\ 0 \in 0 .. MaxCommands /\ 0 \in 0 .. MaxOther /\ 0 \in 0 .. MaxCrashes
      /\ 0 \in Nat /\ FALSE \in BOOLEAN
  BY ATInterfaceAssumption
<1>3. modem \in [at : 0 .. MaxCommands, phase : {"rest", "working", "answered"}]
  BY <1>2 DEF Init, Resting
<1>4. QED
  BY <1>1, <1>2, <1>3 DEF Init, TypeInv, TypeOK, CallInv, Lines

\* Every step of the host, of the modem and of the line keeps the types.
LEMMA NextTypeInv == TypeInv /\ [Next]_vars => TypeInv'
<1> SUFFICES ASSUME TypeInv, [Next]_vars PROVE TypeInv'
  OBVIOUS
<1> USE ATInterfaceAssumption DEF TypeInv, CallInv, far, host
<1>0. /\ toHost \in Seq(Lines) /\ <<>> \in Seq(Lines)
      /\ <<>> \in Seq(1 .. MaxCommands)
  BY DEF TypeOK, Lines
<1>1. CASE Start
  BY <1>1 DEF Start, TypeOK
<1>2. CASE Stop
  BY <1>0, <1>2 DEF Stop, TypeOK, Lines
<1>3. CASE Unplug
  BY <1>0, <1>3 DEF Unplug, Resting, TypeOK, Lines
<1>4. CASE Transmit
  <2>1. /\ command' \in 0 .. MaxCommands /\ command' # 0
        /\ 0 \in Nat /\ FALSE \in BOOLEAN
    BY <1>4 DEF Transmit, TypeOK
  <2>2. QED
    BY <1>4, <2>1 DEF Transmit, TypeOK
<1>5. CASE Send
  <2>1. toModem' \in Seq(1 .. MaxCommands)
    BY <1>5, SendAppends DEF Send
  <2>2. QED
    BY <1>5, <2>1 DEF Send, TypeOK
<1>6. CASE Read
  <2>1. /\ toHost' \in Seq(Lines)
        /\ UNCHANGED <<port, command, toModem, modem, executed, muted, others,
                       crashes>>
        /\ NextIs({"csim"}) => Head(toHost).of \in 0 .. MaxCommands
    <3>1. ReadLine
      BY <1>6 DEF Read, ScanError, ScanAnswer, ScanSkip, DrainOk, DrainSkip
    <3>2. QED
      BY <3>1, ReadMoves DEF ReadLine, Lines, NextIs, OtherLine, Line
  <2>2. CASE ScanError
    BY <2>1, <2>2 DEF ScanError, Return, ErrorValue, TypeOK, Lines
  <2>3. CASE ScanAnswer
    BY <2>1, <2>3 DEF ScanAnswer, IsAnswer, TypeOK, Lines
  <2>4. CASE ScanSkip
    BY <2>1, <2>4 DEF ScanSkip, TypeOK, Lines
  <2>5. CASE DrainOk
    BY <2>1, <2>5 DEF DrainOk, Return, TypeOK, Lines
  <2>6. CASE DrainSkip
    BY <2>1, <2>6 DEF DrainSkip, TypeOK, Lines
  <2>7. QED
    BY <1>6, <2>2, <2>3, <2>4, <2>5, <2>6 DEF Read
<1>7. CASE ModemTake
  <2>1. /\ toModem' \in Seq(1 .. MaxCommands)
        /\ Head(toModem) \in 1 .. MaxCommands
    BY <1>7, TakeMoves DEF ModemTake
  <2>2. QED
    BY <1>7, <2>1 DEF ModemTake, TypeOK
<1>8. CASE ModemAnswer
  <2>1. Line("csim", modem.at) \in Lines
    BY DEF Line, Lines, Kinds, TypeOK
  <2>2. toHost' \in Seq(Lines)
    BY <1>8, <2>1, WriteAppends DEF ModemAnswer
  <2>3. executed' \in Nat
    BY <1>8 DEF ModemAnswer, CardExecutes, TypeOK
  <2>4. modem' \in [at : 0 .. MaxCommands, phase : {"rest", "working", "answered"}]
    BY <1>8 DEF ModemAnswer, TypeOK
  <2>5. QED
    BY <1>8, <2>2, <2>3, <2>4 DEF ModemAnswer, TypeOK, Lines
<1>9. CASE ModemOk
  <2>1. Line("ok", modem.at) \in Lines
    BY DEF Line, Lines, Kinds, TypeOK
  <2>2. toHost' \in Seq(Lines)
    BY <1>9, <2>1, WriteAppends DEF ModemOk
  <2>3. QED
    BY <1>9, <2>2 DEF ModemOk, Resting, TypeOK, Lines
<1>10. CASE ModemError
  <2>1. PICK final \in Finals \ {"ok"} :
          /\ Write(Line(final, modem.at))
          /\ muted' = (muted \/ (final = "unknown" /\ modem.at = command))
    BY <1>10 DEF ModemError
  <2>2. Line(final, modem.at) \in Lines
    BY DEF Line, Lines, Kinds, AllFinals, TypeOK
  <2>3. toHost' \in Seq(Lines)
    BY <2>1, <2>2, WriteAppends
  <2>4. executed' \in Nat
    BY <1>10 DEF ModemError, CardExecutes, TypeOK
  <2>5. muted' \in BOOLEAN
    BY <2>1 DEF TypeOK
  <2>6. QED
    BY <1>10, <2>3, <2>4, <2>5 DEF ModemError, Resting, TypeOK, Lines
<1>11. CASE ModemOther
  <2>1. OtherLine \in Lines
    BY DEF Line, Lines, Kinds
  <2>2. toHost' \in Seq(Lines)
    BY <1>11, <2>1, WriteAppends DEF ModemOther
  <2>3. QED
    BY <1>11, <2>2 DEF ModemOther, TypeOK, Lines
<1>12. CASE Crash
  BY <1>0, <1>12 DEF Crash, TypeOK, Lines
<1>13. CASE UNCHANGED vars
  BY <1>13 DEF vars, TypeOK
<1>14. QED
  BY <1>1, <1>2, <1>3, <1>4, <1>5, <1>6, <1>7, <1>8, <1>9, <1>10, <1>11, <1>12,
     <1>13 DEF Next, Modem

\* Every variable keeps its type: in particular every line the host reads is one
\* of the kinds sendATCSIM tells apart, and the numbers it compares are commands.
THEOREM TypeCorrect == Spec => []TypeOK
<1>1. TypeInv => TypeOK
  BY DEF TypeInv
<1>2. QED
  BY <1>1, InitTypeInv, NextTypeInv, PTL DEF Spec

------------------------------------------------------------------------------
(* What is under way.                                                        *)

\* Nothing is under way.
LEMMA InitFlowInv == Init => FlowInv
<1> SUFFICES ASSUME Init PROVE FlowInv
  OBVIOUS
<1>1. Len(toModem) = 0 /\ Len(toHost) = 0
  BY DEF Init
<1>2. QED
  BY <1>1 DEF Init, FlowInv, WindowInv, OrderInv, QueueOrder, LineOrder, LagBound,
       Resting

\* The numbers the invariants compare.
LEMMA Numbers ==
  ASSUME TypeOK
  PROVE  /\ command \in Nat /\ got \in Nat /\ crashes \in Nat /\ modem.at \in Nat
         /\ modem.phase \in {"rest", "working", "answered"}
         /\ Len(toModem) \in Nat /\ Len(toHost) \in Nat
         /\ \A j \in 1 .. Len(toModem) : toModem[j] \in Nat
         /\ \A i \in 1 .. Len(toHost) : toHost[i] \in Lines /\ toHost[i].of \in Int
<1>1. toModem \in Seq(1 .. MaxCommands) /\ toHost \in Seq(Lines)
  BY DEF TypeOK, Lines
<1>2. /\ Len(toModem) \in Nat /\ Len(toHost) \in Nat
      /\ \A j \in 1 .. Len(toModem) : toModem[j] \in 1 .. MaxCommands
      /\ \A i \in 1 .. Len(toHost) : toHost[i] \in Lines
  BY <1>1, LenProperties, ElementOfSeq
<1>3. QED
  BY <1>2, ATInterfaceAssumption DEF TypeOK, Lines, OtherLine, Line

\* Reading the first line keeps the order of the others.
LEMMA ReadKeepsOrder ==
  ASSUME TypeOK, OrderInv, ReadLine
  PROVE  OrderInv'
<1>1. /\ Len(toHost) \in Nat \ {0} /\ Len(toHost') = Len(toHost) - 1
      /\ \A i \in 1 .. Len(toHost') : toHost'[i] = toHost[i + 1]
  BY ReadMoves
<1>2. UNCHANGED <<toModem, modem>>
  BY DEF ReadLine, far
<1>3. QueueOrder'
  BY <1>2 DEF OrderInv, QueueOrder
<1>4. ASSUME NEW i \in 1 .. Len(toHost'), Numbered(toHost'[i])
      PROVE  /\ \A j \in 1 .. Len(toModem) : toHost'[i].of < toModem[j]
             /\ modem.phase = "working" => toHost'[i].of < modem.at
             /\ modem.phase = "answered" => Before(toHost'[i], modem.at)
             /\ \A j \in 1 .. Len(toHost') :
                  i < j /\ Numbered(toHost'[j]) => Before(toHost'[i], toHost'[j].of)
  <2>1. i + 1 \in 1 .. Len(toHost) /\ toHost'[i] = toHost[i + 1]
    BY <1>1, <1>4
  <2>2. ASSUME NEW j \in 1 .. Len(toHost'), i < j, Numbered(toHost'[j])
        PROVE  Before(toHost'[i], toHost'[j].of)
    <3>1. j + 1 \in 1 .. Len(toHost) /\ toHost'[j] = toHost[j + 1] /\ i + 1 < j + 1
      BY <1>1, <2>2
    <3>2. QED
      BY <1>4, <2>1, <2>2, <3>1 DEF OrderInv, LineOrder
  <2>3. QED
    BY <1>4, <2>1, <2>2 DEF OrderInv, LineOrder
<1>5. LineOrder'
  BY <1>2, <1>4 DEF LineOrder, Numbered, Before
<1>6. QED
  BY <1>3, <1>5 DEF OrderInv

\* The host's side.  A call that returns has read the last line of the oldest
\* command under way, so that the window may move on.
LEMMA ReturnMovesOn ==
  ASSUME TypeInv, WindowInv, OrderInv, ReadLine,
         pc \in {"scan", "drain"}, pc' = "idle", UNCHANGED got,
         Head(toHost).kind \notin {"csim", "other"}
  PROVE  WindowInv' /\ OrderInv'
<1> DEFINE first == toHost[1].of
<1>0. TypeOK
  BY DEF TypeInv
<1>1. /\ Head(toHost) = toHost[1] /\ toHost[1] \in Lines
      /\ Len(toHost) \in Nat \ {0} /\ Len(toHost') = Len(toHost) - 1
      /\ \A i \in 1 .. Len(toHost') : toHost'[i] = toHost[i + 1]
  BY <1>0, ReadMoves
<1>2. Numbered(toHost[1]) /\ \A n : toHost[1] # Line("csim", n)
  BY <1>1 DEF Numbered, Line
<1>3. first \in command - crashes .. command
  BY <1>0, <1>1, <1>2, Numbers DEF WindowInv, Window, Oldest, Newest
<1>4. UNCHANGED <<port, command, toModem, modem, crashes>>
  BY DEF ReadLine, far
<1>5. /\ \A j \in 1 .. Len(toModem) : first < toModem[j]
      /\ modem.phase # "rest" => first < modem.at
      /\ \A i \in 2 .. Len(toHost) : Numbered(toHost[i]) => first < toHost[i].of
  <2>1. \A j \in 1 .. Len(toModem) : first < toModem[j]
    BY <1>1, <1>2 DEF OrderInv, LineOrder
  <2>2. modem.phase # "rest" => first < modem.at
    BY <1>0, <1>1, <1>2, Numbers DEF OrderInv, LineOrder, Before
  <2>3. ASSUME NEW i \in 2 .. Len(toHost), Numbered(toHost[i])
        PROVE  first < toHost[i].of
    BY <1>1, <1>2, <2>3 DEF OrderInv, LineOrder, Before
  <2>4. QED
    BY <2>1, <2>2, <2>3
<1>6. WindowInv'
  <2> DEFINE W == command - crashes + 1 .. command
  <2>1. Window' = W /\ Window = command - crashes .. command
    BY <1>4 DEF Window, Oldest, Newest
  <2>2. ASSUME NEW n \in Window, n \in Int, first < n
        PROVE  n \in W
    BY <1>0, <1>3, <2>1, <2>2, Numbers
  <2>3. ASSUME NEW j \in 1 .. Len(toModem)
        PROVE  toModem[j] \in W
    BY <1>0, <1>5, <2>2, Numbers DEF WindowInv
  <2>4. modem.phase # "rest" => modem.at \in W
    BY <1>0, <1>5, <2>2, Numbers DEF WindowInv
  <2>5. ASSUME NEW i \in 1 .. Len(toHost'), Numbered(toHost'[i])
        PROVE  toHost'[i].of \in W
    <3>1. i + 1 \in 2 .. Len(toHost) /\ i + 1 \in 1 .. Len(toHost)
      BY <1>1
    <3>2. toHost'[i] = toHost[i + 1]
      BY <1>1
    <3>3. toHost[i + 1].of \in Window /\ toHost[i + 1].of \in Int
      BY <1>0, <2>5, <3>1, <3>2, Numbers DEF WindowInv
    <3>4. QED
      BY <1>5, <2>2, <2>5, <3>1, <3>2, <3>3
  <2>6. QED
    BY <1>4, <2>1, <2>3, <2>4, <2>5 DEF WindowInv, Numbered
<1>7. OrderInv'
  BY <1>0, ReadKeepsOrder
<1>8. QED
  BY <1>6, <1>7

\* A call that reads a line and goes on leaves the window where it is.
LEMMA ReadGoesOn ==
  ASSUME TypeInv, WindowInv, OrderInv, ReadLine,
         pc \in {"scan", "drain"}, pc' \in {"scan", "drain"},
         pc' = "drain" => got' \in Window
  PROVE  WindowInv' /\ OrderInv'
<1>0. TypeOK
  BY DEF TypeInv
<1>1. /\ Len(toHost) \in Nat \ {0} /\ Len(toHost') = Len(toHost) - 1
      /\ \A i \in 1 .. Len(toHost') : toHost'[i] = toHost[i + 1]
  BY <1>0, ReadMoves
<1>2. UNCHANGED <<port, command, toModem, modem, crashes>>
  BY DEF ReadLine, far
<1>3. Window' = Window
  BY <1>2 DEF Window, Oldest, Newest
<1>4. WindowInv'
  <2>1. ASSUME NEW i \in 1 .. Len(toHost'), Numbered(toHost'[i])
        PROVE  toHost'[i].of \in Window
    <3>1. i + 1 \in 1 .. Len(toHost) /\ toHost'[i] = toHost[i + 1]
      BY <1>1
    <3>2. QED
      BY <2>1, <3>1 DEF WindowInv
  <2>2. QED
    BY <1>2, <1>3, <2>1 DEF WindowInv
<1>5. OrderInv'
  BY <1>0, ReadKeepsOrder
<1>6. QED
  BY <1>4, <1>5

\* The modem's side.  A line the modem writes about the command it is at comes
\* after the lines of earlier commands; its answer comes before its final result.
LEMMA WriteKeepsFlow ==
  ASSUME TypeInv, WindowInv, OrderInv,
         NEW kind \in Kinds, Write(Line(kind, modem.at)),
         UNCHANGED <<pc, command, got, toModem, crashes>>,
         \/ kind = "csim" /\ modem.phase = "working"
            /\ modem' = [modem EXCEPT !.phase = "answered"]
         \/ kind # "csim" /\ modem.phase # "rest" /\ modem' = Resting
  PROVE  WindowInv' /\ OrderInv'
<1> DEFINE line == Line(kind, modem.at)
<1>0. TypeOK
  BY DEF TypeInv
<1>1. line \in Lines /\ line.of = modem.at /\ line.kind = kind
  BY <1>0 DEF Line, Lines, TypeOK
<1>2. /\ Len(toHost) \in Nat /\ Len(toHost') \in Nat
      /\ \A i \in 1 .. Len(toHost') :
           \/ i \in 1 .. Len(toHost) /\ toHost'[i] = toHost[i]
           \/ i = Len(toHost) + 1 /\ toHost'[i] = line
  BY <1>0, <1>1, WriteAppends
<1>3. /\ modem.phase # "rest"
      /\ \/ modem'.phase = "answered" /\ modem'.at = modem.at /\ kind = "csim"
         \/ modem'.phase = "rest" /\ modem'.at = 0
  BY <1>0 DEF TypeOK, Resting
<1>4. Window' = Window
  BY DEF Window, Oldest, Newest
<1>5. modem.at \in Window
  BY <1>3 DEF WindowInv
<1>6. WindowInv'
  <2>1. ASSUME NEW i \in 1 .. Len(toHost'), Numbered(toHost'[i])
        PROVE  toHost'[i].of \in Window
    BY <1>1, <1>2, <1>5, <2>1 DEF WindowInv
  <2>2. IF modem'.phase = "rest" THEN modem'.at = 0 ELSE modem'.at \in Window
    BY <1>3, <1>5
  <2>3. QED
    BY <1>4, <2>1, <2>2 DEF WindowInv, Numbered
<1>7. QueueOrder'
  BY <1>3 DEF OrderInv, QueueOrder
<1>8. ASSUME NEW i \in 1 .. Len(toHost'), Numbered(toHost'[i])
      PROVE  /\ \A j \in 1 .. Len(toModem) : toHost'[i].of < toModem[j]
             /\ modem'.phase = "working" => toHost'[i].of < modem'.at
             /\ modem'.phase = "answered" => Before(toHost'[i], modem'.at)
             /\ \A j \in 1 .. Len(toHost') :
                  i < j /\ Numbered(toHost'[j]) => Before(toHost'[i], toHost'[j].of)
  <2>1. CASE i \in 1 .. Len(toHost) /\ toHost'[i] = toHost[i]
    <3>1. Before(toHost[i], modem.at)
      <4>1. modem.phase = "working" => toHost[i].of < modem.at
        BY <1>8, <2>1 DEF OrderInv, LineOrder
      <4>2. modem.phase = "answered" => Before(toHost[i], modem.at)
        BY <1>8, <2>1 DEF OrderInv, LineOrder
      <4>3. modem.phase \in {"working", "answered"}
        BY <1>0, <1>3, Numbers
      <4>4. QED
        BY <4>1, <4>2, <4>3 DEF Before
    <3>2. \A j \in 1 .. Len(toModem) : toHost[i].of < toModem[j]
      BY <1>8, <2>1 DEF OrderInv, LineOrder
    <3>3. ASSUME NEW j \in 1 .. Len(toHost'), i < j, Numbered(toHost'[j])
          PROVE  Before(toHost[i], toHost'[j].of)
      BY <1>1, <1>2, <1>8, <2>1, <3>1, <3>3 DEF OrderInv, LineOrder
    <3>4. QED
      BY <1>3, <2>1, <3>1, <3>2, <3>3
  <2>2. CASE i = Len(toHost) + 1 /\ toHost'[i] = line
    <3>1. \A j \in 1 .. Len(toModem) : modem.at < toModem[j]
      BY <1>3 DEF OrderInv, QueueOrder
    <3>2. modem'.phase = "answered" => Before(line, modem'.at)
      BY <1>3 DEF Before
    <3>3. \A j \in 1 .. Len(toHost') : ~(i < j)
      BY <1>2, <2>2
    <3>4. QED
      BY <1>1, <1>3, <2>2, <3>1, <3>2, <3>3
  <2>3. QED
    BY <1>2, <2>1, <2>2
<1>9. LineOrder'
  BY <1>8 DEF LineOrder, Numbered, Before
<1>10. QED
  BY <1>6, <1>7, <1>9 DEF OrderInv

\* The modem takes the first command: it is the oldest not yet answered, so that
\* the lines already written are of earlier ones.
LEMMA TakeKeepsFlow ==
  ASSUME TypeInv, WindowInv, OrderInv, ModemTake
  PROVE  WindowInv' /\ OrderInv'
<1>0. TypeOK
  BY DEF TypeInv
<1>1. /\ toModem' = Tail(toModem) /\ toModem # <<>>
      /\ modem.phase = "rest"
      /\ modem' = [at |-> Head(toModem), phase |-> "working"]
      /\ UNCHANGED <<pc, command, got, toHost, crashes>>
  BY DEF ModemTake, host, Resting
<1>2. /\ Head(toModem) = toModem[1]
      /\ Len(toModem) \in Nat \ {0} /\ Len(toModem') = Len(toModem) - 1
      /\ \A j \in 1 .. Len(toModem') : toModem'[j] = toModem[j + 1]
  BY <1>0, <1>1, TakeMoves
<1>3. modem'.at = toModem[1] /\ modem'.phase = "working"
  BY <1>1, <1>2
<1>4. Window' = Window
  BY <1>1 DEF Window, Oldest, Newest
<1>5. \A j \in 1 .. Len(toModem') :
        j + 1 \in 1 .. Len(toModem) /\ 1 < j + 1 /\ toModem'[j] = toModem[j + 1]
  BY <1>2
<1>6. 1 \in 1 .. Len(toModem)
  BY <1>2
<1>7. WindowInv'
  <2>1. \A j \in 1 .. Len(toModem') : toModem'[j] \in Window
    BY <1>5 DEF WindowInv
  <2>2. modem'.at \in Window
    BY <1>3, <1>6 DEF WindowInv
  <2>3. QED
    BY <1>1, <1>3, <1>4, <2>1, <2>2 DEF WindowInv, Numbered
<1>8. QueueOrder'
  <2>1. \A j \in 1 .. Len(toModem') : modem'.at < toModem'[j]
    BY <1>3, <1>5, <1>6 DEF OrderInv, QueueOrder
  <2>2. ASSUME NEW i \in 1 .. Len(toModem'), NEW j \in 1 .. Len(toModem'), i < j
        PROVE  toModem'[i] < toModem'[j]
    <3>1. i + 1 < j + 1
      BY <2>2
    <3>2. QED
      BY <1>5, <3>1 DEF OrderInv, QueueOrder
  <2>3. QED
    BY <2>1, <2>2 DEF QueueOrder
<1>9. LineOrder'
  <2>1. ASSUME NEW i \in 1 .. Len(toHost), Numbered(toHost[i])
        PROVE  /\ \A j \in 1 .. Len(toModem') : toHost[i].of < toModem'[j]
               /\ toHost[i].of < modem'.at
    BY <1>3, <1>5, <1>6, <2>1 DEF OrderInv, LineOrder
  <2>2. QED
    BY <1>1, <1>3, <2>1 DEF OrderInv, LineOrder, Numbered, Before
<1>10. QED
  BY <1>7, <1>8, <1>9 DEF OrderInv

\* A new command comes after everything that is under way.
LEMMA SendKeepsFlow ==
  ASSUME TypeInv, WindowInv, OrderInv, Send
  PROVE  WindowInv' /\ OrderInv'
<1>0. TypeOK /\ command # 0
  BY DEF TypeInv, CallInv, Send
<1>1. pc = "send" /\ pc' = "scan" /\ UNCHANGED <<command, got, toHost, modem, crashes>>
  BY DEF Send, far
<1>2. /\ Len(toModem) \in Nat /\ Len(toModem') \in Nat
      /\ \A j \in 1 .. Len(toModem') :
           \/ j \in 1 .. Len(toModem) /\ toModem'[j] = toModem[j]
           \/ j = Len(toModem) + 1 /\ toModem'[j] = command
  BY <1>0, SendAppends
<1>3. /\ Window' = command - crashes .. command
      /\ Window = command - crashes .. command - 1
      /\ command \in Nat /\ crashes \in Nat
  BY <1>0, <1>1, Numbers DEF Window, Oldest, Newest
<1>4. \A n \in Window : n \in Window' /\ n < command /\ command \in Window'
  BY <1>3
<1>5. command \in Window'
  BY <1>3
<1>6. WindowInv'
  BY <1>1, <1>2, <1>4, <1>5 DEF WindowInv, Numbered
<1>7. QueueOrder'
  <2>1. modem.phase # "rest" => modem.at < command
    BY <1>4 DEF WindowInv
  <2>2. \A j \in 1 .. Len(toModem) : toModem[j] < command
    BY <1>4 DEF WindowInv
  <2>3. modem.phase # "rest" => \A j \in 1 .. Len(toModem') : modem.at < toModem'[j]
    BY <1>2, <2>1 DEF OrderInv, QueueOrder
  <2>4. \A i, j \in 1 .. Len(toModem') : i < j => toModem'[i] < toModem'[j]
    BY <1>2, <2>2 DEF OrderInv, QueueOrder
  <2>5. QED
    BY <1>1, <2>3, <2>4 DEF QueueOrder
<1>8. LineOrder'
  <2>1. \A i \in 1 .. Len(toHost) : Numbered(toHost[i]) => toHost[i].of < command
    BY <1>4 DEF WindowInv
  <2>2. \A i \in 1 .. Len(toHost) : Numbered(toHost[i]) =>
          \A j \in 1 .. Len(toModem') : toHost[i].of < toModem'[j]
    BY <1>2, <2>1 DEF OrderInv, LineOrder
  <2>3. QED
    BY <1>1, <2>2 DEF OrderInv, LineOrder, Numbered, Before
<1>9. QED
  BY <1>6, <1>7, <1>8 DEF OrderInv

\* The host reads.
LEMMA ReadKeepsFlow ==
  ASSUME TypeInv, FlowInv, Read
  PROVE  FlowInv'
<1>0. /\ WindowInv /\ OrderInv /\ LagBound /\ TypeOK
      /\ command \in Nat /\ got \in Nat /\ crashes \in Nat
      /\ pc # "idle" => result = "none"
  BY Numbers DEF FlowInv, TypeInv, CallInv
<1>1. ReadLine /\ pc \in {"scan", "drain"} /\ UNCHANGED <<command, crashes>>
  BY DEF Read, ScanError, ScanAnswer, ScanSkip, DrainOk, DrainSkip, ReadLine, far
<1>2. CASE ScanError
  <2>1. WindowInv' /\ OrderInv'
    BY <1>0, <1>1, <1>2, ReturnMovesOn DEF ScanError, Return, NextIs, Errors
  <2>2. result' = "false"
    BY <1>2 DEF ScanError, Return, ErrorValue
  <2>3. QED
    BY <2>1, <2>2 DEF FlowInv, LagBound
<1>3. CASE ScanAnswer
  <2>1. /\ Head(toHost) = toHost[1] /\ Head(toHost).kind = "csim"
        /\ Len(toHost) \in Nat \ {0}
    BY <1>0, <1>1, <1>3, ReadMoves DEF ScanAnswer, IsAnswer, NextIs
  <2>2. toHost[1].of \in Window
    BY <1>0, <2>1 DEF WindowInv, Numbered
  <2>3. WindowInv' /\ OrderInv'
    BY <1>0, <1>1, <1>3, <2>1, <2>2, ReadGoesOn DEF ScanAnswer, IsAnswer
  <2>4. result' = "none"
    BY <1>0, <1>3 DEF ScanAnswer
  <2>5. QED
    BY <2>3, <2>4 DEF FlowInv, LagBound
<1>4. CASE ScanSkip \/ DrainSkip
  <2>1. UNCHANGED <<pc, got, result>>
    BY <1>4 DEF ScanSkip, DrainSkip
  <2>2. WindowInv' /\ OrderInv'
    BY <1>0, <1>1, <2>1, ReadGoesOn DEF WindowInv
  <2>3. QED
    BY <1>0, <1>1, <2>1, <2>2 DEF FlowInv, LagBound
<1>5. CASE DrainOk
  <2>1. WindowInv' /\ OrderInv'
    BY <1>0, <1>1, <1>5, ReturnMovesOn DEF DrainOk, Return, Ends, NextIs
  <2>2. got \in command - crashes .. command /\ UNCHANGED got
    BY <1>0, <1>5 DEF DrainOk, WindowInv, Window, Oldest, Newest
  <2>3. LagBound'
    BY <1>0, <1>1, <2>2 DEF LagBound
  <2>4. QED
    BY <2>1, <2>3 DEF FlowInv
<1>6. QED
  BY <1>2, <1>3, <1>4, <1>5 DEF Read

\* Every step keeps what is under way in order and in the window.
LEMMA NextFlowInv == TypeInv /\ FlowInv /\ [Next]_vars => FlowInv'
<1> SUFFICES ASSUME TypeInv, FlowInv, [Next]_vars PROVE FlowInv'
  OBVIOUS
<1>0. /\ WindowInv /\ OrderInv /\ LagBound /\ TypeOK
      /\ command \in Nat /\ got \in Nat /\ crashes \in Nat
      /\ pc # "idle" => result = "none"
  BY Numbers DEF FlowInv, TypeInv, CallInv
<1> DEFINE Same == UNCHANGED <<pc, command, got, result, crashes>>
<1>a. ASSUME Same
      PROVE  LagBound' /\ Window' = Window
  BY <1>0, <1>a DEF LagBound, Window, Oldest, Newest
\* Nothing that is under way changes, or less of it remains.
<1>1. CASE Start \/ UNCHANGED vars
  <2>1. Same /\ UNCHANGED <<toModem, toHost, modem>>
    BY <1>1 DEF Start, vars, far
  <2>2. QED
    BY <1>0, <1>a, <2>1
       DEF FlowInv, WindowInv, OrderInv, QueueOrder, LineOrder, Numbered, Before
<1>2. CASE Stop
  <2>1. Same /\ UNCHANGED <<toModem, modem>> /\ Len(toHost') = 0
    BY <1>2 DEF Stop, far
  <2>2. QED
    BY <1>0, <1>a, <2>1 DEF FlowInv, WindowInv, OrderInv, QueueOrder, LineOrder
<1>3. CASE Unplug
  <2>1. Same /\ Len(toModem') = 0 /\ Len(toHost') = 0 /\ modem' = Resting
    BY <1>3 DEF Unplug
  <2>2. QED
    BY <1>0, <1>a, <2>1
       DEF FlowInv, WindowInv, OrderInv, QueueOrder, LineOrder, Resting
\* The window moves on with a call: it was empty at the old end.
<1>4. CASE Transmit
  <2>1. /\ pc = "idle" /\ pc' = "send" /\ command' = command + 1 /\ result' = "none"
        /\ UNCHANGED <<toModem, toHost, modem, crashes>>
    BY <1>4 DEF Transmit
  <2>2. Window' = Window
    BY <1>0, <2>1 DEF Window, Oldest, Newest
  <2>3. QED
    BY <1>0, <2>1, <2>2
       DEF FlowInv, WindowInv, OrderInv, QueueOrder, LineOrder, LagBound, Numbered,
           Before
<1>5. CASE Send
  <2>1. UNCHANGED <<result, command, got, crashes>>
    BY <1>5 DEF Send, far
  <2>2. QED
    BY <1>0, <1>5, <2>1, SendKeepsFlow DEF FlowInv, LagBound
<1>6. CASE Read
  BY <1>6, ReadKeepsFlow
<1>7. CASE ModemTake
  <2>1. Same
    BY <1>7 DEF ModemTake, host
  <2>2. QED
    BY <1>0, <1>7, <1>a, <2>1, TakeKeepsFlow DEF FlowInv
<1>8. CASE ModemAnswer
  <2>1. Same /\ UNCHANGED toModem
    BY <1>8 DEF ModemAnswer, host
  <2>2. WindowInv' /\ OrderInv'
    BY <1>0, <1>8, <2>1, WriteKeepsFlow DEF ModemAnswer, Kinds
  <2>3. QED
    BY <1>a, <2>1, <2>2 DEF FlowInv
<1>9. CASE ModemOk
  <2>1. Same /\ UNCHANGED toModem
    BY <1>9 DEF ModemOk, host
  <2>2. WindowInv' /\ OrderInv'
    BY <1>0, <1>9, <2>1, WriteKeepsFlow DEF ModemOk, Kinds
  <2>3. QED
    BY <1>a, <2>1, <2>2 DEF FlowInv
<1>10. CASE ModemError
  <2>1. Same /\ UNCHANGED toModem
    BY <1>10 DEF ModemError, host
  <2>2. PICK final \in Finals \ {"ok"} : Write(Line(final, modem.at))
    BY <1>10 DEF ModemError
  <2>3. final \in Kinds /\ final # "csim"
    BY ATInterfaceAssumption DEF Kinds, AllFinals
  <2>4. WindowInv' /\ OrderInv'
    BY <1>0, <1>10, <2>1, <2>2, <2>3, WriteKeepsFlow DEF ModemError
  <2>5. QED
    BY <1>a, <2>1, <2>4 DEF FlowInv
<1>11. CASE ModemOther
  <2>1. Same /\ UNCHANGED <<toModem, modem>>
    BY <1>11 DEF ModemOther, host
  <2>2. /\ OtherLine \in Lines /\ ~Numbered(OtherLine)
        /\ Write(OtherLine)
    BY <1>11, ATInterfaceAssumption DEF ModemOther, OtherLine, Line, Lines, Numbered
  <2>3. /\ Len(toHost) \in Nat /\ Len(toHost') \in Nat
        /\ \A i \in 1 .. Len(toHost') : Numbered(toHost'[i]) =>
             i \in 1 .. Len(toHost) /\ toHost'[i] = toHost[i]
    BY <1>0, <2>2, WriteAppends
  <2>4. WindowInv'
    BY <1>0, <1>a, <2>1, <2>3 DEF WindowInv, Numbered
  <2>5. LineOrder'
    BY <1>0, <2>1, <2>3 DEF OrderInv, LineOrder, Numbered, Before
  <2>6. QueueOrder'
    BY <1>0, <2>1 DEF OrderInv, QueueOrder
  <2>7. QED
    BY <1>a, <2>1, <2>4, <2>5, <2>6 DEF FlowInv, OrderInv
\* A restart gives the window one command more.
<1>12. CASE Crash
  <2>1. /\ pc' = "idle" /\ crashes' = crashes + 1 /\ result' = "none"
        /\ Len(toHost') = 0 /\ UNCHANGED <<command, toModem, modem>>
    BY <1>12 DEF Crash, far
  <2>2. \A n \in Window : n \in Window'
    BY <1>0, <2>1 DEF Window, Oldest, Newest
  <2>3. QED
    BY <1>0, <2>1, <2>2
       DEF FlowInv, WindowInv, OrderInv, QueueOrder, LineOrder, LagBound
<1>13. QED
  BY <1>1, <1>2, <1>3, <1>4, <1>5, <1>6, <1>7, <1>8, <1>9, <1>10, <1>11, <1>12
     DEF Next, Modem

\* Both halves hold in every reachable state, with any number of restarts.
LEMMA FlowSafe == Spec => [](TypeInv /\ FlowInv)
<1>1. QED
  BY InitTypeInv, NextTypeInv, InitFlowInv, NextFlowInv, PTL DEF Spec

\* The response transmitApdu hands over lags behind its command by no more than
\* one command for each restart of the host program, and is the one to its own
\* APDU when there was none (SEInterface.h:162).
THEOREM LagBounded == Spec => []LagBound
<1>1. FlowInv => LagBound
  BY DEF FlowInv
<1>2. QED
  BY <1>1, FlowSafe, PTL

\* Without a restart the window is empty between two calls, and so is the line:
\* sendATCSIM has read the final result of its command when it returns, and no
\* later call can take a line of it for its own.
THEOREM Quiet == Spec => []QuietBetweenCalls
<1>1. TypeInv /\ FlowInv => QuietBetweenCalls
  <2> SUFFICES ASSUME TypeInv, FlowInv, pc = "idle", crashes = 0
               PROVE  ~Pending
    BY DEF QuietBetweenCalls
  <2>0. TypeOK /\ WindowInv
    BY DEF TypeInv, FlowInv
  <2>1. \A n \in Int : n \notin Window
    BY <2>0, Numbers DEF Window, Oldest, Newest
  <2>2. toModem = <<>>
    <3>1. toModem \in Seq(1 .. MaxCommands)
      BY <2>0 DEF TypeOK
    <3>2. ~(1 \in 1 .. Len(toModem))
      BY <2>0, <2>1, Numbers DEF WindowInv
    <3>3. QED
      BY <3>1, <3>2, EmptySeq
  <2>3. modem = Resting
    BY <2>0, <2>1, Numbers DEF WindowInv, TypeOK, Resting
  <2>4. ASSUME NEW i \in DOMAIN toHost PROVE toHost[i].kind = "other"
    <3>1. i \in 1 .. Len(toHost)
      BY <2>0, LenProperties DEF TypeOK
    <3>2. QED
      BY <2>0, <2>1, <3>1, Numbers DEF WindowInv, Numbered
  <2>5. QED
    BY <2>2, <2>3, <2>4 DEF Pending
<1>2. QED
  BY <1>1, FlowSafe, PTL

------------------------------------------------------------------------------
(* The modem layer as an atomic exchange.                                    *)

\* The command of the call is on its way to the card.
Unexecuted == \/ pc = "send"
              \/ \E j \in 1 .. Len(toModem) : toModem[j] = command
              \/ modem = [at |-> command, phase |-> "working"]

\* The card executes a command once, and has done so when its answer is on the
\* way or in the response buffer.
OnceInv ==
  /\ executed \in {0, 1}
  /\ Unexecuted => executed = 0
  /\ \A i \in 1 .. Len(toHost) : toHost[i] = Line("csim", command) => executed = 1
  /\ pc = "drain" /\ got = command => executed = 1

\* No command has been sent, and the card has executed none.
LEMMA InitOnceInv == Init => OnceInv
<1> SUFFICES ASSUME Init PROVE OnceInv
  OBVIOUS
<1>1. Len(toModem) = 0 /\ Len(toHost) = 0
  BY DEF Init
<1>2. QED
  BY <1>1 DEF Init, OnceInv

\* The order of what is under way keeps the modem from taking a command twice.
LEMMA NextOnceInv == TypeInv /\ FlowInv /\ OnceInv /\ [Next]_vars => OnceInv'
<1> SUFFICES ASSUME TypeInv, FlowInv, OnceInv, [Next]_vars PROVE OnceInv'
  OBVIOUS
<1>0. TypeOK /\ WindowInv /\ QueueOrder /\ LineOrder
  BY DEF TypeInv, FlowInv, OrderInv
<1>n. /\ command \in Nat /\ crashes \in Nat /\ modem.at \in Nat
      /\ Len(toModem) \in Nat /\ Len(toHost) \in Nat
  BY <1>0, Numbers
<1>1. CASE Start \/ UNCHANGED vars
  <2>1. UNCHANGED <<pc, command, got, toModem, toHost, modem, executed>>
    BY <1>1 DEF Start, vars, far
  <2>2. QED
    BY <2>1 DEF OnceInv, Unexecuted, Line
<1>2. CASE Stop \/ Unplug \/ Crash
  <2>1. /\ Len(toHost') = 0
        /\ UNCHANGED <<command, got, executed>>
        /\ UNCHANGED pc \/ pc' = "idle"
        /\ UNCHANGED toModem \/ Len(toModem') = 0
        /\ UNCHANGED modem \/ modem'.phase = "rest"
    BY <1>2 DEF Stop, Unplug, Crash, far, Resting
  <2>2. Unexecuted' => Unexecuted
    BY <2>1 DEF Unexecuted
  <2>3. QED
    BY <2>1, <2>2 DEF OnceInv
<1>3. CASE Transmit
  <2>1. /\ pc' = "send" /\ command' = command + 1 /\ executed' = 0
        /\ pc = "idle" /\ UNCHANGED <<toHost>>
    BY <1>3 DEF Transmit
  <2>2. ASSUME NEW i \in 1 .. Len(toHost) PROVE toHost[i] # Line("csim", command + 1)
    BY <1>0, <1>n, <2>1 DEF WindowInv, Window, Oldest, Newest, Numbered, Line
  <2>3. QED
    BY <2>1, <2>2 DEF OnceInv, Line
<1>4. CASE Send
  <2>1. /\ executed = 0 /\ pc' = "scan"
        /\ UNCHANGED <<command, toHost, executed>>
    BY <1>4 DEF Send, far, OnceInv, Unexecuted
  <2>2. QED
    BY <2>1 DEF OnceInv, Line
<1>5. CASE Read
  <2>1. ReadLine
    BY <1>5 DEF Read, ScanError, ScanAnswer, ScanSkip, DrainOk, DrainSkip
  <2>2. UNCHANGED <<command, toModem, modem, executed>>
    BY <2>1 DEF ReadLine, far
  <2>3. /\ Head(toHost) = toHost[1] /\ toHost[1] \in Lines
        /\ Len(toHost') = Len(toHost) - 1 /\ Len(toHost) # 0
        /\ \A i \in 1 .. Len(toHost') : toHost'[i] = toHost[i + 1]
    BY <1>0, <2>1, ReadMoves
  <2>4. pc' # "send" /\ pc # "send"
    BY <1>5 DEF Read, ScanError, ScanAnswer, ScanSkip, DrainOk, DrainSkip, Return
  <2>5. Unexecuted' => Unexecuted
    BY <2>2, <2>4 DEF Unexecuted
  <2>6. \A i \in 1 .. Len(toHost') : toHost'[i] = Line("csim", command) => executed = 1
    BY <1>n, <2>3 DEF OnceInv
  <2>7. pc' = "drain" /\ got' = command => executed = 1
    <3>1. CASE ScanAnswer
      <4>1. toHost[1].kind = "csim" /\ got' = toHost[1].of
        BY <2>3, <3>1 DEF ScanAnswer, NextIs, IsAnswer
      <4>2. toHost[1] = Line("csim", got')
        BY <2>3, <4>1 DEF Lines, OtherLine, Line
      <4>3. QED
        BY <1>n, <2>3, <4>2 DEF OnceInv
    <3>2. CASE ~ScanAnswer
      BY <1>5, <3>2 DEF Read, ScanError, ScanSkip, DrainOk, DrainSkip, Return, OnceInv
    <3>3. QED
      BY <3>1, <3>2
  <2>8. QED
    BY <2>2, <2>5, <2>6, <2>7 DEF OnceInv, Line
<1>6. CASE ModemTake
  <2>1. /\ toModem' = Tail(toModem) /\ toModem # <<>>
        /\ modem' = [at |-> Head(toModem), phase |-> "working"]
        /\ UNCHANGED <<pc, command, got, toHost, executed>>
    BY <1>6 DEF ModemTake, host
  <2>2. /\ Head(toModem) = toModem[1]
        /\ Len(toModem') = Len(toModem) - 1 /\ Len(toModem) # 0
        /\ \A j \in 1 .. Len(toModem') : toModem'[j] = toModem[j + 1]
    BY <1>0, <2>1, TakeMoves
  <2>3. Unexecuted' => Unexecuted
    BY <1>n, <2>1, <2>2 DEF Unexecuted
  <2>4. QED
    BY <2>1, <2>3 DEF OnceInv, Line
<1>7. CASE ModemAnswer \/ ModemError
  <2>1. /\ modem.phase = "working" /\ modem'.phase \in {"answered", "rest"}
        /\ UNCHANGED <<pc, command, got, toModem>>
    BY <1>0, <1>7 DEF ModemAnswer, ModemError, host, Resting, TypeOK
  <2>2. PICK kind \in Kinds \ {"ok"} :
          Write(Line(kind, modem.at)) /\ (kind = "csim" => CardExecutes)
    BY <1>7, ATInterfaceAssumption DEF ModemAnswer, ModemError, Kinds, AllFinals
  <2>3. Line(kind, modem.at) \in Lines
    BY <1>0 DEF Line, Lines, Kinds, TypeOK
  <2>4. \A i \in 1 .. Len(toHost') :
          \/ i \in 1 .. Len(toHost) /\ toHost'[i] = toHost[i]
          \/ toHost'[i] = Line(kind, modem.at)
    BY <1>0, <2>2, <2>3, WriteAppends
  <2>5. CASE modem.at = command
    <3>1. executed = 0
      BY <1>0, <2>1, <2>5 DEF OnceInv, Unexecuted, TypeOK
    <3>2. executed' \in {0, 1} /\ (kind = "csim" => executed' = 1)
      BY <1>7, <2>2, <2>5, <3>1 DEF ModemAnswer, ModemError, CardExecutes
    <3>3. ~Unexecuted'
      <4>1. pc # "send"
        BY <1>0, <1>n, <2>1, <2>5 DEF WindowInv, Window, Oldest, Newest
      <4>2. \A j \in 1 .. Len(toModem) : toModem[j] # command
        BY <1>0, <1>n, <2>1, <2>5, Numbers DEF QueueOrder
      <4>3. QED
        BY <2>1, <4>1, <4>2 DEF Unexecuted
    <3>4. \A i \in 1 .. Len(toHost) : toHost[i] # Line("csim", command)
      BY <3>1 DEF OnceInv
    <3>5. pc = "drain" => got # command
      BY <3>1 DEF OnceInv
    <3>6. QED
      BY <2>1, <2>4, <2>5, <3>2, <3>3, <3>4, <3>5 DEF OnceInv, Line
  <2>6. CASE modem.at # command
    <3>1. executed' = executed
      BY <1>7, <2>6 DEF ModemAnswer, ModemError, CardExecutes
    <3>2. Unexecuted' => Unexecuted
      BY <2>1 DEF Unexecuted
    <3>3. QED
      BY <2>1, <2>4, <2>6, <3>1, <3>2 DEF OnceInv, Line
  <2>7. QED
    BY <2>5, <2>6
<1>8. CASE ModemOk \/ ModemOther
  <2>1. UNCHANGED <<pc, command, got, toModem, executed>>
    BY <1>8 DEF ModemOk, ModemOther, host
  <2>2. UNCHANGED modem \/ modem'.phase = "rest"
    BY <1>8 DEF ModemOk, ModemOther, Resting
  <2>3. PICK line \in Lines : Write(line) /\ line.kind # "csim"
    <3>1. /\ Line("ok", modem.at) \in Lines /\ Line("ok", modem.at).kind # "csim"
          /\ OtherLine \in Lines /\ OtherLine.kind # "csim"
      BY <1>0, ATInterfaceAssumption DEF OtherLine, Line, Lines, Kinds, TypeOK
    <3>2. Write(Line("ok", modem.at)) \/ Write(OtherLine)
      BY <1>8 DEF ModemOk, ModemOther
    <3>3. QED
      BY <3>1, <3>2
  <2>4. \A i \in 1 .. Len(toHost') :
          \/ i \in 1 .. Len(toHost) /\ toHost'[i] = toHost[i]
          \/ toHost'[i] = line
    BY <1>0, <2>3, WriteAppends
  <2>5. Unexecuted' => Unexecuted
    BY <2>1, <2>2 DEF Unexecuted
  <2>6. QED
    BY <2>1, <2>3, <2>4, <2>5 DEF OnceInv, Line
<1>9. QED
  BY <1>1, <1>2, <1>3, <1>4, <1>5, <1>6, <1>7, <1>8 DEF Next, Modem

\* The card executes a command of the host at most once, however the line, the
\* modem and the restarts behave.
THEOREM ExecutedOnce == Spec => [](executed \in {0, 1})
<1>1. OnceInv => executed \in {0, 1}
  BY DEF OnceInv
<1>2. QED
  BY <1>1, FlowSafe, InitOnceInv, NextOnceInv, PTL DEF Spec

\* As long as the program is not restarted, the modem layer implements the atomic
\* exchange that SEInterface::transmit builds on: every step of it is one of the
\* exchange or leaves the exchange as it is.
THEOREM Implements == Spec => ImplementsExchange
<1>1. Init => Exchange!Init
  BY DEF Init, Exchange!Init
<1>2. ASSUME TypeInv, FlowInv, OnceInv, (TypeInv /\ FlowInv)', [Next]_vars
      PROVE  [crashes' = 0 => Exchange!Next]_(Exchange!vars)
  <2> SUFFICES ASSUME crashes' = 0
               PROVE  Exchange!Next \/ UNCHANGED (Exchange!vars)
    BY Zenon
  <2>0. TypeOK /\ WindowInv /\ TypeOK'
    BY <1>2 DEF TypeInv, FlowInv
  <2>n. command \in Nat /\ crashes \in Nat /\ got \in Nat
    BY <2>0, Numbers
  <2>1. CASE \/ Start \/ Stop \/ Unplug \/ Send \/ ScanAnswer \/ ScanSkip \/ DrainSkip
             \/ ModemTake \/ ModemOk \/ ModemOther \/ UNCHANGED vars
    <3>1. /\ UNCHANGED <<executed>> /\ result' = result
          /\ pc' # "idle" <=> pc # "idle"
      BY <2>1 DEF Start, Stop, Unplug, Send, ScanAnswer, ScanSkip, DrainSkip, ReadLine,
           ModemTake, ModemOk, ModemOther, host, far, vars
    <3>2. QED
      BY <3>1 DEF Exchange!vars
  <2>2. CASE Transmit
    <3>1. /\ pc = "idle" /\ pc' # "idle" /\ executed' = 0 /\ result' = "none"
      BY <2>2 DEF Transmit
    <3>2. QED
      BY <3>1 DEF Exchange!Next, Exchange!Begin
  <2>3. CASE ScanError
    <3>1. /\ pc # "idle" /\ pc' = "idle" /\ executed' = executed /\ result' = "false"
      BY <2>3 DEF ScanError, Return, ErrorValue, ReadLine, far
    <3>2. QED
      BY <3>1 DEF Exchange!Next, Exchange!Finish, Exchange!CardMayExecute,
           Exchange!Outcomes
  <2>4. CASE DrainOk
    <3>1. /\ pc = "drain" /\ pc' = "idle" /\ executed' = executed /\ result' = "true"
          /\ crashes = 0
      BY <2>4 DEF DrainOk, Return, ReadLine, far
    <3>2. got = command
      BY <2>0, <2>n, <3>1 DEF WindowInv, Window, Oldest, Newest
    <3>3. executed' = 1
      BY <1>2, <3>1, <3>2 DEF OnceInv
    <3>4. QED
      BY <3>1, <3>3 DEF Exchange!Next, Exchange!Finish, Exchange!CardMayExecute,
           Exchange!Outcomes
  <2>5. CASE ModemAnswer \/ ModemError
    <3>1. /\ modem.phase = "working" /\ UNCHANGED <<pc, command, result, crashes>>
      BY <2>5 DEF ModemAnswer, ModemError, host
    <3>2. pc # "idle"
      BY <2>0, <2>n, <3>1, Numbers DEF WindowInv, Window, Oldest, Newest
    <3>3. executed' = executed \/ (executed = 0 /\ executed' = 1)
      <4>1. CASE modem.at = command
        <5>1. executed = 0
          BY <1>2, <2>0, <3>1, <4>1 DEF OnceInv, Unexecuted, TypeOK
        <5>2. QED
          BY <2>5, <4>1, <5>1 DEF ModemAnswer, ModemError, CardExecutes
      <4>2. CASE modem.at # command
        BY <2>5, <4>2 DEF ModemAnswer, ModemError, CardExecutes
      <4>3. QED
        BY <4>1, <4>2
    <3>4. QED
      BY <3>1, <3>2, <3>3 DEF Exchange!Next, Exchange!Work, Exchange!CardMayExecute
  <2>6. CASE Crash
    BY <2>6, <2>n DEF Crash
  <2>7. QED
    BY <1>2, <2>1, <2>2, <2>3, <2>4, <2>5, <2>6 DEF Next, Read, Modem
<1>3. QED
  BY <1>1, <1>2, FlowSafe, InitOnceInv, NextOnceInv, PTL DEF Spec, ImplementsExchange
==============================================================================
