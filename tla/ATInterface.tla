----------------------------- MODULE ATInterface -----------------------------
(* The modem layer: GenericModem::transmitApdu sends an APDU as one AT+CSIM  *)
(* command line over the serial port (LSerial.cpp) and reads lines until it  *)
(* has the answer and the final result (ATInterface.cpp).  The modem is the  *)
(* environment: it takes a command line, has the card execute the APDU, and  *)
(* writes the answer line and the final result, with lines of its own        *)
(* (echo, empty lines, notifications) anywhere between.                      *)
EXTENDS Integers, Sequences

CONSTANTS
  Finals,        \* the ways the modem ends a command: see AllFinals
  MaxCommands,   \* bound: commands of the host
  MaxOther,      \* bound: lines of the modem that answer no command
  MaxCrashes,    \* bound: deaths of the host program
  OpenFirst,     \* callers transmit only while the port is open
  CanUnplug      \* the device may disappear

\* Answer and OK; ERROR; +CME ERROR; a final result the code does not know
\* (+CMS ERROR, NO CARRIER).
AllFinals == {"ok", "error", "cme", "unknown"}

ASSUME ATInterfaceAssumption ==
  /\ Finals \subseteq AllFinals
  /\ MaxCommands \in Nat /\ MaxOther \in Nat /\ MaxCrashes \in Nat
  /\ OpenFirst \in BOOLEAN /\ CanUnplug \in BOOLEAN

VARIABLES
  port,      \* m_uart: "none" (-1), "open", "closed" (a number that was closed,
             \* kept by stop) or "gone" (the device disappeared)
  pc,        \* of sendATCSIM: "idle", "send", "scan" (the loop up to +CSIM) or
             \* "drain" (the loop up to OK)
  command,   \* history: the number of the last command
  got,       \* history: the command the APDU in the response buffer answers
  result,    \* what sendATCSIM returned: "none", "true" or "false"
  toModem,   \* the command lines written and not yet taken by the modem
  toHost,    \* the lines written by the modem and not yet read
  modem,     \* the command the modem is at (0 for none), and its phase
  executed,  \* history: how often the card executed the last command
  muted,     \* history: the modem ended the last command with a final result
             \* the code does not know
  others,    \* the lines so far that answer no command
  crashes    \* the deaths of the host program so far

host == <<port, pc, command, got, result>>
far  == <<modem, executed, muted, others>>
vars == <<port, pc, command, got, result, toModem, toHost, modem, executed,
          muted, others, crashes>>

Resting == [at |-> 0, phase |-> "rest"]

\* A line, and the command it is about; echoes and notifications are about none.
Line(kind, n) == [kind |-> kind, of |-> n]
OtherLine == Line("other", -1)

Init == /\ port = "none" /\ pc = "idle"
        /\ command = 0 /\ got = 0 /\ result = "none"
        /\ toModem = <<>> /\ toHost = <<>>
        /\ modem = Resting /\ executed = 0 /\ muted = FALSE
        /\ others = 0 /\ crashes = 0

------------------------------------------------------------------------------
(* The port.                                                                 *)

\* start opens the device or sets m_uart to -1.
Start == /\ pc = "idle" /\ port # "open"
         /\ port' \in IF port = "gone" THEN {"none"} ELSE {"open", "none"}
         /\ UNCHANGED <<pc, command, got, result, toModem, toHost, far, crashes>>

\* stop closes the device and keeps its number; the lines not read are dropped.
Stop == /\ pc = "idle" /\ port = "open"
        /\ port' = "closed" /\ toHost' = <<>>
        /\ UNCHANGED <<pc, command, got, result, toModem, far, crashes>>

Unplug == /\ CanUnplug /\ port = "open"
          /\ port' = "gone"
          /\ toHost' = <<>> /\ toModem' = <<>> /\ modem' = Resting
          /\ UNCHANGED <<pc, command, got, result, executed, muted, others, crashes>>

\* write and read succeed; otherwise they return -1, and send and recv false.
Usable == port = "open"

------------------------------------------------------------------------------
(* sendATCSIM.                                                               *)

Transmit == /\ pc = "idle" /\ command < MaxCommands
            /\ OpenFirst => port = "open"
            /\ command' = command + 1
            /\ result' = "none" /\ executed' = 0 /\ muted' = FALSE
            /\ pc' = "send"
            /\ UNCHANGED <<port, got, toModem, toHost, modem, others, crashes>>

\* The result of send is ignored: the loop is entered whether or not the
\* command was written.
Send == /\ pc = "send"
        /\ toModem' = IF Usable THEN Append(toModem, command) ELSE toModem
        /\ pc' = "scan"
        /\ UNCHANGED <<port, command, got, result, toHost, far, crashes>>

Return(value) == pc' = "idle" /\ result' = value

\* readLine takes the next line.  When recv fails, readLine returns false, its
\* result is ignored and the loop is repeated: nothing changes.
ReadLine == /\ Usable /\ toHost # <<>>
            /\ toHost' = Tail(toHost)
            /\ UNCHANGED <<port, command, toModem, far, crashes>>

NextIs(kinds) == Head(toHost).kind \in kinds

Errors_OnlyError == {"error"}
Errors == {"error", "cme"}

ErrorValue_True == "true"
ErrorValue == "false"

ScanError == /\ pc = "scan" /\ ReadLine /\ NextIs(Errors)
             /\ Return(ErrorValue)
             /\ UNCHANGED got

\* The line with the answer is the one that begins with +CSIM; it is parsed into
\* the response buffer.
IsAnswer_AnyLine == ~NextIs(Errors)
IsAnswer == NextIs({"csim"})

ScanAnswer == /\ pc = "scan" /\ ReadLine /\ IsAnswer
              /\ got' = Head(toHost).of
              /\ pc' = "drain"
              /\ UNCHANGED result

ScanSkip == /\ pc = "scan" /\ ReadLine /\ ~IsAnswer /\ ~NextIs(Errors)
            /\ UNCHANGED <<pc, got, result>>

Ends_AnyLine == TRUE
Ends == NextIs({"ok"})

DrainOk == /\ pc = "drain" /\ ReadLine /\ Ends
           /\ Return("true")
           /\ UNCHANGED got

DrainSkip == /\ pc = "drain" /\ ReadLine /\ ~Ends
             /\ UNCHANGED <<pc, got, result>>

Read == ScanError \/ ScanAnswer \/ ScanSkip \/ DrainOk \/ DrainSkip

\* The host program dies and is started again; the modem goes on.
Crash == /\ crashes < MaxCrashes /\ port = "open"
         /\ crashes' = crashes + 1
         /\ port' = "none" /\ pc' = "idle" /\ result' = "none"
         /\ toHost' = <<>>
         /\ UNCHANGED <<command, got, toModem, far>>

------------------------------------------------------------------------------
(* The modem.  What it writes while nobody has the port open is dropped.     *)

Write(line) == toHost' = IF port = "open" THEN Append(toHost, line) ELSE toHost

ModemTake == /\ modem = Resting /\ toModem # <<>>
             /\ modem' = [at |-> Head(toModem), phase |-> "working"]
             /\ toModem' = Tail(toModem)
             /\ UNCHANGED <<host, toHost, executed, muted, others, crashes>>

CardExecutes == executed' = IF modem.at = command THEN executed + 1 ELSE executed

ModemAnswer == /\ modem.phase = "working" /\ "ok" \in Finals
               /\ CardExecutes
               /\ Write(Line("csim", modem.at))
               /\ modem' = [modem EXCEPT !.phase = "answered"]
               /\ UNCHANGED <<host, toModem, muted, others, crashes>>

ModemOk == /\ modem.phase = "answered"
           /\ Write(Line("ok", modem.at))
           /\ modem' = Resting
           /\ UNCHANGED <<host, toModem, executed, muted, others, crashes>>

\* The modem reports an error, the APDU executed or not.
ModemError == /\ modem.phase = "working"
              /\ CardExecutes \/ executed' = executed
              /\ \E final \in Finals \ {"ok"} :
                   /\ Write(Line(final, modem.at))
                   /\ muted' = (muted \/ (final = "unknown" /\ modem.at = command))
              /\ modem' = Resting
              /\ UNCHANGED <<host, toModem, others, crashes>>

ModemOther == /\ others < MaxOther
              /\ others' = others + 1
              /\ Write(OtherLine)
              /\ UNCHANGED <<host, toModem, modem, executed, muted, crashes>>

Modem == ModemTake \/ ModemAnswer \/ ModemOk \/ ModemError

------------------------------------------------------------------------------

Next == \/ Start \/ Stop \/ Unplug
        \/ Transmit \/ Send \/ Read
        \/ Modem \/ ModemOther
        \/ Crash

Spec == Init /\ [][Next]_vars

\* The modem answers what it is given, and the host thread goes on reading.
FairSpec == Spec /\ WF_vars(Modem) /\ WF_vars(Send) /\ WF_vars(Read)

------------------------------------------------------------------------------
(* Properties.                                                               *)

Kinds == {"csim", "ok", "error", "cme", "unknown"}

\* Every variable keeps its type: what is in the response buffer is from a line
\* with an answer, never from an echo or a notification.
TypeOK ==
  /\ port \in {"none", "open", "closed", "gone"}
  /\ pc \in {"idle", "send", "scan", "drain"}
  /\ command \in 0 .. MaxCommands /\ got \in 0 .. MaxCommands
  /\ result \in {"none", "true", "false"}
  /\ toModem \in Seq(1 .. MaxCommands)
  /\ toHost \in Seq([kind : Kinds, of : 0 .. MaxCommands] \cup {OtherLine})
  /\ modem \in [at : 0 .. MaxCommands, phase : {"rest", "working", "answered"}]
  /\ executed \in Nat /\ muted \in BOOLEAN
  /\ others \in 0 .. MaxOther /\ crashes \in 0 .. MaxCrashes

\* The response transmitApdu hands over is the one to its own APDU
\* (SEInterface.h:162), never that of an earlier command, as long as the program
\* was not restarted.  After a restart the host may take the answers of the
\* program before for its own: it falls behind by one command for each restart
\* and no further, however many commands it sends.
LagBound == result = "true" => command - got <= crashes

Pending == toModem # <<>> \/ modem # Resting
             \/ \E i \in DOMAIN toHost : toHost[i].kind # "other"

\* Between two calls the line is quiet: the final result of the last command
\* has been read, so that no later call can take it for its own, and no command
\* is written to a modem that is still at another.
QuietBetweenCalls == (pc = "idle" /\ crashes = 0) => ~Pending

\* sendATCSIM returns (SEInterface.h:163 promises true or false), if the port
\* stays open and the modem ends the command with a result the code knows.
TransmitReturns == pc # "idle" ~> (pc = "idle" \/ ~Usable \/ muted)

\* The modem layer is an atomic exchange for SEInterface, as long as the program
\* is not restarted (SEInterface.h:158-163).
Exchange == INSTANCE AtomicExchange WITH
              busy <- pc # "idle",
              outcome <- CASE result = "true" -> "done"
                           [] result = "false" -> "failed"
                           [] result = "none" -> "none"
ImplementsExchange ==
  Exchange!Init /\ [][crashes' = 0 => Exchange!Next]_(Exchange!vars)

\* sendATCSIM returns, whatever happens to the port.
AlwaysReturns == pc # "idle" ~> pc = "idle"
==============================================================================
