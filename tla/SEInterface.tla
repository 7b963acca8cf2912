----------------------------- MODULE SEInterface -----------------------------
(* The "in between" layer, SEInterface.cpp: the four transmit overloads fill *)
(* the one APDU buffer, and the private transmit() sends it, repeats it with *)
(* the length the card asks for (6Cxx), fetches the answer the card announces*)
(* (61xx, 9Fxx) with GET RESPONSE, and leaves the last answer in the one     *)
(* response buffer that getStatusWord and getResponse read.  The card is     *)
(* modelled from ISO 7816-4, as this code uses it.                           *)
EXTENDS Integers

CONSTANTS
  Channels,      \* the channels of the callers; CLA & 0x03 keeps 0 .. 3
  DataSizes,     \* the lengths of command data callers pass
  ResponseSizes, \* the lengths of the card's answers, 0 for none
  ExpectedSizes, \* the lengths callers expect: Le, 0 standing for 256
  LeCases,       \* the command cases whose Le a card may answer with 6Cxx
  MaxFaults      \* bound: exchanges the lower layer loses

ASSUME SEInterfaceAssumption ==
  /\ Channels \subseteq 0 .. 3
  /\ DataSizes \subseteq Nat \ {0}
  /\ ResponseSizes \subseteq Nat
  /\ ExpectedSizes \subseteq 0 .. 255
  /\ LeCases \subseteq {2, 4}
  /\ MaxFaults \in Nat

VARIABLES
  pc,       \* "idle", "sending" (transmitApdu is called), "answering" (the
            \* card has dealt with the command) or "aborted"
  call,     \* the call in progress, and the answer the card has for it
  apdu,     \* _apdu and _apduLen
  rsp,      \* _apduResponse and _apduResponseLen
  wire,     \* the card's answer, on its way to transmitApdu
  result,   \* what the last transmit returned
  pending,  \* the card: the bytes of an answer waiting on each channel
  mine,     \* history: on which channel they answer the call in progress
  executed, \* history: how often the card executed the command of the call
  faults    \* the exchanges lost so far

host == <<pc, call, apdu, rsp, result, faults>>
uicc == <<wire, pending, mine, executed>>
vars == <<pc, call, apdu, rsp, result, faults,
          wire, pending, mine, executed>>

(* A call: its case (1 no data, 2 answer expected, 3 data, 4 both), its      *)
(* channel, the length of its data, its Le, and the length of the answer the *)
(* card has for it.                                                          *)
Calls == [case : 1 .. 4, chan : Channels, lc : DataSizes \cup {0},
          le : ExpectedSizes, size : ResponseSizes]

\* The total length of each case.  In the buffer ins tells the caller's command
\* from GET RESPONSE, p3 is byte 4, Lc or Le.
Length(k, lc) == CASE k = 1 -> 4 [] k = 2 -> 5 [] k = 3 -> 5 + lc [] k = 4 -> 6 + lc

\* A status word: what kind it is, and its second byte where that matters.
Status(k, xx) == [kind |-> k, xx |-> xx]
NoStatus == Status("none", 0)

Init == /\ pc = "idle" /\ result = "none"
        /\ call \in {c \in Calls : c.case = 1 /\ c.lc = 0}
        /\ apdu = [ins |-> "none", chan |-> call.chan, p3 |-> 0, len |-> 0]
        /\ rsp = [n |-> 0, status |-> NoStatus, mine |-> FALSE]
        /\ wire = rsp
        /\ pending = [c \in Channels |-> 0]
        /\ mine = {}
        /\ executed = 0 /\ faults = 0

------------------------------------------------------------------------------
(* The transmit overloads.                                                   *)

\* What a case does not carry is 0: Lc of cases 1 and 2, Le of cases 1 and 3.
Meaningful(c) == /\ (c.lc # 0) <=> c.case \in {3, 4}
                 /\ c.case \in {1, 3} => c.le = 0

\* Case 1 leaves byte 4 as it was; the others write Lc or Le there.
ByteFour_OneMore(c) == IF c.case = 2 THEN c.le ELSE c.lc + 1
ByteFour(c) == CASE c.case = 1 -> apdu.p3
                 [] c.case = 2 -> c.le
                 [] c.case \in {3, 4} -> c.lc

Transmit(c) == /\ pc = "idle" /\ Meaningful(c) /\ c.lc <= 255
               /\ call' = c
               /\ apdu' = [ins |-> "command", chan |-> c.chan,
                           p3 |-> ByteFour(c), len |-> Length(c.case, c.lc)]
               /\ pc' = "sending"
               /\ result' = "none" /\ executed' = 0 /\ mine' = {}
               /\ rsp' = [rsp EXCEPT !.mine = FALSE]
               /\ UNCHANGED <<wire, pending, faults>>

\* assert(dataLen <= 255): the program ends before the buffer is sent.
TransmitTooLong(c) == /\ pc = "idle" /\ Meaningful(c) /\ c.lc > 255
                      /\ pc' = "aborted"
                      /\ UNCHANGED <<call, apdu, rsp, result, faults, uicc>>

------------------------------------------------------------------------------
(* The card's side of an exchange.                                           *)

Shortest(a, b) == IF a < b THEN a ELSE b

\* The second byte of 61xx and 6Cxx for n bytes: at most 256, 256 written as 0.
Offer(n) == Shortest(n, 256) % 256

\* The bytes an expected length asks for.
Asked(le) == IF le = 0 THEN 256 ELSE le

\* A command whose total length and byte 4 agree with its case.
WellFormed == /\ apdu.ins = "command"
              /\ apdu.len = CASE call.case = 1 -> 4
                              [] call.case = 2 -> 5
                              [] call.case = 3 -> 5 + apdu.p3
                              [] call.case = 4 -> 5 + apdu.p3 + 1

Le == IF call.case = 2 THEN apdu.p3 ELSE call.le

\* What the card does to the rest of its state: answer, and keep what is left.
Answer(n, status, own) == wire' = [n |-> n, status |-> status, mine |-> own]
Keep(n) == pending' = [pending EXCEPT ![apdu.chan] = n]

Good == {Status("9000", 0), Status("91xx", 0)}

Execute == /\ WellFormed
           /\ executed' = executed + 1
           /\ \E status \in Good :
              \/ /\ call.size = 0                   \* nothing to answer
                 /\ Answer(0, status, FALSE) /\ Keep(0) /\ mine' = mine
              \/ /\ call.size > 0                   \* announced with 61xx
                 /\ Answer(0, Status("61xx", Offer(call.size)), FALSE)
                 /\ Keep(call.size) /\ mine' = mine \cup {apdu.chan}
              \/ /\ call.case \in {2, 4}            \* answered at once
                 /\ call.size > 0 /\ call.size <= 256
                 /\ Asked(Le) \in {call.size, 256}
                 /\ Answer(call.size, status, TRUE) /\ Keep(0) /\ mine' = mine

RefuseLe == /\ WellFormed
            /\ call.case \in LeCases
            /\ call.size > 0 /\ Le # Offer(call.size)
            /\ Answer(0, Status("6Cxx", Offer(call.size)), FALSE)
            /\ Keep(0)
            /\ UNCHANGED <<executed, mine>>

\* The command is wrong, or not acceptable now, and is not executed.
Refuse == /\ apdu.ins = "command"
          /\ Answer(0, Status("error", 0), FALSE)
          /\ Keep(0)
          /\ UNCHANGED <<executed, mine>>

\* GET RESPONSE must ask for what was announced; the card gives as much as one
\* answer can carry, and announces the rest.
GetResponse ==
  /\ apdu.ins = "get_response"
  /\ LET left == pending[apdu.chan]
         out  == Shortest(left, 256)
         own  == apdu.chan \in mine
     IN IF left = 0
        THEN Answer(0, Status("error", 0), FALSE) /\ Keep(0)
        ELSE IF apdu.p3 # Offer(left)
        THEN Answer(0, Status("6Cxx", Offer(left)), FALSE) /\ Keep(left)
        ELSE /\ Keep(left - out)
             /\ \E status \in IF left = out THEN Good
                              ELSE {Status("61xx", Offer(left - out))} :
                  Answer(out, status, own)
  /\ UNCHANGED <<executed, mine>>

Card == /\ pc = "sending"
        /\ Execute \/ RefuseLe \/ Refuse \/ GetResponse
        /\ pc' = "answering"
        /\ UNCHANGED <<call, apdu, rsp, result, faults>>

------------------------------------------------------------------------------
(* The private transmit(): transmitApdu, then what its answer asks for.      *)

Bare_LengthOff(kind) == wire.n = 2 /\ wire.status.kind = kind
Bare(kind) == wire.n = 0 /\ wire.status.kind = kind

Receive == /\ pc = "answering"
           /\ rsp' = wire
           /\ UNCHANGED <<call, faults, uicc>>

\* A bare 6Cxx: the length goes into byte 4 and the buffer is sent again.
Corrected_Unchanged(xx) == apdu
Corrected_HeaderOnly(xx) == [apdu EXCEPT !.p3 = xx, !.len = 5]
Corrected(xx) == [apdu EXCEPT !.p3 = xx]

SendAgain == /\ Receive /\ Bare("6Cxx")
             /\ apdu' = Corrected(wire.status.xx)
             /\ pc' = "sending"
             /\ UNCHANGED result

\* A bare 61xx or 9Fxx: GET RESPONSE on the channel of the command.
Fetching_InsKept(xx) == [apdu EXCEPT !.p3 = xx, !.len = 5]
Fetching_ChannelZero(xx) ==
  [ins |-> "get_response", chan |-> 0, p3 |-> xx, len |-> 5]
Fetching(xx) == [ins |-> "get_response", chan |-> apdu.chan, p3 |-> xx, len |-> 5]

FetchResponse == /\ Receive /\ Bare("61xx")
                 /\ apdu' = Fetching(wire.status.xx)
                 /\ pc' = "sending"
                 /\ UNCHANGED result

Succeed == /\ Receive /\ ~Bare("6Cxx") /\ ~Bare("61xx")
           /\ pc' = "idle" /\ result' = "success"
           /\ UNCHANGED apdu

\* transmitApdu returns false: the command never reached the card, or the
\* answer was lost; the response buffer is left as it was.
Fail == /\ pc \in {"sending", "answering"}
        /\ faults < MaxFaults /\ faults' = faults + 1
        /\ pc' = "idle" /\ result' = "failure"
        /\ UNCHANGED <<call, apdu, rsp, uicc>>

------------------------------------------------------------------------------
(* getResponse(data).  getStatusWord and getResponseLength read and change   *)
(* nothing: rsp.status and rsp.n are what they return.                       *)

ReadResponse == /\ pc = "idle"
                /\ rsp.n > 255                      \* assert(len <= 255)
                /\ pc' = "aborted"
                /\ UNCHANGED <<call, apdu, rsp, result, faults, uicc>>

------------------------------------------------------------------------------

Next == \/ \E c \in Calls : Transmit(c) \/ TransmitTooLong(c)
        \/ Card
        \/ SendAgain \/ FetchResponse \/ Succeed \/ Fail
        \/ ReadResponse

Spec == Init /\ [][Next]_vars

\* transmitApdu returns, and the code between two calls of it is sequential.
FairSpec == Spec /\ WF_vars(Card) /\ WF_vars(SendAgain \/ FetchResponse \/ Succeed)

------------------------------------------------------------------------------
(* Properties.                                                               *)

Kinds == {"none", "9000", "91xx", "61xx", "6Cxx", "error"}
StatusWords == [kind : Kinds, xx : 0 .. 255]
Responses == [n : 0 .. 256, status : StatusWords, mine : BOOLEAN]

\* Every variable keeps its type: byte 4 stays a byte.
TypeOK ==
  /\ pc \in {"idle", "sending", "answering", "aborted"}
  /\ call \in Calls
  /\ apdu \in [ins : {"none", "command", "get_response"}, chan : Channels,
               p3 : 0 .. 255, len : 0 .. 261]
  /\ rsp \in Responses /\ wire \in Responses
  /\ result \in {"none", "success", "failure"}
  /\ pending \in [Channels -> Nat]
  /\ mine \in SUBSET Channels
  /\ executed \in Nat /\ faults \in 0 .. MaxFaults

\* However often the buffer is sent for one call, the card executes its command
\* at most once (SEInterface.cpp:146-171).
AtMostOnce == executed <= 1

\* A transmit that succeeded with a good status was executed, and the bytes in
\* the response buffer are the whole answer to this very call, none of them a
\* leftover of another; with an error status nothing was executed.
SuccessIsTruthful ==
  (pc = "idle" /\ result = "success") =>
     CASE rsp.status.kind \in {"9000", "91xx"} ->
            executed = 1 /\ rsp.n <= call.size /\ (rsp.n > 0 => rsp.mine)
       [] rsp.status.kind = "error" -> executed = 0
       [] OTHER -> executed = 1

\* As above, and nothing of the answer is missing; and an answer that fits one
\* exchange never reaches the caller as 61xx or 6Cxx (SEInterface.h:173).
AnswerIsWhole ==
  (pc = "idle" /\ result = "success") =>
     CASE rsp.status.kind \in {"9000", "91xx"} -> rsp.n = call.size
       [] rsp.status.kind = "error" -> TRUE
       [] OTHER -> call.size > 256

\* GET RESPONSE goes to the channel of the command it belongs to
\* (SEInterface.cpp:161) and asks for exactly what the card announced there.
FetchesOwnAnswer ==
  (pc = "sending" /\ apdu.ins = "get_response") =>
     /\ apdu.chan = call.chan /\ apdu.chan \in mine
     /\ apdu.p3 = Offer(pending[apdu.chan])

\* What is sent again after a 6Cxx is still the caller's command.
ResendsTheCommand == (pc = "sending" /\ apdu.ins = "command") => WellFormed

\* ... which fails in one way only: a command with data and Le whose Lc has been
\* overwritten by another length (SEInterface.cpp:155).  Nothing else of it is lost.
Overwritten == /\ call.case = 4
               /\ apdu.p3 = Offer(call.size) /\ apdu.p3 # call.lc
ResendsAllButLc ==
  (pc = "sending" /\ apdu.ins = "command") => WellFormed \/ Overwritten

\* Every transmit returns: the chain of 6Cxx and 61xx ends.  The one that need not
\* is that of a command with data whose Lc happens to be the length the card
\* offers: the buffer goes out as it was, with the same Le, as often as the card
\* refuses it.
SentAsItWas == call.case = 4 /\ call.lc = Offer(call.size)
TransmitReturns ==
  (pc \in {"sending", "answering"} /\ ~SentAsItWas) ~> pc = "idle"

\* Transmit is an atomic exchange for the layers above.
Exchange == INSTANCE AtomicExchange WITH
              busy <- pc \in {"sending", "answering"},
              outcome <- CASE result = "success" ->
                                IF rsp.status.kind = "error" THEN "refused"
                                ELSE "done"
                           [] result = "failure" -> "failed"
                           [] result = "none" -> "none"
ImplementsExchange == Exchange!Spec
==============================================================================
