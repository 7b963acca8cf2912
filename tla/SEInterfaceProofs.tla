-------------------------- MODULE SEInterfaceProofs --------------------------
(* Theorems about the "in between" layer, for data and answers of every      *)
(* length, every expected length, and any number of lost exchanges: its      *)
(* types, and that it implements the atomic exchange the layers above take   *)
(* it for.                                                                   *)
EXTENDS SEInterface, TLAPS

------------------------------------------------------------------------------
(* Type correctness.                                                         *)

\* 61xx and 6Cxx offer what one byte can say.
LEMMA OfferIsByte == \A n \in Nat : Offer(n) \in 0 .. 255
BY DEF Offer, Shortest

\* A status made of a kind and a byte is a status word.
LEMMA StatusTypes == \A k \in Kinds, xx \in 0 .. 255 : Status(k, xx) \in StatusWords
BY DEF Status, StatusWords

\* The statuses of a command that was executed.
LEMMA GoodTypes == \A s \in Good : s \in StatusWords /\ s.kind \in {"9000", "91xx"}
BY DEF Good, Status, StatusWords, Kinds

\* The status of one that was not.
LEMMA ErrorTypes == Status("error", 0) \in StatusWords
BY StatusTypes DEF Kinds

\* The statuses that offer a length.
LEMMA OfferTypes ==
  \A n \in Nat : /\ Status("61xx", Offer(n)) \in StatusWords
                 /\ Status("6Cxx", Offer(n)) \in StatusWords
BY OfferIsByte, StatusTypes DEF Kinds

\* An answer with data is a response.
LEMMA AnswerTypes ==
  ASSUME NEW n \in 0 .. 256, NEW s \in StatusWords, NEW own \in BOOLEAN,
         Answer(n, s, own)
  PROVE  wire' \in Responses
BY DEF Answer, Responses

\* So is one that is a status only.
LEMMA BareTypes ==
  ASSUME NEW s \in StatusWords, Answer(0, s, FALSE)
  PROVE  wire' \in Responses
<1>1. 0 \in 0 .. 256 OBVIOUS
<1>2. FALSE \in BOOLEAN OBVIOUS
<1> QED BY <1>1, <1>2, AnswerTypes

\* What the card works on.
CardInputs == /\ call.size \in Nat /\ apdu.chan \in Channels
              /\ executed \in Nat /\ mine \in SUBSET Channels
              /\ pending \in [Channels -> Nat]

\* The types give what the card works on its own types.
LEMMA CardInputsOK == TypeOK => CardInputs
<1> SUFFICES ASSUME TypeOK PROVE CardInputs
  OBVIOUS
<1>1. call \in Calls BY DEF TypeOK
<1>2. call.size \in Nat
  <2>1. call.size \in ResponseSizes BY <1>1 DEF Calls
  <2>2. ResponseSizes \subseteq Nat BY SEInterfaceAssumption
  <2> QED BY <2>1, <2>2
<1>3. apdu \in [ins : {"none", "command", "get_response"}, chan : Channels,
                p3 : 0 .. 255, len : 0 .. 261]
  BY DEF TypeOK
<1>4. apdu.chan \in Channels BY <1>3
<1> QED BY <1>2, <1>4 DEF TypeOK, CardInputs

\* What the card's answers, and what it keeps of them, have as types.
CardTypeOK == /\ wire' \in Responses
              /\ pending' \in [Channels -> Nat]
              /\ mine' \in SUBSET Channels
              /\ executed' \in Nat

\* What the card keeps for GET RESPONSE has a length.
LEMMA KeepTypes ==
  ASSUME CardInputs, NEW n \in Nat, Keep(n)
  PROVE  pending' \in [Channels -> Nat]
BY DEF CardInputs, Keep

\* An exchange at the card keeps the types.
LEMMA CardTypes == TypeOK /\ Card => CardTypeOK
<1> SUFFICES ASSUME CardInputs, Execute \/ RefuseLe \/ Refuse \/ GetResponse
             PROVE  CardTypeOK
  BY CardInputsOK DEF Card
<1>1. call.size \in Nat /\ 0 \in Nat BY DEF CardInputs
<1>2. CASE Execute
  <2>1. executed' \in Nat BY <1>2 DEF Execute, CardInputs
  <2>2. mine' \in SUBSET Channels BY <1>2 DEF Execute, CardInputs
  <2>3. Keep(0) \/ Keep(call.size) BY <1>2 DEF Execute
  <2>4. pending' \in [Channels -> Nat] BY <1>1, <2>3, KeepTypes
  <2>5. PICK status \in Good :
          \/ Answer(0, status, FALSE)
          \/ Answer(0, Status("61xx", Offer(call.size)), FALSE)
          \/ /\ call.size > 0 /\ call.size <= 256
             /\ Answer(call.size, status, TRUE)
    BY <1>2 DEF Execute
  <2>6. status \in StatusWords BY GoodTypes
  <2>7. CASE Answer(0, status, FALSE) \/ Answer(0, Status("61xx", Offer(call.size)), FALSE)
    <3>1. wire' \in Responses BY <1>1, <2>6, <2>7, OfferTypes, BareTypes
    <3> QED BY <2>1, <2>2, <2>4, <3>1 DEF CardTypeOK
  <2>8. CASE /\ call.size > 0 /\ call.size <= 256
             /\ Answer(call.size, status, TRUE)
    <3>1. call.size \in 0 .. 256 BY <1>1, <2>8
    <3>2. TRUE \in BOOLEAN OBVIOUS
    <3>3. wire' \in Responses BY <2>6, <2>8, <3>1, <3>2, AnswerTypes
    <3> QED BY <2>1, <2>2, <2>4, <3>3 DEF CardTypeOK
  <2> QED BY <2>5, <2>7, <2>8
<1>3. CASE RefuseLe \/ Refuse
  <2>1. Keep(0) /\ UNCHANGED <<executed, mine>> BY <1>3 DEF RefuseLe, Refuse
  <2>2. pending' \in [Channels -> Nat] BY <1>1, <2>1, KeepTypes
  <2>3. \/ Answer(0, Status("6Cxx", Offer(call.size)), FALSE)
        \/ Answer(0, Status("error", 0), FALSE)
    BY <1>3 DEF RefuseLe, Refuse
  <2>4. wire' \in Responses BY <1>1, <2>3, OfferTypes, ErrorTypes, BareTypes
  <2> QED BY <2>1, <2>2, <2>4 DEF CardTypeOK, CardInputs
<1>4. CASE GetResponse
  <2> DEFINE left == pending[apdu.chan]
             out  == Shortest(left, 256)
             own  == apdu.chan \in mine
  <2>1. left \in Nat BY DEF CardInputs
  <2>2. UNCHANGED <<executed, mine>> BY <1>4 DEF GetResponse
  <2>3. \/ Answer(0, Status("error", 0), FALSE) /\ Keep(0)
        \/ Answer(0, Status("6Cxx", Offer(left)), FALSE) /\ Keep(left)
        \/ /\ Keep(left - out)
           /\ \E status \in Good \cup {Status("61xx", Offer(left - out))} :
                 Answer(out, status, own)
    BY <1>4 DEF GetResponse
  <2>4. CASE \/ Answer(0, Status("error", 0), FALSE) /\ Keep(0)
             \/ Answer(0, Status("6Cxx", Offer(left)), FALSE) /\ Keep(left)
    <3>1. wire' \in Responses BY <2>1, <2>4, OfferTypes, ErrorTypes, BareTypes
    <3>2. pending' \in [Channels -> Nat] BY <1>1, <2>1, <2>4, KeepTypes
    <3> QED BY <2>2, <3>1, <3>2 DEF CardTypeOK, CardInputs
  <2>5. CASE /\ Keep(left - out)
             /\ \E status \in Good \cup {Status("61xx", Offer(left - out))} :
                   Answer(out, status, own)
    <3>1. out \in 0 .. 256 /\ left - out \in Nat BY <2>1 DEF Shortest
    <3>2. PICK status \in Good \cup {Status("61xx", Offer(left - out))} :
            Answer(out, status, own)
      BY <2>5
    <3>3. status \in StatusWords BY <3>1, OfferTypes, GoodTypes
    <3>4. own \in BOOLEAN OBVIOUS
    <3>5. wire' \in Responses BY <3>1, <3>2, <3>3, <3>4, AnswerTypes
    <3>6. pending' \in [Channels -> Nat] BY <2>5, <3>1, KeepTypes
    <3> QED BY <2>2, <3>5, <3>6 DEF CardTypeOK, CardInputs
  <2> QED BY <2>3, <2>4, <2>5
<1> QED BY <1>2, <1>3, <1>4

\* The parts of TypeOK that only the host's side changes.
Buffers == [ins : {"none", "command", "get_response"}, chan : Channels,
            p3 : 0 .. 255, len : 0 .. 261]

\* The data of a command have a length.
LEMMA DataTypes == \A c \in Calls : c.lc \in Nat
<1>1. DataSizes \cup {0} \subseteq Nat BY SEInterfaceAssumption
<1>2. \A c \in Calls : c.lc \in DataSizes \cup {0} BY DEF Calls
<1> QED BY <1>1, <1>2

\* What an overload of transmit puts in the buffer is a command.
LEMMA OverloadTypes ==
  ASSUME TypeOK, NEW c \in Calls, c.lc <= 255
  PROVE  [ins |-> "command", chan |-> c.chan,
          p3 |-> ByteFour(c), len |-> Length(c.case, c.lc)] \in Buffers
<1>1. c.case \in 1 .. 4 /\ c.chan \in Channels BY DEF Calls
<1>2. c.lc \in 0 .. 255
  <2>1. c.lc \in Nat BY DataTypes
  <2> QED BY <2>1
<1>3. c.le \in 0 .. 255
  <2>1. c.le \in ExpectedSizes BY DEF Calls
  <2> QED BY <2>1, SEInterfaceAssumption
<1>4. apdu.p3 \in 0 .. 255
  <2>1. apdu \in Buffers BY DEF TypeOK, Buffers
  <2> QED BY <2>1 DEF Buffers
<1>5. ByteFour(c) \in 0 .. 255 BY <1>1, <1>2, <1>3, <1>4 DEF ByteFour
<1>6. Length(c.case, c.lc) \in 0 .. 261 BY <1>1, <1>2 DEF Length
<1> QED BY <1>1, <1>5, <1>6 DEF Buffers

\* The parts of an answer under way.
LEMMA WireTypes ==
  ASSUME wire \in Responses
  PROVE  wire.n \in 0 .. 256 /\ wire.status \in StatusWords /\ wire.status.xx \in 0 .. 255
BY DEF Responses, StatusWords

\* Nothing has been sent.
LEMMA InitTypes == Init => TypeOK
<1> SUFFICES ASSUME Init PROVE TypeOK
  OBVIOUS
<1>1. call \in Calls /\ call.chan \in Channels BY DEF Init, Calls
<1>2. apdu \in Buffers
  <2>1. 0 \in 0 .. 255 /\ 0 \in 0 .. 261 OBVIOUS
  <2> QED BY <1>1, <2>1 DEF Init, Buffers
<1>3. rsp \in Responses
  <2>1. NoStatus \in StatusWords
    <3>1. 0 \in 0 .. 255 OBVIOUS
    <3> QED BY <3>1, StatusTypes DEF NoStatus, Kinds
  <2>2. 0 \in 0 .. 256 OBVIOUS
  <2> QED BY <2>1, <2>2 DEF Init, Responses
<1>4. pending \in [Channels -> Nat] /\ executed \in Nat /\ faults \in 0 .. MaxFaults
  BY SEInterfaceAssumption DEF Init
<1> QED BY <1>1, <1>2, <1>3, <1>4 DEF Init, TypeOK, Buffers

\* Every step keeps the types.
LEMMA NextTypes == TypeOK /\ [Next]_vars => TypeOK'
<1> SUFFICES ASSUME TypeOK, [Next]_vars PROVE TypeOK'
  OBVIOUS
<1>1. apdu \in Buffers BY DEF TypeOK, Buffers
<1>2. \A c \in Calls : Transmit(c) => TypeOK'
  <2> SUFFICES ASSUME NEW c \in Calls, Transmit(c) PROVE TypeOK'
    OBVIOUS
  <2>1. apdu' \in Buffers BY OverloadTypes DEF Transmit
  <2>2. rsp' \in Responses
    <3>1. rsp \in Responses BY DEF TypeOK
    <3>2. rsp' = [rsp EXCEPT !.mine = FALSE] BY DEF Transmit
    <3>3. FALSE \in BOOLEAN OBVIOUS
    <3> QED BY <3>1, <3>2, <3>3 DEF Responses
  <2>3. executed' \in Nat
    <3>1. executed' = 0 BY DEF Transmit
    <3> QED BY <3>1
  <2> QED BY <2>1, <2>2, <2>3 DEF Transmit, TypeOK, Buffers
<1>3. \A c \in Calls : TransmitTooLong(c) => TypeOK'
  BY DEF TransmitTooLong, TypeOK, uicc
<1>4. Card => TypeOK'
  <2> SUFFICES ASSUME Card PROVE TypeOK'
    OBVIOUS
  <2>1. CardTypeOK BY CardTypes
  <2> QED BY <2>1 DEF Card, TypeOK, CardTypeOK
<1>5. SendAgain => TypeOK'
  <2> SUFFICES ASSUME SendAgain PROVE TypeOK'
    OBVIOUS
  <2>1. wire \in Responses BY DEF TypeOK
  <2>2. apdu' \in Buffers
    BY <1>1, <2>1, WireTypes DEF SendAgain, Corrected, Buffers
  <2> QED BY <2>1, <2>2 DEF SendAgain, Receive, TypeOK, Buffers, uicc
<1>6. FetchResponse => TypeOK'
  <2> SUFFICES ASSUME FetchResponse PROVE TypeOK'
    OBVIOUS
  <2>1. wire \in Responses BY DEF TypeOK
  <2>2. apdu.chan \in Channels BY <1>1 DEF Buffers
  <2>3. 5 \in 0 .. 261 OBVIOUS
  <2>4. apdu' \in Buffers
    BY <2>1, <2>2, <2>3, WireTypes DEF FetchResponse, Fetching, Buffers
  <2> QED BY <2>1, <2>4 DEF FetchResponse, Receive, TypeOK, Buffers, uicc
<1>7. Succeed => TypeOK'
  BY DEF Succeed, Receive, TypeOK, uicc
<1>8. Fail => TypeOK'
  <2> SUFFICES ASSUME Fail PROVE TypeOK'
    OBVIOUS
  <2>1. faults' \in 0 .. MaxFaults
    BY SEInterfaceAssumption DEF Fail, TypeOK
  <2> QED BY <2>1 DEF Fail, TypeOK, uicc
<1>9. ReadResponse => TypeOK'
  BY DEF ReadResponse, TypeOK, uicc
<1>10. UNCHANGED vars => TypeOK'
  BY DEF vars, TypeOK
<1> QED BY <1>2, <1>3, <1>4, <1>5, <1>6, <1>7, <1>8, <1>9, <1>10 DEF Next

\* Whatever the callers send and the card answers, every variable keeps its
\* type: byte 4 of the buffer stays a byte, and its length is at most 261.
THEOREM TypeCorrect == Spec => []TypeOK
BY InitTypes, NextTypes, PTL DEF Spec

------------------------------------------------------------------------------
(* What holds while a call is in progress, which none of the properties says *)
(* by itself.                                                                *)

\* The command was executed, and its whole answer waits for GET RESPONSE.
Announced == /\ executed = 1 /\ call.chan \in mine
             /\ call.size > 0 /\ pending[call.chan] = call.size

\* The buffer holds the command, not executed yet, or asks for its answer.
SendingInv == pc = "sending" =>
  /\ apdu.chan = call.chan /\ apdu.ins # "none"
  /\ apdu.ins = "command" => executed = 0
  /\ apdu.ins = "get_response" => Announced /\ apdu.p3 = Offer(call.size)

\* What each kind of status word says of the command and of the answer.
GoodSays == executed = 1 /\ wire.n = call.size /\ (wire.n > 0 => wire.mine)
MoreSays == /\ executed = 1
            /\ IF wire.n = 0 THEN Announced /\ wire.status.xx = Offer(call.size)
               ELSE call.size > 256
WrongLeSays == wire.n = 0 /\ executed = 0 /\ apdu.ins = "command"
ErrorSays == executed = 0

StatusSays == /\ wire.status.kind \in Kinds \ {"none"}
              /\ wire.status.kind \in {"9000", "91xx"} => GoodSays
              /\ wire.status.kind = "61xx" => MoreSays
              /\ wire.status.kind = "6Cxx" => WrongLeSays
              /\ wire.status.kind = "error" => ErrorSays

AnsweringInv == pc = "answering" => apdu.chan = call.chan /\ StatusSays

BusyInv == pc \in {"sending", "answering"} => result = "none"

ExchangeInv == /\ TypeOK /\ SendingInv /\ AnsweringInv /\ BusyInv
               /\ AtMostOnce /\ SuccessIsTruthful /\ AnswerIsWhole

\* The parts of the answer the card gives.
LEMMA AnswerFields ==
  ASSUME NEW n, NEW s, NEW own, Answer(n, s, own)
  PROVE  wire'.n = n /\ wire'.status = s /\ wire'.mine = own
BY DEF Answer

\* The parts of a status.
LEMMA StatusFields == \A k, xx : Status(k, xx).kind = k /\ Status(k, xx).xx = xx
BY DEF Status

\* What the card keeps is kept on the channel of the command.
LEMMA KeepFields ==
  ASSUME CardInputs, NEW n \in Nat, Keep(n)
  PROVE  pending'[apdu.chan] = n
BY DEF CardInputs, Keep

\* No call is in progress.
LEMMA InitExchange == Init => ExchangeInv
<1> SUFFICES ASSUME Init PROVE ExchangeInv
  OBVIOUS
<1>1. TypeOK BY InitTypes
<1>2. executed = 0 /\ pc = "idle" /\ result = "none" BY DEF Init
<1> QED
  BY <1>1, <1>2
  DEF ExchangeInv, SendingInv, AnsweringInv, BusyInv, AtMostOnce,
      SuccessIsTruthful, AnswerIsWhole

\* A good status says no more than GoodSays.
LEMMA GoodStatusSays ==
  ASSUME wire'.status.kind \in {"9000", "91xx"}, GoodSays'
  PROVE  StatusSays'
BY DEF StatusSays, Kinds

\* Every answer of the card says what its status word promises.
LEMMA ExecuteSays ==
  ASSUME CardInputs, Execute, executed = 0, apdu.chan = call.chan, call' = call
  PROVE  StatusSays'
<1>1. executed' = 1 BY DEF Execute
<1>2. call.size \in Nat /\ 0 \in Nat BY DEF CardInputs
<1>3. PICK status \in Good :
        \/ call.size = 0 /\ Answer(0, status, FALSE)
        \/ /\ call.size > 0 /\ Answer(0, Status("61xx", Offer(call.size)), FALSE)
           /\ Keep(call.size) /\ mine' = mine \cup {apdu.chan}
        \/ Answer(call.size, status, TRUE)
  BY DEF Execute
<1>4. status.kind \in {"9000", "91xx"} BY GoodTypes
<1>5. CASE call.size = 0 /\ Answer(0, status, FALSE)
  <2>1. wire'.n = 0 /\ wire'.status = status BY <1>5, AnswerFields
  <2>2. GoodSays' BY <1>1, <1>5, <2>1 DEF GoodSays
  <2> QED BY <1>4, <2>1, <2>2, GoodStatusSays
<1>6. CASE /\ call.size > 0 /\ Answer(0, Status("61xx", Offer(call.size)), FALSE)
           /\ Keep(call.size) /\ mine' = mine \cup {apdu.chan}
  <2>1. /\ wire'.n = 0 /\ wire'.status.kind = "61xx"
        /\ wire'.status.xx = Offer(call.size)
    <3>1. wire'.n = 0 /\ wire'.status = Status("61xx", Offer(call.size))
      BY <1>6, AnswerFields, Zenon
    <3> QED BY <3>1, StatusFields
  <2>2. pending'[apdu.chan] = call.size BY <1>2, <1>6, KeepFields
  <2>3. Announced' BY <1>1, <1>6, <2>2 DEF Announced
  <2>4. Offer(call.size)' = Offer(call.size) BY DEF Offer, Shortest
  <2>5. MoreSays' BY <1>1, <2>1, <2>3, <2>4 DEF MoreSays
  <2> QED BY <2>1, <2>5 DEF StatusSays, Kinds
<1>7. CASE Answer(call.size, status, TRUE)
  <2>1. wire'.n = call.size /\ wire'.status = status /\ wire'.mine
    BY <1>7, AnswerFields
  <2>2. GoodSays' BY <1>1, <2>1 DEF GoodSays
  <2> QED BY <1>4, <2>1, <2>2, GoodStatusSays
<1> QED BY <1>3, <1>5, <1>6, <1>7

\* What GET RESPONSE brings is the rest of the answer to the command.
LEMMA GetResponseSays ==
  ASSUME CardInputs, GetResponse, Announced, apdu.p3 = Offer(call.size),
         apdu.chan = call.chan, call' = call
  PROVE  StatusSays'
<1> DEFINE left == pending[apdu.chan]
           out  == Shortest(left, 256)
           own  == apdu.chan \in mine
<1>1. left = call.size /\ call.size > 0 /\ executed = 1 BY DEF Announced
<1>2. own BY DEF Announced
<1>3. executed' = 1 BY <1>1 DEF GetResponse
<1>4. left # 0 /\ apdu.p3 = Offer(left) BY <1>1
<1>5. \E status \in IF left = out THEN Good
                    ELSE {Status("61xx", Offer(left - out))} :
        Answer(out, status, own)
  BY <1>4, Zenon DEF GetResponse
<1>6. PICK status \in IF left = out THEN Good
                      ELSE {Status("61xx", Offer(left - out))} :
        Answer(out, status, own)
  BY <1>5
<1>7. wire'.n = out /\ wire'.status = status BY <1>6, AnswerFields
<1>8. wire'.mine BY <1>2, <1>6 DEF Answer
<1>9. CASE left = out
  <2>1. status.kind \in {"9000", "91xx"} BY <1>6, <1>9, GoodTypes
  <2>2. wire'.n = call.size BY <1>1, <1>7, <1>9
  <2>3. GoodSays' BY <1>3, <1>8, <2>2, Zenon DEF GoodSays
  <2>4. wire'.status.kind \in {"9000", "91xx"} BY <1>7, <2>1
  <2> QED BY <2>3, <2>4, GoodStatusSays
<1>10. CASE left # out
  <2>1. wire'.status.kind = "61xx" BY <1>6, <1>7, <1>10, StatusFields
  <2>2. out = 256 /\ call.size > 256
    BY <1>1, <1>10 DEF Shortest, CardInputs
  <2>3. wire'.n # 0 BY <1>7, <2>2
  <2>4. MoreSays' BY <1>3, <2>2, <2>3 DEF MoreSays
  <2> QED BY <2>1, <2>4 DEF StatusSays, Kinds
<1> QED BY <1>9, <1>10

\* A refused command has not been executed.
LEMMA RefusalSays ==
  ASSUME RefuseLe \/ Refuse, executed = 0, apdu' = apdu
  PROVE  StatusSays'
<1>1. executed' = 0 /\ apdu.ins = "command"
  BY DEF RefuseLe, Refuse, WellFormed
<1>2. \/ Answer(0, Status("6Cxx", Offer(call.size)), FALSE)
      \/ Answer(0, Status("error", 0), FALSE)
  BY DEF RefuseLe, Refuse
<1>3. /\ wire'.n = 0
      /\ \/ wire'.status = Status("6Cxx", Offer(call.size))
         \/ wire'.status = Status("error", 0)
  BY <1>2, AnswerFields, Zenon
<1>4. wire'.n = 0 /\ wire'.status.kind \in {"6Cxx", "error"}
  BY <1>3, StatusFields
<1>5. WrongLeSays' /\ ErrorSays'
  BY <1>1, <1>4 DEF WrongLeSays, ErrorSays
<1> QED BY <1>4, <1>5 DEF StatusSays, Kinds

\* The parts of ExchangeInv that speak of a returned call hold while none has.
LEMMA NoResult ==
  ASSUME result' = "none"
  PROVE  BusyInv' /\ SuccessIsTruthful' /\ AnswerIsWhole'
BY DEF BusyInv, SuccessIsTruthful, AnswerIsWhole

\* A transmit begins with a command that has not been executed.
LEMMA TransmitKeeps ==
  ASSUME TypeOK, TypeOK', NEW c \in Calls, Transmit(c)
  PROVE  ExchangeInv'
<1>1. /\ pc' = "sending" /\ executed' = 0 /\ result' = "none" /\ call' = c
      /\ apdu'.ins = "command" /\ apdu'.chan = c.chan
  BY DEF Transmit
<1>2. SendingInv' /\ AnsweringInv' /\ AtMostOnce'
  BY <1>1 DEF SendingInv, AnsweringInv, AtMostOnce
<1> QED BY <1>1, <1>2, NoResult DEF ExchangeInv

\* One exchange executes the command at most once, and its answer says whether.
LEMMA CardStep ==
  ASSUME ExchangeInv, Card
  PROVE  /\ StatusSays' /\ result = "none"
         /\ executed' = executed \/ (executed = 0 /\ executed' = 1)
<1>1. /\ pc = "sending" /\ call' = call /\ apdu' = apdu
      /\ Execute \/ RefuseLe \/ Refuse \/ GetResponse
  BY DEF Card
<1>2. CardInputs BY CardInputsOK DEF ExchangeInv
<1>3. /\ apdu.chan = call.chan /\ result = "none"
      /\ apdu.ins = "command" => executed = 0
      /\ apdu.ins = "get_response" => Announced /\ apdu.p3 = Offer(call.size)
  BY <1>1 DEF ExchangeInv, SendingInv, BusyInv
<1>4. CASE Execute
  <2>1. executed = 0 BY <1>3, <1>4 DEF Execute, WellFormed
  <2>2. executed' = 1 BY <1>4, <2>1 DEF Execute
  <2> QED BY <1>1, <1>2, <1>3, <1>4, <2>1, <2>2, ExecuteSays
<1>5. CASE RefuseLe \/ Refuse
  <2>1. apdu.ins = "command" /\ executed' = executed
    BY <1>5 DEF RefuseLe, Refuse, WellFormed
  <2> QED BY <1>1, <1>3, <1>5, <2>1, RefusalSays
<1>6. CASE GetResponse
  <2>1. apdu.ins = "get_response" /\ executed' = executed
    BY <1>6 DEF GetResponse
  <2> QED BY <1>1, <1>2, <1>3, <1>6, <2>1, GetResponseSays
<1> QED BY <1>1, <1>4, <1>5, <1>6

\* An exchange at the card.
LEMMA CardKeeps ==
  ASSUME ExchangeInv, TypeOK', Card
  PROVE  ExchangeInv'
<1>1. /\ pc = "sending" /\ pc' = "answering"
      /\ call' = call /\ apdu' = apdu /\ result' = result
  BY DEF Card
<1>2. /\ StatusSays' /\ result = "none"
      /\ executed' = executed \/ executed' = 1
  BY CardStep
<1>3. AnsweringInv'
  BY <1>1, <1>2 DEF ExchangeInv, SendingInv, AnsweringInv
<1>4. SendingInv' /\ AtMostOnce'
  BY <1>1, <1>2 DEF ExchangeInv, SendingInv, AtMostOnce
<1> QED BY <1>1, <1>2, <1>3, <1>4, NoResult DEF ExchangeInv

\* After 6Cxx the command is sent again, which has not been executed.
LEMMA SendAgainKeeps ==
  ASSUME ExchangeInv, TypeOK', SendAgain
  PROVE  ExchangeInv'
<1>1. /\ pc = "answering" /\ pc' = "sending" /\ wire.status.kind = "6Cxx"
      /\ call' = call /\ executed' = executed /\ result' = result
      /\ apdu' = [apdu EXCEPT !.p3 = wire.status.xx]
  BY DEF SendAgain, Receive, Bare, Corrected, uicc
<1>2. /\ apdu.chan = call.chan /\ apdu.ins = "command" /\ executed = 0
      /\ result = "none"
  BY <1>1 DEF ExchangeInv, AnsweringInv, StatusSays, WrongLeSays, BusyInv
<1>3. apdu'.chan = apdu.chan /\ apdu'.ins = apdu.ins
  BY <1>1 DEF ExchangeInv, TypeOK
<1>4. SendingInv' /\ AnsweringInv' /\ AtMostOnce'
  BY <1>1, <1>2, <1>3 DEF SendingInv, AnsweringInv, AtMostOnce
<1> QED BY <1>1, <1>2, <1>4, NoResult DEF ExchangeInv

\* After 61xx GET RESPONSE goes to the channel of the command.
LEMMA FetchResponseKeeps ==
  ASSUME ExchangeInv, TypeOK', FetchResponse
  PROVE  ExchangeInv'
<1>1. /\ pc = "answering" /\ pc' = "sending"
      /\ wire.n = 0 /\ wire.status.kind = "61xx"
      /\ call' = call /\ result' = result
      /\ executed' = executed /\ mine' = mine /\ pending' = pending
      /\ apdu' = Fetching(wire.status.xx)
  BY DEF FetchResponse, Receive, Bare, uicc
<1>2. /\ apdu.chan = call.chan /\ result = "none"
      /\ Announced /\ wire.status.xx = Offer(call.size)
  BY <1>1 DEF ExchangeInv, AnsweringInv, StatusSays, MoreSays, BusyInv
<1>3. /\ apdu'.ins = "get_response" /\ apdu'.chan = apdu.chan
      /\ apdu'.p3 = wire.status.xx
  BY <1>1 DEF Fetching
<1>4. Announced' BY <1>1, <1>2 DEF Announced
<1>5. Offer(call.size)' = Offer(call.size) BY <1>1 DEF Offer, Shortest
<1>6. SendingInv' BY <1>1, <1>2, <1>3, <1>4, <1>5 DEF SendingInv
<1>7. AnsweringInv' /\ AtMostOnce'
  BY <1>1, <1>2 DEF AnsweringInv, AtMostOnce, Announced
<1> QED BY <1>1, <1>2, <1>6, <1>7, NoResult DEF ExchangeInv

\* What a transmit may have brought when it returns success.
LEMMA SucceedStep ==
  ASSUME ExchangeInv, Succeed
  PROVE  \/ wire.status.kind \in {"9000", "91xx"} /\ GoodSays
         \/ wire.status.kind = "61xx" /\ executed = 1 /\ call.size > 256
         \/ wire.status.kind = "error" /\ executed = 0
<1>1. StatusSays BY DEF ExchangeInv, Succeed, Receive, AnsweringInv
<1>2. ~Bare("6Cxx") /\ ~Bare("61xx") BY DEF Succeed
<1>3. wire.status.kind # "6Cxx" BY <1>1, <1>2 DEF StatusSays, WrongLeSays, Bare
<1>4. wire.status.kind \in {"9000", "91xx", "61xx", "error"}
  BY <1>1, <1>3 DEF StatusSays, Kinds
<1>5. wire.status.kind = "61xx" => executed = 1 /\ call.size > 256
  BY <1>1, <1>2 DEF StatusSays, MoreSays, Bare
<1> QED BY <1>1, <1>4, <1>5 DEF StatusSays, ErrorSays

\* A transmit that succeeds hands over what its answer says.
LEMMA SucceedKeeps ==
  ASSUME ExchangeInv, TypeOK', Succeed
  PROVE  ExchangeInv'
<1>1. /\ pc' = "idle" /\ rsp' = wire /\ call' = call /\ executed' = executed
  BY DEF Succeed, Receive, uicc
<1>2. SendingInv' /\ AnsweringInv' /\ BusyInv' /\ AtMostOnce'
  BY <1>1 DEF ExchangeInv, SendingInv, AnsweringInv, BusyInv, AtMostOnce
<1>3. CASE wire.status.kind \in {"9000", "91xx"} /\ GoodSays
  <2>1. call.size \in Nat BY CardInputsOK DEF ExchangeInv, CardInputs
  <2>2. executed = 1 /\ wire.n = call.size /\ wire.n <= call.size
    BY <1>3, <2>1 DEF GoodSays
  <2>3. wire.n > 0 => wire.mine BY <1>3, Zenon DEF GoodSays
  <2>4. SuccessIsTruthful'
    BY <1>1, <1>3, <2>2, <2>3, Zenon DEF SuccessIsTruthful
  <2>5. AnswerIsWhole' BY <1>1, <1>3, <2>2 DEF AnswerIsWhole
  <2> QED BY <1>2, <2>4, <2>5 DEF ExchangeInv
<1>4. CASE \/ wire.status.kind = "61xx" /\ executed = 1 /\ call.size > 256
           \/ wire.status.kind = "error" /\ executed = 0
  <2>1. SuccessIsTruthful' BY <1>1, <1>4 DEF SuccessIsTruthful
  <2>2. AnswerIsWhole' BY <1>1, <1>4 DEF AnswerIsWhole
  <2> QED BY <1>2, <2>1, <2>2 DEF ExchangeInv
<1> QED BY <1>3, <1>4, SucceedStep

\* Steps that return no success, or change nothing.
LEMMA RestKeeps ==
  ASSUME ExchangeInv, TypeOK',
         \/ \E c \in Calls : TransmitTooLong(c)
         \/ Fail \/ ReadResponse \/ UNCHANGED vars
  PROVE  ExchangeInv'
<1>1. CASE \/ \E c \in Calls : TransmitTooLong(c)
           \/ Fail \/ ReadResponse
  <2>1. pc' \in {"idle", "aborted"} /\ executed' = executed
    BY <1>1 DEF TransmitTooLong, Fail, ReadResponse, uicc
  <2>2. pc' = "idle" => result' = "failure"
    BY <1>1 DEF TransmitTooLong, Fail, ReadResponse
  <2> QED
    BY <2>1, <2>2
    DEF ExchangeInv, SendingInv, AnsweringInv, BusyInv, AtMostOnce,
        SuccessIsTruthful, AnswerIsWhole
<1>2. CASE UNCHANGED vars
  <2>1. SendingInv' /\ AnsweringInv'
    BY <1>2
    DEF vars, ExchangeInv, SendingInv, AnsweringInv, StatusSays, GoodSays,
        MoreSays, WrongLeSays, ErrorSays, Announced, Offer, Shortest
  <2>2. BusyInv' /\ AtMostOnce' /\ SuccessIsTruthful' /\ AnswerIsWhole'
    BY <1>2 DEF vars, ExchangeInv, BusyInv, AtMostOnce, SuccessIsTruthful, AnswerIsWhole
  <2> QED BY <2>1, <2>2 DEF ExchangeInv
<1> QED BY <1>1, <1>2

\* The invariant is inductive.
LEMMA NextExchange == ExchangeInv /\ [Next]_vars => ExchangeInv'
<1> SUFFICES ASSUME ExchangeInv, [Next]_vars PROVE ExchangeInv'
  OBVIOUS
<1>1. TypeOK /\ TypeOK' BY NextTypes DEF ExchangeInv
<1>2. CASE \E c \in Calls : Transmit(c) BY <1>1, <1>2, TransmitKeeps
<1>3. CASE Card BY <1>1, <1>3, CardKeeps
<1>4. CASE SendAgain BY <1>1, <1>4, SendAgainKeeps
<1>5. CASE FetchResponse BY <1>1, <1>5, FetchResponseKeeps
<1>6. CASE Succeed BY <1>1, <1>6, SucceedKeeps
<1>7. CASE \/ \E c \in Calls : TransmitTooLong(c)
           \/ Fail \/ ReadResponse \/ UNCHANGED vars
  BY <1>1, <1>7, RestKeeps
<1> QED BY <1>2, <1>3, <1>4, <1>5, <1>6, <1>7 DEF Next

\* The invariant of a transmit: what the command under way and its answer say of
\* each other (SEInterface.cpp:146-171).
THEOREM ExchangeInvariant == Spec => []ExchangeInv
BY InitExchange, NextExchange, PTL DEF Spec

\* However often the buffer is sent for one call, the card executes the command
\* of the call at most once.
THEOREM ExecutedAtMostOnce == Spec => []AtMostOnce
<1>1. ExchangeInv => AtMostOnce BY DEF ExchangeInv
<1> QED BY <1>1, ExchangeInvariant, PTL

\* A transmit that returned success tells the truth: with a good status the
\* command was executed and the response buffer holds its answer and nobody
\* else's, with an error status it was not executed.
THEOREM SuccessTold == Spec => []SuccessIsTruthful
<1>1. ExchangeInv => SuccessIsTruthful BY DEF ExchangeInv
<1> QED BY <1>1, ExchangeInvariant, PTL

\* With a good status nothing of the answer is missing, and a caller sees 61xx
\* only of an answer longer than one exchange can carry.
THEOREM WholeAnswer == Spec => []AnswerIsWhole
<1>1. ExchangeInv => AnswerIsWhole BY DEF ExchangeInv
<1> QED BY <1>1, ExchangeInvariant, PTL

\* GET RESPONSE goes to the channel of its command, where the answer waits, and
\* asks for exactly what the card announced there.
THEOREM FetchesOnItsChannel == Spec => []FetchesOwnAnswer
<1>1. ExchangeInv => FetchesOwnAnswer
  <2> SUFFICES ASSUME ExchangeInv, pc = "sending", apdu.ins = "get_response"
               PROVE  /\ apdu.chan = call.chan /\ apdu.chan \in mine
                      /\ apdu.p3 = Offer(pending[apdu.chan])
    BY DEF FetchesOwnAnswer
  <2> QED BY DEF ExchangeInv, SendingInv, Announced
<1> QED BY <1>1, ExchangeInvariant, PTL

------------------------------------------------------------------------------
(* Refinement: SEInterface::transmit is the atomic exchange of the layers    *)
(* above.                                                                    *)

\* Initial states are initial states of the exchange.
LEMMA InitRefines == Init => Exchange!Init
BY DEF Init, Exchange!Init

\* Every step is one of the exchange or leaves it as it is.
LEMMA NextRefines == ExchangeInv /\ [Next]_vars => [Exchange!Next]_Exchange!vars
<1> SUFFICES ASSUME ExchangeInv, [Next]_vars PROVE [Exchange!Next]_Exchange!vars
  OBVIOUS
<1> USE DEF Exchange!Next, Exchange!vars
<1>1. CASE \E c \in Calls : Transmit(c)
  <2>1. /\ pc = "idle" /\ pc' = "sending"
        /\ executed' = 0 /\ result' = "none"
    BY <1>1 DEF Transmit
  <2>2. Exchange!Begin BY <2>1 DEF Exchange!Begin
  <2> QED BY <2>2
<1>2. CASE Card
  <2>1. /\ pc = "sending" /\ pc' = "answering" /\ result' = result
        /\ result = "none"
        /\ executed' = executed \/ (executed = 0 /\ executed' = 1)
    BY <1>2, CardStep DEF Card
  <2>2. Exchange!Work BY <2>1 DEF Exchange!Work, Exchange!CardMayExecute
  <2> QED BY <2>2
<1>3. CASE SendAgain \/ FetchResponse
  <2>1. /\ pc = "answering" /\ pc' = "sending" /\ result' = result
        /\ executed' = executed
    BY <1>3 DEF SendAgain, FetchResponse, Receive, uicc
  <2>2. result = "none" BY <2>1 DEF ExchangeInv, BusyInv
  <2>3. Exchange!Work BY <2>1, <2>2 DEF Exchange!Work, Exchange!CardMayExecute
  <2> QED BY <2>3
<1>4. CASE Succeed
  <2>1. /\ pc = "answering" /\ pc' = "idle" /\ result' = "success"
        /\ rsp' = wire /\ executed' = executed
    BY <1>4 DEF Succeed, Receive, uicc
  <2>2. \/ wire.status.kind # "error" /\ executed = 1
        \/ wire.status.kind = "error" /\ executed = 0
    BY <1>4, SucceedStep DEF GoodSays
  <2>3. Exchange!Finish
    BY <2>1, <2>2 DEF Exchange!Finish, Exchange!CardMayExecute, Exchange!Outcomes
  <2> QED BY <2>3
<1>5. CASE Fail
  <2>1. /\ pc \in {"sending", "answering"} /\ pc' = "idle"
        /\ result' = "failure" /\ executed' = executed
    BY <1>5 DEF Fail, uicc
  <2>2. Exchange!Finish
    BY <2>1 DEF Exchange!Finish, Exchange!CardMayExecute, Exchange!Outcomes
  <2> QED BY <2>2
<1>6. CASE (\E c \in Calls : TransmitTooLong(c)) \/ ReadResponse \/ UNCHANGED vars
  <2>1. /\ pc' = pc \/ (pc = "idle" /\ pc' = "aborted")
        /\ UNCHANGED <<result, rsp, executed>>
    BY <1>6 DEF TransmitTooLong, ReadResponse, uicc, vars
  <2> QED BY <2>1
<1> QED BY <1>1, <1>2, <1>3, <1>4, <1>5, <1>6 DEF Next

\* For the layers above, a transmit with all its resending and fetching is one
\* exchange: the command executed at most once, and an outcome that fits.
THEOREM TransmitIsAtomic == Spec => ImplementsExchange
BY InitRefines, NextRefines, ExchangeInvariant, PTL
DEF Spec, ImplementsExchange, Exchange!Spec

------------------------------------------------------------------------------
(* Sending again.  Byte 4 is Le in case 2 and Lc in case 4; all else of the  *)
(* buffer stays as the overload filled it in.                                *)

\* The length of the buffer of a command with data and Le is never touched.
LengthKept == call.case = 4 => apdu.len = 6 + call.lc

ResendInv == /\ (pc = "sending" /\ apdu.ins = "command") =>
                  LengthKept /\ (WellFormed \/ Overwritten)
             /\ (pc = "answering" /\ wire.status.kind = "6Cxx" /\ apdu.ins = "command") =>
                  /\ LengthKept /\ WellFormed
                  /\ call.case \in LeCases /\ wire.status.xx = Offer(call.size)

\* Every overload of transmit writes a well-formed command.
LEMMA OverloadWellFormed ==
  ASSUME NEW c \in Calls, Transmit(c)
  PROVE  WellFormed'
<1>1. /\ call' = c
      /\ apdu'.ins = "command" /\ apdu'.p3 = ByteFour(c)
      /\ apdu'.len = Length(c.case, c.lc)
  BY DEF Transmit
<1>2. c.case \in 1 .. 4 BY DEF Calls
<1>3. c.lc \in Nat BY DataTypes
<1> QED BY <1>1, <1>2, <1>3 DEF WellFormed, ByteFour, Length

\* What 6Cxx makes of a command is the command again, or one whose Lc is lost.
LEMMA NextResend ==
  ASSUME ExchangeInv, ExchangeInv', ResendInv, [Next]_vars
  PROVE  ResendInv'
<1>1. CASE \E c \in Calls : Transmit(c)
  <2>1. pc' = "sending" BY <1>1 DEF Transmit
  <2>2. WellFormed' BY <1>1, OverloadWellFormed
  <2>3. LengthKept'
    BY <1>1 DEF Transmit, LengthKept, Length
  <2> QED BY <2>1, <2>2, <2>3 DEF ResendInv
<1>2. CASE Card
  <2>1. pc = "sending" /\ pc' = "answering" /\ call' = call /\ apdu' = apdu
    BY <1>2 DEF Card
  <2>2. SUFFICES ASSUME wire'.status.kind = "6Cxx", apdu.ins = "command"
                 PROVE  /\ LengthKept' /\ WellFormed'
                        /\ call'.case \in LeCases /\ wire'.status.xx = Offer(call'.size)
    BY <2>1 DEF ResendInv
  <2>3. RefuseLe
    <3>1. CASE Execute
      <4>1. executed' # 0
        <5>1. executed = 0 BY <2>1, <2>2 DEF ExchangeInv, SendingInv
        <5> QED BY <3>1, <5>1 DEF Execute
      <4>2. executed' = 0
        BY <2>1, <2>2 DEF ExchangeInv, AnsweringInv, StatusSays, WrongLeSays
      <4> QED BY <4>1, <4>2
    <3>2. CASE Refuse
      <4>1. wire'.status = Status("error", 0) BY <3>2 DEF Refuse, Answer
      <4> QED BY <2>2, <4>1, StatusFields
    <3>3. CASE GetResponse BY <2>2, <3>3 DEF GetResponse
    <3> QED BY <1>2, <3>1, <3>2, <3>3 DEF Card
  <2>4. wire'.status.xx = Offer(call.size)
    BY <2>3, StatusFields DEF RefuseLe, Answer
  <2>5. LengthKept BY <2>1, <2>2 DEF ResendInv
  <2> QED BY <2>1, <2>3, <2>4, <2>5 DEF RefuseLe, WellFormed, LengthKept
<1>3. CASE SendAgain
  <2>1. /\ pc = "answering" /\ pc' = "sending" /\ wire.status.kind = "6Cxx"
        /\ call' = call /\ apdu' = [apdu EXCEPT !.p3 = wire.status.xx]
    BY <1>3 DEF SendAgain, Receive, Bare, Corrected
  <2>2. apdu'.ins = apdu.ins /\ apdu'.len = apdu.len /\ apdu'.p3 = wire.status.xx
    BY <2>1 DEF ExchangeInv, TypeOK
  <2>3. SUFFICES ASSUME apdu.ins = "command"
                 PROVE  LengthKept' /\ (WellFormed' \/ Overwritten')
    BY <2>1, <2>2 DEF ResendInv
  <2>4. /\ LengthKept /\ WellFormed /\ call.case \in {2, 4}
        /\ wire.status.xx = Offer(call.size)
    BY <2>1, <2>3, SEInterfaceAssumption DEF ResendInv
  <2>5. LengthKept' BY <2>1, <2>2, <2>4 DEF LengthKept
  <2>6. CASE call.case = 2 BY <2>1, <2>2, <2>4, <2>5, <2>6 DEF WellFormed
  <2>7. CASE call.case = 4
    <3>1. CASE Offer(call.size) = call.lc
      <4>1. call.lc \in Nat BY DataTypes DEF ExchangeInv, TypeOK, Calls
      <4>2. apdu'.len = 5 + apdu'.p3 + 1
        BY <2>2, <2>4, <2>7, <3>1, <4>1 DEF LengthKept
      <4> QED BY <2>1, <2>2, <2>3, <2>5, <2>7, <4>2 DEF WellFormed
    <3>2. CASE Offer(call.size) # call.lc
      BY <2>1, <2>2, <2>4, <2>5, <2>7, <3>2 DEF Overwritten
    <3> QED BY <3>1, <3>2
  <2> QED BY <2>4, <2>6, <2>7
<1>4. CASE FetchResponse
  <2>1. pc' = "sending" /\ apdu'.ins = "get_response"
    BY <1>4 DEF FetchResponse, Fetching
  <2> QED BY <2>1 DEF ResendInv
<1>5. CASE \/ Succeed \/ Fail \/ ReadResponse
           \/ \E c \in Calls : TransmitTooLong(c)
  <2>1. pc' \in {"idle", "aborted"}
    BY <1>5 DEF Succeed, Fail, ReadResponse, TransmitTooLong
  <2> QED BY <2>1 DEF ResendInv
<1>6. CASE UNCHANGED vars
  BY <1>6 DEF vars, ResendInv, WellFormed, LengthKept, Overwritten
<1> QED BY <1>1, <1>2, <1>3, <1>4, <1>5, <1>6 DEF Next

\* Whatever a card corrects with 6Cxx, what is sent again is the caller's command,
\* or the caller's but for an Lc that has been overwritten by another length
\* (SEInterface.cpp:155).
THEOREM ResendsButForLc == Spec => []ResendsAllButLc
<1>1. Init => ResendInv BY DEF Init, ResendInv
<1>2. ExchangeInv /\ ExchangeInv' /\ ResendInv /\ [Next]_vars => ResendInv'
  BY NextResend
<1>3. ResendInv => ResendsAllButLc BY DEF ResendInv, ResendsAllButLc
<1> QED BY <1>1, <1>2, <1>3, ExchangeInvariant, PTL DEF Spec
==============================================================================
