-------------------------- MODULE KeyScheduleProofs --------------------------
(* Theorems about the calls of ROT.cpp that make keys, for keys of every     *)
(* length, every length asked for, and any number of calls, key pairs,       *)
(* server keys and lost exchanges.                                           *)
EXTENDS KeySchedule, KeyAgreementProofs

------------------------------------------------------------------------------
(* What the buffer has.  Both calls compare the length of the answer, which  *)
(* the card was asked for in one byte, with the length the caller gave.      *)

\* A schedule step leaves the two sides of the agreement alone.
LEMMA ScheduleAgreement == AgreementInv /\ [ScheduleNext]_scheduleVars => AgreementInv'
<1> SUFFICES ASSUME AgreementInv, [ScheduleNext]_scheduleVars PROVE AgreementInv'
  OBVIOUS
<1>1. CASE AgreeKeys BY <1>1, NextAgreement DEF AgreeKeys
<1>2. CASE Untouched
  BY <1>2 DEF Untouched, caller, card, agreed, AgreementInv, PairsAgree, PutEnded,
              PutReplaces, SecretIsAgreed, SecretOfHandshake
<1>3. CASE UNCHANGED scheduleVars
  BY <1>3, NextAgreement DEF scheduleVars
<1>4. Derive => Untouched
  BY DEF Derive, Random, Prf, RandomRejected, PrfRejected, Rejected,
         RandomExchange, PrfExchange
<1> QED BY <1>1, <1>2, <1>3, <1>4 DEF ScheduleNext

\* The step of the call in progress is the one it began with, and what was handed
\* over with 0 is of the last call, from the secret that the caller had then.
\* No call of the agreement is between the two.
BufferInv ==
  /\ step # "idle" => pc = "idle" /\ last = NoReturn
  /\ Succeeded("random") \/ Succeeded("prf") => data.ask = ask.id /\ data.len = ask.len
  /\ Succeeded("prf") => data.secret = SecretOf(ask.mode)

\* No buffer has been filled.
LEMMA ScheduleInitBuffer == ScheduleInit => BufferInv
BY DEF ScheduleInit, NoReturn, BufferInv, Succeeded

\* A derivation fills the buffer whole or says that it did not.
LEMMA DeriveBuffer == ASSUME BufferInv, Derive PROVE BufferInv'
<1> USE DEF BufferInv, Succeeded, NoReturn, SecretOf, Idle, BeginSchedule, ReturnSchedule,
            Untouched, agreed
<1>1. ASSUME NEW n \in Asks, Random(n) PROVE BufferInv' BY <1>1 DEF Random
<1>2. ASSUME NEW n \in Asks, NEW mode \in Modes, Prf(mode, n) PROVE BufferInv'
  BY <1>2 DEF Prf
<1>3. CASE RandomRejected BY <1>3 DEF RandomRejected, Rejected
<1>4. CASE PrfRejected BY <1>4 DEF PrfRejected, Rejected
<1>5. ASSUME NEW o \in Outcomes, RandomExchange(o) PROVE BufferInv'
  BY <1>5 DEF RandomExchange, RandomCode, Fill, Data
<1>6. ASSUME NEW o \in Outcomes, PrfExchange(o) PROVE BufferInv'
  BY <1>6 DEF PrfExchange, PrfCode, AsBool, Fill, Data
<1> QED BY <1>1, <1>2, <1>3, <1>4, <1>5, <1>6 DEF Derive

\* So does every step: those of the key agreement take the result of the last
\* derivation away.
LEMMA ScheduleBuffer == BufferInv /\ [ScheduleNext]_scheduleVars => BufferInv'
<1> SUFFICES ASSUME BufferInv, [ScheduleNext]_scheduleVars PROVE BufferInv'
  OBVIOUS
<1>1. CASE AgreeKeys
  BY <1>1 DEF AgreeKeys, BufferInv, Succeeded, NoReturn
<1>2. CASE Derive BY <1>2, DeriveBuffer
<1>3. CASE UNCHANGED scheduleVars
  BY <1>3 DEF scheduleVars, schedule, vars, BufferInv, Succeeded, SecretOf
<1> QED BY <1>1, <1>2, <1>3 DEF ScheduleNext

------------------------------------------------------------------------------
(* Type correctness.  An answer of more than 255 bytes never gets into the    *)
(* buffer, whatever the card gives for the length it was asked for.           *)

DataTypes == [ask : 0 .. MaxAsks, len : 0 .. CMD_MAX_LEN,
              secret : (0 .. MaxPairs) \X StoredKeys]

AskTypes == [id : 0 .. MaxAsks, mode : Modes \cup {"none"}, len : 0 .. WordSize - 1]

Steps == {"idle", "random", "prf", "aborted", "overrun"}

ScheduleTypeInv ==
  /\ TypeInv /\ step \in Steps /\ "idle" \in {pc, step}
  /\ last \in [op : {"none", "random", "prf"}, code : Codes]
  /\ ask \in AskTypes /\ data \in DataTypes

\* Every variable keeps its type, and so does the last command of a key.
LEMMA ScheduleTypesFollow == ScheduleTypeInv => ScheduleTypeOK
BY TypesFollow DEF ScheduleTypeInv, ScheduleTypeOK, Steps, AskTypes, DataTypes

\* The secret of no keys has the type of a secret.
LEMMA NoSecretType == NoSecret \in (0 .. MaxPairs) \X StoredKeys
<1>1. NoKey \in StoredKeys BY KeyAgreementAssumption DEF NoKey, StoredKeys
<1>2. 0 \in 0 .. MaxPairs BY KeyAgreementAssumption
<1> HIDE DEF NoKey
<1> QED BY <1>1, <1>2 DEF NoSecret

\* No derivation is under way.
LEMMA ScheduleInitTypes == ScheduleInit => ScheduleTypeInv
<1> SUFFICES ASSUME ScheduleInit PROVE ScheduleTypeInv
  OBVIOUS
<1>1. TypeInv BY InitTypes DEF ScheduleInit
<1>2. 0 \in 0 .. MaxAsks /\ 0 \in 0 .. CMD_MAX_LEN /\ 0 \in 0 .. WordSize - 1
  BY KeyScheduleAssumption, KeyLengths DEF CMD_MAX_LEN
<1>3. data \in DataTypes BY <1>2, NoSecretType DEF ScheduleInit, DataTypes
<1>4. ask \in AskTypes BY <1>2 DEF ScheduleInit, AskTypes
<1>5. last \in [op : {"none", "random", "prf"}, code : Codes]
  BY DEF ScheduleInit, NoReturn, Codes
<1>6. step = "idle" /\ pc = "idle" BY DEF ScheduleInit, Init
<1> QED BY <1>1, <1>3, <1>4, <1>5, <1>6 DEF ScheduleTypeInv, Steps

\* What the caller's buffer and the result become when an answer arrives.
LEMMA FillTypes ==
  ASSUME ScheduleTypeInv, NEW n \in 0 .. 256, NEW from \in (0 .. MaxPairs) \X StoredKeys,
         NEW op \in {"random", "prf"}, NEW code \in Codes, Fill(n, from, op, code)
  PROVE  /\ data' \in DataTypes /\ step' \in {"idle", "aborted", "overrun"}
         /\ last' \in [op : {"none", "random", "prf"}, code : Codes]
<1>1. ask.id \in 0 .. MaxAsks BY DEF ScheduleTypeInv, AskTypes
<1>2. n <= 255 => Data(n, from) \in DataTypes BY <1>1 DEF Data, DataTypes, CMD_MAX_LEN
<1> QED BY <1>2 DEF Fill, ReturnSchedule, ScheduleTypeInv

\* The steps of the derivations keep the types.
LEMMA DeriveTypes == ASSUME ScheduleTypeInv, Derive PROVE ScheduleTypeInv'
<1>0. /\ TypeInv /\ data \in DataTypes /\ ask \in AskTypes /\ "idle" \in {pc, step}
      /\ last \in [op : {"none", "random", "prf"}, code : Codes] /\ step \in Steps
  BY DEF ScheduleTypeInv
<1>1. Untouched
  BY DEF Derive, Random, Prf, RandomRejected, PrfRejected, Rejected,
         RandomExchange, PrfExchange
<1>2. faults' \in 0 .. MaxFaults
  <2>1. faults' = faults \/ \E o \in Outcomes : Exchange(o)
    BY DEF Derive, Random, Prf, RandomRejected, PrfRejected, Rejected,
           RandomExchange, PrfExchange
  <2> QED BY <1>0, <2>1, ExchangeTypes DEF TypeInv, VariablesOK
<1>3. TypeInv'
  <2>1. VariablesOK'
    BY <1>0, <1>1, <1>2 DEF Untouched, caller, card, agreed, TypeInv, VariablesOK
  <2>2. RestFits' /\ PairsFit'
    BY <1>0, <1>1 DEF TypeInv, RestFits, PairsFit, Remainder, Untouched, caller, card
  <2> QED BY <2>1, <2>2 DEF TypeInv
<1>4. pc' = pc BY <1>1 DEF Untouched
<1>5. SUFFICES /\ data' \in DataTypes /\ ask' \in AskTypes
               /\ "idle" \in {pc, step'} /\ step' \in Steps
               /\ last' \in [op : {"none", "random", "prf"}, code : Codes]
  BY <1>3, <1>4 DEF ScheduleTypeInv
<1>6. {"ERR_NOERR", "ERR_GENERIC", "ERR_OUT_OF_MEMORY", "ERR_INVALID_PARAMETERS",
       "ERR_INVALID_RESPONSE"} = Codes
  BY DEF Codes
<1>7. ASSUME NEW s \in {"random", "prf"}, NEW mode \in Modes \cup {"none"}, NEW n \in Asks,
             Idle, BeginSchedule(s, mode, n)
      PROVE  /\ ask' \in AskTypes /\ step' = s /\ pc = "idle"
             /\ last' \in [op : {"none", "random", "prf"}, code : Codes]
  <2>1. ask.id + 1 \in 0 .. MaxAsks
    BY <1>0, <1>7, KeyScheduleAssumption DEF BeginSchedule, AskTypes
  <2>2. n \in 0 .. WordSize - 1 BY KeyScheduleAssumption
  <2> QED BY <1>7, <2>1, <2>2 DEF BeginSchedule, Idle, AskTypes, NoReturn, Codes
<1>8. ASSUME NEW n \in Asks, Random(n)
      PROVE  data' \in DataTypes /\ Idle /\ BeginSchedule("random", "none", n)
  BY <1>0, <1>8 DEF Random
<1>9. ASSUME NEW n \in Asks, NEW mode \in Modes, Prf(mode, n)
      PROVE  data' \in DataTypes /\ Idle /\ BeginSchedule("prf", mode, n)
  BY <1>0, <1>9 DEF Prf
<1>10. ASSUME RandomRejected \/ PrfRejected
       PROVE  /\ data' \in DataTypes /\ ask' \in AskTypes /\ step' = "idle"
              /\ last' \in [op : {"none", "random", "prf"}, code : Codes]
  BY <1>0, <1>6, <1>10 DEF RandomRejected, PrfRejected, Rejected, ReturnSchedule
<1>11. ASSUME NEW o \in Outcomes, RandomExchange(o)
       PROVE  /\ data' \in DataTypes /\ ask' = ask /\ pc = "idle"
              /\ step' \in {"idle", "aborted", "overrun"}
              /\ last' \in [op : {"none", "random", "prf"}, code : Codes]
  <2>1. \A n : RandomCode(o, n) \in Codes BY <1>6 DEF RandomCode
  <2>2. \A m : Around(m) \subseteq 0 .. 256 BY DEF Around
  <2>3. ask' = ask /\ step = "random" BY <1>11 DEF RandomExchange
  <2>4. CASE \E n \in 0 .. 256 : Fill(n, NoSecret, "random", RandomCode(o, n))
    BY <1>0, <2>1, <2>3, <2>4, FillTypes, NoSecretType
  <2>5. CASE ReturnSchedule("random", RandomCode(o, 0)) /\ UNCHANGED data
    BY <1>0, <2>1, <2>3, <2>5 DEF ReturnSchedule
  <2> QED BY <1>11, <2>2, <2>4, <2>5 DEF RandomExchange
<1>12. ASSUME NEW o \in Outcomes, PrfExchange(o)
       PROVE  /\ data' \in DataTypes /\ ask' = ask /\ pc = "idle"
              /\ step' \in {"idle", "aborted", "overrun"}
              /\ last' \in [op : {"none", "random", "prf"}, code : Codes]
  <2>1. \A n : PrfCode(o, n) \in Codes BY <1>6 DEF PrfCode, AsBool
  <2>2. \A m : Around(m) \subseteq 0 .. 256 BY DEF Around
  <2>3. ask' = ask /\ step = "prf" BY <1>12 DEF PrfExchange
  <2>4. SecretOf(ask.mode) \in (0 .. MaxPairs) \X StoredKeys
    BY <1>0, NoSecretType DEF SecretOf, TypeInv, VariablesOK
  <2>5. CASE \E n \in 0 .. 256 : Fill(n, SecretOf(ask.mode), "prf", PrfCode(o, n))
    BY <1>0, <2>1, <2>3, <2>4, <2>5, FillTypes
  <2>6. CASE ReturnSchedule("prf", PrfCode(o, 0)) /\ UNCHANGED data
    BY <1>0, <2>1, <2>3, <2>6 DEF ReturnSchedule
  <2> QED BY <1>12, <2>2, <2>5, <2>6 DEF PrfExchange
<1>13. \A mode \in Modes : mode \in Modes \cup {"none"} OBVIOUS
<1>14. CASE \E n \in Asks : Random(n) BY <1>7, <1>8, <1>14 DEF Steps
<1>15. CASE \E n \in Asks, mode \in Modes : Prf(mode, n)
  BY <1>7, <1>9, <1>13, <1>15 DEF Steps
<1>16. CASE RandomRejected \/ PrfRejected BY <1>10, <1>16 DEF Steps
<1>17. CASE \E o \in Outcomes : RandomExchange(o) \/ PrfExchange(o)
  BY <1>0, <1>11, <1>12, <1>17 DEF Steps
<1> QED BY <1>14, <1>15, <1>16, <1>17 DEF Derive

\* So does every step.
LEMMA ScheduleTypes == ScheduleTypeInv /\ [ScheduleNext]_scheduleVars => ScheduleTypeInv'
<1> SUFFICES ASSUME ScheduleTypeInv, [ScheduleNext]_scheduleVars PROVE ScheduleTypeInv'
  OBVIOUS
<1>1. CASE AgreeKeys
  <2>1. TypeInv' BY <1>1, NextTypes DEF AgreeKeys, ScheduleTypeInv
  <2>2. last' \in [op : {"none", "random", "prf"}, code : Codes]
    BY <1>1 DEF AgreeKeys, NoReturn, Codes
  <2> QED BY <1>1, <2>1, <2>2 DEF AgreeKeys, ScheduleTypeInv
<1>2. CASE Derive BY <1>2, DeriveTypes
<1>3. CASE UNCHANGED scheduleVars
  <2>1. TypeInv' BY <1>3, NextTypes DEF scheduleVars, ScheduleTypeInv
  <2> QED BY <1>3, <2>1 DEF scheduleVars, schedule, vars, ScheduleTypeInv
<1> QED BY <1>1, <1>2, <1>3 DEF ScheduleNext

------------------------------------------------------------------------------
(* The theorems.                                                             *)

\* The two sides agree on the keys, and the buffer is filled by the last call that
\* succeeded, in every state of the key schedule (ROT.cpp:257-271, 708-790).
THEOREM KeysInv == ScheduleSpec => [](AgreementInv /\ BufferInv)
<1>1. ScheduleInit => AgreementInv BY InitAgreement DEF ScheduleInit
<1> QED BY <1>1, ScheduleInitBuffer, ScheduleAgreement, ScheduleBuffer, PTL
    DEF ScheduleSpec

\* Every reachable state is well typed, one call at a time is in progress, and no
\* more than 255 bytes are in a buffer or in the last command of a key: where it
\* would be more the program has aborted or written past an array before.
THEOREM ScheduleTypeCorrect == ScheduleSpec => []ScheduleTypeOK
<1> QED BY ScheduleTypesFollow, ScheduleInitTypes, ScheduleTypes, PTL DEF ScheduleSpec

\* A buffer handed over with 0 is whole and of this call (ROT.h:119-126).
THEOREM WholeAnswers == ScheduleSpec => []AnswersAreWhole
<1>1. BufferInv => AnswersAreWhole BY DEF BufferInv, AnswersAreWhole
<1> QED BY <1>1, KeysInv, PTL

\* The keys derived from a secret are those of one handshake, that of the moment
\* when the secret was received (ROT.h:173-193).
THEOREM KeysBelongToHandshake == ScheduleSpec => []KeysAreOfOneHandshake
<1>1. AgreementInv /\ BufferInv => KeysAreOfOneHandshake
  BY DEF AgreementInv, BufferInv, SecretOfHandshake, KeysAreOfOneHandshake, SecretOf
<1> QED BY <1>1, KeysInv, PTL
==============================================================================
