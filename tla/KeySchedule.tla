----------------------------- MODULE KeySchedule -----------------------------
(* The random numbers and the pseudo-random function of ROT.cpp, beside the  *)
(* key agreement: generateRandom, and computePRFwithSecret, -withPSK and     *)
(* -withPSKECDHE, with which a caller derives its keys from the secret that  *)
(* computeDHforKeypair left in its buffer.  The secrets, labels and seeds of *)
(* a call are taken to fit one command.                                      *)
EXTENDS KeyAgreement

CONSTANTS
  Asks,      \* the lengths callers ask for
  MaxAsks    \* bound: calls of the functions of this module that reach the card

ASSUME KeyScheduleAssumption == /\ Asks \subseteq 0 .. WordSize - 1
                                /\ MaxAsks \in Nat

VARIABLES
  step,    \* "idle", the exchange the call in progress makes: "random", "prf", or
           \* "aborted" by the assertion of getResponse, or "overrun": a write past
           \* the caller's buffer, after which nothing is known of the program
  last,    \* the last call, if it was of this module, and the code it returned
  ask,     \* the number of the last call that reached the card, its mode and length
  data     \* the caller's buffer: by which call, how many bytes, from which secret

schedule == <<step, last, ask, data>>
scheduleVars == <<vars, schedule>>

NoSecret == <<0, NoKey>>
Data(n, from) == [ask |-> ask.id, len |-> n, secret |-> from]

ScheduleInit == /\ Init
                /\ step = "idle" /\ last = NoReturn
                /\ ask = [id |-> 0, mode |-> "none", len |-> 0]
                /\ data = [ask |-> 0, len |-> 0, secret |-> NoSecret]

\* One call at a time, of this module or of KeyAgreement.
Idle == pc = "idle" /\ step = "idle"

BeginSchedule(s, mode, n) ==
  /\ ask.id < MaxAsks
  /\ ask' = [id |-> ask.id + 1, mode |-> mode, len |-> n]
  /\ step' = s /\ last' = NoReturn

ReturnSchedule(op, code) == step' = "idle" /\ last' = [op |-> op, code |-> code]

\* What the calls of this module leave alone.
Untouched == UNCHANGED <<pc, ret, caller, offset, agreed, card>>

Rejected(op, code) == /\ Idle
                      /\ ReturnSchedule(op, code)
                      /\ Untouched /\ UNCHANGED <<ask, data, faults>>

(* An answer of n bytes to the call in progress: getResponse writes it into  *)
(* the caller's buffer and asserts that it has no more than 255.  What is    *)
(* behind a buffer that is too small may be memory nobody needs.             *)
Fill(n, from, op, code) ==
  \/ /\ n <= 255
     /\ data' = Data(n, from)
     /\ ReturnSchedule(op, code)
  \/ /\ n <= 255 /\ n > ask.len
     /\ step' = "overrun"
     /\ UNCHANGED <<data, last>>
  \/ /\ n > 255
     /\ step' = "aborted"
     /\ UNCHANGED <<data, last>>

\* A card asked for n bytes may give one fewer or one more.
Around(n) == {n - 1, n, n + 1} \cap (0 .. 256)

------------------------------------------------------------------------------
(* generateRandom: the length asked for goes out as the one byte Le, where 0 *)
(* stands for 256.                                                           *)

RandomTooLong(n) == n > CMD_MAX_LEN

Random(n) == /\ Idle /\ ~RandomTooLong(n)
             /\ BeginSchedule("random", "none", n)
             /\ Untouched /\ UNCHANGED <<data, faults>>

RandomRejected == /\ \E n \in Asks : RandomTooLong(n)
                  /\ Rejected("random", "ERR_INVALID_PARAMETERS")

\* 9000 and 6200 are accepted, if the answer has the length asked for.
RandomCode(o, n) == IF o = "ok" /\ n = ask.len THEN "ERR_NOERR" ELSE "ERR_INVALID_RESPONSE"

RandomExchange(o) ==
  /\ step = "random"
  /\ Exchange(o)
  /\ \/ /\ o = "ok"
        /\ \E n \in Around(IF ask.len = 0 THEN 256 ELSE ask.len) :
             Fill(n, NoSecret, "random", RandomCode(o, n))
     \/ /\ o # "ok"
        /\ ReturnSchedule("random", RandomCode(o, 0))
        /\ UNCHANGED data
  /\ Untouched /\ UNCHANGED ask

------------------------------------------------------------------------------
(* computePRF: the length asked for goes out as one byte.                    *)

\* computePRFwithSecret and -withPSKECDHE take the secret, or the premaster, from
\* the caller's buffer; -withPSK takes a key of the card.
Modes == {"with_secret", "psk_plain"}

SecretOf(mode) == IF mode = "psk_plain" THEN NoSecret ELSE secret

Prf(mode, n) == /\ Idle
                /\ BeginSchedule("prf", mode, n)
                /\ Untouched /\ UNCHANGED <<data, faults>>

\* No memory for label and seed; or a length with a null pointer.
PrfRejected == \E code \in {"ERR_OUT_OF_MEMORY", "ERR_INVALID_PARAMETERS"} :
                 Rejected("prf", code)

PrfCode_AnyLength(o, n) == IF o = "ok" THEN "ERR_NOERR" ELSE AsBool("ERR_INVALID_RESPONSE")
PrfCode(o, n) == IF o = "ok" /\ n = ask.len THEN "ERR_NOERR" ELSE AsBool("ERR_INVALID_RESPONSE")

PrfExchange(o) ==
  /\ step = "prf"
  /\ Exchange(o)
  /\ \/ /\ o = "ok"
        /\ \E n \in Around(ask.len % 256) :
             Fill(n, SecretOf(ask.mode), "prf", PrfCode(o, n))
     \/ /\ o # "ok"
        /\ ReturnSchedule("prf", PrfCode(o, 0))
        /\ UNCHANGED data
  /\ Untouched /\ UNCHANGED ask

------------------------------------------------------------------------------

Derive == \/ \E n \in Asks : Random(n)
          \/ \E n \in Asks, mode \in Modes : Prf(mode, n)
          \/ RandomRejected \/ PrfRejected
          \/ \E o \in Outcomes : RandomExchange(o) \/ PrfExchange(o)

AgreeKeys == /\ step = "idle" /\ Next
             /\ last' = NoReturn
             /\ UNCHANGED <<step, ask, data>>

ScheduleNext == AgreeKeys \/ Derive

ScheduleSpec == ScheduleInit /\ [][ScheduleNext]_scheduleVars

------------------------------------------------------------------------------
(* Properties.                                                               *)

\* Every variable keeps its type, and no two calls are in progress at once.
ScheduleTypeOK ==
  /\ TypeOK
  /\ step \in {"idle", "random", "prf", "aborted", "overrun"} /\ "idle" \in {pc, step}
  /\ last \in [op : {"none", "random", "prf"}, code : Codes]
  /\ ask \in [id : 0 .. MaxAsks, mode : Modes \cup {"none"}, len : 0 .. WordSize - 1]
  /\ data \in [ask : 0 .. MaxAsks, len : 0 .. CMD_MAX_LEN,
               secret : (0 .. MaxPairs) \X StoredKeys]

Succeeded(op) == last = [op |-> op, code |-> "ERR_NOERR"]

\* A buffer handed over with 0 has as many bytes as the caller asked for, all of
\* this call (ROT.h:119-126), though the length went to the card in one byte and
\* the buffer may have been filled before, also by calls that failed.
AnswersAreWhole ==
  Succeeded("random") \/ Succeeded("prf") => data.ask = ask.id /\ data.len = ask.len

\* Derived keys are those of one handshake (ROT.h:173-193): the secret they come
\* from, however long ago it was received, belongs to the key pair and the server
\* key that the caller held when it received it, if it had seen both calls before
\* return 0.  Pairs and keys put since, and calls that have failed since, done by
\* the card or not, do not get into it.
KeysAreOfOneHandshake ==
  Succeeded("prf") /\ ask.mode # "psk_plain" /\ handshake # NoHandshake =>
    data.secret[1] = handshake[1] /\ data.secret[2].id = handshake[2]
==============================================================================
