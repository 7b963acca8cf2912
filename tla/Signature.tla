------------------------------ MODULE Signature ------------------------------
(* The signatures of ROT.cpp: signInit makes the card open a session for a   *)
(* key and an algorithm, signFinal sends the hash, which ends the session,   *)
(* and rewrites the answer of the card, r and s in one piece, as a DER       *)
(* structure of two integers in the caller's buffer.  Callers make the two   *)
(* calls in any order.  The card is modelled as this code uses it.           *)
EXTENDS Integers, Sequences

CONSTANTS
  Keys,        \* the key containers
  HalfOf,      \* HalfOf[k]: the bytes of r, and of s, in a signature by key k
  Algorithms,  \* the algorithms of signInit
  Hashes,      \* what callers sign
  HashLen,     \* HashLen[h]: the bytes of hash h
  Leads,       \* how r and s may begin in this instance
  MaxCalls,    \* bound: calls that reach the card
  MaxFaults    \* bound: exchanges that are lost

\* The first byte of r or s: from 1 to 127, from 128 on, or a 0 before a byte of
\* the one or the other kind.
AllLeads == {"low", "high", "zerolow", "zerohigh"}

ASSUME SignatureAssumption ==
  /\ "none" \notin Keys /\ "none" \notin Algorithms /\ "none" \notin Hashes
  /\ HalfOf \in [Keys -> 1 .. 127] /\ HashLen \in [Hashes -> Nat]
  /\ Leads \subseteq AllLeads
  /\ MaxCalls \in Nat /\ MaxFaults \in Nat

VARIABLES
  pc,         \* "idle", or the exchange the call in progress makes: "init", "final"
  ret,        \* the last call and the code it returned
  asked,      \* the key and the algorithm of the last signInit
  initOk,     \* the last signInit returned 0
  hash,       \* the hash of the last signFinal
  signature,  \* the caller's buffer: the DER form in it, and (history) of what
  session,    \* the card: the session that is open
  calls,      \* the calls that reached the card so far
  faults      \* the lost exchanges so far

vars == <<pc, ret, asked, initOk, hash, signature, session, calls, faults>>

NoReturn  == [op |-> "none", code |-> "ERR_NOERR"]
NoSession == [key |-> "none", algorithm |-> "none"]

\* What the integer of r or s was written as: the length byte, the number of
\* bytes 0 before it, and how the bytes taken for it begin.
NoInteger == [len |-> 0, pad |-> 0, lead |-> "none"]
NoSignature == [by |-> NoSession, hash |-> "none", half |-> 0,
                lead |-> <<"none", "none">>,
                der |-> [len |-> 0, size |-> 0, r |-> NoInteger, s |-> NoInteger]]

Init == /\ pc = "idle" /\ ret = NoReturn
        /\ asked = NoSession /\ initOk = FALSE
        /\ hash = "none" /\ signature = NoSignature
        /\ session = NoSession
        /\ calls = 0 /\ faults = 0

------------------------------------------------------------------------------

Begin(step) == pc' = step /\ ret' = NoReturn
Return(op, code) == pc' = "idle" /\ ret' = [op |-> op, code |-> code]

(* The outcomes of an exchange: answered with 9000; done and answered with   *)
(* 91xx; done, and the answer has another tag; refused with an error status; *)
(* lost on the way to the card; done, and the answer lost.                   *)
Outcomes == {"ok", "proactive", "othertag", "refused", "cmdlost", "anslost"}
Executed(o) == o \notin {"refused", "cmdlost"}
Exchange(o) == /\ o \in Outcomes
               /\ faults' = IF o \in {"cmdlost", "anslost"} THEN faults + 1 ELSE faults
               /\ faults' <= MaxFaults

\* A command the card refuses may end the session or leave it.
Refused == session' \in {session, NoSession}

------------------------------------------------------------------------------
(* signInit.                                                                 *)

SignInit(k, a) == /\ pc = "idle" /\ calls < MaxCalls
                  /\ calls' = calls + 1
                  /\ asked' = [key |-> k, algorithm |-> a]
                  /\ initOk' = FALSE
                  /\ Begin("init")
                  /\ UNCHANGED <<hash, signature, session, faults>>

\* No identifier, or one too long for a command: nothing is sent.
SignInitRejected == /\ pc = "idle"
                    /\ initOk' = FALSE
                    /\ \E code \in {"ERR_INVALID_PARAMETERS", "ERR_INVALID_LENGTH"} :
                         Return("init", code)
                    /\ UNCHANGED <<asked, hash, signature, session, calls, faults>>

InitCode_AnyStatus(o) == IF o \in {"cmdlost", "anslost"} THEN "ERR_GENERIC" ELSE "ERR_NOERR"
InitCode(o) == CASE o \in {"ok", "othertag"} -> "ERR_NOERR"
                 [] o \in {"proactive", "refused"} -> "ERR_INVALID_PARAMETERS"
                 [] o \in {"cmdlost", "anslost"} -> "ERR_GENERIC"

InitExchange(o) ==
  /\ pc = "init"
  /\ Exchange(o)
  /\ \/ Executed(o) /\ session' = asked
     \/ o = "refused" /\ Refused
     \/ o = "cmdlost" /\ UNCHANGED session
  /\ initOk' = (InitCode(o) = "ERR_NOERR")
  /\ Return("init", InitCode(o))
  /\ UNCHANGED <<asked, hash, signature, calls>>

------------------------------------------------------------------------------
(* The answer of the card and its DER form.                                  *)

\* The length of n bytes as the card may code it.
LengthBytes(n) == CASE n < 128 -> {<<n>>, <<0, n>>}
                    [] n \in 128 .. 255 -> {<<129, n>>}

\* The areas of this copy overlap; it is taken as going upwards, as in glibc.
Shifted_Kept(bytes) == bytes
Shifted(bytes) == IF bytes[1] = 0 THEN Tail(bytes) ELSE bytes

\* tlvParserLength: the length, and the bytes it took.  More than two bytes do
\* not occur.
ParsedLength(bytes) == CASE bytes[1] < 128 -> bytes[1]
                         [] bytes[1] = 128 -> 0
                         [] bytes[1] = 129 -> bytes[2]
ParsedBytes(bytes) == IF bytes[1] <= 128 THEN 1 ELSE bytes[1] - 127

\* How the n bytes the code takes for r or s begin: as r or s do, if it cuts the
\* answer where they end.
Cut(lead, half, bytes) ==
  IF ParsedBytes(bytes) = Len(bytes) /\ ParsedLength(bytes) = 2 * half
  THEN lead ELSE "other"

Pad_Twice(lead) == IF lead = "high" THEN 2 ELSE 0
Pad(lead) == IF lead = "high" THEN 1 ELSE 0

Integer(n, lead) == [len |-> (n + Pad(lead)) % 256, pad |-> Pad(lead), lead |-> lead]

\* The DER form, of which the length has one byte.
Der_HeaderCounted(n, r, s) ==
  LET size == 6 + 2 * n + Pad(r) + Pad(s)
  IN [len |-> size % 256, size |-> size, r |-> Integer(n, r), s |-> Integer(n, s)]
Der(n, r, s) ==
  LET size == 6 + 2 * n + Pad(r) + Pad(s)
  IN [len |-> (size - 2) % 256, size |-> size, r |-> Integer(n, r), s |-> Integer(n, s)]

\* What signFinal writes for the answer: leads are those of r and s.
Written(half, leads, bytes) ==
  LET shifted == Shifted(bytes)
  IN Der(ParsedLength(shifted) \div 2,
         Cut(leads[1], half, shifted), Cut(leads[2], half, shifted))

------------------------------------------------------------------------------
(* signFinal.                                                                *)

TooLong(h) == HashLen[h] > 64

SignFinal(h) == /\ pc = "idle" /\ calls < MaxCalls /\ ~TooLong(h)
                /\ calls' = calls + 1
                /\ hash' = h
                /\ Begin("final")
                /\ UNCHANGED <<asked, initOk, signature, session, faults>>

\* No hash, or one that is too long: nothing is sent, the session stays open.
SignFinalRejected ==
  /\ pc = "idle"
  /\ \/ Return("final", "ERR_INVALID_PARAMETERS")
     \/ (\E h \in Hashes : TooLong(h)) /\ Return("final", "ERR_INVALID_LENGTH")
  /\ UNCHANGED <<asked, initOk, hash, signature, session, calls, faults>>

FinalCode(o) == CASE o = "ok" -> "ERR_NOERR"
                  [] o = "othertag" -> "ERR_INVALID_RESPONSE"
                  [] o \in {"proactive", "refused", "cmdlost", "anslost"} -> "ERR_GENERIC"

FinalExchange(o) ==
  /\ pc = "final"
  /\ Exchange(o)
  /\ \/ Executed(o) /\ session # NoSession /\ session' = NoSession
     \/ o = "refused" /\ Refused
     \/ o = "cmdlost" /\ UNCHANGED session
  /\ IF FinalCode(o) = "ERR_NOERR"
     THEN \E leads \in Leads \X Leads, bytes \in LengthBytes(2 * HalfOf[session.key]) :
            signature' = [by |-> session, hash |-> hash,
                          half |-> HalfOf[session.key], lead |-> leads,
                          der |-> Written(HalfOf[session.key], leads, bytes)]
     ELSE UNCHANGED signature
  /\ Return("final", FinalCode(o))
  /\ UNCHANGED <<asked, initOk, hash, calls>>

------------------------------------------------------------------------------

Call == \/ \E k \in Keys, a \in Algorithms : SignInit(k, a)
        \/ \E h \in Hashes : SignFinal(h)
        \/ SignInitRejected \/ SignFinalRejected

Leg(o) == InitExchange(o) \/ FinalExchange(o)

Next == Call \/ \E o \in Outcomes : Leg(o)

Spec == Init /\ [][Next]_vars

------------------------------------------------------------------------------
(* Properties.                                                               *)

Codes == {"ERR_NOERR", "ERR_GENERIC", "ERR_INVALID_PARAMETERS",
          "ERR_INVALID_LENGTH", "ERR_INVALID_RESPONSE"}
Sessions == [key : Keys, algorithm : Algorithms] \cup {NoSession}
DerIntegers == [len : 0 .. 255, pad : {0, 1}, lead : AllLeads \cup {"other", "none"}]

\* Every variable keeps its type, and what is written fits the length bytes.
TypeOK ==
  /\ pc \in {"idle", "init", "final"}
  /\ ret \in [op : {"none", "init", "final"}, code : Codes]
  /\ asked \in Sessions /\ session \in Sessions
  /\ initOk \in BOOLEAN
  /\ hash \in Hashes \cup {"none"}
  /\ signature.by \in Sessions
  /\ signature.der.len \in 0 .. 255
  /\ signature.der.r \in DerIntegers /\ signature.der.s \in DerIntegers
  /\ calls \in 0 .. MaxCalls /\ faults \in 0 .. MaxFaults

SignedNow == ret = [op |-> "final", code |-> "ERR_NOERR"]

\* A signature handed to a caller that saw its signInit succeed is by the key and
\* the algorithm of that signInit and of the hash of this signFinal (ROT.h:134),
\* whatever was lost, refused, repeated or rejected before: a session that an
\* earlier call left open at the card is never the one that signs.
SignatureIsOwn ==
  SignedNow /\ initOk => signature.by = asked /\ signature.hash = hash

\* A DER integer is not negative, and has a 0 in front only before a byte from
\* 128 on.
IsDerInteger(i) == <<i.pad, i.lead>> \in {<<0, "low">>, <<0, "zerohigh">>, <<1, "high">>}

\* The lengths have one byte and agree with each other.
LengthsAgree(der) == /\ der.len < 128
                     /\ der.len = der.size - 2
                     /\ der.len = 4 + der.r.len + der.s.len

IsDer(der) == LengthsAgree(der) /\ IsDerInteger(der.r) /\ IsDerInteger(der.s)

DerValue(der) == <<der.r.lead, der.s.lead>>

\* What signFinal hands over has the lengths it states and contains the r and the
\* s the card answered, in integers that are not negative, for curves whose
\* structure stays below the 128 bytes that one length byte can state
\* (ROT.cpp:600-622).
DerCarriesSignature ==
  LET der == signature.der
  IN SignedNow /\ 6 + 2 * signature.half < 128 =>
       /\ LengthsAgree(der)
       /\ DerValue(der) = signature.lead
       /\ \A i \in {der.r, der.s} : i.lead # "zerolow" => IsDerInteger(i)

\* What signFinal hands over is DER, as convertDERToCompactSignature takes it to be
\* (openssl-util.cpp:264).
SignedIsDer == SignedNow => IsDer(signature.der)
==============================================================================
