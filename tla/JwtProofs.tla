------------------------------ MODULE JwtProofs ------------------------------
(* Theorems about signatures and tokens, for every set of keys with curves   *)
(* of up to 127 bytes, every set of algorithms and hashes, and any number of *)
(* calls, lost exchanges and programs.                                       *)
EXTENDS Jwt, TLAPS

------------------------------------------------------------------------------
(* The DER form.                                                             *)

AnyLead == AllLeads \cup {"other", "none"}

\* The length of an answer is read back, whichever way the card coded it.
LEMMA LengthIsRead ==
  ASSUME NEW n \in 1 .. 127, NEW bytes \in LengthBytes(2 * n)
  PROVE  /\ ParsedLength(Shifted(bytes)) = 2 * n
         /\ ParsedBytes(Shifted(bytes)) = Len(Shifted(bytes))
<1>1. CASE 2 * n < 128
  <2>1. bytes = <<2 * n>> \/ bytes = <<0, 2 * n>> BY <1>1 DEF LengthBytes
  <2>2. Shifted(bytes) = <<2 * n>>
    <3>1. CASE bytes = <<2 * n>> BY <3>1 DEF Shifted
    <3>2. CASE bytes = <<0, 2 * n>>
      <4>1. Tail(bytes) = <<2 * n>> BY <3>2
      <4> QED BY <3>2, <4>1 DEF Shifted
    <3> QED BY <2>1, <3>1, <3>2
  <2> QED BY <1>1, <2>2 DEF ParsedLength, ParsedBytes
<1>2. CASE ~(2 * n < 128)
  <2>1. bytes = <<129, 2 * n>> BY <1>2 DEF LengthBytes
  <2>2. Shifted(bytes) = <<129, 2 * n>> BY <2>1 DEF Shifted
  <2> QED BY <2>2 DEF ParsedLength, ParsedBytes
<1> QED BY <1>1, <1>2

\* The DER form is that of r and s themselves.
LEMMA WrittenIsDer ==
  ASSUME NEW n \in 1 .. 127, NEW leads \in Leads \X Leads, NEW bytes \in LengthBytes(2 * n)
  PROVE  Written(n, leads, bytes) = Der(n, leads[1], leads[2])
<1>1. (2 * n) \div 2 = n OBVIOUS
<1> QED BY <1>1, LengthIsRead DEF Written, Cut

\* It has the lengths it states, as long as one byte can state them, and integers
\* that are not negative.
LEMMA DerIsRight ==
  ASSUME NEW n \in 1 .. 127, NEW r \in AllLeads, NEW s \in AllLeads,
         6 + 2 * n < 128
  PROVE  /\ LengthsAgree(Der(n, r, s))
         /\ DerValue(Der(n, r, s)) = <<r, s>>
         /\ r # "zerolow" => IsDerInteger(Der(n, r, s).r)
         /\ s # "zerolow" => IsDerInteger(Der(n, r, s).s)
<1>1. Pad(r) \in 0 .. 1 /\ Pad(s) \in 0 .. 1 BY DEF Pad
<1>2. 6 + 2 * n + Pad(r) + Pad(s) \in 0 .. 129 BY <1>1
<1>3. Der(n, r, s).len = 4 + 2 * n + Pad(r) + Pad(s)
  BY <1>1, <1>2 DEF Der
<1>4. Der(n, r, s).r.len = n + Pad(r) /\ Der(n, r, s).s.len = n + Pad(s)
  <2>1. (n + Pad(r)) % 256 = n + Pad(r) /\ (n + Pad(s)) % 256 = n + Pad(s)
    BY <1>1
  <2> QED BY <2>1 DEF Der, Integer
<1>5. Der(n, r, s).size = 6 + 2 * n + Pad(r) + Pad(s) BY DEF Der
<1>6. LengthsAgree(Der(n, r, s)) BY <1>1, <1>2, <1>3, <1>4, <1>5 DEF LengthsAgree
<1>7. /\ Der(n, r, s).r.pad = Pad(r) /\ Der(n, r, s).r.lead = r
      /\ Der(n, r, s).s.pad = Pad(s) /\ Der(n, r, s).s.lead = s
  BY DEF Der, Integer
<1>8. DerValue(Der(n, r, s)) = <<r, s>> BY <1>7 DEF DerValue
<1>9. \A lead \in AllLeads \ {"zerolow"} :
        <<Pad(lead), lead>> \in {<<0, "low">>, <<0, "zerohigh">>, <<1, "high">>}
  BY DEF AllLeads, Pad
<1> QED BY <1>6, <1>7, <1>8, <1>9 DEF IsDerInteger

\* Whatever is written fits the length bytes.
LEMMA DerTypes ==
  ASSUME NEW n \in 1 .. 127, NEW r \in AllLeads, NEW s \in AllLeads
  PROVE  /\ Der(n, r, s).len \in 0 .. 255
         /\ Der(n, r, s).r \in DerIntegers /\ Der(n, r, s).s \in DerIntegers
<1>1. Pad(r) \in {0, 1} /\ Pad(s) \in {0, 1} BY DEF Pad
<1>2. Der(n, r, s).len \in 0 .. 255
  <2> DEFINE rest == 6 + 2 * n + Pad(r) + Pad(s) - 2
  <2>1. rest \in Int BY <1>1
  <2>2. rest % 256 \in 0 .. 255 BY <2>1
  <2>3. Der(n, r, s).len = rest % 256 BY <1>1, <2>1 DEF Der
  <2> QED BY <2>2, <2>3
<1>3. ASSUME NEW lead \in AllLeads PROVE Integer(n, lead) \in DerIntegers
  <2>1. Pad(lead) \in {0, 1} BY DEF Pad
  <2>2. (n + Pad(lead)) % 256 \in 0 .. 255 BY <2>1
  <2> QED BY <2>1, <2>2 DEF Integer, DerIntegers
<1> QED BY <1>2, <1>3 DEF Der

------------------------------------------------------------------------------
(* Type correctness.                                                         *)

\* What a signature in the buffer is: the DER form of an answer of the card.
IsSignature(sig) ==
  /\ sig.by \in Sessions
  /\ sig.half \in 1 .. 127
  /\ sig.lead \in Leads \X Leads
  /\ sig.der = Der(sig.half, sig.lead[1], sig.lead[2])

\* The exchange of signFinal leaves a signature of the session, or what was there.
LEMMA FinalWrites ==
  ASSUME TypeOK, NEW o \in Outcomes, FinalExchange(o)
  PROVE  \/ /\ o = "ok" /\ session # NoSession
            /\ IsSignature(signature')
            /\ signature'.by = session /\ signature'.hash = hash
            /\ signature'.half = HalfOf[session.key]
         \/ o # "ok" /\ signature' = signature
<1>1. CASE o = "ok"
  <2>1. session # NoSession /\ session \in Sessions
    BY <1>1 DEF FinalExchange, TypeOK, Executed
  <2>2. session.key \in Keys BY <2>1 DEF Sessions
  <2>3. HalfOf[session.key] \in 1 .. 127 BY <2>2, SignatureAssumption
  <2>4. PICK leads \in Leads \X Leads, bytes \in LengthBytes(2 * HalfOf[session.key]) :
          signature' = [by |-> session, hash |-> hash,
                        half |-> HalfOf[session.key], lead |-> leads,
                        der |-> Written(HalfOf[session.key], leads, bytes)]
    BY <1>1 DEF FinalExchange, FinalCode
  <2>5. Written(HalfOf[session.key], leads, bytes)
          = Der(HalfOf[session.key], leads[1], leads[2])
    BY <2>3, WrittenIsDer
  <2> QED BY <1>1, <2>1, <2>3, <2>4, <2>5 DEF IsSignature
<1>2. CASE o # "ok"
  <2>1. FinalCode(o) # "ERR_NOERR" BY <1>2 DEF FinalCode, Outcomes
  <2> QED BY <1>2, <2>1 DEF FinalExchange
<1> QED BY <1>1, <1>2

\* An exchange counts its loss.
LEMMA ExchangeTypes ==
  ASSUME TypeOK, NEW o \in Outcomes, Exchange(o)
  PROVE  faults' \in 0 .. MaxFaults
  BY SignatureAssumption DEF Exchange, TypeOK

\* The zeros of the buffer have the type of a signature.
LEMMA NoSignatureTypes ==
  /\ NoSignature.by \in Sessions /\ NoSignature.der.len \in 0 .. 255
  /\ NoSignature.der.r \in DerIntegers /\ NoSignature.der.s \in DerIntegers
<1>1. NoInteger \in DerIntegers BY DEF NoInteger, DerIntegers
<1> QED BY <1>1 DEF NoSignature, Sessions

\* A call that begins keeps the types.
LEMMA CallTypeOK == TypeOK /\ Call => TypeOK'
<1> SUFFICES ASSUME TypeOK, Call PROVE TypeOK'
  OBVIOUS
<1> USE SignatureAssumption DEF TypeOK, Begin, Return, NoReturn, Codes
<1>1. ASSUME NEW k \in Keys, NEW a \in Algorithms, SignInit(k, a) PROVE TypeOK'
  <2>1. asked' \in Sessions BY <1>1 DEF SignInit, Sessions
  <2>2. initOk' \in BOOLEAN BY <1>1 DEF SignInit
  <2>3. calls' \in 0 .. MaxCalls BY <1>1 DEF SignInit
  <2>4. UNCHANGED <<hash, signature, session, faults>> BY <1>1 DEF SignInit
  <2>5. pc' = "init" /\ ret' = NoReturn BY <1>1 DEF SignInit
  <2> QED BY <2>1, <2>2, <2>3, <2>4, <2>5
<1>2. ASSUME NEW h \in Hashes, SignFinal(h) PROVE TypeOK'
  <2>1. UNCHANGED <<asked, initOk, signature, session, faults>> BY <1>2 DEF SignFinal
  <2>2. pc' = "final" /\ ret' = NoReturn /\ hash' = h BY <1>2 DEF SignFinal
  <2>3. calls' \in 0 .. MaxCalls BY <1>2 DEF SignFinal
  <2> QED BY <2>1, <2>2, <2>3
<1>3. CASE SignInitRejected
  <2>1. initOk' \in BOOLEAN BY <1>3 DEF SignInitRejected
  <2> QED BY <1>3, <2>1 DEF SignInitRejected
<1>4. CASE SignFinalRejected BY <1>4 DEF SignFinalRejected
<1> QED BY <1>1, <1>2, <1>3, <1>4 DEF Call

\* So does an exchange with the code after it.
LEMMA LegTypeOK == ASSUME TypeOK, NEW o \in Outcomes, Leg(o) PROVE TypeOK'
<1>1. CASE InitExchange(o)
  <2>1. Exchange(o) /\ session' \in {session, NoSession, asked} /\ InitCode(o) \in Codes
    BY <1>1 DEF InitExchange, Refused, InitCode, Outcomes, Codes
  <2>2. faults' \in 0 .. MaxFaults BY <2>1, ExchangeTypes
  <2>3. session' \in Sessions BY <2>1 DEF TypeOK, Sessions
  <2> QED BY <1>1, <2>1, <2>2, <2>3 DEF InitExchange, TypeOK, Return
<1>2. CASE FinalExchange(o)
  <2>1. Exchange(o) /\ session' \in {session, NoSession} /\ FinalCode(o) \in Codes
    BY <1>2 DEF FinalExchange, Refused, FinalCode, Outcomes, Codes
  <2>2. faults' \in 0 .. MaxFaults BY <2>1, ExchangeTypes
  <2>3. session' \in Sessions BY <2>1 DEF TypeOK, Sessions
  <2>4. /\ signature'.by \in Sessions /\ signature'.der.len \in 0 .. 255
        /\ signature'.der.r \in DerIntegers /\ signature'.der.s \in DerIntegers
    <3>1. CASE signature' = signature BY <3>1 DEF TypeOK
    <3>2. CASE IsSignature(signature')
      <4>1. signature'.lead[1] \in AllLeads /\ signature'.lead[2] \in AllLeads
        BY <3>2, SignatureAssumption DEF IsSignature
      <4>2. signature'.half \in 1 .. 127 /\ signature'.by \in Sessions
        BY <3>2 DEF IsSignature
      <4>3. signature'.der = Der(signature'.half, signature'.lead[1], signature'.lead[2])
        BY <3>2 DEF IsSignature
      <4>4. /\ signature'.der.len \in 0 .. 255
            /\ signature'.der.r \in DerIntegers /\ signature'.der.s \in DerIntegers
        <5>1. PICK n \in 1 .. 127, r \in AllLeads, t \in AllLeads :
                signature'.der = Der(n, r, t)
          BY <4>1, <4>2, <4>3
        <5> QED BY <5>1, DerTypes
      <4> QED BY <4>2, <4>4
    <3> QED BY <1>2, <3>1, <3>2, FinalWrites
  <2> QED BY <1>2, <2>1, <2>2, <2>3, <2>4 DEF FinalExchange, TypeOK, Return
<1> QED BY <1>1, <1>2 DEF Leg

\* So does every step of the programs.
LEMMA JwtTypes == JwtTypeOK /\ [JwtNext]_jwtVars => JwtTypeOK'
<1> SUFFICES ASSUME JwtTypeOK, [JwtNext]_jwtVars PROVE JwtTypeOK'
  OBVIOUS
<1> USE JwtAssumption DEF JwtTypeOK, jwt
<1>1. ASSUME NewProgram, main' \in {"init", "over", "other"}, message' \in Hashes \cup {"none"},
             main' # "other" => message' \in Hashes
      PROVE  JwtTypeOK'
  <2>1. session' \in Sessions BY <1>1 DEF NewProgram, TypeOK, Sessions
  <2>2. /\ pc' = "idle" /\ ret' = NoReturn /\ asked' = NoSession
        /\ hash' = "none" /\ signature' = NoSignature /\ token' = NoToken
        /\ calls' = calls /\ faults' = faults
    BY <1>1 DEF NewProgram
  <2>3. initOk' \in BOOLEAN BY <1>1 DEF NewProgram
  <2>4. /\ ret' \in [op : {"none", "init", "final"}, code : Codes]
        /\ asked' \in Sessions
    BY <2>2 DEF NoReturn, Codes, Sessions
  <2>5. TypeOK' BY <2>1, <2>2, <2>3, <2>4, NoSignatureTypes DEF TypeOK
  <2>6. programs' \in 1 .. MaxPrograms BY <1>1 DEF NewProgram
  <2>7. token'.message = "none" BY <2>2 DEF NoToken
  <2> QED BY <1>1, <2>5, <2>6, <2>7
<1>2. CASE MainBegins BY <1>1, <1>2 DEF MainBegins
<1>3. CASE OtherBegins BY <1>1, <1>3 DEF OtherBegins
<1>4. CASE OtherCalls BY <1>4, CallTypeOK DEF OtherCalls
<1>5. CASE Main
  <2>1. CASE CallInit
    <3>1. Call BY <2>1 DEF CallInit, Call
    <3> QED BY <2>1, <3>1, CallTypeOK DEF CallInit
  <2>2. CASE CallFinal
    <3>1. message \in Hashes BY <2>2 DEF CallFinal
    <3>2. Call BY <2>2, <3>1 DEF CallFinal, Call
    <3> QED BY <2>2, <3>2, CallTypeOK DEF CallFinal
  <2>3. CASE GivesUp BY <2>3 DEF GivesUp, vars, TypeOK
  <2>4. CASE Convert
    <3>1. TypeOK' BY <2>4 DEF Convert, vars, TypeOK
    <3>2. token' = token \/ token'.message = message BY <2>4 DEF Convert
    <3> QED BY <2>4, <3>1, <3>2 DEF Convert
  <2>5. CASE PrintCertificate BY <2>5 DEF PrintCertificate, vars, TypeOK
  <2> QED BY <1>5, <2>1, <2>2, <2>3, <2>4, <2>5 DEF Main
<1>6. ASSUME NEW o \in Outcomes, Answers(o) PROVE JwtTypeOK'
  BY <1>6, LegTypeOK DEF Answers
<1>7. CASE UNCHANGED jwtVars BY <1>7 DEF jwtVars, vars, TypeOK
<1> QED BY <1>2, <1>3, <1>4, <1>5, <1>6, <1>7 DEF JwtNext

\* The first program has not begun.
LEMMA JwtInitTypes == JwtInit => JwtTypeOK
<1> SUFFICES ASSUME JwtInit PROVE JwtTypeOK
  OBVIOUS
<1>1. Init BY DEF JwtInit
<1>2. ret \in [op : {"none", "init", "final"}, code : Codes]
  BY <1>1 DEF Init, NoReturn, Codes
<1>3. asked \in Sessions /\ session \in Sessions BY <1>1 DEF Init, Sessions
<1>4. initOk \in BOOLEAN BY <1>1 DEF Init
<1>5. TypeOK
  BY <1>1, <1>2, <1>3, <1>4, NoSignatureTypes, SignatureAssumption DEF Init, TypeOK
<1>6. token.message = "none" BY DEF JwtInit, NoToken
<1>7. MaxPrograms \in Nat /\ MaxPrograms >= 1 BY JwtAssumption
<1>8. programs = 1 /\ main = "other" /\ message = "none" BY DEF JwtInit
<1> QED BY <1>5, <1>6, <1>7, <1>8 DEF JwtTypeOK

\* Every reachable state is well typed, and every length that is written fits the
\* byte it is written in.
THEOREM TypeCorrect == JwtSpec => []JwtTypeOK
<1> QED BY JwtInitTypes, JwtTypes, PTL DEF JwtSpec

------------------------------------------------------------------------------
(* The signature is of the caller's key.  SignatureIsOwn speaks of the moment *)
(* a signature arrives; it holds then because, all the time since a signInit  *)
(* that returned 0, the session at the card is the caller's or none.          *)

SessionInv == /\ pc = "init" => ~initOk
              /\ initOk => session \in {asked, NoSession}

\* What signFinal returned with 0 is a signature.
SignedInv == SignedNow => IsSignature(signature)

SigningInv == SessionInv /\ SignedInv /\ SignatureIsOwn

\* A call that begins takes the claim of the one before it away.
LEMMA CallSigning == ASSUME SigningInv, Call PROVE SigningInv'
<1> USE DEF SigningInv, SessionInv, SignedInv, SignatureIsOwn, SignedNow,
            Begin, Return, NoReturn
<1>1. ASSUME NEW k \in Keys, NEW a \in Algorithms, SignInit(k, a) PROVE SigningInv'
  BY <1>1 DEF SignInit
<1>2. ASSUME NEW h \in Hashes, SignFinal(h) PROVE SigningInv'
  BY <1>2 DEF SignFinal
<1>3. CASE SignInitRejected BY <1>3 DEF SignInitRejected
<1>4. CASE SignFinalRejected BY <1>4 DEF SignFinalRejected
<1> QED BY <1>1, <1>2, <1>3, <1>4 DEF Call

\* An exchange of signInit that is reported as a success has opened the session.
LEMMA LegSigning ==
  ASSUME TypeOK, SigningInv, NEW o \in Outcomes, Leg(o)
  PROVE  SigningInv'
<1>1. CASE InitExchange(o)
  <2>1. pc' = "idle" /\ ret' = [op |-> "init", code |-> InitCode(o)]
    BY <1>1 DEF InitExchange, Return
  <2>2. ~SignedNow' BY <2>1 DEF SignedNow
  <2>3. asked' = asked BY <1>1 DEF InitExchange
  <2>4. initOk' => o \in {"ok", "othertag"}
    BY <1>1 DEF InitExchange, InitCode, Outcomes
  <2>5. o \in {"ok", "othertag"} => session' = asked
    BY <1>1 DEF InitExchange
  <2> QED BY <2>1, <2>2, <2>3, <2>4, <2>5
      DEF SigningInv, SessionInv, SignedInv, SignatureIsOwn
<1>2. CASE FinalExchange(o)
  <2>1. /\ pc' = "idle" /\ ret' = [op |-> "final", code |-> FinalCode(o)]
        /\ asked' = asked /\ initOk' = initOk /\ hash' = hash
        /\ session' \in {session, NoSession}
    BY <1>2 DEF FinalExchange, Return, Refused
  <2>2. SessionInv' BY <2>1 DEF SigningInv, SessionInv
  <2>3. CASE o = "ok"
    <3>1. /\ session # NoSession /\ IsSignature(signature')
          /\ signature'.by = session /\ signature'.hash = hash
      BY <1>2, <2>3, FinalWrites
    <3> QED BY <2>1, <2>2, <3>1
        DEF SigningInv, SessionInv, SignedInv, SignatureIsOwn
  <2>4. CASE o # "ok"
    <3>1. ret'.code # "ERR_NOERR" BY <2>1, <2>4 DEF FinalCode, Outcomes
    <3>2. ~SignedNow' BY <3>1 DEF SignedNow
    <3> QED BY <2>2, <3>2 DEF SigningInv, SignedInv, SignatureIsOwn
  <2> QED BY <2>3, <2>4
<1> QED BY <1>1, <1>2 DEF Leg

\* Every step keeps the session the caller's or none.
LEMMA SigningStep == JwtTypeOK /\ SigningInv /\ [JwtNext]_jwtVars => SigningInv'
<1> SUFFICES ASSUME JwtTypeOK, SigningInv, [JwtNext]_jwtVars PROVE SigningInv'
  OBVIOUS
<1>1. TypeOK BY DEF JwtTypeOK
<1>2. CASE NewProgram
  BY <1>2 DEF NewProgram, NoReturn, SigningInv, SessionInv, SignedInv, SignatureIsOwn, SignedNow
<1>3. CASE Call BY <1>3, CallSigning
<1>4. ASSUME NEW o \in Outcomes, Leg(o) PROVE SigningInv'
  BY <1>1, <1>4, LegSigning
<1>5. CASE UNCHANGED vars
  BY <1>5 DEF vars, SigningInv, SessionInv, SignedInv, SignatureIsOwn, SignedNow
<1>6. CallInit => Call BY JwtAssumption DEF CallInit, Call
<1>7. CallFinal => Call
  <2>1. main = "final" => message \in Hashes BY DEF JwtTypeOK
  <2> QED BY <2>1 DEF CallFinal, Call
<1> QED BY <1>2, <1>3, <1>4, <1>5, <1>6, <1>7
    DEF JwtNext, MainBegins, OtherBegins, OtherCalls, Main, GivesUp, Convert,
        PrintCertificate, Answers, jwtVars

\* The invariant behind SignatureIsOwn: what signInit and signFinal keep of each
\* other and of the session at the card (ROT.cpp:364-433, 592-632).
THEOREM Signing == JwtSpec => [](JwtTypeOK /\ SigningInv)
<1>1. JwtInit => SigningInv
  BY DEF JwtInit, Init, NoReturn, SigningInv, SessionInv, SignedInv, SignatureIsOwn, SignedNow
<1> QED BY <1>1, JwtInitTypes, JwtTypes, SigningStep, PTL DEF JwtSpec

\* A signature handed to a caller that saw its signInit succeed is by the key and
\* the algorithm of that signInit and of the hash of this signFinal.
THEOREM SignsWithOwnKey == JwtSpec => []SignatureIsOwn
<1>1. SigningInv => SignatureIsOwn BY DEF SigningInv
<1> QED BY <1>1, Signing, PTL

\* The DER form has the lengths it states and the r and s of the card.
THEOREM CarriesSignature == JwtSpec => []DerCarriesSignature
<1>1. SigningInv => DerCarriesSignature
  <2> SUFFICES ASSUME SigningInv, SignedNow, 6 + 2 * signature.half < 128
               PROVE  /\ LengthsAgree(signature.der)
                      /\ DerValue(signature.der) = signature.lead
                      /\ \A i \in {signature.der.r, signature.der.s} :
                           i.lead # "zerolow" => IsDerInteger(i)
    BY DEF DerCarriesSignature
  <2>1. IsSignature(signature) BY DEF SigningInv, SignedInv
  <2>2. PICK n \in 1 .. 127, r \in AllLeads, s \in AllLeads :
          /\ signature.half = n /\ signature.lead = <<r, s>>
          /\ signature.der = Der(n, r, s)
    BY <2>1, SignatureAssumption DEF IsSignature
  <2>3. Der(n, r, s).r.lead = r /\ Der(n, r, s).s.lead = s BY DEF Der, Integer
  <2>4. /\ LengthsAgree(Der(n, r, s)) /\ DerValue(Der(n, r, s)) = <<r, s>>
        /\ r # "zerolow" => IsDerInteger(Der(n, r, s).r)
        /\ s # "zerolow" => IsDerInteger(Der(n, r, s).s)
    BY <2>2, DerIsRight
  <2> QED BY <2>2, <2>3, <2>4
<1> QED BY <1>1, Signing, PTL

------------------------------------------------------------------------------
(* The token.  main has one buffer, and what is in it when it is converted   *)
(* is either what it began with, which is no DER, or the signature main      *)
(* asked for: that is what its order of calls has to give.                   *)

Header == [key |-> JwtKey, algorithm |-> JwtAlgorithm]

\* A signature by the key, and with the algorithm, that the token's header names.
IsMains(sig) ==
  /\ sig.by = Header /\ sig.hash = message /\ sig.half = 32
  /\ IsSignature(sig)

\* Where main is in its calls, and what it has then.
MainInv ==
  /\ main \in {"other", "init", "final", "convert"} => token = NoToken
  /\ main \in {"init", "certificate", "over"} => pc = "idle"
  /\ main = "init" => ret = NoReturn /\ signature = NoSignature
  /\ main = "final" =>
       /\ pc # "final" /\ asked = Header
       /\ ret.op # "final" /\ signature = NoSignature
  /\ main = "convert" /\ pc = "final" =>
       /\ asked = Header /\ initOk /\ hash = message /\ signature = NoSignature
  /\ main = "convert" => pc # "init"
  /\ main = "convert" /\ pc = "idle" => signature = NoSignature \/ IsMains(signature)
  /\ main \in {"convert", "certificate"} /\ SignedNow => IsMains(signature)

TokenInv == MainInv /\ TokenIsSigned /\ PrintsWhatItSigned

\* The zeros main's buffer begins with are no DER.
LEMMA ZerosAreNoDer == ~LengthsAgree(NoSignature.der)
  BY DEF NoSignature, LengthsAgree

\* A new program has nothing of the one before it.
LEMMA BeginToken == ASSUME TokenInv, NewProgram, main' \in {"init", "over", "other"}
                    PROVE  TokenInv'
  BY DEF NewProgram, NoReturn, TokenInv, MainInv, TokenIsSigned, PrintsWhatItSigned, SignedNow

\* The exchange of the signFinal that main calls leaves main's signature.
LEMMA AnswerToken ==
  ASSUME JwtTypeOK, SigningInv, TokenInv, NEW o \in Outcomes, Answers(o)
  PROVE  TokenInv'
<1> TypeOK BY DEF JwtTypeOK
<1>0. UNCHANGED <<main, message, token, programs>> BY DEF Answers, jwt
<1>1. TokenIsSigned' BY <1>0 DEF TokenInv, TokenIsSigned
<1>2. CASE InitExchange(o)
  <2>1. /\ pc = "init" /\ pc' = "idle" /\ ret'.op = "init"
        /\ asked' = asked /\ signature' = signature
    BY <1>2 DEF InitExchange, Return
  <2>2. ~SignedNow' BY <2>1 DEF SignedNow
  <2> QED BY <1>0, <1>1, <2>1, <2>2 DEF TokenInv, MainInv, PrintsWhatItSigned
<1>3. CASE FinalExchange(o)
  <2>1. pc = "final" /\ pc' = "idle" BY <1>3 DEF FinalExchange, Return
  <2>2. main \in {"other", "convert"} BY <2>1 DEF TokenInv, MainInv, JwtTypeOK
  <2>3. main = "convert" /\ o = "ok" => IsMains(signature')
    <3> SUFFICES ASSUME main = "convert", o = "ok" PROVE IsMains(signature')
      OBVIOUS
    <3>1. asked = Header /\ initOk /\ hash = message BY <2>1 DEF TokenInv, MainInv
    <3>2. /\ session # NoSession /\ IsSignature(signature')
          /\ signature'.by = session /\ signature'.hash = hash
          /\ signature'.half = HalfOf[session.key]
      BY <1>3, FinalWrites
    <3>3. session = Header BY <3>1, <3>2 DEF SigningInv, SessionInv
    <3>4. HalfOf[session.key] = 32 BY <3>3, JwtAssumption DEF Header
    <3> QED BY <3>1, <3>2, <3>3, <3>4 DEF IsMains
  <2>4. main = "convert" /\ o # "ok" =>
          signature' = NoSignature /\ ~SignedNow'
    <3> SUFFICES ASSUME main = "convert", o # "ok"
                 PROVE  signature' = NoSignature /\ ~SignedNow'
      OBVIOUS
    <3>1. signature' = signature BY <1>3, FinalWrites
    <3>2. signature = NoSignature BY <2>1 DEF TokenInv, MainInv
    <3>3. ret'.code # "ERR_NOERR"
      BY <1>3 DEF FinalExchange, Return, FinalCode, Outcomes
    <3> QED BY <3>1, <3>2, <3>3 DEF SignedNow
  <2>5. IsMains(signature)' <=> IsMains(signature') BY <1>0 DEF IsMains
  <2>6. MainInv'
    BY <1>0, <2>1, <2>2, <2>3, <2>4, <2>5 DEF TokenInv, MainInv
  <2>7. PrintsWhatItSigned'
    BY <1>0, <2>2 DEF PrintsWhatItSigned
  <2> QED BY <1>1, <2>6, <2>7 DEF TokenInv
<1> QED BY <1>2, <1>3 DEF Answers, Leg

\* A step of main: each call is made once, in order, and converted once.
LEMMA MainToken == ASSUME TokenInv, SigningInv, Main PROVE TokenInv'
<1> USE DEF TokenInv, MainInv, TokenIsSigned, PrintsWhatItSigned, SignedNow
<1>1. CASE CallInit
  BY <1>1 DEF CallInit, SignInit, Begin, NoReturn, Header
<1>2. CASE CallFinal
  BY <1>2 DEF CallFinal, MayFinal, SignFinal, Begin, NoReturn
<1>3. CASE GivesUp
  BY <1>3 DEF GivesUp, vars
<1>4. CASE Convert
  <2>1. /\ main = "convert" /\ pc = "idle" /\ main' = "certificate" /\ token = NoToken
        /\ UNCHANGED <<vars, message, programs>>
    BY <1>4 DEF Convert
  <2>2. signature = NoSignature \/ IsMains(signature) BY <2>1
  <2>3. IsMains(signature)' <=> IsMains(signature) BY <2>1 DEF IsMains, vars
  <2>4. CASE /\ LengthsAgree(signature.der)
             /\ token' = [message |-> message, value |-> DerValue(signature.der),
                          signature |-> signature]
    <3>1. IsMains(signature) BY <2>2, <2>4, ZerosAreNoDer
    <3>2. DerValue(signature.der) = signature.lead
      <4>1. PICK n \in 1 .. 127, r \in AllLeads, s \in AllLeads :
              signature.lead = <<r, s>> /\ signature.der = Der(n, r, s)
        BY <3>1, SignatureAssumption DEF IsMains, IsSignature
      <4> QED BY <4>1 DEF DerValue, Der, Integer
    <3>3. token'.message = message /\ token'.signature = signature
          /\ token'.value = signature.lead
      BY <2>4, <3>2
    <3> QED BY <2>1, <2>3, <3>1, <3>3 DEF vars, IsMains, Header
  <2>5. CASE ~IsDer(signature.der) /\ UNCHANGED token
    <3>1. ASSUME SignedNow, \A i \in {1, 2} : signature.lead[i] # "zerolow" PROVE FALSE
      <4>1. IsMains(signature) BY <2>1, <3>1
      <4>2. PICK r \in AllLeads, s \in AllLeads :
              signature.lead = <<r, s>> /\ signature.der = Der(32, r, s)
        BY <4>1, SignatureAssumption DEF IsMains, IsSignature
      <4>3. r # "zerolow" /\ s # "zerolow" BY <3>1, <4>2
      <4>4. 32 \in 1 .. 127 /\ 6 + 2 * 32 < 128 OBVIOUS
      <4>5. IsDer(Der(32, r, s)) BY <4>3, <4>4, DerIsRight DEF IsDer
      <4> QED BY <2>5, <4>2, <4>5
    <3>2. UNCHANGED <<ret, signature, pc, message, token>> BY <2>1, <2>5 DEF vars
    <3> QED BY <2>1, <2>3, <3>1, <3>2
  <2> QED BY <1>4, <2>4, <2>5 DEF Convert
<1>5. CASE PrintCertificate
  BY <1>5 DEF PrintCertificate, vars
<1> QED BY <1>1, <1>2, <1>3, <1>4, <1>5 DEF Main

\* Every step keeps what main has done and what its buffer has there.
LEMMA TokenStep ==
  JwtTypeOK /\ SigningInv /\ TokenInv /\ [JwtNext]_jwtVars => TokenInv'
<1> SUFFICES ASSUME JwtTypeOK, SigningInv, TokenInv, [JwtNext]_jwtVars PROVE TokenInv'
  OBVIOUS
<1>1. CASE MainBegins BY <1>1, BeginToken DEF MainBegins
<1>2. CASE OtherBegins BY <1>2, BeginToken DEF OtherBegins
<1>3. CASE OtherCalls
  <2>1. main = "other" /\ UNCHANGED <<main, message, token, programs>>
    BY <1>3 DEF OtherCalls, jwt
  <2> QED BY <2>1 DEF TokenInv, MainInv, TokenIsSigned, PrintsWhatItSigned
<1>4. CASE Main BY <1>4, MainToken
<1>5. ASSUME NEW o \in Outcomes, Answers(o) PROVE TokenInv'
  BY <1>5, AnswerToken
<1>6. CASE UNCHANGED jwtVars
  BY <1>6 DEF jwtVars, vars, jwt, TokenInv, MainInv, TokenIsSigned, PrintsWhatItSigned,
              SignedNow, IsMains
<1> QED BY <1>1, <1>2, <1>3, <1>4, <1>5, <1>6 DEF JwtNext

\* The invariant behind TokenIsSigned: what main's buffer and its token have to
\* do with one another, whatever computeSignature returned (jwtexample.cpp:62-74).
THEOREM Tokens == JwtSpec => [](JwtTypeOK /\ SigningInv /\ TokenInv)
<1>1. JwtInit => TokenInv
  BY DEF JwtInit, Init, NoReturn, TokenInv, MainInv, TokenIsSigned,
         PrintsWhatItSigned, SignedNow
<1> QED BY <1>1, Signing, TokenStep, PTL DEF JwtSpec

\* A printed token has the r and s of a signature of its own header and body, by
\* the key that its header names.
THEOREM TokensAreSigned == JwtSpec => []TokenIsSigned
<1>1. TokenInv => TokenIsSigned BY DEF TokenInv
<1> QED BY <1>1, Tokens, PTL

\* A token whose signature succeeded is printed, unless its r or its s begins with
\* a 0 that DER leaves out.
THEOREM SignedTokensArePrinted == JwtSpec => []PrintsWhatItSigned
<1>1. TokenInv => PrintsWhatItSigned BY DEF TokenInv
<1> QED BY <1>1, Tokens, PTL
==============================================================================
