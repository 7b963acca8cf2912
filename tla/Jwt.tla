--------------------------------- MODULE Jwt ---------------------------------
(* Programs that sign, one after the other, on one card: the JWT example,    *)
(* whose main signs the hash of a token with one key and prints the token,   *)
(* and others that call signInit and signFinal as they like.  Each program   *)
(* selects the applet (see Applet), which may end a session that is open or  *)
(* keep it.  A program may end or die at any moment.                         *)
EXTENDS Signature

CONSTANTS
  JwtKey, JwtAlgorithm,  \* CONTAINER_ID_KEY, ROT_ALGO_SHA256_WITH_ECDSA
  MaxPrograms            \* bound: programs

ASSUME JwtAssumption ==
  /\ JwtKey \in Keys /\ JwtAlgorithm \in Algorithms
  /\ HalfOf[JwtKey] = 32    \* a key on the curve P-256, as the token's ES256 says
  /\ MaxPrograms \in Nat \ {0}

VARIABLES
  main,      \* "other" program, or what main does next: "init", "final",
             \* "convert", "certificate", "over"
  message,   \* what main signs: the hash of the header and the body
  token,     \* the token printed: its message, its r and s, and (history) the
             \* signature they are from
  programs   \* the programs so far

jwt == <<main, message, token, programs>>
jwtVars == <<vars, jwt>>

NoToken == [message |-> "none", value |-> <<"none", "none">>, signature |-> NoSignature]

JwtInit == /\ Init
           /\ main = "other" /\ message = "none" /\ token = NoToken
           /\ programs = 1

------------------------------------------------------------------------------

\* The program is gone, and so is what it knew; a new one has a new buffer of
\* zeros.
NewProgram ==
  /\ programs < MaxPrograms
  /\ programs' = programs + 1
  /\ pc' = "idle" /\ ret' = NoReturn
  /\ asked' = NoSession /\ initOk' = FALSE
  /\ hash' = "none" /\ signature' = NoSignature
  /\ session' \in {session, NoSession}
  /\ token' = NoToken
  /\ UNCHANGED <<calls, faults>>

\* initialize succeeds; when it fails main returns at once.
MainBegins == /\ NewProgram
              /\ main' \in {"init", "over"}
              /\ message' \in {h \in Hashes : HashLen[h] = 32}    \* SHA-256

OtherBegins == NewProgram /\ main' = "other" /\ UNCHANGED message

OtherCalls == main = "other" /\ Call /\ UNCHANGED jwt

\* computeSignature: signFinal only if signInit returned 0.
MayFinal_Unchecked == TRUE
MayFinal == initOk

CallInit == /\ main = "init" /\ main' = "final"
            /\ SignInit(JwtKey, JwtAlgorithm)
            /\ UNCHANGED <<message, token, programs>>

CallFinal == /\ main = "final" /\ MayFinal /\ main' = "convert"
             /\ SignFinal(message)
             /\ UNCHANGED <<message, token, programs>>

\* The code computeSignature returned is overwritten by that of the conversion.
GivesUp == /\ main = "final" /\ pc = "idle" /\ ~MayFinal
           /\ main' = "convert"
           /\ UNCHANGED <<vars, message, token, programs>>

\* convertDERToCompactSignature, on whatever is in the buffer: d2i_ECDSA_SIG
\* takes DER; integers that are not quite, if their lengths are right, OpenSSL 1
\* takes and OpenSSL 3 refuses.  The two numbers are padded to 32 bytes.
Convert == /\ main = "convert" /\ pc = "idle"
           /\ main' = "certificate"
           /\ \/ /\ LengthsAgree(signature.der)
                 /\ token' = [message |-> message, value |-> DerValue(signature.der),
                              signature |-> signature]
              \/ ~IsDer(signature.der) /\ UNCHANGED token
           /\ UNCHANGED <<vars, message, programs>>

\* The certificate is read (see ReadFile) and printed, or not, and the object
\* deleted.
PrintCertificate == /\ main = "certificate"
                    /\ main' = "over"
                    /\ UNCHANGED <<vars, message, token, programs>>

Answers(o) == Leg(o) /\ UNCHANGED jwt

Main == CallInit \/ CallFinal \/ GivesUp \/ Convert \/ PrintCertificate

JwtNext == \/ MainBegins \/ OtherBegins \/ OtherCalls
           \/ Main
           \/ \E o \in Outcomes : Answers(o)

JwtSpec == JwtInit /\ [][JwtNext]_jwtVars

------------------------------------------------------------------------------
(* Properties.                                                               *)

\* Every variable keeps its type, and main has something to sign.
JwtTypeOK ==
  /\ TypeOK
  /\ main \in {"other", "init", "final", "convert", "certificate", "over"}
  /\ message \in Hashes \cup {"none"} /\ token.message \in Hashes \cup {"none"}
  /\ main # "other" => message \in Hashes
  /\ programs \in 1 .. MaxPrograms

\* A token that is printed verifies (README.md:125 "The generated JWT can be
\* independantly verified"): its r and s are those of a signature of this very
\* header and body, by the key and the algorithm its header names, though the
\* code that says whether the signature succeeded is overwritten
\* (jwtexample.cpp:64-69), whatever the buffer has and whatever the programs
\* before left open at the card.
TokenIsSigned ==
  token # NoToken =>
    /\ token.message = message /\ token.signature.hash = message
    /\ token.signature.by = [key |-> JwtKey, algorithm |-> JwtAlgorithm]
    /\ token.value = token.signature.lead

\* A token whose signature succeeded is printed (jwtexample.cpp:67-74), if neither
\* r nor s begins with a 0 that DER leaves out: nothing else that signFinal writes
\* is refused by OpenSSL.
PrintsWhatItSigned ==
  main = "certificate" /\ SignedNow /\ (\A i \in {1, 2} : signature.lead[i] # "zerolow") =>
    token.message = message
==============================================================================
