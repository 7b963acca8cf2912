---------------------------- MODULE KeyAgreement -----------------------------
(* The key agreement of ROT.cpp: generateKeyPairByContainerId makes the card *)
(* generate an ephemeral key pair and hands its public key to the caller,    *)
(* putServerPublicKey stores the public key of the server in another         *)
(* container (one command to begin, then one or several with the key), and   *)
(* computeDHforKeypair has the card compute the secret of the two.  Each     *)
(* exchange is one step.  The card is modelled as this code uses it.         *)
EXTENDS Integers, Sequences

CONSTANTS
  KeyLens,      \* the lengths of the public keys callers put
  MaxPairs,     \* bound: key pairs
  MaxKeys,      \* bound: server keys
  MaxFaults     \* bound: exchanges that are lost

CMD_MAX_LEN == 255
WordSize == 65536

ASSUME KeyAgreementAssumption ==
  /\ KeyLens \subseteq 1 .. WordSize - 1
  /\ MaxPairs \in Nat /\ MaxKeys \in Nat /\ MaxFaults \in Nat

VARIABLES
  pc,       \* "idle", the exchange the call in progress makes next, or where it
            \* wrote past an array, after which nothing is known of the program
  ret,      \* the last call and the code it returned
  kp,       \* the number of the pair in the caller's RotKeyPair
  genOk,    \* the last generateKeyPairByContainerId returned 0
  key,      \* the server key of the last put: its number and its length
  putOk,    \* the last putServerPublicKey returned 0
  offset,   \* dataOffset of putPublicKeyUpdate
  secret,   \* the pair and the server key of the last secret received
  handshake, \* history: the caller's pair and key when it received that secret,
            \* if it had seen both calls before return 0
  pair,     \* the card: the number of the key pair in the client container
  stored,   \* the card: the key in the server container, and if it is whole
  arrived,  \* the card: the pieces of a key that arrived since the put began
  faults    \* the lost exchanges so far

caller == <<kp, genOk, key, putOk>>
card   == <<pair, stored, arrived>>
agreed == <<secret, handshake>>
vars == <<pc, ret, kp, genOk, key, putOk, offset, secret, handshake, pair,
          stored, arrived, faults>>

\* A piece of a key: with or without the TLV header, from which byte, how many.
Piece(head, from, n) == [head |-> head, from |-> from, n |-> n]

NoKey == [id |-> 0, whole |-> FALSE]
NoHandshake == <<0, 0>>

\* The length that stands for a null pointer instead of a key.
Null == 0

NoReturn == [op |-> "none", code |-> "ERR_NOERR"]

Init == /\ pc = "idle" /\ ret = NoReturn
        /\ kp = 0 /\ genOk = FALSE
        /\ key = [id |-> 0, len |-> 0] /\ putOk = FALSE
        /\ offset = 0 /\ secret = <<0, NoKey>> /\ handshake = NoHandshake
        /\ pair = 0 /\ stored = NoKey /\ arrived = <<>>
        /\ faults = 0

------------------------------------------------------------------------------

Begin(step) == pc' = step /\ ret' = NoReturn
Return(op, code) == pc' = "idle" /\ ret' = [op |-> op, code |-> code]
PutReturns(code) == Return("put", code) /\ offset' = 0

(* The outcomes of an exchange: done and answered with 9000; done and        *)
(* answered with 91xx, which this code takes for a failure; refused with an  *)
(* error status; lost on the way to the card; done, and the answer lost.     *)
Outcomes == {"ok", "proactive", "refused", "cmdlost", "anslost"}
Executed(o) == o \in {"ok", "proactive", "anslost"}
Exchange(o) == /\ o \in Outcomes
               /\ faults' = IF o \in {"cmdlost", "anslost"} THEN faults + 1 ELSE faults
               /\ faults' <= MaxFaults

------------------------------------------------------------------------------
(* generateKeyPairByContainerId.                                             *)

\* A null key pair pointer, or a null identifier with a length.
GenerateRejected == /\ pc = "idle"
                    /\ genOk' = FALSE
                    /\ Return("generate", "ERR_INVALID_PARAMETERS")
                    /\ UNCHANGED <<kp, key, putOk, offset, agreed, card, faults>>

Generate == /\ pc = "idle" /\ pair < MaxPairs
            /\ Begin("generate") /\ genOk' = FALSE
            /\ UNCHANGED <<kp, key, putOk, offset, agreed, card, faults>>

\* The three fields of the answer are copied, with the lengths it gives them, and
\* 0 is returned: the error set for a key of another length than 0x45 is
\* overwritten.  Fields longer than those of RotKeyPair are copied as well, past
\* their arrays.  malloc may find no memory for the answer.
GenerateExchange(o) ==
  /\ pc = "generate"
  /\ Exchange(o)
  /\ pair' = IF Executed(o) THEN pair + 1 ELSE pair
  /\ \/ /\ o = "ok"
        /\ kp' = pair' /\ genOk' = TRUE
        /\ Return("generate", "ERR_NOERR")
     \/ /\ o = "ok"
        /\ pc' = "kp_overrun"
        /\ UNCHANGED <<ret, kp, genOk>>
     \/ /\ Return("generate", IF o = "ok" THEN "ERR_OUT_OF_MEMORY" ELSE "ERR_GENERIC")
        /\ UNCHANGED <<kp, genOk>>
  /\ UNCHANGED <<key, putOk, offset, agreed, stored, arrived>>

------------------------------------------------------------------------------
(* putServerPublicKey: putPublicKeyInit, then putPublicKeyUpdate.            *)

\* The bytes constructTlvLength writes.
TlvLength(n) == CASE n < 128 -> 1
                  [] n >= 128 /\ n < 256 -> 2
                  [] n >= 256 -> 3

\* The part of the key that fits behind the header, and whether all of it does.
FirstLength_NoTag(n) == CMD_MAX_LEN - TlvLength(n)
FirstLength(n) == CMD_MAX_LEN - TlvLength(n) - 1
IsSingle(n) == n < FirstLength(n)

\* A null identifier with a length.
PutRejected == /\ pc = "idle"
               /\ putOk' = FALSE
               /\ Return("put", "ERR_INVALID_PARAMETERS")
               /\ UNCHANGED <<kp, genOk, key, offset, agreed, card, faults>>

Put(n) == /\ pc = "idle" /\ key.id < MaxKeys
          /\ key' = [id |-> key.id + 1, len |-> n]
          /\ putOk' = FALSE
          /\ Begin("put_init")
          /\ UNCHANGED <<kp, genOk, offset, agreed, card, faults>>

\* result is a bool: ERR_INVALID_RESPONSE becomes 1, which is ERR_GENERIC.
AsBool(code) == IF code = "ERR_NOERR" THEN code ELSE "ERR_GENERIC"

\* The first copy into cmd[255], behind tag and length.  Of a key of one command
\* it takes two bytes too many, and for one of 251 bytes the last of them is behind
\* the array, which may go unnoticed.
FirstCopy(n) == 1 + TlvLength(n) + (IF IsSingle(n) THEN n + 2 ELSE FirstLength(n))

FirstCopied ==
  /\ offset' = IF IsSingle(key.len) THEN 0 ELSE FirstLength(key.len)
  /\ \/ pc' = IF IsSingle(key.len) THEN "put_last" ELSE "put_more"
     \/ FirstCopy(key.len) > CMD_MAX_LEN /\ pc' = "cmd_overrun"
  /\ UNCHANGED ret

\* putPublicKeyUpdate begins when the card has taken the first command; it looks
\* at the pointer then.
PutInitExchange(o) ==
  /\ pc = "put_init"
  /\ Exchange(o)
  /\ arrived' = IF Executed(o) THEN <<>> ELSE arrived
  /\ \/ o = "ok" /\ key.len # Null /\ FirstCopied
     \/ /\ o = "ok" /\ key.len = Null
        /\ PutReturns("ERR_INVALID_PARAMETERS")
     \/ /\ o # "ok"
        /\ PutReturns(AsBool("ERR_INVALID_RESPONSE"))
  /\ UNCHANGED <<caller, agreed, pair, stored>>

Arrives(o, piece) ==
  arrived' = IF Executed(o) THEN Append(arrived, piece) ELSE arrived

\* One command of 255 bytes from the offset on.  A status other than 9000 ends
\* the put, but an exchange that fails is passed over.
PutMoreExchange(o) ==
  /\ pc = "put_more" /\ offset < key.len
  /\ Exchange(o)
  /\ Arrives(o, Piece(FALSE, offset, CMD_MAX_LEN))
  /\ \/ /\ o \in {"refused", "proactive"}
        /\ PutReturns("ERR_INVALID_RESPONSE")
     \/ /\ o \notin {"refused", "proactive"}
        /\ offset' = offset + CMD_MAX_LEN
        /\ UNCHANGED <<pc, ret>>
  /\ UNCHANGED <<caller, agreed, pair, stored>>

\* What is left for the last command, in 16 bits.
Remainder_Signed == key.len - offset
Remainder == (key.len - offset) % WordSize

\* The rest is copied into cmd[255], and only then compared with 255.  Where the
\* offset has gone past the end, the 16 bits have wrapped round, and the copy
\* writes 64 KB over the stack.
PutMoreEnds == /\ pc = "put_more" /\ offset >= key.len
               /\ pc' = IF Remainder > CMD_MAX_LEN THEN "cmd_overrun" ELSE "put_last"
               /\ UNCHANGED <<ret, caller, offset, agreed, card, faults>>

\* The one command has pubKeyLen + 2 bytes, header included.
SingleLength_HeaderForgotten(n) == n
SingleLength(n) == n + 2

LastPiece == IF IsSingle(key.len)
             THEN Piece(TRUE, 0, SingleLength(key.len) - 1 - TlvLength(key.len))
             ELSE Piece(FALSE, offset, Remainder)

\* The header and every byte of the key, in order.
Whole(pieces, len) ==
  /\ pieces # <<>>
  /\ \A i \in DOMAIN pieces : pieces[i].head <=> i = 1
  /\ pieces[1].from = 0
  /\ \A i \in 1 .. Len(pieces) - 1 : pieces[i + 1].from = pieces[i].from + pieces[i].n
  /\ pieces[Len(pieces)].from + pieces[Len(pieces)].n = len

\* Only the answer 9000 to the last command is a success.
PutSucceeds_AnyStatus(o) == o \in {"ok", "proactive", "refused"}
PutSucceeds(o) == o = "ok"

PutLastExchange(o) ==
  /\ pc = "put_last"
  /\ Exchange(o)
  /\ LET whole == Whole(Append(arrived, LastPiece), key.len)
     IN /\ stored' = IF Executed(o) THEN [id |-> key.id, whole |-> whole] ELSE stored
        /\ arrived' = IF Executed(o) THEN <<>> ELSE arrived
  /\ putOk' = PutSucceeds(o)
  /\ PutReturns(IF putOk' THEN "ERR_NOERR" ELSE AsBool("ERR_INVALID_RESPONSE"))
  /\ UNCHANGED <<kp, genOk, key, agreed, pair>>

------------------------------------------------------------------------------
(* computeDHforKeypair.                                                      *)

\* A null identifier with a length.
AgreeRejected == /\ pc = "idle"
                 /\ Return("agree", "ERR_INVALID_PARAMETERS")
                 /\ UNCHANGED <<caller, offset, agreed, card, faults>>

\* The caller may or may not have looked at the codes of the calls before.
Agree == /\ pc = "idle"
         /\ Begin("agree")
         /\ UNCHANGED <<caller, offset, agreed, card, faults>>

\* The caller's buffer is written after the status was looked at; a call that
\* fails leaves in it what was there.
AfterFailure_StatusNotRead(o) == IF o = "proactive" THEN <<pair, stored>> ELSE secret
AfterFailure(o) == secret

\* 9000 with an empty answer is an error too.
AgreeExchange(o) ==
  /\ pc = "agree"
  /\ Exchange(o)
  /\ Executed(o) => stored # NoKey
  /\ \/ /\ o = "ok"
        /\ secret' = <<pair, stored>>
        /\ handshake' = IF genOk /\ putOk THEN <<kp, key.id>> ELSE NoHandshake
        /\ Return("agree", "ERR_NOERR")
     \/ /\ secret' = AfterFailure(o)
        /\ Return("agree", AsBool("ERR_INVALID_RESPONSE"))
        /\ UNCHANGED handshake
  /\ UNCHANGED <<caller, offset, card>>

------------------------------------------------------------------------------

Call == \/ GenerateRejected \/ PutRejected \/ AgreeRejected
        \/ Generate \/ (\E n \in KeyLens \cup {Null} : Put(n)) \/ Agree

Leg(o) == \/ GenerateExchange(o)
          \/ PutInitExchange(o) \/ PutMoreExchange(o) \/ PutLastExchange(o)
          \/ AgreeExchange(o)

Next == \/ Call
        \/ \E o \in Outcomes : Leg(o)
        \/ PutMoreEnds

Spec == Init /\ [][Next]_vars

------------------------------------------------------------------------------
(* Properties.                                                               *)

Codes == {"ERR_NOERR", "ERR_GENERIC", "ERR_INVALID_PARAMETERS",
          "ERR_INVALID_RESPONSE", "ERR_OUT_OF_MEMORY"}
StoredKeys == [id : 0 .. MaxKeys, whole : BOOLEAN]

VariablesOK ==
  /\ pc \in {"idle", "generate", "put_init", "put_more", "put_last", "agree",
             "kp_overrun", "cmd_overrun"}
  /\ ret \in [op : {"none", "generate", "put", "agree"}, code : Codes]
  /\ kp \in 0 .. MaxPairs
  /\ genOk \in BOOLEAN /\ putOk \in BOOLEAN
  /\ key \in [id : 0 .. MaxKeys, len : 0 .. WordSize - 1]
  /\ offset \in Nat
  /\ secret \in (0 .. MaxPairs) \X StoredKeys
  /\ handshake \in (0 .. MaxPairs) \X (0 .. MaxKeys)
  /\ pair \in 0 .. MaxPairs /\ stored \in StoredKeys
  /\ arrived \in Seq([head : BOOLEAN, from : Nat, n : 0 .. CMD_MAX_LEN])
  /\ faults \in 0 .. MaxFaults

\* Every variable keeps its type, and the last command of a key carries 0 to 255
\* bytes of it: where it would be more, the program has written past its array
\* before, and sends nothing that could be told.
TypeOK == /\ VariablesOK
          /\ pc = "put_last" => LastPiece.n \in 0 .. CMD_MAX_LEN

\* The keys that putPublicKeyUpdate can send without writing past cmd[255]
\* (ROT.cpp:836-887): those of one command with up to 250 bytes, and those whose
\* bytes behind the first command, if there are any, fill commands of 255 exactly.
PutStaysInBuffer ==
  (\/ key.len <= 250 \/ key.len = 252
   \/ key.len > 255 /\ (key.len - 251) % 255 = 0) => pc # "cmd_overrun"

\* A secret handed to a caller that checked the codes of the two calls before is
\* the one of the key pair it holds and of the server key it put last, though
\* calls before may have failed half way, with their commands executed or not
\* (ROT.h:173).
SecretIsAgreed ==
  (ret = [op |-> "agree", code |-> "ERR_NOERR"] /\ genOk /\ putOk) =>
     secret[1] = kp /\ secret[2].id = key.id

\* A put that returned 0 has replaced the key in the container
\* (ROT.h:162-168): the last command went through, not only the first ones.
PutReplaces == putOk => stored.id = key.id

\* A put that returned 0 has stored the caller's key, its header and every byte
\* of it (ROT.h:162-168), however many commands it took.
KeyIsWhole == putOk => stored.whole

\* ... which is so for keys of up to 127 bytes, whose header has two bytes.
ShortKeyIsWhole == putOk /\ key.len < 128 => stored.whole
==============================================================================
