------------------------- MODULE KeyAgreementProofs --------------------------
(* Theorems about the key agreement, for keys of every length and any number *)
(* of key pairs, server keys and lost exchanges.                             *)
EXTENDS KeyAgreement, TLAPS

(* SecretIsAgreed speaks of the moment a secret arrives, and depends on what  *)
(* the card holds then.  What makes it true is a relation between the two     *)
(* sides at every moment: as long as the last call of each kind returned 0,   *)
(* the card's pair is the caller's and the card's key is the one put last.    *)

\* The card has the pair of a caller whose last generate returned 0.
PairsAgree == genOk => pair = kp /\ pc # "generate"

\* No put is under way once one has returned 0.
PutEnded == putOk => pc \notin {"put_init", "put_more", "put_last"}

\* The caller's buffer has the secret of the last handshake, whatever came after.
SecretOfHandshake ==
  handshake # NoHandshake => secret[1] = handshake[1] /\ secret[2].id = handshake[2]

AgreementInv == PairsAgree /\ PutEnded /\ PutReplaces /\ SecretIsAgreed /\ SecretOfHandshake

\* No call has returned.
LEMMA InitAgreement == Init => AgreementInv
BY DEF Init, AgreementInv, PairsAgree, PutEnded, PutReplaces, SecretIsAgreed, NoReturn,
       SecretOfHandshake

\* A call that begins forgets what was returned, and a generate or a put forgets
\* that the last one of its kind returned 0.
LEMMA CallAgreement == AgreementInv /\ Call => AgreementInv'
<1> SUFFICES ASSUME AgreementInv, Call PROVE AgreementInv'
  OBVIOUS
<1> USE DEF AgreementInv, PairsAgree, PutEnded, PutReplaces, SecretIsAgreed,
            NoReturn, Begin, Return, caller, card, agreed, SecretOfHandshake
<1>1. CASE GenerateRejected BY <1>1 DEF GenerateRejected
<1>2. CASE Generate BY <1>2 DEF Generate
<1>3. ASSUME NEW n \in KeyLens \cup {Null}, Put(n) PROVE AgreementInv' BY <1>3 DEF Put
<1>4. CASE Agree BY <1>4 DEF Agree
<1>5. CASE PutRejected BY <1>5 DEF PutRejected
<1>6. CASE AgreeRejected BY <1>6 DEF AgreeRejected
<1> QED BY <1>1, <1>2, <1>3, <1>4, <1>5, <1>6 DEF Call

\* Every exchange, whether it is answered, refused, or lost on either way.
LEMMA LegAgreement ==
  ASSUME AgreementInv, NEW o \in Outcomes, Leg(o)
  PROVE  AgreementInv'
<1> USE DEF AgreementInv, PairsAgree, PutEnded, PutReplaces, SecretIsAgreed,
            SecretOfHandshake, Return, PutReturns, Executed, caller, agreed
<1>1. CASE GenerateExchange(o)
  <2>1. ~genOk BY <1>1 DEF GenerateExchange
  <2>2. PairsAgree' BY <1>1, <2>1 DEF GenerateExchange
  <2>3. PutEnded' /\ PutReplaces' /\ SecretOfHandshake' BY <1>1 DEF GenerateExchange
  <2>4. SecretIsAgreed'
    <3>1. \/ ret'.op = "generate"
          \/ ret' = ret /\ ~genOk'
      BY <1>1, <2>1 DEF GenerateExchange
    <3> QED BY <3>1
  <2> QED BY <2>2, <2>3, <2>4
<1>2. CASE PutInitExchange(o)
  <2>1. /\ ~putOk /\ UNCHANGED <<kp, genOk, key, putOk, secret, handshake, pair, stored>>
        /\ pc' # "generate"
    BY <1>2 DEF PutInitExchange, FirstCopied
  <2> QED BY <2>1
<1>3. CASE PutMoreExchange(o) BY <1>3 DEF PutMoreExchange
<1>4. CASE PutLastExchange(o) BY <1>4 DEF PutLastExchange, PutSucceeds
<1>5. CASE AgreeExchange(o)
  <2>0. pc' = "idle" /\ UNCHANGED <<kp, genOk, key, putOk, pair, stored>>
    BY <1>5 DEF AgreeExchange, card
  <2>1. CASE /\ secret' = <<pair, stored>>
             /\ handshake' = IF genOk /\ putOk THEN <<kp, key.id>> ELSE NoHandshake
    BY <2>0, <2>1
  <2>2. CASE UNCHANGED <<secret, handshake>> /\ ret'.code = "ERR_GENERIC"
    <3>1. SecretIsAgreed' BY <2>2
    <3> QED BY <2>0, <2>2, <3>1
  <2> QED BY <1>5, <2>1, <2>2 DEF AgreeExchange, AfterFailure, AsBool
<1> QED BY <1>1, <1>2, <1>3, <1>4, <1>5 DEF Leg

\* Every step keeps the two sides in agreement.
LEMMA NextAgreement == AgreementInv /\ [Next]_vars => AgreementInv'
<1> SUFFICES ASSUME AgreementInv, [Next]_vars PROVE AgreementInv'
  OBVIOUS
<1>1. CASE Call BY <1>1, CallAgreement
<1>2. CASE \E o \in Outcomes : Leg(o) BY <1>2, LegAgreement
<1>3. CASE PutMoreEnds
  BY <1>3 DEF PutMoreEnds, caller, card, agreed, AgreementInv, PairsAgree, PutEnded,
              PutReplaces, SecretIsAgreed, SecretOfHandshake
<1>4. CASE UNCHANGED vars
  BY <1>4 DEF vars, AgreementInv, PairsAgree, PutEnded, PutReplaces, SecretIsAgreed,
              SecretOfHandshake
<1> QED BY <1>1, <1>2, <1>3, <1>4 DEF Next

------------------------------------------------------------------------------
(* Type correctness, and the bytes of a key on their way.  The offset stands *)
(* behind the first command by a multiple of 255, and never more than one    *)
(* command behind the end of the key.                                        *)

\* The word has a size, and no key is longer than a word.
LEMMA KeyLengths == /\ KeyLens \cup {Null} \subseteq 0 .. WordSize - 1
                    /\ WordSize \in Nat /\ WordSize > 255
<1>1. WordSize \in Nat /\ WordSize > 255 BY DEF WordSize
<1> QED BY <1>1, KeyAgreementAssumption DEF Null

\* constructTlvLength writes one to three bytes.
LEMMA TlvLengths ==
  ASSUME NEW n \in Nat
  PROVE  /\ n < 128 => TlvLength(n) = 1
         /\ n >= 128 /\ n < 256 => TlvLength(n) = 2
         /\ n >= 256 => TlvLength(n) = 3
BY DEF TlvLength

\* One command holds a key of up to 251 bytes.
LEMMA SingleLengths ==
  ASSUME NEW n \in Nat
  PROVE  /\ IsSingle(n) <=> n <= 251
         /\ n >= 252 /\ n <= 255 => FirstLength(n) = 252
         /\ n >= 256 => FirstLength(n) = 251
         /\ FirstLength(n) \in 251 .. 253
<1>1. n < 128 \/ (n >= 128 /\ n < 256) \/ n >= 256 OBVIOUS
<1> QED BY <1>1, TlvLengths DEF IsSingle, FirstLength, CMD_MAX_LEN

Pieces == [head : BOOLEAN, from : Nat, n : 0 .. CMD_MAX_LEN]

\* The pieces of a key fit commands.
RestFits == pc = "put_last" /\ ~IsSingle(key.len) => Remainder <= CMD_MAX_LEN

\* The last piece of a key fits a command.
LEMMA LastPieceType ==
  ASSUME VariablesOK, RestFits, pc = "put_last"
  PROVE  LastPiece \in Pieces
<1>1. key.len \in Nat /\ offset \in Nat /\ WordSize \in Nat \ {0}
  BY KeyLengths DEF VariablesOK
<1>2. CASE IsSingle(key.len)
  <2>1. SingleLength(key.len) - 1 - TlvLength(key.len) \in 0 .. CMD_MAX_LEN
    BY <1>1, <1>2, TlvLengths, SingleLengths DEF SingleLength, CMD_MAX_LEN
  <2> QED BY <1>2, <2>1 DEF LastPiece, Piece, Pieces
<1>3. CASE ~IsSingle(key.len)
  <2>1. Remainder \in Nat
    <3>1. key.len - offset \in Int BY <1>1
    <3> QED BY <1>1, <3>1 DEF Remainder
  <2>2. Remainder \in 0 .. CMD_MAX_LEN BY <1>3, <2>1 DEF RestFits, CMD_MAX_LEN
  <2> QED BY <1>1, <1>3, <2>2 DEF LastPiece, Piece, Pieces
<1> QED BY <1>2, <1>3

\* The card makes no more pairs than the bound, which Generate looks at.
PairsFit == pc = "generate" => pair < MaxPairs

TypeInv == VariablesOK /\ RestFits /\ PairsFit

\* The variables keep their types, and so does the last command.
LEMMA TypesFollow == TypeInv => TypeOK
<1> SUFFICES ASSUME TypeInv, pc = "put_last" PROVE LastPiece.n \in 0 .. CMD_MAX_LEN
  BY DEF TypeInv, TypeOK
<1>1. LastPiece \in Pieces BY LastPieceType DEF TypeInv
<1> QED BY <1>1 DEF Pieces

\* No key is under way.
LEMMA InitTypes == Init => TypeInv
<1> SUFFICES ASSUME Init PROVE TypeInv
  OBVIOUS
<1> USE KeyAgreementAssumption, KeyLengths DEF Init, NoReturn, NoKey
<1>1. ret \in [op : {"none", "generate", "put", "agree"}, code : Codes] BY DEF Codes
<1>2. genOk \in BOOLEAN /\ putOk \in BOOLEAN OBVIOUS
<1>3. stored \in StoredKeys BY DEF StoredKeys
<1>4. secret \in (0 .. MaxPairs) \X StoredKeys
  <2>1. secret = <<0, stored>> /\ 0 \in 0 .. MaxPairs OBVIOUS
  <2> HIDE DEF Init, NoKey
  <2> QED BY <1>3, <2>1
<1>5. key \in [id : 0 .. MaxKeys, len : 0 .. WordSize - 1] OBVIOUS
<1>6. arrived \in Seq(Pieces) OBVIOUS
<1>7. pc = "idle" /\ kp = 0 /\ offset = 0 /\ pair = 0 /\ faults = 0 OBVIOUS
<1>8. handshake \in (0 .. MaxPairs) \X (0 .. MaxKeys) BY DEF NoHandshake
<1> HIDE DEF Init
<1> QED BY <1>1, <1>2, <1>3, <1>4, <1>5, <1>6, <1>7, <1>8
    DEF TypeInv, VariablesOK, RestFits, PairsFit, Pieces

\* A call that begins, or is rejected, keeps the types.
LEMMA CallTypes == ASSUME TypeInv, Call PROVE TypeInv'
<1> USE KeyAgreementAssumption, KeyLengths
        DEF TypeInv, VariablesOK, Codes, NoReturn, Begin, Return, caller, card, agreed
<1>1. CASE GenerateRejected
  <2>1. genOk' \in BOOLEAN BY <1>1 DEF GenerateRejected
  <2> QED BY <1>1, <2>1 DEF GenerateRejected, RestFits, PairsFit
<1>2. CASE Generate
  <2>1. genOk' \in BOOLEAN BY <1>2 DEF Generate
  <2> QED BY <1>2, <2>1 DEF Generate, RestFits, PairsFit
<1>3. ASSUME NEW n \in KeyLens \cup {Null}, Put(n) PROVE TypeInv'
  <2>1. putOk' \in BOOLEAN BY <1>3 DEF Put
  <2>2. n \in 0 .. WordSize - 1 OBVIOUS
  <2>3. key' \in [id : 0 .. MaxKeys, len : 0 .. WordSize - 1] BY <1>3, <2>2 DEF Put
  <2> QED BY <1>3, <2>1, <2>3 DEF Put, RestFits, PairsFit
<1>4. CASE Agree BY <1>4 DEF Agree, RestFits, PairsFit
<1>5. CASE PutRejected
  <2>1. putOk' \in BOOLEAN BY <1>5 DEF PutRejected
  <2> QED BY <1>5, <2>1 DEF PutRejected, RestFits, PairsFit
<1>6. CASE AgreeRejected BY <1>6 DEF AgreeRejected, RestFits, PairsFit
<1> QED BY <1>1, <1>2, <1>3, <1>4, <1>5, <1>6 DEF Call

\* The types of what an exchange counts.
LEMMA ExchangeTypes ==
  ASSUME VariablesOK, NEW o \in Outcomes, Exchange(o)
  PROVE  faults' \in 0 .. MaxFaults
  BY KeyAgreementAssumption DEF Exchange, VariablesOK

\* What arrives is a sequence of pieces.
LEMMA ArrivesTypes ==
  ASSUME VariablesOK, NEW o \in Outcomes, NEW piece \in Pieces, Arrives(o, piece)
  PROVE  arrived' \in Seq(Pieces)
<1>1. arrived \in Seq(Pieces) BY DEF VariablesOK, Pieces
<1>2. Append(arrived, piece) \in Seq(Pieces) BY <1>1
<1> QED BY <1>1, <1>2 DEF Arrives

\* An exchange with the code after it keeps the types.
LEMMA LegTypes == ASSUME TypeInv, NEW o \in Outcomes, Leg(o) PROVE TypeInv'
<1> USE KeyAgreementAssumption, KeyLengths DEF TypeInv, Return, PutReturns
<1>0. Exchange(o)
  BY DEF Leg, GenerateExchange, PutInitExchange, PutMoreExchange, PutLastExchange, AgreeExchange
<1>1. faults' \in 0 .. MaxFaults BY <1>0, ExchangeTypes
<1>2. arrived \in Seq(Pieces) /\ <<>> \in Seq(Pieces) BY DEF VariablesOK, Pieces
<1>3. {"ERR_NOERR", "ERR_GENERIC", "ERR_OUT_OF_MEMORY", "ERR_INVALID_PARAMETERS",
       "ERR_INVALID_RESPONSE"} \subseteq Codes
  BY DEF Codes
<1>4. AsBool("ERR_INVALID_RESPONSE") = "ERR_GENERIC" BY DEF AsBool
<1>5. CASE GenerateExchange(o)
  <2>1. genOk' \in BOOLEAN BY <1>5 DEF GenerateExchange, VariablesOK
  <2>2. pair' \in 0 .. MaxPairs /\ kp' \in 0 .. MaxPairs
    BY <1>5 DEF GenerateExchange, VariablesOK, PairsFit
  <2>3. pc' \in {"idle", "kp_overrun"} BY <1>5 DEF GenerateExchange
  <2>4. ret' \in [op : {"none", "generate", "put", "agree"}, code : Codes]
    BY <1>3, <1>5 DEF GenerateExchange, VariablesOK
  <2>5. UNCHANGED <<key, putOk, offset, secret, handshake, stored, arrived>>
    BY <1>5 DEF GenerateExchange, agreed
  <2> QED BY <1>1, <2>1, <2>2, <2>3, <2>4, <2>5 DEF VariablesOK, RestFits, PairsFit
<1>6. CASE PutInitExchange(o)
  <2>1. arrived' \in Seq(Pieces) BY <1>2, <1>6 DEF PutInitExchange
  <2>2. offset' \in Nat
    <3>1. key.len \in Nat /\ offset \in Nat BY DEF VariablesOK
    <3>2. FirstLength(key.len) \in Nat BY <3>1, SingleLengths
    <3> QED BY <1>6, <3>1, <3>2 DEF PutInitExchange, FirstCopied
  <2>3. /\ pc' \in {"idle", "put_last", "put_more", "cmd_overrun"}
        /\ pc' = "put_last" => IsSingle(key.len)
    BY <1>6 DEF PutInitExchange, FirstCopied
  <2>4. ret' \in [op : {"none", "generate", "put", "agree"}, code : Codes]
    BY <1>3, <1>4, <1>6 DEF PutInitExchange, FirstCopied, VariablesOK
  <2>5. UNCHANGED <<kp, genOk, key, putOk, secret, handshake, pair, stored>>
    BY <1>6 DEF PutInitExchange, caller, agreed
  <2> QED BY <1>1, <2>1, <2>2, <2>3, <2>4, <2>5 DEF VariablesOK, RestFits, PairsFit, Pieces
<1>7. CASE PutMoreExchange(o)
  <2>1. offset \in Nat /\ CMD_MAX_LEN \in Nat BY DEF VariablesOK, CMD_MAX_LEN
  <2>2. Piece(FALSE, offset, CMD_MAX_LEN) \in Pieces BY <2>1 DEF Piece, Pieces
  <2>3. arrived' \in Seq(Pieces) BY <1>7, <2>2, ArrivesTypes DEF PutMoreExchange
  <2>4. offset' \in Nat BY <1>7, <2>1 DEF PutMoreExchange
  <2>5. pc' \in {"idle", "put_more"} BY <1>7 DEF PutMoreExchange
  <2>6. ret' \in [op : {"none", "generate", "put", "agree"}, code : Codes]
    BY <1>3, <1>7 DEF PutMoreExchange, VariablesOK
  <2>7. UNCHANGED <<kp, genOk, key, putOk, secret, handshake, pair, stored>>
    BY <1>7 DEF PutMoreExchange, caller, agreed
  <2> QED BY <1>1, <2>3, <2>4, <2>5, <2>6, <2>7 DEF VariablesOK, RestFits, PairsFit, Pieces
<1>8. CASE PutLastExchange(o)
  <2>1. arrived' \in Seq(Pieces) BY <1>2, <1>8 DEF PutLastExchange
  <2>2. putOk' \in BOOLEAN BY <1>8 DEF PutLastExchange, PutSucceeds
  <2>3. Whole(Append(arrived, LastPiece), key.len) \in BOOLEAN BY DEF Whole
  <2>4. stored' \in StoredKeys
    <3>1. key.id \in 0 .. MaxKeys /\ stored \in StoredKeys BY DEF VariablesOK
    <3>2. \/ stored' = [id |-> key.id, whole |-> Whole(Append(arrived, LastPiece), key.len)]
          \/ stored' = stored
      BY <1>8 DEF PutLastExchange
    <3> QED BY <2>3, <3>1, <3>2 DEF StoredKeys
  <2>5. pc' = "idle" /\ offset' = 0 BY <1>8 DEF PutLastExchange
  <2>6. ret' \in [op : {"none", "generate", "put", "agree"}, code : Codes]
    <3>1. ret'.code \in {"ERR_NOERR", "ERR_GENERIC"} BY <1>4, <1>8 DEF PutLastExchange
    <3> QED BY <1>3, <1>8, <3>1 DEF PutLastExchange
  <2>7. UNCHANGED <<kp, genOk, key, secret, handshake, pair>>
    BY <1>8 DEF PutLastExchange, agreed
  <2> QED BY <1>1, <2>1, <2>2, <2>4, <2>5, <2>6, <2>7 DEF VariablesOK, RestFits, PairsFit, Pieces
<1>9. CASE AgreeExchange(o)
  <2>1. secret' = secret \/ secret' = <<pair, stored>>
    BY <1>9 DEF AgreeExchange, AfterFailure
  <2>2. secret' \in (0 .. MaxPairs) \X StoredKeys BY <2>1 DEF VariablesOK
  <2>3. handshake' \in (0 .. MaxPairs) \X (0 .. MaxKeys)
    BY <1>9 DEF AgreeExchange, VariablesOK, NoHandshake
  <2>4. pc' = "idle" BY <1>9 DEF AgreeExchange
  <2>5. ret' \in [op : {"none", "generate", "put", "agree"}, code : Codes]
    BY <1>3, <1>4, <1>9 DEF AgreeExchange
  <2>6. UNCHANGED <<kp, genOk, key, putOk, offset, pair, stored, arrived>>
    BY <1>9 DEF AgreeExchange, caller, card
  <2> QED BY <1>1, <2>2, <2>3, <2>4, <2>5, <2>6 DEF VariablesOK, RestFits, PairsFit
<1> QED BY <1>5, <1>6, <1>7, <1>8, <1>9 DEF Leg

\* Every step keeps the types.
LEMMA NextTypes == TypeInv /\ [Next]_vars => TypeInv'
<1> SUFFICES ASSUME TypeInv, [Next]_vars PROVE TypeInv'
  OBVIOUS
<1>1. CASE Call BY <1>1, CallTypes
<1>2. CASE \E o \in Outcomes : Leg(o) BY <1>2, LegTypes
<1>3. CASE PutMoreEnds
  <2>1. RestFits'
    <3>1. /\ UNCHANGED <<key, offset>>
          /\ pc' = "put_last" => ~(Remainder > CMD_MAX_LEN)
      BY <1>3 DEF PutMoreEnds, caller
    <3>2. Remainder \in Int
      <4>1. key.len - offset \in Int BY KeyLengths DEF TypeInv, VariablesOK
      <4> QED BY <4>1, KeyLengths DEF Remainder
    <3>3. Remainder' = Remainder BY <3>1 DEF Remainder
    <3> QED BY <3>1, <3>2, <3>3 DEF RestFits, CMD_MAX_LEN
  <2>2. pc' \in {"cmd_overrun", "put_last"} BY <1>3 DEF PutMoreEnds
  <2>3. UNCHANGED <<ret, kp, genOk, key, putOk, offset, secret, handshake, card, faults>>
    BY <1>3 DEF PutMoreEnds, caller, agreed
  <2> QED BY <2>1, <2>2, <2>3 DEF card, TypeInv, VariablesOK, PairsFit
<1>4. CASE UNCHANGED vars
  BY <1>4 DEF vars, TypeInv, VariablesOK, RestFits, PairsFit, Remainder
<1> QED BY <1>1, <1>2, <1>3, <1>4 DEF Next

------------------------------------------------------------------------------
(* A key of up to 127 bytes goes out in one command, header included.        *)

ShortKeyInv ==
  /\ key.len < 128 => pc # "put_more" /\ (pc = "put_last" => arrived = <<>>)
  /\ ShortKeyIsWhole

\* The one command of a short key has its header and all of its bytes.
LEMMA OnePieceIsWhole ==
  ASSUME NEW len \in Nat
  PROVE  Whole(Append(<<>>, Piece(TRUE, 0, len)), len)
<1> DEFINE pieces == Append(<<>>, Piece(TRUE, 0, len))
<1>1. Len(pieces) = 1 /\ pieces[1] = Piece(TRUE, 0, len) /\ pieces # <<>> OBVIOUS
<1>2. DOMAIN pieces = {1} OBVIOUS
<1> HIDE DEF pieces
<1>3. pieces[1].head = TRUE /\ pieces[1].from = 0 /\ pieces[1].n = len
  BY <1>1 DEF Piece
<1>4. \A i \in DOMAIN pieces : pieces[i].head <=> i = 1 BY <1>2, <1>3
<1>5. 1 .. Len(pieces) - 1 = {} BY <1>1
<1>6. pieces[Len(pieces)].from + pieces[Len(pieces)].n = len
  <2>1. pieces[Len(pieces)].from = 0 /\ pieces[Len(pieces)].n = len BY <1>1, <1>3
  <2>2. 0 + len = len OBVIOUS
  <2> QED BY <2>1, <2>2
<1>7. Whole(pieces, len) BY <1>1, <1>3, <1>4, <1>5, <1>6 DEF Whole
<1> QED BY <1>7 DEF pieces

\* A put forgets that the last one returned 0, and only its last command lets it
\* return 0 again.
LEMMA ShortKeyLeg ==
  ASSUME TypeInv, ShortKeyInv, PutEnded, NEW o \in Outcomes, Leg(o)
  PROVE  ShortKeyInv'
<1>0. key.len \in Nat BY KeyLengths DEF TypeInv, VariablesOK
<1> USE DEF ShortKeyInv, ShortKeyIsWhole, PutEnded, Return, PutReturns, caller, card
<1>1. CASE GenerateExchange(o) BY <1>1 DEF GenerateExchange
<1>2. CASE PutInitExchange(o)
  <2>1. key.len < 128 => IsSingle(key.len) BY <1>0, SingleLengths
  <2>2. /\ pc' = "put_more" => ~IsSingle(key.len)
        /\ pc' = "put_last" => arrived' = <<>>
        /\ key' = key /\ ~putOk'
    BY <1>2 DEF PutInitExchange, FirstCopied, Executed
  <2> QED BY <2>1, <2>2
<1>3. CASE PutMoreExchange(o) BY <1>3 DEF PutMoreExchange
<1>4. CASE PutLastExchange(o)
  <2>1. pc = "put_last" /\ pc' = "idle" /\ key' = key /\ putOk' = (o = "ok")
    BY <1>4 DEF PutLastExchange, PutSucceeds
  <2>2. ASSUME o = "ok", key.len < 128 PROVE stored'.whole
    <3>1. TlvLength(key.len) = 1 /\ IsSingle(key.len)
      BY <1>0, <2>2, TlvLengths, SingleLengths
    <3>2. SingleLength(key.len) - 1 - TlvLength(key.len) = key.len
      BY <1>0, <3>1 DEF SingleLength
    <3>3. LastPiece = Piece(TRUE, 0, key.len) BY <3>1, <3>2 DEF LastPiece
    <3>4. Whole(Append(arrived, LastPiece), key.len)
      BY <1>0, <2>1, <2>2, <3>3, OnePieceIsWhole
    <3>5. stored' = [id |-> key.id, whole |-> Whole(Append(arrived, LastPiece), key.len)]
      BY <1>4, <2>2 DEF PutLastExchange, Executed
    <3> QED BY <3>4, <3>5
  <2> QED BY <2>1, <2>2
<1>5. CASE AgreeExchange(o) BY <1>5 DEF AgreeExchange
<1> QED BY <1>1, <1>2, <1>3, <1>4, <1>5 DEF Leg

\* A short key stays on its way in one command.
LEMMA ShortKeyStep == TypeInv /\ ShortKeyInv /\ PutEnded /\ [Next]_vars => ShortKeyInv'
<1> SUFFICES ASSUME TypeInv, ShortKeyInv, PutEnded, [Next]_vars PROVE ShortKeyInv'
  OBVIOUS
<1>1. CASE \E o \in Outcomes : Leg(o) BY <1>1, ShortKeyLeg
<1> USE DEF ShortKeyInv, ShortKeyIsWhole, Begin, Return, caller, card
<1>2. CASE Call
  BY <1>2 DEF Call, GenerateRejected, PutRejected, AgreeRejected, Generate, Put, Agree
<1>3. CASE PutMoreEnds BY <1>3 DEF PutMoreEnds
<1>4. CASE UNCHANGED vars BY <1>4 DEF vars
<1> QED BY <1>1, <1>2, <1>3, <1>4 DEF Next

------------------------------------------------------------------------------
(* The command buffer.  The loop leaves the offset a multiple of 255 behind  *)
(* the first command; the rest, in 16 bits, is small only if the offset then *)
(* is the end of the key.                                                    *)

FillsCommands(n) ==
  \/ n <= 250 \/ n = 252
  \/ n > 255 /\ (n - 251) % 255 = 0

OffsetInv == pc = "put_more" =>
  /\ key.len >= 252
  /\ offset <= key.len + 254
  /\ key.len <= 255 => (offset - 252) % 255 = 0 /\ offset >= 252
  /\ key.len >= 256 => (offset - 251) % 255 = 0 /\ offset >= 251

InBuffer == OffsetInv /\ PutStaysInBuffer

\* Two lengths with the same rest are the same if they are less than 255 apart.
LEMMA SameRest ==
  ASSUME NEW a \in Nat, NEW b \in Nat, a % 255 = 0, b % 255 = 0, a <= b, b <= a + 254
  PROVE  a = b
OBVIOUS

\* 255 more have the same rest.
LEMMA RestAdvances ==
  ASSUME NEW a \in Nat, a % 255 = 0
  PROVE  (a + 255) % 255 = 0
OBVIOUS

\* The first copy is too long for keys of 251 bytes only.
LEMMA FirstCopyFits ==
  ASSUME NEW n \in Nat, FirstCopy(n) > CMD_MAX_LEN
  PROVE  n = 251
<1>1. CASE IsSingle(n)
  BY <1>1, TlvLengths, SingleLengths DEF FirstCopy, CMD_MAX_LEN
<1>2. CASE ~IsSingle(n)
  BY <1>2, TlvLengths DEF FirstCopy, FirstLength, CMD_MAX_LEN
<1> QED BY <1>1, <1>2

\* The loop of putPublicKeyUpdate, and the steps around it.
LEMMA LegInBuffer ==
  ASSUME TypeInv, InBuffer, NEW o \in Outcomes, Leg(o)
  PROVE  InBuffer'
<1>0. key.len \in Nat /\ offset \in Nat BY KeyLengths DEF TypeInv, VariablesOK
<1> USE DEF InBuffer, OffsetInv, PutStaysInBuffer, Return, PutReturns, caller
<1>1. CASE GenerateExchange(o) BY <1>1 DEF GenerateExchange
<1>2. CASE PutInitExchange(o)
  <2>1. key' = key BY <1>2 DEF PutInitExchange
  <2>2. PutStaysInBuffer'
    <3>1. pc' = "cmd_overrun" => FirstCopy(key.len) > CMD_MAX_LEN
      BY <1>2 DEF PutInitExchange, FirstCopied
    <3>2. pc' = "cmd_overrun" => key.len = 251 BY <1>0, <3>1, FirstCopyFits
    <3> QED BY <2>1, <3>2
  <2>3. OffsetInv'
    <3>1. SUFFICES ASSUME pc' = "put_more" PROVE OffsetInv'
      OBVIOUS
    <3>2. ~IsSingle(key.len) /\ offset' = FirstLength(key.len)
      BY <1>2, <3>1 DEF PutInitExchange, FirstCopied
    <3> QED BY <1>0, <2>1, <3>2, SingleLengths
  <2> QED BY <2>2, <2>3
<1>3. CASE PutMoreExchange(o)
  <2>1. key' = key /\ pc' \in {"idle", "put_more"} BY <1>3 DEF PutMoreExchange
  <2>2. SUFFICES ASSUME pc' = "put_more" PROVE OffsetInv'
    BY <2>1
  <2>3. pc = "put_more" /\ offset < key.len /\ offset' = offset + 255
    BY <1>3, <2>2 DEF PutMoreExchange, CMD_MAX_LEN
  <2>4. offset' <= key'.len + 254 BY <1>0, <2>1, <2>3
  <2>5. key.len <= 255 => (offset' - 252) % 255 = 0 /\ offset' >= 252
    <3>1. SUFFICES ASSUME key.len <= 255
                   PROVE  (offset' - 252) % 255 = 0 /\ offset' >= 252
      OBVIOUS
    <3>2. offset - 252 \in Nat /\ (offset - 252) % 255 = 0 BY <1>0, <2>3, <3>1
    <3>3. offset' - 252 = (offset - 252) + 255 BY <1>0, <2>3
    <3> QED BY <1>0, <2>3, <3>2, <3>3, RestAdvances
  <2>6. key.len >= 256 => (offset' - 251) % 255 = 0 /\ offset' >= 251
    <3>1. SUFFICES ASSUME key.len >= 256
                   PROVE  (offset' - 251) % 255 = 0 /\ offset' >= 251
      OBVIOUS
    <3>2. offset - 251 \in Nat /\ (offset - 251) % 255 = 0 BY <1>0, <2>3, <3>1
    <3>3. offset' - 251 = (offset - 251) + 255 BY <1>0, <2>3
    <3> QED BY <1>0, <2>3, <3>2, <3>3, RestAdvances
  <2> QED BY <2>1, <2>2, <2>3, <2>4, <2>5, <2>6
<1>4. CASE PutLastExchange(o) BY <1>4 DEF PutLastExchange
<1>5. CASE AgreeExchange(o) BY <1>5 DEF AgreeExchange
<1> QED BY <1>1, <1>2, <1>3, <1>4, <1>5 DEF Leg

\* Where a key fills its commands the loop ends at its end, and nothing is left.
LEMMA EndsInBuffer ==
  ASSUME TypeInv, InBuffer, PutMoreEnds
  PROVE  InBuffer'
<1>0. key.len \in Nat /\ offset \in Nat BY KeyLengths DEF TypeInv, VariablesOK
<1>1. key' = key /\ pc = "put_more" /\ offset >= key.len BY DEF PutMoreEnds, caller
<1>2. pc' \in {"put_last", "cmd_overrun"} BY DEF PutMoreEnds
<1>3. SUFFICES ASSUME FillsCommands(key.len) PROVE pc' # "cmd_overrun"
  BY <1>1, <1>2 DEF InBuffer, OffsetInv, PutStaysInBuffer, FillsCommands
<1>4. offset = key.len
  <2>1. CASE key.len = 252
    <3>1. /\ offset - 252 \in Nat /\ (offset - 252) % 255 = 0
          /\ 0 <= offset - 252 /\ offset - 252 <= 0 + 254 /\ 0 % 255 = 0
      BY <1>0, <1>1, <2>1 DEF InBuffer, OffsetInv
    <3>2. offset - 252 = 0 BY <3>1, SameRest
    <3> QED BY <1>0, <2>1, <3>2
  <2>2. CASE key.len > 255 /\ (key.len - 251) % 255 = 0
    <3>1. /\ key.len - 251 \in Nat /\ offset - 251 \in Nat
          /\ (offset - 251) % 255 = 0
          /\ key.len - 251 <= offset - 251 /\ offset - 251 <= (key.len - 251) + 254
      BY <1>0, <1>1, <2>2 DEF InBuffer, OffsetInv
    <3>2. key.len - 251 = offset - 251 BY <2>2, <3>1, SameRest
    <3> QED BY <1>0, <3>2
  <2> QED BY <1>0, <1>1, <1>3, <2>1, <2>2 DEF FillsCommands, InBuffer, OffsetInv
<1>5. Remainder = 0
  <2>1. key.len - offset = 0 BY <1>0, <1>4
  <2> QED BY <2>1, KeyLengths DEF Remainder
<1> QED BY <1>5 DEF PutMoreEnds, CMD_MAX_LEN

\* Every step keeps the copies of such keys within the command.
LEMMA NextInBuffer == TypeInv /\ InBuffer /\ [Next]_vars => InBuffer'
<1> SUFFICES ASSUME TypeInv, InBuffer, [Next]_vars PROVE InBuffer'
  OBVIOUS
<1>1. CASE \E o \in Outcomes : Leg(o) BY <1>1, LegInBuffer
<1>2. CASE PutMoreEnds BY <1>2, EndsInBuffer
<1>3. CASE Call
  BY <1>3 DEF Call, GenerateRejected, PutRejected, AgreeRejected, Generate, Put, Agree,
              Begin, Return, InBuffer, OffsetInv, PutStaysInBuffer
<1>4. CASE UNCHANGED vars BY <1>4 DEF vars, InBuffer, OffsetInv, PutStaysInBuffer
<1> QED BY <1>1, <1>2, <1>3, <1>4 DEF Next

------------------------------------------------------------------------------
(* The theorems.                                                             *)

\* The two sides agree in every reachable state.
THEOREM SidesAgree == Spec => []AgreementInv
<1> QED BY InitAgreement, NextAgreement, PTL DEF Spec

\* Every reachable state is well typed, and the last command of a key carries no
\* more bytes than the one-byte Lc can say: a longer rest has ended the program's
\* sense at ROT.cpp:878, before it is compared with 255.
THEOREM TypeCorrect == Spec => []TypeOK
<1> QED BY TypesFollow, InitTypes, NextTypes, PTL DEF Spec

\* Keys of up to 250 bytes, and longer ones that fill their commands, are copied
\* within the command (ROT.cpp:836-887); nothing is said of the others.
THEOREM PutsStayInBuffer == Spec => []PutStaysInBuffer
<1>1. Init => InBuffer BY DEF Init, InBuffer, OffsetInv, PutStaysInBuffer
<1>2. InBuffer => PutStaysInBuffer BY DEF InBuffer
<1> QED BY <1>1, <1>2, InitTypes, NextTypes, NextInBuffer, PTL DEF Spec

\* A key of up to 127 bytes whose put returned 0 is in the container with its
\* header and every byte.
THEOREM ShortKeysArriveWhole == Spec => []ShortKeyIsWhole
<1>1. Init => ShortKeyInv
  BY DEF Init, ShortKeyInv, ShortKeyIsWhole
<1>2. AgreementInv => PutEnded BY DEF AgreementInv
<1>3. ShortKeyInv => ShortKeyIsWhole BY DEF ShortKeyInv
<1> QED BY <1>1, <1>2, <1>3, InitTypes, NextTypes, ShortKeyStep, SidesAgree, PTL DEF Spec

\* A put that returned 0 has replaced the key in the container (ROT.h:162-168).
THEOREM PutTakesEffect == Spec => []PutReplaces
<1>1. AgreementInv => PutReplaces BY DEF AgreementInv
<1> QED BY <1>1, SidesAgree, PTL

\* A secret handed to a caller that looked at the codes is that of the pair it
\* holds and of the key it put last, whatever was lost before (ROT.h:173).
THEOREM SecretBelongsToKeys == Spec => []SecretIsAgreed
<1>1. AgreementInv => SecretIsAgreed BY DEF AgreementInv
<1> QED BY <1>1, SidesAgree, PTL
==============================================================================
