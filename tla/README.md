# A verification of the IoT Safe middleware in TLA+

The middleware (`src/iotsafelib`) lets a host program use the IoT Safe applet
of a UICC: it selects the applet over a logical channel, sends APDUs to it
through a modem, and offers the applet's operations (read a certificate, make a
key pair, store a server key, compute a secret, sign) to the program. This
directory holds TLA+ models of that code, TLC configurations that check them on
small instances, and proofs that TLAPS checks for every value of the constants.

Paths below are those of the repository; `Applet.cpp`, `SEInterface.cpp` and
`ROT.cpp` are in `src/iotsafelib/common/src`, `ATInterface.cpp`,
`GenericModem.cpp` and `LSerial.cpp` in `src/iotsafelib/platform/modem/src`.

## 1. Inventory

The middleware is sequential: one thread of the host program calls down through
four layers and blocks on the serial port. What makes it hard is not threads but
the state that two machines keep of one another. The UICC and the modem keep
theirs when a command or an answer is lost and when the host program dies; the
host keeps flags and buffers that nobody tells about it.

```
 example programs        simpledemo, jwtexample
       | calls
 ROT                     readFile, generateKeypair, putPublicKey..., computeDH, sign...
       | inherits
 Applet                  select, deselect, transmit     several objects, one card
       | calls, one SEInterface shared by all objects
 SEInterface             transmit, getStatusWord, getResponse     one APDU buffer
       | virtual transmitApdu
 GenericModem / ATInterface      AT+CSIM lines
       |
 LSerial                 start, stop, send, recv
       | serial line
 modem -- UICC
```

| Component | State | Operations | Correct when |
|---|---|---|---|
| Applet selection layer (`Applet.cpp`) | `_isSelected`, `_isBasic`, `_channel`, `_seiface` of each object; at the UICC the channels and what is selected on each | constructor, `init`, `select`, `deselect`, destructor, `transmit`, `closeSessions` | a selected object's channel is open, its own and has its application; commands reach that application; an object closes its own channel only; channels leak for a reason only |
| SEInterface (`SEInterface.cpp`) | one command buffer and one response buffer for all objects | four `transmit` overloads, private `transmit`, `getStatusWord`, `getResponse`, `getResponseLength` | a transmit is one command executed at most once, and its outcome and answer are those of that command |
| ATInterface, GenericModem | none between calls but the line | `sendATCSIM`, `readLine`, `transmitApdu` | the answer is that of the command; the final result is consumed; the call returns |
| LSerial | `m_uart` | `start`, `stop`, `send`, `recv` | failures are reported and noticed |
| ROT: reading (`getCertificateByContainerId`) | 16-bit offset and length, the buffer it allocates | `readFile`, `getFileLength` | no write outside the buffer, whole content, one owner of the buffer, an end |
| ROT: key agreement | at the UICC the containers of the two keys and a key under way | `generateKeyPairByContainerId`, `putServerPublicKey`, `computeDHforKeypair` | what returned 0 happened, and the secret is that of the two keys the caller has in mind |
| ROT: signatures | a session at the UICC between `signInit` and `signFinal` | `signInit`, `signFinal` | a signature is that of the last `signInit`, whatever session was left open; the DER form has the lengths it says and the r and s of the card |
| ROT: random, PRF | none; the caller's buffers | `generateRandom`, `computePRFwithSecret`, `-withPSK`, `-withPSKECDHE` | the length that was asked for; keys derived from the secret of one handshake |
| JWT example (`jwtexample.cpp`, `sim-access-util.cpp`, `openssl-util.cpp`) | the buffer of the signature | `initialize`, `computeSignature`, `convertDERToCompactSignature`, `getClientPublicKey` | a printed token is signed; a signed token is printed |
| C accessors | none | one-line forwarders | the value means the same as the method's |
| `simpledemo`, unit tests | - | callers | - |

How they interact: plain calls downwards. There are no callbacks and no locks.
Shared state is what several `Applet` objects have in common: the buffers of the
one `SEInterface`, and the channels of the one UICC.

Which behaviours are hard (each at its line, with its properties, under
`hazards` in `PROJECT.json`):

- **Lost answers.** A close that was executed and whose answer is lost leaves an
  object selected on a channel that another object may open next
  (`Applet.cpp:136`). A lost answer leaves open whether a command was executed
  (`SEInterface.cpp:148`).
- **Failures half way.** `select` is three exchanges (`Applet.cpp:98-119`),
  storing a key two or more (`ROT.cpp:958`), reading a certificate any number
  (`ROT.cpp:213`), a transmit itself a chain (`SEInterface.cpp:146-171`).
- **Restarts.** A program that dies leaves channels open at the UICC and answers
  on the serial line (`Applet.cpp:39`, `ATInterface.cpp:138`).
- **Loops that depend on the other side.** 6Cxx and 61xx, the two loops of
  `sendATCSIM`, the search for tag 20, reading until the container ends.
- **State left behind.** A session that a failed or interrupted signature leaves
  open at the card (`ROT.cpp:421`, `592`), also for the next program; a secret
  that an earlier handshake left in a buffer (`ROT.cpp:1057`); a result that is
  overwritten by the next one (`jwtexample.cpp:67`).
- **Trusted lengths.** Lengths that the card or the caller gives are copied into
  fixed arrays, and compared afterwards or not at all (`ROT.cpp:88`, `330`, `859`,
  `878`).
- **Boundaries.** 255 and 256 bytes, 16-bit sums, TLV headers of 1 to 3 length
  bytes, DER integers that need a 0 in front and lengths of one byte.

## 2. Modules

| Module | Stands for | Its state and actions in the code |
|---|---|---|
| `Applet` | `Applet.cpp`, with the UICC's channels | One action per call that begins (`SelectLogical`, `DeselectRemotely`, ...) up to its first exchange, then one per exchange with the code after it (`OpenGranted`, `LogicalExchange`, `UndoExchange`, `CloseExchange`, ...). Each exchange is done with 9000, done with 91xx, refused, lost on the way to the card, or done and its answer lost. `Crash` is the death of the program. |
| `ChannelPool` | what `Applet` promises about channels | `Acquire`, `Release`, `Abandon`, `Leak`, `Die` |
| `MCApplet` | instances of `Applet` | two objects of two applications, two logical channels |
| `AppletProofs` | theorems about `Applet` | see section 5 |
| `SEInterface` | `SEInterface.cpp`, with the UICC's side of 61xx, 6Cxx and GET RESPONSE | `Transmit` is the four overloads filling the buffer; `SendAgain`, `FetchResponse`, `Succeed`, `Fail` are what the private `transmit` does with an answer; `Card` is one exchange at the UICC |
| `AtomicExchange` | what the layers above take an exchange to be | `Begin`, `Work`, `Finish` |
| `ATInterface` | `sendATCSIM`, `readLine`, the port, with the modem as environment | `Send`; one action per kind of line in each of the two loops, whichever command it belongs to (`ScanError`, `ScanAnswer`, `ScanSkip`, `DrainOk`, `DrainSkip`); `Start`, `Stop`, `Unplug`, `Crash`; the modem takes commands and writes lines |
| `ReadFile` | `readFile`, `getFileLength`, `getCertificateByContainerId` | `Selected`, `Asked` with the copy of the metadata into an array of 50 bytes, the search one tag at a time, the loop one answer at a time; `CallerFrees`; `Rewrite` changes the container between any two steps |
| `MCReadFile` | instances of `ReadFile` | layouts of the metadata |
| `KeyAgreement` | `generateKeyPairByContainerId`, `putServerPublicKey`, `computeDHforKeypair` | the calls that are rejected before anything is sent, and one action per exchange; `FirstCopied` and `PutMoreEnds` are the copies into `cmd[255]`; a piece of a key is where it begins, how long it is and whether it has the header |
| `KeySchedule` | extends `KeyAgreement` with `generateRandom` and the three `computePRF` calls | `Random`, `Prf` and their exchanges, between any two calls of `KeyAgreement`; `Fill` is `getResponse` with its assertion; the card answers a byte fewer, as many, or a byte more than asked for; a buffer is by which call it was filled, how long, and from which secret |
| `Signature` | `signInit`, `signFinal` (`ROT.cpp:364-633`), with the session at the card | `SignInit`, `InitExchange`, `SignFinal`, `FinalExchange` and the calls that are rejected before anything is sent; callers call in any order. `Written` is the rewriting of the card's answer as DER: the optional 0 before the length, the length of one or two bytes, the 0 before r and s, the length bytes |
| `Jwt` | extends `Signature` with programs that use the card one after the other: `jwtexample`'s `main`, and others | `MainBegins`, `CallInit`, `CallFinal` or `GivesUp`, `Convert`, `PrintCertificate`; `OtherBegins`, `OtherCalls`. A new program may begin at any moment, which is how the one before ends or dies |
| `MCJwt` | instances of `Jwt` | keys on P-256 and P-521, hashes of 32, 48 and 65 bytes |
| `AppletPoolProofs` | theorems about `Applet`'s channels | extends `AppletProofs`, see section 5 |
| `SEInterfaceProofs`, `ATInterfaceProofs`, `ReadFileProofs`, `KeyAgreementProofs`, `KeyScheduleProofs`, `JwtProofs` | theorems about those modules | see section 5 |

Composition. The layers are composed by refinement and not in one big module:
`SEInterface` and `ATInterface` each implement `AtomicExchange`
(`ImplementsExchange`), and `Applet`, `ReadFile`, `KeyAgreement`, `KeySchedule`
and `Signature` treat an exchange as one step whose outcomes are those
`AtomicExchange` allows: done and known, refused and not executed, failed and executed or not. `Applet` in turn
implements `ChannelPool` (`ImplementsPool`). Within a layer modules are composed by
extension: `KeySchedule` interleaves its calls with those of `KeyAgreement`, whose
secret they use; `Jwt` puts a caller on top of `Signature`.

Where the code writes past an array the models stop: `KeyAgreement` in
`kp_overrun` or `cmd_overrun`, `KeySchedule` in `overrun`, `ReadFile` in `overrun`.
C++ leaves open what the program does from there on, so nothing is claimed of it;
where the bytes behind the array may be ones nobody needs, going on as if nothing
had happened is possible too. An assertion that fails ends the program
(`aborted`).

What is abstracted: an application, an APDU, an identifier or a key is a number
or a model value. Lengths are kept where the code computes with them. The
hexadecimal conversions and the parsing of the +CSIM line are abstracted to
which command the line answers; printing is left out. Of r and s the models keep
how they begin (`AllLeads`: from 1 to 127, from 128 on, or a 0 before such a byte)
and how many bytes they have, which is all the DER code looks at. The two `memcpy`
areas of `ROT.cpp:602` overlap, which C++ leaves undefined; `Shifted` takes the copy
as going upwards, which is what glibc does for an overlap in this direction.

## 3. Runs

Twelve runs; those marked *violation* are expected to end with a counterexample,
which is a finding about the code (section 4).

| Run | Question and answer | Bounds, and why they are enough |
|---|---|---|
| `applet_lossy` | Do selections stay backed by the card, do commands reach the right application, is only the own channel closed, is the layer a pool of channels, and does every leaked channel have a reason? Yes, until a close is executed unseen (`unseen`), and `LeakBound`, `TypeOK` even after. | Two objects, two logical channels, two lost exchanges, one crash. Two lost exchanges leak both channels, so `select` meets a card with none left; one crash in every state. The properties relate at most two objects. |
| `applet_proactive` | *violation* Is `isSelected` the truth with no fault at all? No: a close answered 91xx. | No losses, no crash. |
| `se_limits` | Is a transmit an atomic, truthful exchange that returns, and is what is sent again after 6Cxx still the command? Yes, with two exceptions, both commands with data and Le: the Lc of what is sent again may be overwritten (`ResendsAllButLc`), and where it happens to be the length offered the transmit need not return (`TransmitReturns`). | 6Cxx to commands of cases 2 and 4. Data of 1, 255, 256 bytes; answers of 0, 255, 256 and 300; Le 0 and 255; two channels, one of them the highest the code can code (3); one lost exchange anywhere. These are the sizes around which the code branches. |
| `se_resend` | *violation* Is what is sent again after 6Cxx the command? Not for commands with data. | One size. |
| `at_lines` | Does each answer belong to its command, is the line quiet between calls, does the call return, is it an atomic exchange? Without restarts, yes, and it returns while the port is open and the modem ends the command with a result the code knows. After restarts answers are at most one command behind for each. | Four commands, two other lines at any place, two restarts, all four final results, ports that are not open or disappear. The protocol keeps nothing but the lines, so that four commands meet every situation two do; two restarts show that the lag adds up. |
| `at_unplug` | *violation* Does `sendATCSIM` return whatever happens to the port? Not when the device disappears. | Three commands. |
| `read_pieces` | Is a read within its buffer, whole, of one owner, without wrapping, finite? Yes, if the container is not empty; finite counts the assertion at an answer of 256 bytes as an end, and a write of the metadata past their array. | `WordSize` 1024 instead of 65536, which the module has as a parameter, so that lengths at the end of the word are small: containers of 255, 600, 1022 and 1023 bytes, metadata of up to 50 bytes and of more, requested lengths 0 (ask), 1 and 1023, pieces of 100, 255 and 256 bytes, one failed exchange, one rewrite, one reuse of the length variable. |
| `read_empty` | *violation* Does reading an empty container return? No. | Sizes 0 and 1. |
| `key_calls` | Does the secret belong to the two keys, has a put that returned 0 replaced the key, is a short key whole, which keys are copied within the command buffer, have random numbers and derived keys the length asked for, and are derived keys those of one handshake? Yes, and those with up to 250 bytes or that fill their commands. | Keys of 127 bytes, which fit one command; of 251, whose first copy writes one byte past `cmd`; of 506, which take two commands and fill them; and of 300, of which the rest wraps round in 16 bits after the first and is copied over the stack; null pointers. Two pairs and two keys, so that each may be stale; one loss. One derivation, which may come after any of these calls: its properties relate one buffer to the calls of the agreement before it, and a second derivation only overwrites what the first left. Lengths asked for of 0, 32 and 300, which one byte cannot say. |
| `key_cut` | *violation* Is every key whole? No. | One key of 200 bytes. |
| `jwt_programs` | Is a signature that of the caller's own calls, does its DER form carry the card's r and s, is a printed token signed, and is a signed token printed? Yes, though sessions stay open; the last one but for an r or s with a needless 0. | Three programs on one card, so that one may find the sessions of two others; four calls that reach the card, two lost exchanges; two keys (64 and 132 bytes of signature, lengths of one and of two bytes), two algorithms, every way r and s may begin. |
| `jwt_der` | *violation* Is what `signFinal` returns DER? No. | Two calls, no loss. |

Fairness. The runs of `Applet`, `KeyAgreement`, `KeySchedule` and `Jwt`, and
`se_resend`, assume none. `SEInterface` assumes that the card answers and that the
code between two exchanges goes on (weak fairness of `Card` and of the
continuation): the code is sequential and `transmitApdu` is taken to return.
`ATInterface` assumes weak fairness of the modem's answering, of sending and of
reading, which is the host thread running and the modem ending each command;
nothing is assumed of notifications, opening, closing or crashes, and
`TransmitReturns` excepts a port that is not open and a command that the modem
ended with a result the code does not know (`muted`). `ReadFile`
assumes weak fairness of the steps of the call in progress. No strong fairness
is used.

`CHECK_DEADLOCK FALSE` is given where the program may really stop: an assertion
that fails (`SEInterface`, `ReadFile` at an answer of 256 bytes), a loop that can
only wait (`ATInterface` without a port), a program that has ended and of which
there are no more (`Jwt`), a write past an array after which nothing is known
(`KeyAgreement`, `KeySchedule`, `ReadFile`). `Applet` is checked for deadlock.

## 4. What the models disagree about with the code's documents

Runs that end with a counterexample:

- `applet_proactive`: `select` accepts 91xx for its SELECT on the basic channel
  and for opening a channel, `deselect` accepts only 9000 (`Applet.cpp:138`). A
  close answered with 91xx is executed but the object stays selected, against
  `Applet.h:64`.
- `se_resend`: the length of 6Cxx is written to byte 4, which is Lc when the
  command has data (`SEInterface.cpp:155`).
- `at_unplug`: a failing port is ignored by the loop (`ATInterface.cpp:130`),
  against `SEInterface.h:163`.
- `read_empty`: the length 0 is taken for "not found yet" (`ROT.cpp:111`).
- `key_cut`: the header is taken to have two bytes, and has three from 128 on
  (`ROT.cpp:882`).
- `jwt_der`: an r or s that begins with a 0 keeps it though the next byte does not
  need it (`ROT.cpp:613`, `621`; one signature in 512 for each of them), and
  the length of the structure is one byte even from 128 on (`ROT.cpp:627`), against
  what `openssl-util.cpp:264` takes the signature to be. OpenSSL 1 takes such an
  integer, OpenSSL 3 refuses it, and the example prints no token then.

Met while modelling, in the models, without a run of their own:

- `deselect` returns the flag it cleared, the opposite of its comment
  (`Applet.cpp:126`, `150`).
- A second object on the basic channel displaces the first, which stays
  `_isSelected` (`Applet.cpp:92`): `IsSelectedTruthful` with two `BasicUsers`.
- A second `select` of a selected object overwrites its channel number with 1
  (`Applet.cpp:100`): `ClosesOwnChannel` with `Disciplined = FALSE`.
- 61xx that comes with data is not followed up (`SEInterface.cpp:159`), so that
  `AnswerIsWhole` speaks of answers of up to 256 bytes only.
- After a chain that failed half way `getStatusWord` gives a procedure status,
  not that of the last success (`SEInterface.cpp:148`, `173`).
- `getResponse` asserts at most 255 bytes, and Le 0 asks for 256
  (`SEInterface.cpp:207`). `generateRandom` with the length 0 sends Le 0
  (`ROT.cpp:264`): the card then answers 256 bytes, and the program aborts, or fewer,
  which are written into a buffer of no bytes.
- The rest of a long key is copied into `cmd[255]` before its length is compared with
  255 (`ROT.cpp:878`, `885`). The length is that of 16 bits of a difference which is
  negative unless the commands before took the key up exactly, so that up to 65535
  bytes are written over the stack and read from behind the key: for keys of 253 to
  255 bytes, and for all of 256 and more but those of 251 bytes and a multiple of 255.
  `PutStaysInBuffer` says of which keys nothing is written past the array.
- The first copy takes two bytes too many of a key of one command, and of one of 251
  bytes the last of them lands behind `cmd` (`ROT.cpp:859`); the commands in the loop
  read up to 254 bytes from behind the key (`ROT.cpp:866`).
- The three lengths in the answer with a new key pair are copied unchecked into the
  arrays of `RotKeyPair` (`ROT.cpp:330-351`). Comments at
  `simpledemo.cpp:80` and in the unit tests say of the key agreement that it always
  crashes; the models do not say which of these writes it is.
- The metadata of a container, up to 255 bytes, are copied into an array of 50
  (`ROT.cpp:48`, `88`).
- Random numbers and derived keys of more bytes than asked for are written behind the
  caller's buffer, and the length is compared afterwards (`ROT.cpp:266`, `782`).
- 6Cxx to a command with data whose Lc happens to be the length offered sends the
  same bytes again, for as long as the card refuses them (`SEInterface.cpp:156`);
  `TransmitReturns` excepts it.
- An unopened port and an unknown final result keep `sendATCSIM` waiting
  (`ATInterface.cpp:126`, `138`), and after a restart the first answer may be
  that of the program before.
- `certLen` comes back one too large (`ROT.cpp:245`): it counts the terminator, though
  `ROT.h:114` calls it the length of the certificate. `WholeContainer` is about the
  buffer only.
- Of a key of several commands the first is never sent (`ROT.cpp:859`).
- An invalid public key length is overwritten by success (`ROT.cpp:358`).
- The demo computes a secret after a put that failed (`simpledemo.cpp:98`);
  `SecretIsAgreed` is therefore stated for callers that looked at the codes. It also
  compares the code with 1, while `putPublicKeyUpdate` has other error codes.
- The JWT example overwrites the code of the signature by that of the conversion
  (`jwtexample.cpp:67`). `TokenIsSigned` shows that no unsigned token comes of it:
  the buffer is zeros then, which is no DER.
- `signFinal` never reads the length of the caller's buffer (`ROT.cpp:628` only
  writes it): the 96 bytes of the examples are enough for P-256, not for P-384.
- `signFinal` halves whatever the card answered (`ROT.cpp:612`), also the signature
  of an RSA algorithm, of which `ROT.h` defines some.
- `BN_bn2binpad` returns -1 when a number has more than 32 bytes, which
  `openssl-util.cpp:294` takes for a success.
- `ROT_generate_random` and the C accessors of `SEInterface::transmit` convert an int
  in which 0 is success to bool (`ROT.cpp:1078`, `SEInterface.cpp:235`).
- `simpledemo` goes on when `initialize` failed (`simpledemo.cpp:162`).

## 5. Proofs

`AppletProofs` has, for any objects, applications, numbers of channels up to
three, callers, faults and crashes:

- `TypeCorrect`: `Spec => []TypeOK`.
- `SelectionIsBacked`: `Spec => []SelectionBacked`.
- `CommandsReachOwnApplet`: `Spec => []OwnAppletOnly`.
- `ClosesOnlyOwnChannel`: `Spec => ClosesOwnChannel`.

The last three assume `GoodCallers`: callers select only what is not selected,
and at most one object uses the basic channel. The two assumptions are needed:
without them `Applet.cpp` violates the properties (section 4). They are what
`AppletAssumption`, the module's own assumption on its constants, leaves to the
caller.

The argument. `SelectionBacked` says that the channel of a selected object is
open, its own, and has its application. It is not inductive: a step of `select`
changes what is selected on `channel[obj]`, and a close removes it, and both
leave the other objects alone only if that channel is the calling object's. So
the invariant `SafeInv` adds `CallInv`, what the call in progress relies on:
while selecting, the object is not selected; while at SELECT, undo or close on a
logical channel, the channel was opened for the object and is not 0; while
closing or transmitting, the object is selected. With `TypeOK`, `CallInv`,
`SelectionInv` (the backing, while nothing was closed unseen) and
`OwnAppletOnly`, every action preserves the whole: `InitSafe`, one lemma per
group of actions, `NextSafe`, and the theorems follow by PTL.

`AppletPoolProofs` is about the logical channels, for the same constants; it
needs that the objects that use logical channels are finitely many, because it
counts them.

- `LeaksAreBounded`: `Spec => []LeakBound`, if callers are `Disciplined`.
- `ImplementsChannelPool`: `Spec => ImplementsPool`, if they are `GoodCallers`.

`LeakBound` compares a number of channels with a number of failures, so that its
proof is about steps: `OrphansGrow` says that a step makes no orphan, or loses an
exchange and makes one, or is the death of the program and makes at most the
channels its objects had. `ChannelInv` is what that needs of the states: `CallInv`
again; that a logical channel is open exactly when it belongs to an object
(`OwnerInv`), so that the channel a select opens is nobody's; and that channels are
held by `LogicalUsers` only (`UserInv`). One lemma per exchange (`CallChannels`,
`OpenChannels`, `SelectChannels`, `UndoChannels`, `CloseChannels`) says what it does
to the channels held and to those open, `StepOrphans` joins them, and
`NextLeakBound` counts with the library's theorems about finite sets. None of this
asks for the selection to be backed, so that `LeakBound` also holds after a close
that was executed unseen, and with several objects on the basic channel.
`ImplementsPool` does ask for it: an object whose channel is open for another would
give back what it does not hold. `BackedCloseChannels` excludes that by `SafeInv`,
and `StepPool` maps each step to `Acquire`, `Release`, `Abandon`, `Leak`, `Die` or a
stutter (`PoolAcquire`, ...).

`SEInterfaceProofs` has, for data, answers and expected lengths of every size
and any number of lost exchanges:

- `TypeCorrect`: `Spec => []TypeOK`.
- `ExecutedAtMostOnce`, `SuccessTold`, `WholeAnswer`, `FetchesOnItsChannel`:
  `Spec => []P` for `AtMostOnce`, `SuccessIsTruthful`, `AnswerIsWhole`,
  `FetchesOwnAnswer`.
- `TransmitIsAtomic`: `Spec => ImplementsExchange`, the refinement on which the
  layers above rest.
- `ResendsButForLc`: `Spec => []ResendsAllButLc`, whether the card answers commands
  without data, with data, or both with 6Cxx (`LeCases`). The run `se_resend` shows that the exception
  is needed.

The argument. Each property speaks of one moment, and none says what an answer
under way means. `ExchangeInv` adds that: while the command is about to be sent
(`SendingInv`), it has not been executed, and GET RESPONSE is only sent when it
has been and its whole answer waits on the channel (`Announced`); an answer under
way (`AnsweringInv`) says of the command what its status word promises
(`StatusSays`), in particular 6Cxx that it was not executed, which is why sending
it again executes it once. For the refinement `CardStep` and `SucceedStep` give
what each step does to `executed` and to the outcome. `ResendInv` adds, for a 6Cxx
under way, that the command it answers was well formed, and that the length it
offers is the one that byte 4 then gets; and that its Lc is the only thing a command
with data loses by it (`LengthKept`).

`ATInterfaceProofs` has, for any number of commands, notifications and restarts:

- `TypeCorrect`, `LagBounded`, `Quiet`: `Spec => []P` for `TypeOK`, `LagBound` and
  `QuietBetweenCalls`.
- `ExecutedOnce`: `Spec => [](executed \in {0, 1})`: the card executes the command
  of a call at most once, also after restarts.
- `Implements`: `Spec => ImplementsExchange`.

The argument. Both loops of `sendATCSIM` take whatever line comes next, so the
properties rest on what can be under way: the commands on their way to the modem,
the one the modem is at and the lines on their way back. `OrderInv` says that they
come in order: lines of earlier commands before those of later ones, the final
result last, all lines before the commands not yet answered. `WindowInv` says that
they all belong to a window of numbers, `command - crashes` to `command`. A restart
lowers its beginning by one: the program that died leaves one command behind. A call
sends one command, which enlarges the window at the end, and returns when it has
read a final result, which by `OrderInv` is the last line of the oldest command
under way, so that the window may begin one later (`ReturnMovesOn`). That the
response which is handed over is in the window is `LagBound`. Without a restart the
window has no room between two calls, which is `QuietBetweenCalls`, and only the
call's own command during one, which is why a response is that of its command and
has been executed (`OnceInv`), and gives the refinement. No liveness is used, and
none of the module's fairness.

`ReadFileProofs` has, for containers, metadata, pieces and words of every size
and any number of rewrites, lost exchanges and reused length variables:
`TypeCorrect`, `BufferIsLargeEnough` (`WritesInBounds`), `ReadsWholeContainer`
(`WholeContainer`), `OwnedOnlyBySuccess` (`OwnedBySuccess`) and `OffsetNeverWraps`
(`OffsetAdvances`). The invariant `ReadInv` adds what the loop keeps (`LoopInv`: the
buffer has room for `dataLen + 255` bytes, those written end at the offset, and the
offset is at most `dataLen + 254`, because it was below `dataLen` before an answer of
at most 255 bytes), that the length is the container's until a rewrite comes
between (`LengthInv`), and where in the call a buffer is allocated (`BufferInv`).
`ReadFileAssumption` bounds the metadata's identifiers so that the sums the code
makes with them stay in the word.

`KeyAgreementProofs` has, for keys of every length and any number of pairs, keys
and losses, `TypeCorrect` (`TypeOK`), `PutsStayInBuffer` (`PutStaysInBuffer`),
`PutTakesEffect` (`PutReplaces`), `SecretBelongsToKeys` (`SecretIsAgreed`) and
`ShortKeysArriveWhole` (`ShortKeyIsWhole`). `SecretIsAgreed` speaks of the moment a
secret arrives; the invariant `AgreementInv` adds the relation of the two sides at
every moment: while the last generate returned 0, the card's pair is the caller's and
no generate is under way (`PairsAgree`), and the same of the put (`PutEnded`,
`PutReplaces`); and that the buffer has the secret of the last handshake
(`SecretOfHandshake`), which a call that fails leaves alone. `TypeInv` adds that the
last piece of a long key, where it is sent at all, fits its command (`RestFits`): a
longer one has been copied past the buffer before the comparison, and the model has
stopped there. `OffsetInv` is why some keys never get there: the offset of the loop
stays behind the first command by a multiple of 255, and at most 254 behind the end
of the key, so that it is the end of a key that fills its commands (`SameRest`).
`ShortKeyInv` says that a short key is on its way in one command with nothing arrived
before it.

`KeyScheduleProofs` has, for lengths of every size, `ScheduleTypeCorrect`
(`ScheduleTypeOK`), `WholeAnswers` (`AnswersAreWhole`) and `KeysBelongToHandshake`
(`KeysAreOfOneHandshake`). `KeysInv` joins `AgreementInv`, which the steps of this
module leave alone, with `BufferInv`: a buffer that was handed over with 0 is of the
last call, has the length asked for, and was made from the secret the caller held.
With `SecretOfHandshake` that secret is of the handshake it was received in.

`JwtProofs` has, for keys of every size up to the 127 bytes of r that
`SignatureAssumption` allows, any algorithms and hashes, any number of programs,
calls and losses: `TypeCorrect` (`JwtTypeOK`), `SignsWithOwnKey` (`SignatureIsOwn`),
`CarriesSignature` (`DerCarriesSignature`), `TokensAreSigned` (`TokenIsSigned`) and
`SignedTokensArePrinted` (`PrintsWhatItSigned`). `SignatureIsOwn` holds at the moment
a signature arrives because, all the time since a signInit that returned 0, the
session at the card is the caller's or none (`SessionInv`). That the length of the
answer is read back, whichever way the card coded it, and that the DER form carries
r and s, are lemmas about `Written`. `TokenInv` adds where `main` is in its calls and
what its buffer has there: zeros, which are no DER, or a signature by its own key of
its own message.

Every safety property, action property and refinement a passing run checks is
thereby a theorem. Only model-checked: the liveness properties `TransmitReturns` of
`SEInterface` and of `ATInterface` and `ReadReturns`, because proofs under fairness
are out of the prover's reach; and the counterexamples of section 4, which show that
what a document says does not hold.

## 6. Plan

In this order; the first thirteen are done.

1. `Applet`, `ChannelPool`, `MCApplet`: the selection layer.
2. `SEInterface`, `AtomicExchange`.
3. `ATInterface`.
4. `ReadFile`, `KeyAgreement`.
5. `AppletProofs`: types, selection, ownership.
6. `ReadFileProofs`: bounds, completeness, ownership, progress of the offset.
7. `KeyAgreementProofs`.
8. `SEInterfaceProofs`: types, the safety properties, the refinement of
   `AtomicExchange`.
9. `Signature`, `Jwt`, `KeySchedule`: the rest of ROT, and the program that prints
   tokens.
10. `JwtProofs`: sessions, DER, tokens.
11. `KeyScheduleProofs`: whole answers, keys of one handshake.
12. `ATInterfaceProofs`: types, order and window of what is under way, the lag, the
    quiet line, the refinement of `AtomicExchange`.
13. `AppletPoolProofs`: the bound on leaked channels and the refinement of
    `ChannelPool`.
14. Left: lemmas that `AppletProofs` and `AppletPoolProofs` could share (both treat
    each exchange, once for the selection and once for the channels).

## 7. Not modelled

- The C accessors: forwarders of one line.
- The branches of `computeSignatureUpdate` for the full text and for the last block
  (`ROT.cpp:518-577`): `signInit` and `signFinal` always pass the padding mode, and no
  other caller exists.
- What a program does after it has written past an array (section 2).
- Identifiers, secrets, labels and seeds that do not fit the command of their call:
  `putPublicKeyInit`, `computeDH` and `computePRF` look at the sum only after they have
  copied them (`ROT.cpp:822`, `690`, `774`). The models take them to fit, so that the
  error of that comparison is left out; `readFile`'s, which compares before, is in.
- How long a shared secret is: it is copied into the caller's buffer unchecked
  (`ROT.cpp:698`). Answers with a key pair that lack a tag or have no data
  (`ROT.cpp:327`) are left out too: `KeyAgreement` tells pairs apart, not the fields of one.
- The hexadecimal conversions and the parsing of the +CSIM line, and the settings of
  the serial port (`LSerial.cpp`): bytes, of which the models keep the line they
  belong to.
- Base64, SHA-256 and the printing of certificates in the JWT example: calls of
  OpenSSL without state of the middleware.
- The fields of a key pair, whose wrong length is overwritten by success
  (`ROT.cpp:358`): no later call in the repository reads them.
- Memory: the line buffer of `sendATCSIM` is not freed on errors
  (`ATInterface.cpp:132`).
- Channels above 3, which `CLA & 0x03` cannot code (`SEInterface.cpp:161`).
- The unit tests, which need a modem and a card, were read for how the layers are
  called.
