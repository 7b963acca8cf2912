---------------------------- MODULE AppletProofs -----------------------------
(* Theorems about the selection layer, for any number of objects,            *)
(* applications, faults and crashes.                                         *)
EXTENDS Applet, TLAPS

------------------------------------------------------------------------------
(* Type correctness: whatever the callers do and the link loses.             *)

USE DEF Channels, Logical, Steps, Ops,
        BasicAccepts, LogicalAccepts, OpenedChannel, StillSelected, MoreSessions

\* Nothing is selected and no exchange is lost.
LEMMA InitTypeOK == Init => TypeOK
<1> SUFFICES ASSUME Init PROVE TypeOK
  OBVIOUS
<1> USE AppletAssumption DEF Init, NoReturn
<1>1. life \in [Applets -> {"absent", "constructed", "ready"}] OBVIOUS
<1>2. channel \in [Applets -> Channels] OBVIOUS
<1>3. isSelected \in [Applets -> BOOLEAN] /\ isBasic \in [Applets -> BOOLEAN]
  OBVIOUS
<1>4. pc \in Steps /\ obj \in Applets /\ leg \in 0 .. Sessions - 1 OBVIOUS
<1>5. ret \in [op : Ops, obj : Applets, value : BOOLEAN] OBVIOUS
<1>6. card \in [Channels -> Aids \cup {Closed, Default}] OBVIOUS
<1>7. owner \in [Channels -> Applets \cup {Nobody}] OBVIOUS
<1>8. served \subseteq Applets \X (Aids \cup {Closed, Default}) OBVIOUS
<1>9. unseen \in BOOLEAN OBVIOUS
<1>10. faults \in 0 .. MaxFaults /\ crashes \in 0 .. MaxCrashes OBVIOUS
<1> HIDE DEF Init
<1> QED BY <1>1, <1>2, <1>3, <1>4, <1>5, <1>6, <1>7, <1>8, <1>9, <1>10 DEF TypeOK

\* A call that begins or returns at once keeps every variable in its type.
LEMMA CallTypeOK == TypeOK /\ (\E a \in Applets : Call(a)) => TypeOK'
<1> SUFFICES ASSUME TypeOK, NEW a \in Applets, Call(a) PROVE TypeOK'
  OBVIOUS
<1> USE AppletAssumption DEF TypeOK, NoReturn, Begin, Return, flags, uicc, history, objects
<1>1. CASE Construct(a) BY <1>1 DEF Construct
<1>2. CASE InitApplet(a) BY <1>2 DEF InitApplet
<1>3. CASE SelectWithoutInterface(a) BY <1>3 DEF SelectWithoutInterface
<1>4. CASE SelectBasic(a) BY <1>4 DEF SelectBasic
<1>5. CASE SelectLogical(a) BY <1>5 DEF SelectLogical
<1>6. CASE DeselectLocally(a) BY <1>6 DEF DeselectLocally
<1>7. CASE DeselectRemotely(a) BY <1>7 DEF DeselectRemotely
<1>8. CASE DestroyLocally(a) BY <1>8 DEF DestroyLocally, Vanish
<1>9. CASE DestroyRemotely(a) BY <1>9 DEF DestroyRemotely
<1>10. CASE Transmit(a) BY <1>10 DEF Transmit
<1>11. CASE TransmitUnselected(a) BY <1>11 DEF TransmitUnselected
<1>12. CASE CloseSessions(a) BY <1>12 DEF CloseSessions
<1> QED BY <1>1, <1>2, <1>3, <1>4, <1>5, <1>6, <1>7, <1>8, <1>9, <1>10, <1>11,
           <1>12 DEF Call, Select, Deselect, Destroy

ReturnTypeOK == /\ pc' \in Steps /\ obj' \in Applets /\ leg' \in 0 .. Sessions - 1
                /\ ret' \in [op : Ops, obj : Applets, value : BOOLEAN]
FlagsTypeOK == isSelected' \in [Applets -> BOOLEAN] /\ isBasic' \in [Applets -> BOOLEAN]
CardTypeOK == card' \in [Channels -> Aids \cup {Closed, Default}]
OwnerTypeOK == owner' \in [Channels -> Applets \cup {Nobody}]
ServedTypeOK == served' \subseteq Applets \X (Aids \cup {Closed, Default})

\* What the building blocks of an exchange do to the types.
LEMMA ReturnTypes ==
  ASSUME NEW a \in Applets, NEW op \in Ops, NEW v \in BOOLEAN, Return(a, op, v)
  PROVE  ReturnTypeOK
  BY AppletAssumption DEF Return, ReturnTypeOK

\* The types of what an exchange and its code set.
LEMMA BlockTypes ==
  ASSUME TypeOK, NEW o \in Outcomes
  PROVE  /\ Exchange(o) => faults' \in 0 .. MaxFaults
         /\ \A b \in BOOLEAN : SetSelected(obj, b) => FlagsTypeOK
         /\ \A c \in Channels : CardSelects(c, o) => CardTypeOK
         /\ \A c \in Channels : CardCloses(c, o) => CardTypeOK /\ OwnerTypeOK
         /\ CardServes(o) => ServedTypeOK
<1> USE AppletAssumption DEF TypeOK
<1>1. Exchange(o) => faults' \in 0 .. MaxFaults BY DEF Exchange
<1>2. \A b \in BOOLEAN : SetSelected(obj, b) => FlagsTypeOK
  BY DEF SetSelected, FlagsTypeOK
<1>3. \A c \in Channels : CardSelects(c, o) => CardTypeOK
  BY DEF CardSelects, CardTypeOK
<1>4. \A c \in Channels : CardCloses(c, o) => CardTypeOK /\ OwnerTypeOK
  BY DEF CardCloses, CardTypeOK, OwnerTypeOK
<1>5. CardServes(o) => ServedTypeOK
  BY DEF CardServes, ServedTypeOK
<1> QED BY <1>1, <1>2, <1>3, <1>4, <1>5

\* Every exchange with the card keeps every variable in its type.
LEMMA LegTypeOK == TypeOK /\ (\E o \in Outcomes : Leg(o)) => TypeOK'
<1> SUFFICES ASSUME TypeOK, NEW o \in Outcomes, Leg(o) PROVE TypeOK'
  OBVIOUS
<1>0. /\ channel[obj] \in Channels /\ 0 \in Channels /\ obj \in Applets
      /\ TRUE \in BOOLEAN /\ FALSE \in BOOLEAN /\ Answered(o) \in BOOLEAN
      /\ {"select", "deselect", "destroy", "transmit", "sessions"} \subseteq Ops
  BY AppletAssumption DEF TypeOK, Answered
<1> USE BlockTypes, ReturnTypes, <1>0
    DEF ReturnTypeOK, FlagsTypeOK, CardTypeOK, OwnerTypeOK, ServedTypeOK,
        flags, uicc, history, objects
<1>1. CASE BasicExchange(o)
  <2>1. ReturnTypeOK /\ FlagsTypeOK /\ CardTypeOK
    BY <1>1 DEF BasicExchange, TypeOK
  <2> QED BY <1>1, <2>1 DEF BasicExchange, TypeOK
<1>2. CASE OpenGranted(o)
  <2>1. PICK c \in Logical :
             /\ card' = [card EXCEPT ![c] = Default]
             /\ owner' = [owner EXCEPT ![c] = obj]
             /\ channel' = [channel EXCEPT ![obj] = c] \/ channel' = channel
    BY <1>2 DEF OpenGranted
  <2>3. CardTypeOK /\ OwnerTypeOK /\ channel' \in [Applets -> Channels]
    BY <2>1 DEF TypeOK
  <2>2. ReturnTypeOK BY <1>2 DEF OpenGranted, TypeOK
  <2> QED BY <1>2, <2>3, <2>2 DEF OpenGranted, TypeOK
<1>3. CASE OpenFailed(o) BY <1>3 DEF OpenFailed, TypeOK
<1>4. CASE LogicalExchange(o)
  <2>1. ReturnTypeOK /\ FlagsTypeOK /\ CardTypeOK
    BY <1>4 DEF LogicalExchange, TypeOK
  <2> QED BY <1>4, <2>1 DEF LogicalExchange, TypeOK
<1>5. CASE UndoExchange(o) BY <1>5 DEF UndoExchange, TypeOK
<1>6. CASE CloseExchange(o)
  <2>1. isSelected' \in [Applets -> BOOLEAN] /\ unseen' \in BOOLEAN
    BY <1>6 DEF CloseExchange, Executed, TypeOK
  <2>2. isSelected'[obj] \in BOOLEAN BY <2>1
  <2>3. ReturnTypeOK BY <1>6, <2>2 DEF CloseExchange
  <2> QED BY <1>6, <2>1, <2>3 DEF CloseExchange, TypeOK
<1>7. CASE DestroyExchange(o)
  <2>1. Vanish(obj) => /\ life' \in [Applets -> {"absent", "constructed", "ready"}]
                       /\ channel' \in [Applets -> Channels]
                       /\ FlagsTypeOK
    BY DEF Vanish, TypeOK
  <2> QED BY <1>7, <2>1 DEF DestroyExchange, TypeOK
<1>8. CASE TransmitExchange(o)
  <2>1. ReturnTypeOK /\ ServedTypeOK BY <1>8 DEF TransmitExchange
  <2> QED BY <1>8, <2>1 DEF TransmitExchange, TypeOK
<1>9. CASE SessionExchange(o)
  <2>1. leg + 1 < Sessions => leg + 1 \in 0 .. Sessions - 1
    BY AppletAssumption DEF TypeOK
  <2>2. \/ leg + 1 < Sessions /\ leg' = leg + 1 /\ UNCHANGED <<pc, obj, ret>>
        \/ Return(obj, "sessions", TRUE)
    BY <1>9 DEF SessionExchange
  <2>3. ReturnTypeOK BY <2>1, <2>2 DEF TypeOK
  <2>4. ServedTypeOK BY <1>9 DEF SessionExchange
  <2> QED BY <1>9, <2>3, <2>4 DEF SessionExchange, TypeOK
<1> QED BY <1>1, <1>2, <1>3, <1>4, <1>5, <1>6, <1>7, <1>8, <1>9 DEF Leg

\* Every call, every exchange and the death of the program keep the types.
LEMMA NextTypeOK == TypeOK /\ [Next]_vars => TypeOK'
<1> SUFFICES ASSUME TypeOK, [Next]_vars PROVE TypeOK'
  OBVIOUS
<1>1. CASE \E a \in Applets : Call(a) BY <1>1, CallTypeOK
<1>2. CASE \E o \in Outcomes : Leg(o) BY <1>2, LegTypeOK
<1>3. CASE Crash
  BY <1>3, AppletAssumption DEF Crash, TypeOK, Return, uicc, history
<1>4. CASE UNCHANGED vars BY <1>4 DEF vars, TypeOK
<1> QED BY <1>1, <1>2, <1>3, <1>4 DEF Next

\* Every reachable state is well typed: in particular _channel is always a
\* channel the CLA byte can encode, whatever select and reselect leave in it.
THEOREM TypeCorrect == Spec => []TypeOK
<1>1. Init => TypeOK BY InitTypeOK
<1>2. TypeOK /\ [Next]_vars => TypeOK' BY NextTypeOK
<1> QED BY <1>1, <1>2, PTL DEF Spec

------------------------------------------------------------------------------
(* The selection is backed.  SelectionBacked alone is not inductive: a close *)
(* keeps the other objects' selections only because the channel it closes is *)
(* the object's own, and that depends on which call is in progress.          *)

\* What the call in progress relies on.
CallInv ==
  /\ pc \in {"select_basic", "open", "select_logical", "undo"} => ~isSelected[obj]
  /\ pc = "select_basic" => obj \in BasicUsers /\ channel[obj] = 0
  /\ pc \in {"select_logical", "undo"} =>
       channel[obj] # 0 /\ owner[channel[obj]] = obj
  /\ pc \in {"close", "close_dtor"} => HasToClose(obj)
  /\ pc \in {"transmit", "sessions"} => isSelected[obj]

\* What a selected object relies on.
Sound(a) == /\ isBasic[a] => a \in BasicUsers /\ channel[a] = 0
            /\ ~isBasic[a] => channel[a] # 0
            /\ Backed(a)
SelectionInv == ~unseen => \A a \in Applets : isSelected[a] => Sound(a)

SafeInv == TypeOK /\ CallInv /\ SelectionInv /\ OwnAppletOnly

\* The callers for which the selection is claimed: they select what is not
\* selected, and at most one of them uses the basic channel.
GoodCallers == /\ Disciplined
               /\ \A a, b \in BasicUsers : a = b

\* No object is selected, so that nothing has to be backed.
LEMMA InitSafe == Init => SafeInv
<1>1. Init => CallInv /\ SelectionInv /\ OwnAppletOnly
  BY AppletAssumption DEF Init, CallInv, SelectionInv, OwnAppletOnly
<1> QED BY <1>1, InitTypeOK DEF SafeInv

\* A call that begins changes nothing at the card, selects nothing, and moves
\* the channel of an object only when the object is not selected.
LEMMA CallSafe ==
  ASSUME GoodCallers, SafeInv, NEW a \in Applets, Call(a)
  PROVE  CallInv' /\ SelectionInv' /\ OwnAppletOnly'
<1>1. TypeOK /\ CallInv /\ SelectionInv /\ OwnAppletOnly BY DEF SafeInv
<1>2. UNCHANGED <<card, owner, served, unseen>>
  BY DEF Call, Select, Deselect, Destroy, Construct, InitApplet,
         SelectWithoutInterface, SelectBasic, SelectLogical, DeselectLocally,
         DeselectRemotely, DestroyLocally, DestroyRemotely, Transmit,
         TransmitUnselected, CloseSessions, uicc, history
<1>3. \A b \in Applets : isSelected'[b] =>
        isSelected[b] /\ isBasic'[b] = isBasic[b] /\ channel'[b] = channel[b]
  <2> USE <1>1 DEF TypeOK, objects, flags
  <2>1. CASE Construct(a) \/ InitApplet(a)
    BY <2>1 DEF Construct, InitApplet
  <2>2. CASE SelectBasic(a) \/ SelectLogical(a)
    BY <2>2 DEF SelectBasic, SelectLogical, SelectCalled, GoodCallers
  <2>3. CASE DeselectLocally(a) BY <2>3 DEF DeselectLocally
  <2>4. CASE DestroyLocally(a) BY <2>4 DEF DestroyLocally, Vanish
  <2>5. CASE UNCHANGED objects BY <2>5
  <2> QED
    BY <2>1, <2>2, <2>3, <2>4, <2>5
    DEF Call, Select, Deselect, Destroy, SelectWithoutInterface,
        DeselectRemotely, DestroyRemotely, Transmit, TransmitUnselected,
        CloseSessions
<1>4. SelectionInv'
  BY <1>1, <1>2, <1>3 DEF SelectionInv, Sound, Backed
<1>5. OwnAppletOnly' BY <1>1, <1>2 DEF OwnAppletOnly
<1>6. CallInv'
  <2> USE <1>1 DEF CallInv, Begin, Return
  <2>1. CASE SelectBasic(a) \/ SelectLogical(a)
    BY <2>1 DEF SelectBasic, SelectLogical, SelectCalled, GoodCallers, flags, TypeOK
  <2>2. CASE DeselectRemotely(a) \/ DestroyRemotely(a)
    BY <2>2 DEF DeselectRemotely, DestroyRemotely, HasToClose, objects
  <2>3. CASE Transmit(a) \/ CloseSessions(a)
    BY <2>3 DEF Transmit, CloseSessions, GoodCallers, objects
  <2>4. CASE pc' = "idle" BY <2>4
  <2> QED
    BY <2>1, <2>2, <2>3, <2>4
    DEF Call, Select, Deselect, Destroy, Construct, InitApplet,
        SelectWithoutInterface, DeselectLocally, DestroyLocally,
        TransmitUnselected
<1> QED BY <1>4, <1>5, <1>6

\* A SELECT, an open or a command leaves what the other objects rely on alone.
LEMMA SelectLegSafe ==
  ASSUME GoodCallers, SafeInv, NEW o \in Outcomes,
         \/ BasicExchange(o) \/ OpenGranted(o) \/ OpenFailed(o)
         \/ LogicalExchange(o) \/ TransmitExchange(o) \/ SessionExchange(o)
  PROVE  CallInv' /\ SelectionInv' /\ OwnAppletOnly'
<1> USE AppletAssumption
<1>0. /\ TypeOK /\ CallInv /\ SelectionInv /\ OwnAppletOnly
      /\ obj \in Applets /\ AidOf[obj] \in Aids
  BY DEF SafeInv, TypeOK
<1>1. CASE BasicExchange(o)
  <2>1. CallInv' BY <1>1 DEF BasicExchange, CallInv, Return
  <2>2. OwnAppletOnly' BY <1>0, <1>1 DEF BasicExchange, OwnAppletOnly, history
  <2>3. \A a \in Applets : isSelected[a] => ~isBasic[a] \/ unseen
    BY <1>0, <1>1 DEF BasicExchange, CallInv, SelectionInv, Sound, GoodCallers
  <2>4. SelectionInv'
    <3> SUFFICES ASSUME ~unseen, NEW a \in Applets, isSelected'[a]
                 PROVE  Sound(a)'
      BY <1>1 DEF SelectionInv, BasicExchange, history
    <3>1. CASE a = obj
      <4>1. ~isSelected[obj] /\ obj \in BasicUsers /\ channel'[obj] = 0
        BY <1>0, <1>1 DEF BasicExchange, CallInv
      <4>2. o \in {"ok", "proactive"} /\ SetSelected(obj, TRUE)
        BY <1>0, <1>1, <3>1, <4>1 DEF BasicExchange, flags
      <4>3. isBasic'[obj] /\ card'[0] = AidOf[obj]
        BY <1>0, <1>1, <4>2 DEF BasicExchange, SetSelected, CardSelects,
           Executed, TypeOK
      <4> QED BY <3>1, <4>1, <4>3 DEF Sound, Backed
    <3>2. CASE a # obj
      <4>1. isSelected[a] /\ isBasic'[a] = isBasic[a] /\ channel' = channel
            /\ owner' = owner
        BY <1>0, <1>1, <3>2 DEF BasicExchange, SetSelected, TypeOK, flags
      <4>2. Sound(a) /\ ~isBasic[a] BY <1>0, <2>3, <4>1 DEF SelectionInv
      <4>3. channel[a] \in Channels /\ channel[a] # 0
        BY <1>0, <4>2 DEF Sound, TypeOK
      <4>4. card'[channel[a]] = card[channel[a]]
        BY <1>0, <1>1, <4>3 DEF BasicExchange, CardSelects, TypeOK
      <4> QED BY <4>1, <4>2, <4>4 DEF Sound, Backed
    <3> QED BY <3>1, <3>2
  <2> QED BY <2>1, <2>2, <2>4
<1>2. CASE OpenGranted(o)
  <2>1. PICK c \in Logical :
          /\ card[c] = Closed
          /\ card' = [card EXCEPT ![c] = Default]
          /\ owner' = [owner EXCEPT ![c] = obj]
          /\ \/ channel' = [channel EXCEPT ![obj] = c] /\ pc' = "select_logical"
                /\ obj' = obj
             \/ channel' = channel /\ pc' = "idle"
    BY <1>2 DEF OpenGranted, Return
  <2>2. ~isSelected[obj] /\ isSelected' = isSelected /\ isBasic' = isBasic
        /\ unseen' = unseen /\ served' = served
    BY <1>0, <1>2 DEF OpenGranted, CallInv, flags, history
  <2>3. CallInv' BY <1>0, <2>1, <2>2 DEF CallInv, TypeOK
  <2>4. OwnAppletOnly' BY <1>0, <2>2 DEF OwnAppletOnly
  <2>5. SelectionInv'
    <3> SUFFICES ASSUME ~unseen, NEW a \in Applets, isSelected[a]
                 PROVE  Sound(a)'
      BY <2>2 DEF SelectionInv
    <3>1. Sound(a) /\ a # obj BY <1>0, <2>2 DEF SelectionInv
    <3>2. channel'[a] = channel[a] BY <1>0, <2>1, <3>1 DEF TypeOK
    <3>3. card[0] = AidOf[a] => card'[0] = card[0]
      BY <1>0, <2>1 DEF TypeOK
    <3>4. card[channel[a]] = AidOf[a] => /\ card'[channel[a]] = card[channel[a]]
                                         /\ owner'[channel[a]] = owner[channel[a]]
      BY <1>0, <2>1 DEF TypeOK
    <3> QED BY <2>2, <3>1, <3>2, <3>3, <3>4 DEF Sound, Backed
  <2> QED BY <2>3, <2>4, <2>5
<1>3. CASE OpenFailed(o)
  BY <1>0, <1>3 DEF OpenFailed, Return, CallInv, SelectionInv, OwnAppletOnly, Sound,
     Backed, objects, uicc, history
<1>4. CASE LogicalExchange(o)
  <2>1. /\ channel[obj] \in Channels /\ channel[obj] # 0 /\ ~isSelected[obj]
        /\ owner[channel[obj]] = obj
    BY <1>0, <1>4 DEF LogicalExchange, CallInv, TypeOK
  <2>2. CallInv'
    BY <1>0, <1>4, <2>1 DEF LogicalExchange, Return, CallInv, flags
  <2>3. OwnAppletOnly' BY <1>0, <1>4 DEF LogicalExchange, OwnAppletOnly, history
  <2>4. SelectionInv'
    <3> SUFFICES ASSUME ~unseen, NEW a \in Applets, isSelected'[a]
                 PROVE  Sound(a)'
      BY <1>4 DEF SelectionInv, LogicalExchange, history
    <3>1. CASE a = obj
      <4>1. ~isBasic'[obj] /\ card'[channel[obj]] = AidOf[obj]
            /\ channel' = channel /\ owner' = owner
        BY <1>0, <1>4, <2>1, <3>1 DEF LogicalExchange, SetSelected, CardSelects,
           Executed, TypeOK, flags
      <4> QED BY <2>1, <3>1, <4>1 DEF Sound, Backed
    <3>2. CASE a # obj
      <4>1. isSelected[a] /\ isBasic'[a] = isBasic[a] /\ channel' = channel
            /\ owner' = owner
        BY <1>0, <1>4, <3>2 DEF LogicalExchange, SetSelected, TypeOK, flags
      <4>2. Sound(a) BY <1>0, <4>1 DEF SelectionInv
      <4>3. /\ isBasic[a] => card'[0] = card[0]
            /\ ~isBasic[a] => card'[channel[a]] = card[channel[a]]
        BY <1>0, <1>4, <2>1, <3>2, <4>2
        DEF LogicalExchange, CardSelects, TypeOK, Sound, Backed
      <4> QED BY <4>1, <4>2, <4>3 DEF Sound, Backed
    <3> QED BY <3>1, <3>2
  <2> QED BY <2>2, <2>3, <2>4
<1>5. CASE TransmitExchange(o) \/ SessionExchange(o)
  <2>1. isSelected[obj] /\ UNCHANGED <<objects, uicc, unseen>> /\ CardServes(o)
    BY <1>0, <1>5 DEF TransmitExchange, SessionExchange, CallInv
  <2>2. CallInv'
    BY <1>0, <1>5, <2>1 DEF TransmitExchange, SessionExchange, Return, CallInv,
       objects
  <2>3. SelectionInv'
    BY <1>0, <2>1 DEF SelectionInv, Sound, Backed, objects, uicc
  <2>4. OwnAppletOnly'
    <3> SUFFICES ASSUME ~unseen, NEW s \in served' PROVE s[2] = AidOf[s[1]]
      BY <2>1 DEF OwnAppletOnly
    <3>1. Sound(obj) BY <1>0, <2>1 DEF SelectionInv
    <3>2. s \in served \/ s = <<obj, card[channel[obj]]>>
      BY <2>1 DEF CardServes
    <3> QED BY <1>0, <3>1, <3>2 DEF OwnAppletOnly, Sound, Backed
  <2> QED BY <2>2, <2>3, <2>4
<1> QED BY <1>1, <1>2, <1>3, <1>4, <1>5

\* A close takes nothing from another object: the channel it closes was opened
\* for the object whose call it is.
LEMMA ClosesOwn ==
  ASSUME SafeInv, ~unseen, pc \in {"undo", "close", "close_dtor"}
  PROVE  /\ obj \in Applets /\ channel[obj] \in Channels /\ channel[obj] # 0
         /\ owner[channel[obj]] = obj
<1>1. TypeOK /\ CallInv /\ SelectionInv BY DEF SafeInv
<1>2. obj \in Applets /\ channel[obj] \in Channels BY <1>1 DEF TypeOK
<1>3. CASE pc = "undo" BY <1>1, <1>2, <1>3 DEF CallInv
<1>4. CASE pc \in {"close", "close_dtor"}
  BY <1>1, <1>2, <1>4 DEF CallInv, HasToClose, SelectionInv, Sound, Backed
<1> QED BY <1>2, <1>3, <1>4

\* A close ends the channel of the calling object, and of no other.
LEMMA CloseLegSafe ==
  ASSUME SafeInv, NEW o \in Outcomes,
         UndoExchange(o) \/ CloseExchange(o) \/ DestroyExchange(o)
  PROVE  CallInv' /\ SelectionInv' /\ OwnAppletOnly'
<1>0. /\ TypeOK /\ CallInv /\ SelectionInv /\ OwnAppletOnly
      /\ CardCloses(channel[obj], o)
      /\ pc \in {"undo", "close", "close_dtor"} /\ pc' = "idle" /\ obj \in Applets
  BY DEF SafeInv, UndoExchange, CloseExchange, DestroyExchange, Return, TypeOK
<1>1. CallInv' BY <1>0 DEF CallInv
<1>2. OwnAppletOnly'
  BY <1>0 DEF OwnAppletOnly, UndoExchange, CloseExchange, DestroyExchange, history
<1>3. \A a \in Applets : isSelected'[a] /\ ~unseen' =>
        /\ isSelected[a] /\ ~unseen
        /\ isBasic'[a] = isBasic[a] /\ channel'[a] = channel[a]
        /\ a # obj \/ ~Executed(o)
  <2>1. CASE UndoExchange(o)
    BY <1>0, <2>1 DEF UndoExchange, objects, history, CallInv
  <2>2. CASE CloseExchange(o)
    BY <1>0, <2>2 DEF CloseExchange, TypeOK, CallInv, HasToClose
  <2>3. CASE DestroyExchange(o)
    BY <1>0, <2>3 DEF DestroyExchange, Vanish, TypeOK, history
  <2> QED BY <2>1, <2>2, <2>3
<1>4. SelectionInv'
  <2> SUFFICES ASSUME ~unseen', NEW a \in Applets, isSelected'[a]
               PROVE  Sound(a)'
    BY DEF SelectionInv
  <2>1. Sound(a) /\ ~unseen BY <1>0, <1>3 DEF SelectionInv
  <2>2. CASE ~Executed(o)
    BY <1>0, <1>3, <2>1, <2>2 DEF CardCloses, Sound, Backed
  <2>3. CASE Executed(o)
    <3>1. a # obj BY <1>3, <2>3
    <3>2. /\ channel[obj] \in Channels /\ channel[obj] # 0
          /\ owner[channel[obj]] = obj
      BY <1>0, <2>1, ClosesOwn
    <3>3. /\ card' = [card EXCEPT ![channel[obj]] = Closed]
          /\ owner' = [owner EXCEPT ![channel[obj]] = Nobody]
      BY <1>0, <2>3 DEF CardCloses
    <3>4. /\ isBasic[a] => card'[0] = card[0]
          /\ ~isBasic[a] => /\ card'[channel[a]] = card[channel[a]]
                            /\ owner'[channel[a]] = owner[channel[a]]
      BY <1>0, <2>1, <3>1, <3>2, <3>3 DEF Sound, Backed, TypeOK
    <3> QED BY <1>3, <2>1, <3>4 DEF Sound, Backed
  <2> QED BY <2>2, <2>3
<1> QED BY <1>1, <1>2, <1>4

\* The invariant is inductive, for good callers.
LEMMA NextSafe ==
  ASSUME GoodCallers, SafeInv, [Next]_vars
  PROVE  SafeInv'
<1>1. TypeOK' BY NextTypeOK DEF SafeInv
<1>2. CASE \E a \in Applets : Call(a) BY <1>1, <1>2, CallSafe DEF SafeInv
<1>3. CASE \E o \in Outcomes : Leg(o)
  BY <1>1, <1>3, SelectLegSafe, CloseLegSafe DEF Leg, SafeInv
<1>4. CASE Crash
  BY <1>1, <1>4 DEF Crash, Return, SafeInv, CallInv, SelectionInv, OwnAppletOnly,
     uicc, history
<1>5. CASE UNCHANGED vars
  BY <1>1, <1>5 DEF vars, SafeInv, CallInv, SelectionInv, OwnAppletOnly, Sound,
     Backed, HasToClose
<1> QED BY <1>2, <1>3, <1>4, <1>5 DEF Next

\* The invariant behind the three theorems about selection, commands and closes
\* (Applet.cpp:81-151).
THEOREM Safe == ASSUME GoodCallers PROVE Spec => []SafeInv
<1>1. Init => SafeInv BY InitSafe
<1>2. SafeInv /\ [Next]_vars => SafeInv' BY NextSafe
<1> QED BY <1>1, <1>2, PTL DEF Spec

\* isSelected tells the truth, for any number of objects, applications, lost
\* exchanges and crashes, up to the first close that was executed unseen.
THEOREM SelectionIsBacked == ASSUME GoodCallers PROVE Spec => []SelectionBacked
<1>1. SafeInv => SelectionBacked
  BY DEF SafeInv, SelectionInv, Sound, SelectionBacked
<1> QED BY <1>1, Safe, PTL

\* No command of an object is executed by the application of another.
THEOREM CommandsReachOwnApplet == ASSUME GoodCallers PROVE Spec => []OwnAppletOnly
<1>1. SafeInv => OwnAppletOnly BY DEF SafeInv
<1> QED BY <1>1, Safe, PTL

\* No step closes a channel that was opened for another object.
THEOREM ClosesOnlyOwnChannel == ASSUME GoodCallers PROVE Spec => ClosesOwnChannel
<1>1. SafeInv /\ [Next]_vars =>
        [\A c \in Channels :
           card[c] # Closed /\ card'[c] = Closed /\ ~unseen => owner[c] = obj]_vars
  <2> SUFFICES ASSUME SafeInv, Next, NEW c \in Channels,
                      card[c] # Closed, card'[c] = Closed, ~unseen
               PROVE  owner[c] = obj
    BY DEF vars
  <2>0. TypeOK /\ CallInv BY DEF SafeInv
  <2>1. CASE \E a \in Applets : Call(a)
    BY <2>1
    DEF Call, Select, Deselect, Destroy, Construct, InitApplet,
        SelectWithoutInterface, SelectBasic, SelectLogical, DeselectLocally,
        DeselectRemotely, DestroyLocally, DestroyRemotely, Transmit,
        TransmitUnselected, CloseSessions, uicc
  <2>2. CASE \E o \in Outcomes : Leg(o)
    <3>1. PICK o \in Outcomes : Leg(o) BY <2>2
    <3>2. CASE UndoExchange(o) \/ CloseExchange(o) \/ DestroyExchange(o)
      <4>1. CardCloses(channel[obj], o) /\ pc \in {"undo", "close", "close_dtor"}
        BY <3>2 DEF UndoExchange, CloseExchange, DestroyExchange
      <4> QED BY <2>0, <4>1, ClosesOwn DEF CardCloses, TypeOK
    <3>3. CASE BasicExchange(o) \/ LogicalExchange(o)
      <4>1. AidOf[obj] # Closed BY <2>0, AppletAssumption DEF TypeOK
      <4>2. 0 \in Channels /\ channel[obj] \in Channels
        BY <2>0, AppletAssumption DEF TypeOK
      <4>3. PICK d \in Channels : CardSelects(d, o)
        BY <3>3, <4>2 DEF BasicExchange, LogicalExchange
      <4> QED BY <2>0, <4>1, <4>3 DEF CardSelects, TypeOK
    <3>4. CASE OpenGranted(o) BY <2>0, <3>4 DEF OpenGranted, TypeOK
    <3>5. CASE OpenFailed(o) \/ TransmitExchange(o) \/ SessionExchange(o)
      BY <3>5 DEF OpenFailed, TransmitExchange, SessionExchange, uicc
    <3> QED BY <3>1, <3>2, <3>3, <3>4, <3>5 DEF Leg
  <2>3. CASE Crash BY <2>3 DEF Crash, uicc
  <2> QED BY <2>1, <2>2, <2>3 DEF Next
<1> QED BY <1>1, Safe, PTL DEF Spec, ClosesOwnChannel
==============================================================================
