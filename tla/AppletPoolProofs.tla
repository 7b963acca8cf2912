-------------------------- MODULE AppletPoolProofs ---------------------------
(* Theorems about the logical channels of the selection layer: how many of   *)
(* them can be left open with nobody to close them, and that the layer       *)
(* implements ChannelPool.  The first argument needs no more of the callers  *)
(* than that they are disciplined; the second one rests on the selection     *)
(* being backed (AppletProofs), without which an object may give back a      *)
(* channel that is no longer its own.                                        *)
EXTENDS AppletProofs, FiniteSetTheorems

USE DEF Channels, Logical, Steps, Ops,
        BasicAccepts, LogicalAccepts, OpenedChannel, StillSelected, MoreSessions

\* A select, or its undo, is busy with a channel of its own.
Busy == pc \in {"select_logical", "undo"}

\* The channel object a holds, or 0.
HeldOf(a) == IF Holds(a) THEN channel[a] ELSE 0

\* The card and the history agree: a logical channel is open as long as it
\* belongs to an object.
OwnerInv == \A c \in Logical : card[c] = Closed <=> owner[c] = Nobody

\* Logical channels are opened for those who select them, and a busy select has
\* one.
UserInv ==
  /\ \A a \in Applets : isSelected[a] /\ ~isBasic[a] => a \in LogicalUsers
  /\ pc = "open" \/ Busy => obj \in LogicalUsers

\* The invariant.
ChannelInv == TypeOK /\ CallInv /\ OwnerInv /\ UserInv

------------------------------------------------------------------------------
(* The invariant is inductive, for disciplined callers.                      *)

\* Nothing is selected and every logical channel is closed.
LEMMA InitChannelInv == Init => ChannelInv
<1> SUFFICES ASSUME Init PROVE ChannelInv
  OBVIOUS
<1>1. CallInv /\ OwnerInv /\ UserInv
  BY AppletAssumption DEF Init, CallInv, OwnerInv, UserInv, Busy
<1> QED BY <1>1, InitTypeOK DEF ChannelInv

\* What a call relies on stays true between its exchanges.
LEMMA NextCallInv ==
  ASSUME Disciplined, TypeOK, CallInv, [Next]_vars
  PROVE  CallInv'
<1>1. ASSUME NEW a \in Applets, Call(a) PROVE CallInv'
  <2> USE DEF CallInv, Begin, Return, TypeOK
  <2>1. CASE SelectBasic(a) \/ SelectLogical(a)
    BY <2>1 DEF SelectBasic, SelectLogical, SelectCalled, flags
  <2>2. CASE DeselectRemotely(a) \/ DestroyRemotely(a)
    BY <2>2 DEF DeselectRemotely, DestroyRemotely, HasToClose, objects
  <2>3. CASE Transmit(a) \/ CloseSessions(a)
    BY <2>3 DEF Transmit, CloseSessions, objects
  <2>4. CASE pc' = "idle"
    BY <2>4
  <2> QED
    BY <1>1, <2>1, <2>2, <2>3, <2>4
    DEF Call, Select, Deselect, Destroy, Construct, InitApplet,
        SelectWithoutInterface, DeselectLocally, DestroyLocally,
        TransmitUnselected
<1>2. ASSUME NEW o \in Outcomes, Leg(o) PROVE CallInv'
  <2>1. CASE OpenGranted(o)
    <3>1. PICK c \in Logical :
            /\ owner' = [owner EXCEPT ![c] = obj]
            /\ \/ channel' = [channel EXCEPT ![obj] = c] /\ pc' = "select_logical"
                  /\ obj' = obj
               \/ pc' = "idle"
      BY <2>1 DEF OpenGranted, Return
    <3>2. ~isSelected[obj] /\ isSelected' = isSelected
      BY <2>1 DEF OpenGranted, CallInv, flags
    <3> QED BY <3>1, <3>2 DEF CallInv, TypeOK
  <2>2. CASE LogicalExchange(o)
    BY <2>2 DEF LogicalExchange, Return, CallInv, flags
  <2>3. CASE SessionExchange(o)
    BY <2>3 DEF SessionExchange, Return, CallInv, objects
  <2>4. CASE pc' = "idle"
    BY <2>4 DEF CallInv
  <2> QED
    BY <1>2, <2>1, <2>2, <2>3, <2>4
    DEF Leg, BasicExchange, OpenFailed, UndoExchange, CloseExchange,
        DestroyExchange, TransmitExchange, Return
<1>3. CASE Crash
  BY <1>3 DEF Crash, Return, CallInv
<1>4. CASE UNCHANGED vars
  BY <1>4 DEF vars, CallInv, HasToClose
<1> QED BY <1>1, <1>2, <1>3, <1>4 DEF Next

\* A channel is opened for an object and closed for everybody.
LEMMA NextOwnerInv ==
  ASSUME TypeOK, CallInv, OwnerInv, [Next]_vars
  PROVE  OwnerInv'
<1> USE AppletAssumption
<1>0. /\ obj \in Applets /\ AidOf[obj] # Closed /\ obj # Nobody /\ Default # Closed
      /\ 0 \in Channels /\ channel[obj] \in Channels
  <2>1. Default # Closed
    BY DEF Default, Closed
  <2> QED BY <2>1 DEF TypeOK
<1>1. CASE (\E a \in Applets : Call(a)) \/ Crash \/ UNCHANGED vars
  <2>1. UNCHANGED <<card, owner>>
    BY <1>1
    DEF Call, Select, Deselect, Destroy, Construct, InitApplet,
        SelectWithoutInterface, SelectBasic, SelectLogical, DeselectLocally,
        DeselectRemotely, DestroyLocally, DestroyRemotely, Transmit,
        TransmitUnselected, CloseSessions, Crash, vars, uicc
  <2> QED BY <2>1 DEF OwnerInv
<1>2. ASSUME NEW o \in Outcomes, Leg(o) PROVE OwnerInv'
  <2>1. CASE OpenGranted(o)
    <3>1. PICK c \in Logical : /\ card' = [card EXCEPT ![c] = Default]
                                /\ owner' = [owner EXCEPT ![c] = obj]
      BY <2>1 DEF OpenGranted
    <3> QED BY <1>0, <3>1 DEF OwnerInv, TypeOK
  <2>2. CASE BasicExchange(o)
    BY <1>0, <2>2 DEF BasicExchange, CardSelects, OwnerInv, TypeOK
  <2>3. CASE LogicalExchange(o)
    BY <1>0, <2>3 DEF LogicalExchange, CardSelects, CallInv, OwnerInv, TypeOK
  <2>4. CASE UndoExchange(o) \/ CloseExchange(o) \/ DestroyExchange(o)
    <3>1. CardCloses(channel[obj], o)
      BY <2>4 DEF UndoExchange, CloseExchange, DestroyExchange
    <3> QED BY <1>0, <3>1 DEF CardCloses, OwnerInv, TypeOK
  <2>5. CASE OpenFailed(o) \/ TransmitExchange(o) \/ SessionExchange(o)
    BY <2>5 DEF OpenFailed, TransmitExchange, SessionExchange, uicc, OwnerInv
  <2> QED BY <1>2, <2>1, <2>2, <2>3, <2>4, <2>5 DEF Leg
<1> QED BY <1>1, <1>2 DEF Next

\* Only a select over a logical channel makes an object hold one.
LEMMA NextUserInv ==
  ASSUME TypeOK, CallInv, UserInv, [Next]_vars
  PROVE  UserInv'
<1> USE DEF TypeOK, UserInv, Busy
<1>1. ASSUME NEW a \in Applets, Call(a) PROVE UserInv'
  <2> USE DEF Begin, Return, objects, flags
  <2>1. CASE Construct(a) \/ InitApplet(a) \/ SelectWithoutInterface(a)
    BY <2>1 DEF Construct, InitApplet, SelectWithoutInterface
  <2>2. CASE SelectBasic(a) \/ SelectLogical(a)
    BY <2>2 DEF SelectBasic, SelectLogical
  <2>3. CASE Deselect(a)
    BY <2>3 DEF Deselect, DeselectLocally, DeselectRemotely
  <2>4. CASE Destroy(a)
    BY <2>4 DEF Destroy, DestroyLocally, DestroyRemotely, Vanish
  <2>5. CASE Transmit(a) \/ TransmitUnselected(a) \/ CloseSessions(a)
    BY <2>5 DEF Transmit, TransmitUnselected, CloseSessions
  <2> QED BY <1>1, <2>1, <2>2, <2>3, <2>4, <2>5 DEF Call, Select
<1>2. ASSUME NEW o \in Outcomes, Leg(o) PROVE UserInv'
  <2> USE DEF Return, objects, flags, SetSelected
  <2>1. CASE BasicExchange(o)
    BY <2>1 DEF BasicExchange
  <2>2. CASE OpenGranted(o) \/ OpenFailed(o)
    BY <2>2 DEF OpenGranted, OpenFailed
  <2>3. CASE LogicalExchange(o)
    BY <2>3 DEF LogicalExchange
  <2>4. CASE UndoExchange(o)
    BY <2>4 DEF UndoExchange
  <2>5. CASE CloseExchange(o)
    BY <2>5 DEF CloseExchange, CallInv, HasToClose
  <2>6. CASE DestroyExchange(o)
    BY <2>6 DEF DestroyExchange, Vanish
  <2>7. CASE TransmitExchange(o) \/ SessionExchange(o)
    BY <2>7 DEF TransmitExchange, SessionExchange
  <2> QED BY <1>2, <2>1, <2>2, <2>3, <2>4, <2>5, <2>6, <2>7 DEF Leg
<1>3. CASE Crash
  BY <1>3 DEF Crash, Return
<1>4. CASE UNCHANGED vars
  BY <1>4 DEF vars
<1> QED BY <1>1, <1>2, <1>3, <1>4 DEF Next

\* The four parts together.
LEMMA NextChannelInv ==
  ASSUME Disciplined, ChannelInv, [Next]_vars
  PROVE  ChannelInv'
  BY NextTypeOK, NextCallInv, NextOwnerInv, NextUserInv DEF ChannelInv

------------------------------------------------------------------------------
(* What each step does to the channels held and to those left open.          *)

\* A channel is an orphan when it is open, nobody holds it and no select is busy
\* with it.
Orphan(c) == /\ card[c] # Closed
             /\ \A a \in Applets : HeldOf(a) # c
             /\ ~(Busy /\ channel[obj] = c)

\* The orphans of LeakBound and of the refinement, in these terms.
OrphansAre == \A c \in Logical : c \in Orphans <=> Orphan(c)

\* A select busy with a channel is what Opening says of it.
LEMMA OrphansNow == TypeOK /\ CallInv => OrphansAre
<1> SUFFICES ASSUME TypeOK, CallInv, NEW c \in Logical
             PROVE  c \in Orphans <=> Orphan(c)
  BY DEF OrphansAre
<1>1. \A a \in Applets : HeldOf(a) = c <=> Holds(a) /\ channel[a] = c
  BY AppletAssumption DEF HeldOf, TypeOK
<1>2. \A a \in Applets : Opening(a) /\ channel[a] = c <=>
                          Busy /\ a = obj /\ channel[obj] = c
  BY DEF Opening, Busy, CallInv, TypeOK
<1>3. obj \in Applets
  BY DEF TypeOK
<1> QED BY <1>1, <1>2, <1>3 DEF Orphans, Orphan

\* The same after a step.
LEMMA OrphansNext == (TypeOK /\ CallInv)' => OrphansAre'
BY OrphansNow, PTL

\* A call that begins or returns at once.
LEMMA CallChannels ==
  ASSUME Disciplined, ChannelInv, NEW a \in Applets, Call(a)
  PROVE  /\ \A b \in Applets : HeldOf(b)' = HeldOf(b)
         /\ UNCHANGED <<card, faults, crashes, unseen>> /\ ~Busy /\ ~Busy'
<1>0. TypeOK
  BY DEF ChannelInv
<1>1. UNCHANGED <<card, owner, faults, crashes, unseen>> /\ ~Busy /\ ~Busy'
  BY DEF Call, Select, Deselect, Destroy, Construct, InitApplet, Begin, Return,
         SelectWithoutInterface, SelectBasic, SelectLogical, DeselectLocally,
         DeselectRemotely, DestroyLocally, DestroyRemotely, Transmit,
         TransmitUnselected, CloseSessions, SelectCalled, uicc, history, Busy
<1>2. ASSUME NEW b \in Applets PROVE HeldOf(b)' = HeldOf(b)
  <2> USE <1>0, <1>1 DEF TypeOK, objects, flags, HeldOf, Holds
  <2>1. CASE Construct(a) \/ InitApplet(a)
    BY <2>1 DEF Construct, InitApplet
  <2>2. CASE SelectBasic(a) \/ SelectLogical(a)
    BY <2>2 DEF SelectBasic, SelectLogical, SelectCalled
  <2>3. CASE DeselectLocally(a)
    BY <2>3 DEF DeselectLocally
  <2>4. CASE DestroyLocally(a)
    BY <2>4 DEF DestroyLocally, Vanish, HasToClose
  <2>5. CASE UNCHANGED objects
    BY <2>5
  <2> QED
    BY <2>1, <2>2, <2>3, <2>4, <2>5
    DEF Call, Select, Deselect, Destroy, SelectWithoutInterface,
        DeselectRemotely, DestroyRemotely, Transmit, TransmitUnselected,
        CloseSessions
<1> QED BY <1>1, <1>2

\* Exchanges that open and close no channel.
LEMMA QuietChannels ==
  ASSUME ChannelInv, NEW o \in Outcomes,
         \/ BasicExchange(o) \/ OpenFailed(o)
         \/ TransmitExchange(o) \/ SessionExchange(o)
  PROVE  /\ \A b \in Applets : HeldOf(b)' = HeldOf(b)
         /\ \A c \in Logical : card'[c] = card[c]
         /\ ~Busy /\ ~Busy'
<1>0. TypeOK /\ CallInv
  BY DEF ChannelInv
<1>1. CASE BasicExchange(o)
  <2>1. /\ ~isSelected[obj] /\ channel' = channel /\ owner' = owner
        /\ UNCHANGED flags \/ SetSelected(obj, TRUE)
    BY <1>0, <1>1 DEF BasicExchange, CallInv
  <2>2. \A b \in Applets : HeldOf(b)' = HeldOf(b)
    BY <1>0, <2>1 DEF SetSelected, flags, HeldOf, Holds, TypeOK
  <2>3. \A c \in Logical : card'[c] = card[c]
    BY <1>0, <1>1 DEF BasicExchange, CardSelects, TypeOK
  <2> QED BY <1>1, <2>2, <2>3 DEF BasicExchange, Return, Busy
<1>2. CASE OpenFailed(o) \/ TransmitExchange(o) \/ SessionExchange(o)
  BY <1>2 DEF OpenFailed, TransmitExchange, SessionExchange, Return, objects,
     uicc, Busy, HeldOf, Holds
<1> QED BY <1>1, <1>2

\* The card opens a channel: the select becomes busy with it, or the answer is
\* lost and nobody knows of it.
LEMMA OpenChannels ==
  ASSUME ChannelInv, NEW o \in Outcomes, OpenGranted(o)
  PROVE  \E c \in Logical :
           /\ card[c] = Closed /\ card' = [card EXCEPT ![c] = Default]
           /\ \A b \in Applets : HeldOf(b)' = HeldOf(b) /\ HeldOf(b) # c
           /\ ~Busy
           /\ \/ o \notin LinkFaults /\ Busy' /\ channel'[obj'] = c
              \/ o \in LinkFaults /\ ~Busy'
<1>0. TypeOK /\ CallInv /\ OwnerInv /\ obj \in Applets
  BY DEF ChannelInv, TypeOK
<1>1. PICK c \in Logical :
        /\ card[c] = Closed /\ card' = [card EXCEPT ![c] = Default]
        /\ owner' = [owner EXCEPT ![c] = obj]
        /\ \/ /\ Answered(o) /\ channel' = [channel EXCEPT ![obj] = c]
              /\ pc' = "select_logical" /\ obj' = obj
           \/ ~Answered(o) /\ channel' = channel /\ pc' = "idle"
  BY DEF OpenGranted, Return
<1>2. ~isSelected[obj] /\ UNCHANGED <<isSelected, isBasic>> /\ ~Busy
  BY <1>0 DEF OpenGranted, CallInv, flags, Busy
<1>3. owner[c] = Nobody /\ c # 0
  BY <1>0, <1>1 DEF OwnerInv
<1>4. ASSUME NEW b \in Applets
      PROVE  HeldOf(b)' = HeldOf(b) /\ HeldOf(b) # c
  <2>1. Nobody # b
    BY AppletAssumption
  <2>2. Holds(b) => channel[b] # c /\ b # obj
    BY <1>2, <1>3, <2>1 DEF Holds
  <2>3. HeldOf(b) # c
    BY <1>3, <2>2 DEF HeldOf
  <2>4. CASE Holds(b)
    <3>1. channel'[b] = channel[b] /\ owner'[channel[b]] = owner[channel[b]]
      BY <1>0, <1>1, <2>2, <2>4 DEF TypeOK
    <3> QED BY <1>2, <2>3, <2>4, <3>1 DEF HeldOf, Holds
  <2>5. CASE ~Holds(b)
    <3>1. CASE isSelected[b] /\ ~isBasic[b]
      <4>1. b # obj /\ channel'[b] = channel[b]
        BY <1>0, <1>1, <1>2, <3>1 DEF TypeOK
      <4>2. owner[channel[b]] # b /\ channel[b] \in Channels
        BY <1>0, <2>5, <3>1 DEF Holds, TypeOK
      <4>3. owner'[channel[b]] # b
        BY <1>0, <1>1, <4>1, <4>2 DEF TypeOK
      <4> QED BY <1>2, <2>3, <2>5, <4>1, <4>3 DEF HeldOf, Holds
    <3>2. CASE ~(isSelected[b] /\ ~isBasic[b])
      BY <1>2, <2>3, <3>2 DEF HeldOf, Holds
    <3> QED BY <3>1, <3>2
  <2> QED BY <2>4, <2>5
<1>5. \/ o \notin LinkFaults /\ Busy' /\ channel'[obj'] = c
      \/ o \in LinkFaults /\ ~Busy'
  BY <1>0, <1>1 DEF Answered, Busy, TypeOK
<1> QED BY <1>1, <1>2, <1>4, <1>5

\* SELECT on the opened channel: the object holds it, or the undo is busy with it.
LEMMA SelectChannels ==
  ASSUME ChannelInv, NEW o \in Outcomes, LogicalExchange(o),
         NEW a \in Applets, a = obj
  PROVE  /\ channel[a] \in Logical /\ card[channel[a]] # Closed
         /\ \A c \in Logical : card'[c] = Closed <=> card[c] = Closed
         /\ \A b \in Applets : HeldOf(b) # channel[a]
         /\ HeldOf(a) = 0 /\ Busy
         /\ \A b \in Applets \ {a} : HeldOf(b)' = HeldOf(b)
         /\ \/ HeldOf(a)' = channel[a] /\ ~Busy'
            \/ HeldOf(a)' = 0 /\ Busy' /\ channel'[obj'] = channel[a]
<1>0. TypeOK /\ CallInv /\ OwnerInv /\ obj \in Applets /\ AidOf[obj] # Closed
  BY AppletAssumption DEF ChannelInv, TypeOK
<1>1. /\ pc = "select_logical" /\ UNCHANGED <<channel, owner>>
      /\ CardSelects(channel[obj], o)
      /\ \/ SetSelected(a, FALSE) /\ pc' = "idle" /\ obj' = a
         \/ UNCHANGED flags /\ pc' = "undo" /\ obj' = a
  BY DEF LogicalExchange, Return
<1>2. /\ channel[obj] \in Logical /\ owner[channel[obj]] = obj /\ ~isSelected[obj]
      /\ owner[channel[obj]] # Nobody
  BY <1>0, <1>1, AppletAssumption DEF CallInv, TypeOK
<1>3. card[channel[obj]] # Closed
  BY <1>0, <1>2 DEF OwnerInv
<1>4. \A c \in Logical : card'[c] = Closed <=> card[c] = Closed
  BY <1>0, <1>1, <1>3 DEF CardSelects, TypeOK
<1>5. \A b \in Applets : ~(Holds(b) /\ channel[b] = channel[obj])
  BY <1>2 DEF Holds
<1>6. \A b \in Applets : HeldOf(b) # channel[a]
  BY <1>2, <1>5, AppletAssumption DEF HeldOf
<1>7. HeldOf(a) = 0
  BY <1>2 DEF HeldOf, Holds
<1>8. \A b \in Applets \ {a} : HeldOf(b)' = HeldOf(b)
  BY <1>0, <1>1 DEF HeldOf, Holds, SetSelected, flags, TypeOK
<1>9. \/ HeldOf(a)' = channel[a] /\ ~Busy'
      \/ HeldOf(a)' = 0 /\ Busy' /\ channel'[obj'] = channel[a]
  <2>1. CASE SetSelected(a, FALSE) /\ pc' = "idle" /\ obj' = a
    <3>1. isSelected'[a] /\ ~isBasic'[a]
      BY <1>0, <2>1 DEF SetSelected, TypeOK
    <3>2. HeldOf(a)' = channel[a]
      BY <1>0, <1>1, <1>2, <3>1 DEF HeldOf, Holds
    <3> QED BY <2>1, <3>2 DEF Busy
  <2>2. CASE UNCHANGED flags /\ pc' = "undo" /\ obj' = a
    BY <1>1, <1>2, <2>2 DEF flags, Busy, HeldOf, Holds
  <2> QED BY <1>1, <2>1, <2>2
<1> QED BY <1>1, <1>2, <1>3, <1>4, <1>6, <1>7, <1>8, <1>9 DEF Busy

\* The undo closes the channel, or the command to close it is lost.
LEMMA UndoChannels ==
  ASSUME ChannelInv, NEW o \in Outcomes, UndoExchange(o)
  PROVE  /\ channel[obj] \in Logical /\ card[channel[obj]] # Closed
         /\ \A b \in Applets : HeldOf(b)' = HeldOf(b) /\ HeldOf(b) # channel[obj]
         /\ Busy /\ ~Busy'
         /\ \/ card' = [card EXCEPT ![channel[obj]] = Closed]
            \/ o \in LinkFaults /\ UNCHANGED card
<1>0. TypeOK /\ CallInv /\ OwnerInv /\ obj \in Applets
  BY DEF ChannelInv, TypeOK
<1>1. /\ pc = "undo" /\ pc' = "idle" /\ UNCHANGED <<channel, isSelected, isBasic>>
      /\ CardCloses(channel[obj], o)
  BY DEF UndoExchange, Return, objects
<1>2. /\ channel[obj] \in Logical /\ owner[channel[obj]] = obj /\ ~isSelected[obj]
      /\ owner[channel[obj]] # Nobody
  BY <1>0, <1>1, AppletAssumption DEF CallInv, TypeOK
<1>3. card[channel[obj]] # Closed
  BY <1>0, <1>2 DEF OwnerInv
<1>4. \A b \in Applets : Holds(b) => channel[b] # channel[obj] /\ b # obj
  BY <1>2 DEF Holds
<1>5. ASSUME NEW b \in Applets
      PROVE  HeldOf(b)' = HeldOf(b) /\ HeldOf(b) # channel[obj]
  <2>1. CASE Holds(b)
    <3>1. owner'[channel[b]] = owner[channel[b]]
      BY <1>0, <1>1, <1>4, <2>1 DEF CardCloses, TypeOK
    <3> QED BY <1>1, <1>2, <1>4, <2>1, <3>1 DEF HeldOf, Holds
  <2>2. CASE ~Holds(b)
    <3>1. owner'[channel[b]] = b => owner[channel[b]] = b
      BY <1>0, <1>1, AppletAssumption DEF CardCloses, TypeOK
    <3> QED BY <1>1, <1>2, <2>2, <3>1 DEF HeldOf, Holds
  <2> QED BY <2>1, <2>2
<1>6. \/ card' = [card EXCEPT ![channel[obj]] = Closed]
      \/ o \in LinkFaults /\ UNCHANGED card
  BY <1>1, <1>3, AppletAssumption
     DEF CardCloses, Executed, LinkFaults, AllOutcomes
<1> QED BY <1>1, <1>2, <1>3, <1>5, <1>6 DEF Busy

\* A close at the end of a selection, whatever the object still knows of its
\* channel: it touches no other channel, and leaves its own open with nobody to
\* close it only when the destructor's command is lost.
LEMMA CloseChannels ==
  ASSUME ChannelInv, NEW o \in Outcomes, CloseExchange(o) \/ DestroyExchange(o),
         NEW a \in Applets, a = obj
  PROVE  /\ ~Busy /\ ~Busy'
         /\ \A c \in Logical \ {channel[a]} :
              /\ card'[c] = card[c]
              /\ \A b \in Applets : HeldOf(b) = c => HeldOf(b)' = c
         /\ \/ card'[channel[a]] = Closed
            \/ UNCHANGED card /\ \A b \in Applets : HeldOf(b)' = HeldOf(b)
            \/ o \in LinkFaults
<1>0. TypeOK /\ CallInv /\ channel[a] \in Channels
  BY DEF ChannelInv, TypeOK
<1>1. /\ pc \in {"close", "close_dtor"} /\ pc' = "idle" /\ CardCloses(channel[a], o)
      /\ isSelected[a] /\ ~isBasic[a]
  BY <1>0 DEF CloseExchange, DestroyExchange, Return, CallInv, HasToClose
<1>2. \A b \in Applets \ {a} :
        /\ isSelected'[b] = isSelected[b] /\ isBasic'[b] = isBasic[b]
        /\ channel'[b] = channel[b]
  BY <1>0 DEF CloseExchange, DestroyExchange, Vanish, TypeOK
<1>3. ASSUME NEW c \in Logical \ {channel[a]}
      PROVE  /\ card'[c] = card[c]
             /\ \A b \in Applets : HeldOf(b) = c => HeldOf(b)' = c
  <2>1. card'[c] = card[c] /\ owner'[c] = owner[c]
    BY <1>0, <1>1 DEF CardCloses, TypeOK
  <2>2. ASSUME NEW b \in Applets, HeldOf(b) = c PROVE HeldOf(b)' = c
    <3>1. Holds(b) /\ channel[b] = c
      BY <2>2, AppletAssumption DEF HeldOf
    <3> QED BY <1>2, <2>1, <3>1 DEF HeldOf, Holds
  <2> QED BY <2>1, <2>2
<1>4. \/ card'[channel[a]] = Closed
      \/ UNCHANGED card /\ \A b \in Applets : HeldOf(b)' = HeldOf(b)
      \/ o \in LinkFaults
  <2>1. CASE Executed(o)
    BY <1>0, <1>1, <2>1 DEF CardCloses, TypeOK
  <2>2. CASE o = "refused"
    BY <1>1, <2>2 DEF CardCloses, Executed
  <2> QED BY <2>1, <2>2, AppletAssumption DEF Executed, LinkFaults, AllOutcomes
<1> QED BY <1>1, <1>3, <1>4 DEF Busy

\* A close at the end of a selection that is backed: the object holds the channel
\* it closes.
LEMMA BackedCloseChannels ==
  ASSUME ChannelInv, SelectionInv, ~unseen', NEW o \in Outcomes,
         CloseExchange(o) \/ DestroyExchange(o), NEW a \in Applets, a = obj
  PROVE  /\ channel[a] \in Logical /\ HeldOf(a) = channel[a] /\ ~Busy /\ ~Busy'
         /\ \A b \in Applets \ {a} :
              HeldOf(b)' = HeldOf(b) /\ HeldOf(b) # channel[a]
         /\ \/ HeldOf(a)' = 0 /\ card' = [card EXCEPT ![channel[a]] = Closed]
            \/ HeldOf(a)' = channel[a] /\ UNCHANGED card
            \/ HeldOf(a)' = 0 /\ UNCHANGED card /\ card[channel[a]] # Closed
<1>0. TypeOK /\ CallInv /\ ~unseen
  <2>1. TypeOK /\ CallInv
    BY DEF ChannelInv
  <2>2. CASE CloseExchange(o)
    BY <2>1, <2>2 DEF CloseExchange, TypeOK
  <2>3. CASE DestroyExchange(o)
    BY <2>1, <2>3 DEF DestroyExchange, history
  <2> QED BY <2>1, <2>2, <2>3
<1>1. /\ pc \in {"close", "close_dtor"} /\ pc' = "idle" /\ CardCloses(channel[a], o)
      /\ isSelected[a] /\ ~isBasic[a] /\ channel[a] \in Logical
  BY <1>0, AppletAssumption
     DEF CloseExchange, DestroyExchange, Return, CallInv, HasToClose, TypeOK
<1>2. owner[channel[a]] = a /\ card[channel[a]] # Closed
  BY <1>0, <1>1, AppletAssumption DEF SelectionInv, Sound, Backed
<1>3. HeldOf(a) = channel[a]
  BY <1>1, <1>2 DEF HeldOf, Holds
<1>4. ASSUME NEW b \in Applets \ {a}
      PROVE  HeldOf(b)' = HeldOf(b) /\ HeldOf(b) # channel[a]
  <2>1. /\ isSelected'[b] = isSelected[b] /\ isBasic'[b] = isBasic[b]
        /\ channel'[b] = channel[b] /\ channel[b] \in Channels
    BY <1>0 DEF CloseExchange, DestroyExchange, Vanish, TypeOK
  <2>2. owner'[channel[b]] = b <=> owner[channel[b]] = b
    BY <1>0, <1>1, <1>2, <2>1, AppletAssumption DEF CardCloses, TypeOK
  <2>3. HeldOf(b)' = HeldOf(b)
    BY <2>1, <2>2 DEF HeldOf, Holds
  <2>4. HeldOf(b) # channel[a]
    BY <1>1, <1>2, AppletAssumption DEF HeldOf, Holds
  <2> QED BY <2>3, <2>4
<1>5. \/ HeldOf(a)' = 0 /\ card' = [card EXCEPT ![channel[a]] = Closed]
      \/ HeldOf(a)' = channel[a] /\ UNCHANGED card
      \/ HeldOf(a)' = 0 /\ UNCHANGED card /\ card[channel[a]] # Closed
  <2>1. CASE Executed(o)
    <3>1. /\ card' = [card EXCEPT ![channel[a]] = Closed]
          /\ owner'[channel[a]] = Nobody /\ Nobody # a
      BY <1>0, <1>1, <2>1, AppletAssumption DEF CardCloses, TypeOK
    <3>2. channel'[a] = channel[a] \/ ~isSelected'[a]
      BY <1>0 DEF CloseExchange, DestroyExchange, Vanish, TypeOK
    <3> QED BY <3>1, <3>2 DEF HeldOf, Holds
  <2>2. CASE ~Executed(o)
    <3>1. UNCHANGED <<card, owner>>
      BY <1>1, <2>2 DEF CardCloses
    <3>2. CASE CloseExchange(o)
      <4>1. isSelected'[a] /\ UNCHANGED <<channel, isBasic>>
        BY <1>0, <2>2, <3>2 DEF CloseExchange, Executed, TypeOK
      <4> QED BY <1>1, <1>2, <3>1, <4>1 DEF HeldOf, Holds
    <3>3. CASE DestroyExchange(o)
      <4>1. ~isSelected'[a]
        BY <1>0, <3>3 DEF DestroyExchange, Vanish, TypeOK
      <4> QED BY <1>2, <3>1, <4>1 DEF HeldOf, Holds
    <3> QED BY <3>2, <3>3
  <2> QED BY <2>1, <2>2
<1> QED BY <1>1, <1>3, <1>4, <1>5 DEF Busy

------------------------------------------------------------------------------
(* How many channels are left open.                                          *)

\* No channel is orphaned but by the loss of an exchange, one for one, or by the
\* death of the program, one for each object that uses logical channels.
OrphansGrow ==
  \/ Orphans' \subseteq Orphans /\ faults' >= faults /\ crashes' = crashes
  \/ /\ \E c \in Logical : Orphans' \subseteq Orphans \cup {c}
     /\ faults' = faults + 1 /\ crashes' = crashes
  \/ /\ Orphans' \subseteq Orphans \cup {channel[a] : a \in LogicalUsers}
     /\ faults' = faults /\ crashes' = crashes + 1

\* Every step: most exchanges orphan nothing, or end a channel altogether.
LEMMA StepOrphans ==
  ASSUME Disciplined, ChannelInv, ChannelInv', [Next]_vars
  PROVE  OrphansGrow
<1>0. /\ TypeOK /\ CallInv /\ UserInv /\ OrphansAre /\ OrphansAre'
      /\ faults \in Nat /\ crashes \in Nat
      /\ Orphans \subseteq Logical /\ Orphans' \subseteq Logical
  <2>1. OrphansAre /\ OrphansAre'
    BY OrphansNow, OrphansNext DEF ChannelInv
  <2> QED BY <2>1, AppletAssumption DEF ChannelInv, TypeOK, Orphans
<1>1. ASSUME NEW a \in Applets, Call(a) PROVE OrphansGrow
  <2>1. Orphans' \subseteq Orphans /\ faults' = faults /\ crashes' = crashes
    BY <1>0, <1>1, CallChannels DEF OrphansAre, Orphan
  <2> QED BY <1>0, <2>1 DEF OrphansGrow
<1>2. ASSUME NEW o \in Outcomes, Leg(o) PROVE OrphansGrow
  <2>1. /\ crashes' = crashes /\ faults' >= faults
        /\ o \in LinkFaults => faults' = faults + 1
    <3>1. Exchange(o) /\ crashes' = crashes
      BY <1>2
      DEF Leg, BasicExchange, OpenGranted, OpenFailed, LogicalExchange, UndoExchange,
          CloseExchange, DestroyExchange, TransmitExchange, SessionExchange
    <3> QED BY <1>0, <3>1 DEF Exchange
  <2>2. obj \in Applets
    BY <1>0 DEF TypeOK
  <2>3. ASSUME \/ Orphans' \subseteq Orphans
               \/ o \in LinkFaults /\ \E c \in Logical : Orphans' \subseteq Orphans \cup {c}
        PROVE  OrphansGrow
    BY <2>1, <2>3 DEF OrphansGrow
  <2>4. CASE \/ BasicExchange(o) \/ OpenFailed(o)
             \/ TransmitExchange(o) \/ SessionExchange(o)
    <3>1. Orphans' \subseteq Orphans
      BY <1>0, <2>4, QuietChannels DEF OrphansAre, Orphan
    <3> QED BY <2>3, <3>1
  <2>5. CASE OpenGranted(o)
    <3>1. PICK c \in Logical :
            /\ card[c] = Closed /\ card' = [card EXCEPT ![c] = Default]
            /\ \A b \in Applets : HeldOf(b)' = HeldOf(b) /\ HeldOf(b) # c
            /\ ~Busy
            /\ \/ o \notin LinkFaults /\ Busy' /\ channel'[obj'] = c
               \/ o \in LinkFaults /\ ~Busy'
      BY <2>5, OpenChannels
    <3>2. ASSUME NEW d \in Orphans', d # c PROVE d \in Orphans
      <4>1. card[d] = card'[d]
        BY <1>0, <3>1, <3>2 DEF TypeOK
      <4> QED BY <1>0, <3>1, <3>2, <4>1 DEF OrphansAre, Orphan
    <3>3. o \notin LinkFaults => c \notin Orphans'
      BY <1>0, <3>1 DEF OrphansAre, Orphan
    <3> QED BY <2>3, <3>2, <3>3
  <2>6. CASE LogicalExchange(o)
    <3>1. Orphans' \subseteq Orphans
      <4> SUFFICES ASSUME NEW d \in Logical, Orphan(d)' PROVE Orphan(d)
        BY <1>0 DEF OrphansAre
      <4>1. card[d] # Closed
        BY <2>2, <2>6, SelectChannels DEF Orphan
      <4>2. d # channel[obj]
        BY <2>2, <2>6, SelectChannels DEF Orphan
      <4>3. \A b \in Applets : HeldOf(b) # d
        BY <2>2, <2>6, SelectChannels, AppletAssumption DEF Orphan
      <4> QED BY <4>1, <4>2, <4>3 DEF Orphan
    <3> QED BY <2>3, <3>1
  <2>7. CASE UndoExchange(o)
    <3>c. PICK c : c = channel[obj]
      OBVIOUS
    <3>0. /\ c \in Logical
          /\ \A b \in Applets : HeldOf(b)' = HeldOf(b) /\ HeldOf(b) # c
          /\ Busy /\ ~Busy'
          /\ \/ card' = [card EXCEPT ![c] = Closed]
             \/ o \in LinkFaults /\ UNCHANGED card
      BY <2>7, <3>c, UndoChannels
    <3>n. card \in [Channels -> Aids \cup {Closed, Default}] /\ c \in Channels
      BY <1>0, <3>0 DEF TypeOK
    <3>1. ASSUME NEW d \in Logical, d # c, Orphan(d)' PROVE Orphan(d)
      <4>1. card'[d] = card[d]
        <5>1. d \in Channels
          BY AppletAssumption
        <5>2. card' = [card EXCEPT ![c] = Closed] \/ card' = card
          BY <3>0
        <5> QED BY <3>n, <3>1, <5>1, <5>2
      <4> QED BY <3>0, <3>c, <3>1, <4>1 DEF Orphan
    <3>2. o \notin LinkFaults => ~Orphan(c)'
      <4>1. o \notin LinkFaults => card'[c] = Closed
        BY <3>0, <3>n
      <4> QED BY <4>1 DEF Orphan
    <3> QED BY <1>0, <2>3, <3>0, <3>1, <3>2 DEF OrphansAre
  <2>8. CASE CloseExchange(o) \/ DestroyExchange(o)
    <3>c. PICK c : c = channel[obj]
      OBVIOUS
    <3>0. /\ ~Busy /\ ~Busy'
          /\ \A d \in Logical \ {c} :
               /\ card'[d] = card[d]
               /\ \A b \in Applets : HeldOf(b) = d => HeldOf(b)' = d
          /\ \/ card'[c] = Closed
             \/ UNCHANGED card /\ \A b \in Applets : HeldOf(b)' = HeldOf(b)
             \/ o \in LinkFaults
      BY <2>2, <2>8, <3>c, CloseChannels
    <3>1. \A d \in Logical : d # c /\ Orphan(d)' => Orphan(d)
      BY <3>0 DEF Orphan
    <3>2. o \notin LinkFaults /\ c \in Logical /\ Orphan(c)' => Orphan(c)
      BY <3>0 DEF Orphan
    <3> QED BY <1>0, <2>3, <3>1, <3>2 DEF OrphansAre
  <2> QED BY <1>2, <2>4, <2>5, <2>6, <2>7, <2>8 DEF Leg
<1>3. CASE Crash
  <2>1. UNCHANGED <<card, faults>> /\ crashes' = crashes + 1
    BY <1>3 DEF Crash, uicc
  <2>2. ASSUME NEW c \in Orphans', c \notin Orphans
        PROVE  c \in {channel[a] : a \in LogicalUsers}
    <3>1. c \in Logical /\ card[c] # Closed /\ ~Orphan(c)
      BY <1>0, <2>1, <2>2 DEF OrphansAre, Orphan
    <3>2. CASE Busy /\ channel[obj] = c
      BY <1>0, <3>2 DEF UserInv
    <3>3. CASE \E a \in Applets : HeldOf(a) = c
      BY <1>0, <3>1, <3>3, AppletAssumption DEF HeldOf, Holds, UserInv
    <3> QED BY <3>1, <3>2, <3>3 DEF Orphan
  <2> QED BY <2>1, <2>2 DEF OrphansGrow
<1>4. CASE UNCHANGED vars
  <2>1. Orphans' = Orphans /\ faults' = faults /\ crashes' = crashes
    BY <1>4 DEF vars, Orphans, Holds, Opening
  <2> QED BY <1>0, <2>1 DEF OrphansGrow
<1> QED BY <1>1, <1>2, <1>3, <1>4 DEF Next

\* The orphans are counted: each disjunct of OrphansGrow adds to the left side of
\* LeakBound at most what it adds to the right side.
LEMMA NextLeakBound ==
  ASSUME Disciplined, ChannelInv, ChannelInv', LeakBound, [Next]_vars
  PROVE  LeakBound'
<1> DEFINE N == Cardinality(LogicalUsers)
           Used == {channel[a] : a \in LogicalUsers}
<1>0. /\ faults \in Nat /\ crashes \in Nat /\ N \in Nat
      /\ faults' \in Nat /\ crashes' \in Nat
      /\ IsFiniteSet(LogicalUsers)
  BY AppletAssumption, FS_CardinalityType DEF ChannelInv, TypeOK
<1>1. /\ IsFiniteSet(Orphans) /\ IsFiniteSet(Orphans')
      /\ Cardinality(Orphans) \in Nat /\ Cardinality(Orphans') \in Nat
  <2>1. IsFiniteSet(Logical)
    BY FS_Interval, AppletAssumption
  <2>2. Orphans \in SUBSET Logical /\ Orphans' \in SUBSET Logical
    BY DEF Orphans
  <2> QED BY <2>1, <2>2, FS_Subset, FS_CardinalityType
<1>2. /\ IsFiniteSet(Used) /\ Cardinality(Used) \in Nat
      /\ Cardinality(Used) <= N
  <2> DEFINE f == [a \in LogicalUsers |-> channel[a]]
  <2>1. f \in Surjection(LogicalUsers, Used)
    BY DEF Surjection
  <2> QED BY <1>0, <2>1, FS_Surjection, FS_CardinalityType
<1> HIDE DEF N, Used
<1>3. OrphansGrow
  BY StepOrphans
<1>4. Cardinality(Orphans) <= faults + crashes * N /\ crashes * N \in Nat
  BY <1>0 DEF LeakBound, N
<1>5. CASE Orphans' \subseteq Orphans /\ faults' >= faults /\ crashes' = crashes
  <2>1. Cardinality(Orphans') <= Cardinality(Orphans)
    BY <1>1, <1>5, FS_Subset
  <2> QED BY <1>0, <1>1, <1>4, <1>5, <2>1 DEF LeakBound, N
<1>6. CASE /\ \E c \in Logical : Orphans' \subseteq Orphans \cup {c}
           /\ faults' = faults + 1 /\ crashes' = crashes
  <2>1. PICK c \in Logical : Orphans' \in SUBSET (Orphans \cup {c})
    BY <1>6
  <2>2. /\ IsFiniteSet(Orphans \cup {c})
        /\ Cardinality(Orphans \cup {c}) <= Cardinality(Orphans) + 1
    BY <1>1, FS_AddElement
  <2>3. Cardinality(Orphans') <= Cardinality(Orphans \cup {c})
    BY <2>1, <2>2, FS_Subset
  <2>4. Cardinality(Orphans \cup {c}) \in Nat
    BY <2>2, FS_CardinalityType
  <2> QED BY <1>0, <1>1, <1>4, <1>6, <2>2, <2>3, <2>4 DEF LeakBound, N
<1>7. CASE /\ Orphans' \subseteq Orphans \cup Used
           /\ faults' = faults /\ crashes' = crashes + 1
  <2>1. /\ IsFiniteSet(Orphans \cup Used)
        /\ Cardinality(Orphans \cup Used) <= Cardinality(Orphans) + N
    <3>1. /\ IsFiniteSet(Orphans \cup Used)
          /\ Cardinality(Orphans \cup Used) =
               Cardinality(Orphans) + Cardinality(Used) - Cardinality(Orphans \cap Used)
      BY <1>1, <1>2, FS_Union
    <3>2. Cardinality(Orphans \cap Used) \in Nat
      BY <1>1, FS_Intersection, FS_CardinalityType
    <3> QED BY <1>0, <1>1, <1>2, <3>1, <3>2
  <2>2. Cardinality(Orphans') <= Cardinality(Orphans \cup Used)
    BY <1>7, <2>1, FS_Subset
  <2>3. Cardinality(Orphans \cup Used) \in Nat
    BY <2>1, FS_CardinalityType
  <2>4. crashes' * N = crashes * N + N
    BY <1>0, <1>7
  <2> QED BY <1>0, <1>1, <1>4, <1>7, <2>1, <2>2, <2>3, <2>4 DEF LeakBound, N
<1> QED BY <1>3, <1>5, <1>6, <1>7 DEF OrphansGrow, Used

\* With disciplined callers, and however the link fails, a logical channel is left
\* open with nobody to close it only at the cost of an exchange the link lost or
\* of a death of the program; all other failures of select undo what it did
\* (Applet.cpp:113).
THEOREM LeaksAreBounded == ASSUME Disciplined PROVE Spec => []LeakBound
<1>1. Init => ChannelInv
  BY InitChannelInv
<1>2. ChannelInv /\ [Next]_vars => ChannelInv'
  BY NextChannelInv
<1>3. Init => LeakBound
  <2> SUFFICES ASSUME Init PROVE LeakBound
    OBVIOUS
  <2>1. Orphans = {}
    BY AppletAssumption DEF Init, Orphans
  <2> QED BY <2>1, FS_EmptySet, FS_CardinalityType, AppletAssumption DEF Init, LeakBound
<1>4. ChannelInv /\ ChannelInv' /\ LeakBound /\ [Next]_vars => LeakBound'
  BY NextLeakBound
<1> QED BY <1>1, <1>2, <1>3, <1>4, PTL DEF Spec

------------------------------------------------------------------------------
(* The pool.                                                                 *)

\* A channel the pool may hand out.
Free(c) == c \notin Orphans /\ \A b \in Applets : HeldOf(b) # c

\* Only what a holds changes.
OthersKeep(a) == \A b \in Applets \ {a} : HeldOf(b)' = HeldOf(b)

\* What a step has to show of HeldOf and Orphans to be no step of the pool ...
LEMMA PoolStutter ==
  ASSUME \A b \in Applets : HeldOf(b)' = HeldOf(b), Orphans' = Orphans
  PROVE  UNCHANGED (Pool!vars)
BY DEF Pool!vars, HeldOf

\* ... or to hand out a free channel, after a select that succeeded ...
LEMMA PoolAcquire ==
  ASSUME NEW a \in Applets, NEW c \in Logical, HeldOf(a) = 0, Free(c),
         HeldOf(a)' = c, OthersKeep(a), Orphans' = Orphans
  PROVE  Pool!Next
BY DEF Pool!Next, Pool!Acquire, Pool!Available, Pool!Nothing, HeldOf, Free, OthersKeep

\* ... or to take a channel back, after a close ...
LEMMA PoolRelease ==
  ASSUME NEW a \in Applets, HeldOf(a) # 0,
         HeldOf(a)' = 0, OthersKeep(a), Orphans' = Orphans
  PROVE  Pool!Next
BY DEF Pool!Next, Pool!Release, Pool!Nothing, HeldOf, OthersKeep

\* ... or to leave it open, when an object is destroyed and its close is lost ...
LEMMA PoolAbandon ==
  ASSUME NEW a \in Applets, HeldOf(a) # 0,
         HeldOf(a)' = 0, OthersKeep(a), Orphans' = Orphans \cup {HeldOf(a)}
  PROVE  Pool!Next
BY DEF Pool!Next, Pool!Abandon, Pool!Nothing, HeldOf, OthersKeep

\* ... or to leave open a channel no object got to hold ...
LEMMA PoolLeak ==
  ASSUME NEW c \in Logical, Free(c), \A b \in Applets : HeldOf(b)' = HeldOf(b),
         Orphans' = Orphans \cup {c}
  PROVE  Pool!Next
BY DEF Pool!Next, Pool!Leak, Pool!Available, HeldOf, Free

\* ... or to be the death of the program, with at most one select under way.
LEMMA PoolDie ==
  ASSUME NEW lost \in SUBSET {c \in Logical : Free(c)}, \A c, d \in lost : c = d,
         \A b \in Applets : HeldOf(b)' = 0,
         Orphans' = Orphans \cup lost
                      \cup {HeldOf(b) : b \in {a \in Applets : HeldOf(a) # 0}}
  PROVE  Pool!Next
<1>1. lost \in SUBSET {c \in Logical : Pool!Available(c)}
  BY DEF Pool!Available, HeldOf, Free
<1>2. Pool!Die
  BY <1>1 DEF Pool!Die, Pool!Holders, Pool!Nothing, HeldOf
<1> QED BY <1>2 DEF Pool!Next

\* The same channels are left open.
LEMMA SameOrphans ==
  ASSUME \A d \in Logical : d \in Orphans' <=> d \in Orphans
  PROVE  Orphans' = Orphans
<1>1. Orphans \subseteq Logical /\ Orphans' \subseteq Logical
  BY DEF Orphans
<1>2. \A d : d \in Orphans' <=> d \in Orphans
  BY <1>1
<1> HIDE DEF Orphans
<1> QED BY <1>2

\* Every step is one the pool allows, or changes neither what is held nor what is
\* left open.
LEMMA StepPool ==
  ASSUME GoodCallers, SafeInv, ChannelInv, ChannelInv', [Next]_vars, ~unseen'
  PROVE  Pool!Next \/ UNCHANGED (Pool!vars)
<1>0. /\ TypeOK /\ CallInv /\ OwnerInv /\ OrphansAre /\ OrphansAre' /\ Disciplined
      /\ SelectionInv /\ Orphans \subseteq Logical /\ Orphans' \subseteq Logical
      /\ card \in [Channels -> Aids \cup {Closed, Default}] /\ Logical \subseteq Channels
  <2>1. OrphansAre /\ OrphansAre'
    BY OrphansNow, OrphansNext DEF ChannelInv
  <2> QED
    BY <2>1, AppletAssumption DEF ChannelInv, SafeInv, GoodCallers, TypeOK, Orphans
<1>1. ASSUME NEW a \in Applets, Call(a) PROVE UNCHANGED (Pool!vars)
  <2>1. \A d \in Logical : Orphan(d)' <=> Orphan(d)
    BY <1>0, <1>1, CallChannels DEF Orphan
  <2>2. Orphans' = Orphans
    BY <1>0, <2>1, SameOrphans DEF OrphansAre
  <2> QED BY <1>0, <1>1, <2>2, CallChannels, PoolStutter
<1>2. ASSUME NEW o \in Outcomes, Leg(o)
      PROVE  Pool!Next \/ UNCHANGED (Pool!vars)
  <2>o. PICK a \in Applets : a = obj
    BY <1>0 DEF TypeOK
  <2>c. PICK c \in Channels : c = channel[a]
    BY <1>0 DEF TypeOK
  <2>1. CASE \/ BasicExchange(o) \/ OpenFailed(o)
             \/ TransmitExchange(o) \/ SessionExchange(o)
    <3>1. \A d \in Logical : Orphan(d)' <=> Orphan(d)
      BY <1>0, <2>1, QuietChannels DEF Orphan
    <3>2. Orphans' = Orphans
      BY <1>0, <3>1, SameOrphans DEF OrphansAre
    <3> QED BY <2>1, <3>2, QuietChannels, PoolStutter
  <2>2. CASE OpenGranted(o)
    <3>1. PICK d \in Logical :
            /\ card[d] = Closed /\ card' = [card EXCEPT ![d] = Default]
            /\ \A b \in Applets : HeldOf(b)' = HeldOf(b) /\ HeldOf(b) # d
            /\ ~Busy
            /\ \/ o \notin LinkFaults /\ Busy' /\ channel'[obj'] = d
               \/ o \in LinkFaults /\ ~Busy'
      BY <2>2, OpenChannels
    <3>2. Free(d) /\ d \notin Orphans
      BY <1>0, <3>1 DEF OrphansAre, Orphan, Free
    <3>3. ASSUME NEW e \in Logical, e # d PROVE e \in Orphans' <=> e \in Orphans
      <4>1. card'[e] = card[e]
        BY <1>0, <3>1, <3>3
      <4> QED BY <1>0, <3>1, <3>3, <4>1 DEF OrphansAre, Orphan
    <3>4. CASE o \notin LinkFaults /\ Busy' /\ channel'[obj'] = d
      <4>1. d \notin Orphans'
        BY <1>0, <3>4 DEF OrphansAre, Orphan
      <4>2. Orphans' = Orphans
        BY <3>2, <3>3, <4>1, SameOrphans
      <4> QED BY <3>1, <4>2, PoolStutter
    <3>5. CASE o \in LinkFaults /\ ~Busy'
      <4>1. card'[d] # Closed
        BY <1>0, <3>1 DEF Default, Closed
      <4>2. d \in Orphans'
        BY <1>0, <3>1, <3>5, <4>1 DEF OrphansAre, Orphan
      <4>3. Orphans' = Orphans \cup {d}
        BY <1>0, <3>3, <4>2
      <4> QED BY <3>1, <3>2, <4>3, PoolLeak
    <3> QED BY <3>1, <3>4, <3>5
  <2>3. CASE LogicalExchange(o)
    <3>1. /\ c \in Logical /\ card[c] # Closed
          /\ \A d \in Logical : card'[d] = Closed <=> card[d] = Closed
          /\ \A b \in Applets : HeldOf(b) # c
          /\ HeldOf(a) = 0 /\ Busy
          /\ \A b \in Applets \ {a} : HeldOf(b)' = HeldOf(b)
          /\ \/ HeldOf(a)' = c /\ ~Busy'
             \/ HeldOf(a)' = 0 /\ Busy' /\ channel'[obj'] = c
      BY <2>3, <2>o, <2>c, SelectChannels
    <3>2. c \notin Orphans /\ c \notin Orphans' /\ c # 0
      BY <1>0, <2>o, <2>c, <3>1 DEF OrphansAre, Orphan
    <3>3. ASSUME NEW d \in Logical, d # c PROVE Orphan(d)' <=> Orphan(d)
      <4>1. d # 0
        OBVIOUS
      <4>2. \A b \in Applets : HeldOf(b)' = d <=> HeldOf(b) = d
        BY <3>1, <3>3, <4>1
      <4> QED BY <2>o, <2>c, <3>1, <3>3, <4>2 DEF Orphan
    <3>4. Orphans' = Orphans
      BY <1>0, <3>2, <3>3, SameOrphans DEF OrphansAre
    <3>5. CASE HeldOf(a)' = c /\ ~Busy'
      BY <3>1, <3>2, <3>4, <3>5, PoolAcquire DEF Free, OthersKeep
    <3>6. CASE HeldOf(a)' = 0
      BY <3>1, <3>4, <3>6, PoolStutter
    <3> QED BY <3>1, <3>5, <3>6
  <2>4. CASE UndoExchange(o)
    <3>1. /\ c \in Logical /\ card[c] # Closed
          /\ \A b \in Applets : HeldOf(b)' = HeldOf(b) /\ HeldOf(b) # c
          /\ Busy /\ ~Busy'
          /\ card' = [card EXCEPT ![c] = Closed] \/ UNCHANGED card
      BY <2>4, <2>o, <2>c, UndoChannels
    <3>2. Free(c)
      BY <1>0, <2>o, <2>c, <3>1 DEF OrphansAre, Orphan, Free
    <3>3. ASSUME NEW d \in Logical, d # c PROVE d \in Orphans' <=> d \in Orphans
      <4>1. card'[d] = card[d]
        BY <1>0, <3>1, <3>3
      <4> QED BY <1>0, <2>o, <2>c, <3>1, <3>3, <4>1 DEF OrphansAre, Orphan
    <3>4. CASE card' = [card EXCEPT ![c] = Closed]
      <4>1. card'[c] = Closed
        BY <1>0, <3>1, <3>4
      <4>2. c \notin Orphans'
        BY <1>0, <3>1, <4>1 DEF OrphansAre, Orphan
      <4>3. Orphans' = Orphans
        BY <3>2, <3>3, <4>2, SameOrphans DEF Free
      <4> QED BY <3>1, <4>3, PoolStutter
    <3>5. CASE UNCHANGED card
      <4>1. c \in Orphans'
        BY <1>0, <3>1, <3>5 DEF OrphansAre, Orphan
      <4>2. Orphans' = Orphans \cup {c}
        BY <1>0, <3>3, <4>1
      <4> QED BY <3>1, <3>2, <4>2, PoolLeak
    <3> QED BY <3>1, <3>4, <3>5
  <2>5. CASE CloseExchange(o) \/ DestroyExchange(o)
    <3>1. /\ c \in Logical /\ HeldOf(a) = c /\ ~Busy /\ ~Busy'
          /\ \A b \in Applets \ {a} : HeldOf(b)' = HeldOf(b) /\ HeldOf(b) # c
          /\ \/ HeldOf(a)' = 0 /\ card' = [card EXCEPT ![c] = Closed]
             \/ HeldOf(a)' = c /\ UNCHANGED card
             \/ HeldOf(a)' = 0 /\ UNCHANGED card /\ card[c] # Closed
      BY <1>0, <2>5, <2>o, <2>c, BackedCloseChannels
    <3>2. c \notin Orphans /\ c # 0
      BY <1>0, <3>1 DEF OrphansAre, Orphan
    <3>3. ASSUME NEW d \in Logical, d # c PROVE d \in Orphans' <=> d \in Orphans
      <4>1. card'[d] = card[d] /\ d # 0
        <5>1. d \in Channels /\ d # 0
          BY AppletAssumption
        <5>2. card' = [card EXCEPT ![c] = Closed] \/ card' = card
          BY <3>1
        <5> QED BY <1>0, <3>3, <5>1, <5>2
      <4>2. \A b \in Applets : HeldOf(b)' = d <=> HeldOf(b) = d
        BY <3>1, <3>3, <4>1
      <4> QED BY <1>0, <3>1, <4>1, <4>2 DEF OrphansAre, Orphan
    <3>4. CASE HeldOf(a)' = 0 /\ card' = [card EXCEPT ![c] = Closed]
      <4>1. card'[c] = Closed
        BY <1>0, <3>1, <3>4
      <4>2. c \notin Orphans'
        BY <1>0, <3>1, <4>1 DEF OrphansAre, Orphan
      <4>3. Orphans' = Orphans
        BY <3>2, <3>3, <4>2, SameOrphans
      <4> QED BY <3>1, <3>2, <3>4, <4>3, PoolRelease DEF OthersKeep
    <3>5. CASE HeldOf(a)' = c /\ UNCHANGED card
      <4>1. c \notin Orphans'
        BY <1>0, <3>1, <3>5 DEF OrphansAre, Orphan
      <4>2. Orphans' = Orphans
        BY <3>2, <3>3, <4>1, SameOrphans
      <4>3. \A b \in Applets : HeldOf(b)' = HeldOf(b)
        BY <3>1, <3>5
      <4> QED BY <4>2, <4>3, PoolStutter
    <3>6. CASE HeldOf(a)' = 0 /\ UNCHANGED card /\ card[c] # Closed
      <4>1. \A b \in Applets : HeldOf(b)' # c
        BY <3>1, <3>2, <3>6
      <4>2. c \in Orphans'
        BY <1>0, <3>1, <3>6, <4>1 DEF OrphansAre, Orphan
      <4>3. Orphans' = Orphans \cup {c}
        BY <1>0, <3>3, <4>2
      <4> QED BY <3>1, <3>2, <3>6, <4>3, PoolAbandon DEF OthersKeep
    <3> QED BY <3>1, <3>4, <3>5, <3>6
  <2> QED BY <1>2, <2>1, <2>2, <2>3, <2>4, <2>5 DEF Leg
<1>3. CASE Crash
  <2>1. /\ UNCHANGED card /\ ~Busy' /\ unseen' = unseen
        /\ \A b \in Applets : HeldOf(b)' = 0
    BY <1>3 DEF Crash, Return, Busy, HeldOf, Holds, uicc, history
  <2> DEFINE lost == {c \in Logical : Busy /\ channel[obj] = c}
             kept == {HeldOf(b) : b \in {a \in Applets : HeldOf(a) # 0}}
  <2>2. lost \in SUBSET {c \in Logical : Free(c)} /\ \A c, d \in lost : c = d
    <3>1. ASSUME NEW c \in lost PROVE Free(c)
      <4>1. c \notin Orphans
        BY <1>0 DEF OrphansAre, Orphan
      <4>2. owner[c] = obj /\ ~isSelected[obj]
        BY <1>0 DEF CallInv, Busy
      <4>3. \A b \in Applets : HeldOf(b) # c
        BY <4>2 DEF HeldOf, Holds
      <4> QED BY <4>1, <4>3 DEF Free
    <3> QED BY <3>1
  <2>3. ASSUME NEW c \in kept PROVE c \in Logical /\ card[c] # Closed
    <3>1. PICK b \in Applets : HeldOf(b) # 0 /\ c = HeldOf(b)
      OBVIOUS
    <3>2. owner[c] = b /\ c = channel[b] /\ b # Nobody
      BY <3>1, AppletAssumption DEF HeldOf, Holds
    <3>3. c \in Logical
      BY <1>0, <3>1, <3>2, AppletAssumption DEF TypeOK
    <3> QED BY <1>0, <3>2, <3>3 DEF OwnerInv
  <2>4. ASSUME NEW c \in lost PROVE card[c] # Closed
    <3>1. owner[c] = obj /\ obj # Nobody
      BY <1>0, AppletAssumption DEF CallInv, Busy, TypeOK
    <3> QED BY <1>0, <3>1 DEF OwnerInv
  <2>5. ASSUME NEW c \in Logical
        PROVE  c \in Orphans' <=> c \in Orphans \/ c \in lost \/ c \in kept
    <3>1. c \in Orphans' <=> card[c] # Closed
      BY <1>0, <2>1 DEF OrphansAre, Orphan
    <3>2. c \in kept <=> \E b \in Applets : HeldOf(b) = c
      OBVIOUS
    <3>3. c \in Orphans <=> card[c] # Closed /\ c \notin lost /\ c \notin kept
      BY <1>0, <3>2 DEF OrphansAre, Orphan
    <3> QED BY <2>3, <2>4, <3>1, <3>3
  <2>6. Orphans' = Orphans \cup lost \cup kept
    BY <1>0, <2>3, <2>5
  <2> HIDE DEF lost
  <2> QED BY <2>1, <2>2, <2>6, PoolDie
<1>4. CASE UNCHANGED vars
  <2>1. /\ Orphans' = Orphans
        /\ \A b \in Applets : HeldOf(b)' = HeldOf(b)
    BY <1>4 DEF vars, Orphans, Opening, HeldOf, Holds
  <2> QED BY <2>1, PoolStutter
<1> QED BY <1>1, <1>2, <1>3, <1>4 DEF Next

\* The selection layer hands out the logical channels of the card like a pool, for
\* any number of objects, lost exchanges and crashes, up to the first close that
\* is executed unseen (Applet.cpp:136).
THEOREM ImplementsChannelPool == ASSUME GoodCallers PROVE Spec => ImplementsPool
<1>1. Init => Pool!Init
  <2> SUFFICES ASSUME Init PROVE Pool!Init
    OBVIOUS
  <2>1. Orphans = {}
    BY AppletAssumption DEF Init, Orphans
  <2>2. \A a \in Applets : ~Holds(a)
    BY DEF Init, Holds
  <2> QED BY <2>1, <2>2 DEF Pool!Init, Pool!Nothing
<1>2. Init => ChannelInv
  BY InitChannelInv
<1>3. ChannelInv /\ [Next]_vars => ChannelInv'
  BY NextChannelInv DEF GoodCallers
<1>4. SafeInv /\ ChannelInv /\ ChannelInv' /\ [Next]_vars =>
        [~unseen' => Pool!Next]_(Pool!vars)
  BY StepPool
<1> QED BY <1>1, <1>2, <1>3, <1>4, Safe, PTL DEF Spec, ImplementsPool
==============================================================================
