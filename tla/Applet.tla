------------------------------- MODULE Applet --------------------------------
(* The selection layer of the middleware, Applet.cpp: several Applet objects *)
(* of one host program share one SEInterface and, behind it, one UICC.  An   *)
(* object is selected over the basic channel (0) or over a logical channel   *)
(* it opens with MANAGE CHANNEL, sends its commands there, and closes the    *)
(* channel when it is deselected or destroyed.  The host program has one     *)
(* thread, so one call is in progress at a time; a call is a sequence of     *)
(* exchanges with the card and each exchange is one step here, with every    *)
(* outcome SEInterface::transmit and the status word can give it.            *)
EXTENDS FiniteSets, Integers

CONSTANTS
  Applets,       \* the Applet objects of the host program
  Aids,          \* the application identifiers
  AidOf,         \* AidOf[a]: the identifier object a was created with
  BasicUsers,    \* the objects their caller selects with select(true)
  LogicalUsers,  \* the objects their caller selects with select(false)
  MaxChannel,    \* the highest channel number of the UICC
  Outcomes,      \* the outcomes an exchange may have in this instance
  Disciplined,   \* callers select only what is not selected, and close the
                 \* sessions only of what is
  Sessions,      \* the sessions closeSessions closes (6 in the code)
  MaxFaults,     \* bound: exchanges the link loses
  MaxCrashes     \* bound: deaths of the host program

Channels == 0 .. MaxChannel
Logical  == 1 .. MaxChannel
Closed   == "closed"       \* a channel the UICC has not opened
Default  == "default"      \* an open channel on which no application is selected
Nobody   == "nobody"

(* The outcome of one exchange: answered with 9000; done and answered with   *)
(* 91xx, because the UICC also has a proactive command pending; refused with *)
(* an error status; or transmit reports a failure, the command lost on its   *)
(* way to the card, or executed and the answer lost on its way back.         *)
AllOutcomes == {"ok", "proactive", "refused", "cmdlost", "anslost"}

ASSUME AppletAssumption ==
  /\ MaxChannel \in 1 .. 3
  /\ Closed \notin Aids /\ Default \notin Aids /\ Nobody \notin Applets
  /\ AidOf \in [Applets -> Aids]
  /\ BasicUsers \subseteq Applets /\ LogicalUsers \subseteq Applets
  /\ IsFiniteSet(LogicalUsers)
  /\ Outcomes \subseteq AllOutcomes
  /\ Disciplined \in BOOLEAN
  /\ Sessions \in Nat \ {0} /\ MaxFaults \in Nat /\ MaxCrashes \in Nat

VARIABLES
  life,        \* "absent", "constructed" (_seiface is null) or "ready"
  channel,     \* _channel of each object
  isSelected,  \* _isSelected of each object
  isBasic,     \* _isBasic of each object
  pc,          \* the exchange the call in progress makes next, or "idle"
  obj,         \* the object of that call (the last one, when idle)
  leg,         \* the session closeSessions is at
  ret,         \* the value the last call returned
  card,        \* the UICC: what is selected on each channel, or Closed
  owner,       \* history: the object for which each open channel was opened
  served,      \* history: <<a, aid>>, the object and the application of the
               \* last command an application executed
  unseen,      \* history: a close was executed and its object kept its flag
  faults,      \* the exchanges lost so far
  crashes      \* the deaths of the host program so far

objects == <<life, channel, isSelected, isBasic>>
flags   == <<isSelected, isBasic>>
uicc    == <<card, owner>>
history == <<served, unseen>>
vars == <<life, channel, isSelected, isBasic, pc, obj, leg, ret, card, owner,
          served, unseen, faults, crashes>>

NoReturn(a) == [op |-> "none", obj |-> a, value |-> FALSE]

Init == /\ life = [a \in Applets |-> "absent"]
        /\ channel = [a \in Applets |-> 0]
        /\ isSelected = [a \in Applets |-> FALSE]
        /\ isBasic = [a \in Applets |-> FALSE]
        /\ pc = "idle" /\ obj \in Applets /\ leg = 0
        /\ ret = NoReturn(obj)
        /\ card = [c \in Channels |-> IF c = 0 THEN Default ELSE Closed]
        /\ owner = [c \in Channels |-> Nobody]
        /\ served = {} /\ unseen = FALSE
        /\ faults = 0 /\ crashes = 0

------------------------------------------------------------------------------
(* Exchanges and calls.                                                      *)

LinkFaults == {"cmdlost", "anslost"}
Executed(o) == o \in {"ok", "proactive", "anslost"}
Answered(o) == o \notin LinkFaults

Exchange(o) == /\ o \in Outcomes
               /\ faults' = IF o \in LinkFaults THEN faults + 1 ELSE faults
               /\ faults' <= MaxFaults

Begin(a, step) == /\ pc' = step
                  /\ obj' = a
                  /\ ret' = NoReturn(a)
                  /\ leg' = 0

Return(a, op, value) == /\ pc' = "idle"
                        /\ obj' = a
                        /\ ret' = [op |-> op, obj |-> a, value |-> value]
                        /\ leg' = 0

\* The object is freed: its fields go back to what the constructor sets.
Vanish(a) == /\ life' = [life EXCEPT ![a] = "absent"]
             /\ channel' = [channel EXCEPT ![a] = 0]
             /\ isSelected' = [isSelected EXCEPT ![a] = FALSE]
             /\ isBasic' = [isBasic EXCEPT ![a] = FALSE]

------------------------------------------------------------------------------
(* Constructor and init.                                                     *)

Construct(a) == /\ pc = "idle" /\ life[a] = "absent"
                /\ life' = [life EXCEPT ![a] = "constructed"]
                /\ Return(a, "construct", TRUE)
                /\ UNCHANGED <<channel, flags, uicc, history, faults, crashes>>

InitApplet(a) == /\ pc = "idle" /\ life[a] = "constructed"
                 /\ life' = [life EXCEPT ![a] = "ready"]
                 /\ Return(a, "init", TRUE)
                 /\ UNCHANGED <<channel, flags, uicc, history, faults, crashes>>

------------------------------------------------------------------------------
(* select(isBasic).  The code does not look at _isSelected: what a select    *)
(* does to an object that is already selected is in the model, and           *)
(* Disciplined says whether callers do it.                                   *)

SelectCalled(a) == /\ pc = "idle" /\ life[a] = "ready"
                   /\ Disciplined => ~isSelected[a]

SelectWithoutInterface(a) ==
  /\ pc = "idle" /\ life[a] = "constructed"
  /\ Return(a, "select", FALSE)
  /\ UNCHANGED <<objects, uicc, history, faults, crashes>>

SelectBasic(a) == /\ SelectCalled(a) /\ a \in BasicUsers
                  /\ channel' = [channel EXCEPT ![a] = 0]
                  /\ Begin(a, "select_basic")
                  /\ UNCHANGED <<life, flags, uicc, history, faults, crashes>>

SelectLogical(a) == /\ SelectCalled(a) /\ a \in LogicalUsers
                    /\ channel' = [channel EXCEPT ![a] = 1]
                    /\ Begin(a, "open")
                    /\ UNCHANGED <<life, flags, uicc, history, faults, crashes>>

SetSelected(a, basic) == /\ isSelected' = [isSelected EXCEPT ![a] = TRUE]
                         /\ isBasic' = [isBasic EXCEPT ![a] = basic]

\* What SELECT does at the card: a SELECT that fails leaves what was selected.
CardSelects(c, o) ==
  card' = IF Executed(o) THEN [card EXCEPT ![c] = AidOf[obj]] ELSE card

\* The status words select accepts on each kind of channel, once transmit has
\* reported success: 9000 and 61xx on both, 91xx on the basic channel only.
BasicAccepts(o) == o \in {"ok", "proactive"}

LogicalAccepts_AnyStatus(o) == o \in {"ok", "refused"}
LogicalAccepts(o) == o = "ok"

\* SELECT on the basic channel.
BasicExchange(o) ==
  /\ pc = "select_basic"
  /\ Exchange(o)
  /\ CardSelects(0, o)
  /\ \/ /\ BasicAccepts(o)
        /\ SetSelected(obj, TRUE)
        /\ Return(obj, "select", TRUE)
     \/ /\ ~BasicAccepts(o)
        /\ UNCHANGED flags
        /\ Return(obj, "select", FALSE)
  /\ UNCHANGED <<life, channel, owner, history, crashes>>

\* getResponse(&_channel) takes over the channel number the card chose.
OpenedChannel_NotRead(c) == 1
OpenedChannel(c) == c

\* MANAGE CHANNEL open: the card picks a channel, 9000 and 91xx are accepted.
OpenGranted(o) ==
  /\ pc = "open"
  /\ Exchange(o) /\ Executed(o)
  /\ \E c \in Logical :
       /\ card[c] = Closed
       /\ card' = [card EXCEPT ![c] = Default]
       /\ owner' = [owner EXCEPT ![c] = obj]
       /\ \/ /\ Answered(o)
             /\ channel' = [channel EXCEPT ![obj] = OpenedChannel(c)]
             /\ pc' = "select_logical"
             /\ UNCHANGED <<obj, leg, ret>>
          \/ /\ ~Answered(o)
             /\ UNCHANGED channel
             /\ Return(obj, "select", FALSE)
  /\ UNCHANGED <<life, flags, history, crashes>>

OpenFailed(o) ==
  /\ pc = "open"
  /\ Exchange(o) /\ ~Executed(o)
  /\ Return(obj, "select", FALSE)
  /\ UNCHANGED <<objects, uicc, history, crashes>>

\* SELECT on the opened channel; when it fails the channel is closed again.
LogicalExchange(o) ==
  /\ pc = "select_logical"
  /\ Exchange(o)
  /\ CardSelects(channel[obj], o)
  /\ \/ /\ LogicalAccepts(o)
        /\ SetSelected(obj, FALSE)
        /\ Return(obj, "select", TRUE)
     \/ /\ ~LogicalAccepts(o)
        /\ pc' = "undo"
        /\ UNCHANGED <<flags, obj, leg, ret>>
  /\ UNCHANGED <<life, channel, owner, history, crashes>>

\* The card closes an open channel, and refuses only when it is not open.
CardCloses(c, o) ==
  /\ IF card[c] = Closed THEN ~Executed(o) ELSE o # "refused"
  /\ card' = IF Executed(o) THEN [card EXCEPT ![c] = Closed] ELSE card
  /\ owner' = IF Executed(o) THEN [owner EXCEPT ![c] = Nobody] ELSE owner

\* MANAGE CHANNEL close after a SELECT that failed; its result is ignored.
UndoExchange(o) ==
  /\ pc = "undo"
  /\ Exchange(o)
  /\ CardCloses(channel[obj], o)
  /\ Return(obj, "select", FALSE)
  /\ UNCHANGED <<objects, history, crashes>>

------------------------------------------------------------------------------
(* deselect and the destructor.                                              *)

HasToClose_FlagSwapped(a) == isSelected[a] /\ isBasic[a] /\ channel[a] # 0
HasToClose(a) == isSelected[a] /\ ~isBasic[a] /\ channel[a] # 0

\* Nothing to close: not selected, selected on the basic channel, or (after a
\* reselect that failed) a logical selection whose channel was overwritten by 0.
DeselectLocally(a) ==
  /\ pc = "idle" /\ life[a] # "absent" /\ ~HasToClose(a)
  /\ isSelected' = [isSelected EXCEPT ![a] = @ /\ ~isBasic[a]]
  /\ Return(a, "deselect", isSelected'[a])
  /\ UNCHANGED <<life, channel, isBasic, uicc, history, faults, crashes>>

DeselectRemotely(a) ==
  /\ pc = "idle" /\ life[a] = "ready" /\ HasToClose(a)
  /\ Begin(a, "close")
  /\ UNCHANGED <<objects, uicc, history, faults, crashes>>

DestroyLocally(a) == /\ pc = "idle" /\ life[a] # "absent" /\ ~HasToClose(a)
                     /\ Vanish(a)
                     /\ Return(a, "destroy", TRUE)
                     /\ UNCHANGED <<uicc, history, faults, crashes>>

DestroyRemotely(a) ==
  /\ pc = "idle" /\ life[a] = "ready" /\ HasToClose(a)
  /\ Begin(a, "close_dtor")
  /\ UNCHANGED <<objects, uicc, history, faults, crashes>>

\* Only the answer 9000 to the close clears the flag.
StillSelected_NotCleared(o) == TRUE
StillSelected(o) == o # "ok"

\* MANAGE CHANNEL close; deselect returns the flag.
CloseExchange(o) ==
  /\ pc = "close"
  /\ Exchange(o)
  /\ CardCloses(channel[obj], o)
  /\ isSelected' = [isSelected EXCEPT ![obj] = StillSelected(o)]
  /\ unseen' = (unseen \/ (Executed(o) /\ o # "ok"))
  /\ Return(obj, "deselect", isSelected'[obj])
  /\ UNCHANGED <<life, channel, isBasic, served, crashes>>

DestroyExchange(o) ==
  /\ pc = "close_dtor"
  /\ Exchange(o)
  /\ CardCloses(channel[obj], o)
  /\ Vanish(obj)
  /\ Return(obj, "destroy", TRUE)
  /\ UNCHANGED <<history, crashes>>

------------------------------------------------------------------------------
(* transmit and closeSessions.                                               *)

Transmit(a) == /\ pc = "idle" /\ life[a] = "ready" /\ isSelected[a]
               /\ Begin(a, "transmit")
               /\ UNCHANGED <<objects, uicc, history, faults, crashes>>

TransmitUnselected(a) ==
  /\ pc = "idle" /\ life[a] # "absent" /\ ~isSelected[a]
  /\ Return(a, "transmit", FALSE)
  /\ UNCHANGED <<objects, uicc, history, faults, crashes>>

\* A command on the object's channel, executed by what is selected there.
CardServes(o) ==
  /\ Executed(o) => card[channel[obj]] # Closed
  /\ served' = IF Executed(o) THEN {<<obj, card[channel[obj]]>>} ELSE served

TransmitExchange(o) ==
  /\ pc = "transmit"
  /\ Exchange(o)
  /\ CardServes(o)
  /\ Return(obj, "transmit", Answered(o))
  /\ UNCHANGED <<objects, uicc, unseen, crashes>>

\* closeSessions checks neither the interface nor the flag.
CloseSessions(a) == /\ pc = "idle" /\ life[a] = "ready"
                    /\ Disciplined => isSelected[a]
                    /\ Begin(a, "sessions")
                    /\ UNCHANGED <<objects, uicc, history, faults, crashes>>

MoreSessions_OffByOne == leg < Sessions
MoreSessions == leg + 1 < Sessions

SessionExchange(o) ==
  /\ pc = "sessions"
  /\ Exchange(o)
  /\ CardServes(o)
  /\ \/ /\ MoreSessions
        /\ leg' = leg + 1
        /\ UNCHANGED <<pc, obj, ret>>
     \/ /\ ~MoreSessions
        /\ Return(obj, "sessions", TRUE)
  /\ UNCHANGED <<objects, uicc, unseen, crashes>>

------------------------------------------------------------------------------
(* The host program dies and is started again.  The modem and the UICC stay  *)
(* powered: the channels stay open, and the objects that knew them are gone. *)

Crash == /\ crashes < MaxCrashes
         /\ crashes' = crashes + 1
         /\ life' = [a \in Applets |-> "absent"]
         /\ channel' = [a \in Applets |-> 0]
         /\ isSelected' = [a \in Applets |-> FALSE]
         /\ isBasic' = [a \in Applets |-> FALSE]
         /\ Return(obj, "none", FALSE)
         /\ UNCHANGED <<uicc, history, faults>>

------------------------------------------------------------------------------

Select(a) == SelectWithoutInterface(a) \/ SelectBasic(a) \/ SelectLogical(a)
Deselect(a) == DeselectLocally(a) \/ DeselectRemotely(a)
Destroy(a) == DestroyLocally(a) \/ DestroyRemotely(a)

Call(a) == \/ Construct(a) \/ InitApplet(a) \/ Select(a) \/ Deselect(a)
           \/ Destroy(a) \/ Transmit(a) \/ TransmitUnselected(a)
           \/ CloseSessions(a)

Leg(o) == \/ BasicExchange(o) \/ OpenGranted(o) \/ OpenFailed(o)
          \/ LogicalExchange(o) \/ UndoExchange(o)
          \/ CloseExchange(o) \/ DestroyExchange(o)
          \/ TransmitExchange(o) \/ SessionExchange(o)

Next == \/ \E a \in Applets : Call(a)
        \/ \E o \in Outcomes : Leg(o)
        \/ Crash

Spec == Init /\ [][Next]_vars

------------------------------------------------------------------------------
(* Properties.                                                               *)

Steps == {"idle", "select_basic", "open", "select_logical", "undo", "close",
          "close_dtor", "transmit", "sessions"}
Ops == {"none", "construct", "init", "select", "deselect", "destroy",
        "transmit", "sessions"}

\* Every variable keeps its type, and one served command is remembered.
TypeOK ==
  /\ life \in [Applets -> {"absent", "constructed", "ready"}]
  /\ channel \in [Applets -> Channels]
  /\ isSelected \in [Applets -> BOOLEAN]
  /\ isBasic \in [Applets -> BOOLEAN]
  /\ pc \in Steps /\ obj \in Applets /\ leg \in 0 .. Sessions - 1
  /\ ret \in [op : Ops, obj : Applets, value : BOOLEAN]
  /\ card \in [Channels -> Aids \cup {Closed, Default}]
  /\ owner \in [Channels -> Applets \cup {Nobody}]
  /\ served \subseteq Applets \X (Aids \cup {Closed, Default})
  /\ unseen \in BOOLEAN
  /\ faults \in 0 .. MaxFaults /\ crashes \in 0 .. MaxCrashes

\* Object a is selected over a logical channel that was opened for it.
Holds(a) == isSelected[a] /\ ~isBasic[a] /\ owner[channel[a]] = a

\* A select or its undo is busy with a channel opened for object a.
Opening(a) == /\ obj = a /\ pc \in {"select_logical", "undo"}
              /\ owner[channel[a]] = a

Backed(a) == IF isBasic[a]
             THEN card[0] = AidOf[a]
             ELSE /\ owner[channel[a]] = a
                  /\ card[channel[a]] = AidOf[a]

\* isSelected tells the truth (Applet.h:61-66): as long as no close was executed
\* unseen, the channel of a selected object is open, was opened for this very
\* object, and has the object's application selected.  Commands, answers of
\* opens and selects, and whole host programs may have been lost meanwhile.
SelectionBacked == ~unseen => \A a \in Applets : isSelected[a] => Backed(a)

\* A command an object transmits is executed by the application the object was
\* created for (Applet.cpp:153-155), never by one of another object.
OwnAppletOnly == ~unseen => \A s \in served : s[2] = AidOf[s[1]]

Orphans == {c \in Logical : /\ card[c] # Closed
                            /\ \A a \in Applets :
                                 channel[a] = c => ~Holds(a) /\ ~Opening(a)}

\* Channels are scarce and select undoes what it did when it fails
\* (Applet.cpp:113): with disciplined callers each open channel nobody will
\* close is explained by an exchange of its own that the link lost, or by a
\* crash, which strands at most one channel of each object.
LeakBound ==
  Cardinality(Orphans) <= faults + crashes * Cardinality(LogicalUsers)

\* deselect, the destructor and the undo of select close the channel that was
\* opened for the object (Applet.cpp:122-124), never one of another object.
ClosesOwnChannel ==
  [][\A c \in Channels :
       card[c] # Closed /\ card'[c] = Closed /\ ~unseen => owner[c] = obj]_vars

\* The select layer implements the pool of channels it is used as, up to the
\* first close that is executed unseen (Applet.cpp:136): whatever is lost, opened
\* twice or stranded by a crash, each step is one the pool allows.
Pool == INSTANCE ChannelPool WITH
          Clients <- Applets, Pool <- Logical,
          held <- [a \in Applets |-> IF Holds(a) THEN channel[a] ELSE 0],
          leaked <- Orphans
ImplementsPool == Pool!Init /\ [][~unseen' => Pool!Next]_(Pool!vars)

\* isSelected tells the truth, whatever happened before (Applet.h:61-66).
IsSelectedTruthful == \A a \in Applets : isSelected[a] => Backed(a)
==============================================================================
