----------------------------- MODULE ChannelPool -----------------------------
(* What the selection layer (Applet.cpp) promises its callers about the      *)
(* logical channels of the UICC: a channel is held by at most one client, a  *)
(* client holds at most one, a client gives back the channel it holds and    *)
(* nobody else's.  A channel nobody will ever close again is leaked: it is   *)
(* no longer available, but it never comes to belong to two clients.         *)
EXTENDS FiniteSets, Integers

CONSTANTS Clients,  \* the Applet objects of the host program
          Pool      \* the logical channels the UICC can open, none of them 0

\* What a client holds when it holds no channel: the basic channel's number.
Nothing == 0

VARIABLES held,     \* held[a]: the channel client a holds, or Nothing
          leaked    \* the open channels that no client holds

vars == <<held, leaked>>

Available(c) == c \in Pool \ leaked /\ \A a \in Clients : held[a] # c

Holders == {a \in Clients : held[a] # Nothing}

Init == /\ held = [a \in Clients |-> Nothing]
        /\ leaked = {}

Acquire(a, c) == /\ held[a] = Nothing
                 /\ Available(c)
                 /\ held' = [held EXCEPT ![a] = c]
                 /\ UNCHANGED leaked

Release(a) == /\ held[a] # Nothing
              /\ held' = [held EXCEPT ![a] = Nothing]
              /\ UNCHANGED leaked

\* A client goes away without its channel having been closed.
Abandon(a) == /\ held[a] # Nothing
              /\ held' = [held EXCEPT ![a] = Nothing]
              /\ leaked' = leaked \cup {held[a]}

\* A channel is opened for a client that never learns of it, or cannot close it.
Leak(c) == /\ Available(c)
           /\ leaked' = leaked \cup {c}
           /\ UNCHANGED held

\* The host program dies: what was held stays open, and so may the one channel
\* a select was busy with.
Die == \E lost \in SUBSET {c \in Pool : Available(c)} :
         /\ \A c, d \in lost : c = d
         /\ held' = [a \in Clients |-> Nothing]
         /\ leaked' = leaked \cup lost \cup {held[a] : a \in Holders}

Next == \/ \E a \in Clients :
             \/ \E c \in Pool : Acquire(a, c)
             \/ Release(a)
             \/ Abandon(a)
        \/ \E c \in Pool : Leak(c)
        \/ Die

Spec == Init /\ [][Next]_vars
==============================================================================
