-------------------------- MODULE CallWidgetsProofs --------------------------
(***************************************************************************)
(* Theorems about what the user of CallLifecycle sees: the tabs, the       *)
(* ringing windows, the ringtone, the call log, and which calls are        *)
(* offered.  Most of these properties speak of a UI thread at rest, while  *)
(* the invariant has to say what is still on its way: WidgetsInv joins to  *)
(* every widget the messages that will put it right.                       *)
(*                                                                         *)
(* Effect names the few ways in which the actions change the slots and the *)
(* queue, so that each invariant about messages is shown once per way and  *)
(* not once per action; Past sums up what any step does to a call, which   *)
(* is all that the lemmas about the widgets use.                           *)
(***************************************************************************)
EXTENDS CallLifecycleProofs, FiniteSetTheorems

\* The messages of a queue.
In(q) == {q[i] : i \in 1..Len(q)}
-----------------------------------------------------------------------------
(* The slots.                                                              *)

Ended == {"disconnected", "reset"}

\* The party of a call is known from its first to its last message.
PartyKnown == \A c \in Calls : /\ inv[c] # "unused" => num[c] \in Numbers
                               /\ inv[c] = "unused" /\ ~crashed => num[c] = None
\* What is connected, lost or in a role stays what it is.
ConnEstablished == \A c \in conn : inv[c] \in {"confirmed"} \cup Ended
EndedEmpty      == \A c \in Calls : inv[c] \in Ended => data[c] = None \/ c \in lost
LostEnded       == \A c \in lost : inv[c] \in Ended
Roles           == /\ \A c \in Incoming : inv[c] # "calling"
                   /\ \A c \in Outgoing : inv[c] # "incoming"
\* The two threads are inside the callbacks of two calls.
Inside == /\ uiCall # None => /\ inv[uiCall] = "disconnected" /\ data[uiCall] = None
                              /\ uiCall \in Incoming \ (conn \cup lost)
          /\ wkCall # None => inv[wkCall] = "disconnected" /\ wkCall # uiCall

SlotsInv == PartyKnown /\ ConnEstablished /\ EndedEmpty /\ LostEnded /\ Roles /\ Inside

-----------------------------------------------------------------------------
(* The queue.                                                              *)

\* The messages after which a ringing window of their call is closed.
IsClosing(m) == m.type = "state" /\ m.st \in {"connecting", "confirmed", "disconnected"}
Finals   == {m \in Messages : IsFinal(m)}
Closings == {m \in Messages : IsClosing(m)}

\* What a message says about its call is true when the message is taken.
Faithful(m) ==
  /\ m.type \in WithData => m.data = m.call /\ (m.call \in hidden => IsFinal(m))
  /\ m.call \in Calls => inv[m.call] # "unused"
  /\ IsFinal(m) => /\ inv[m.call] \in Ended /\ m.call \notin lost
                   /\ m.code = "486" => m.call \notin conn
  /\ IsClosing(m) => ~Waiting(m.call)
  /\ m.type = "incoming" => /\ m.call \in Incoming \ (conn \cup lost)
                            /\ dlg[m.call] = "none"
                            /\ Waiting(m.call) \/ inv[m.call] \in Ended
  /\ m.type = "ringing" => m.call \in Incoming

Good == {m \in Messages : Faithful(m)}

\* Every message of q is in F or is followed by one of T about its call.
Covered(q, F, T) ==
  \A i \in 1..Len(q) : q[i] \in F \/
    \E j \in (i + 1)..Len(q) : q[j] \in T /\ q[j].call = q[i].call

\* A call that is over and not lost has its end behind every other message.
Going == {m \in Messages : m.type \in WithData /\ ~IsFinal(m)
                             => inv[m.call] \in Active \/ m.call \in lost}
\* A window is asked for while the call waits; or it will be closed, or the
\* request will not be granted.
Asking == {m \in Messages : m.type \in {"incoming", "ringing"} =>
             \/ Waiting(m.call)
             \/ m.type = "ringing" /\ inv[m.call] \in Ended /\ data[m.call] = None}

\* UM_ON_INCOMING_CALL is the first message about its call.
IncomingFirst(q) ==
  \A j \in 1..Len(q) : q[j].type = "incoming" =>
    \A i \in 1..(j - 1) : q[i].call # q[j].call

\* G, F and A stand for Good, Going and Asking, now or in the next state.
Ordered(q, G, F, A) ==
  /\ q \in Seq(Messages) /\ In(q) \subseteq G /\ IncomingFirst(q)
  /\ Covered(q, F, Finals) /\ Covered(q, A, Closings)

QueueInv == Ordered(queue, Good, Going, Asking)

-----------------------------------------------------------------------------
(* The widgets.                                                            *)

Queued(type, c) == \E m \in In(queue) : m.type = type /\ m.call = c
ClosingQueued(c) == \E m \in In(queue) : IsClosing(m) /\ m.call = c
NewsQueued(c) == \E m \in In(queue) : m.type = "state" /\ ~IsFinal(m) /\ m.call = c
EndIn(c)      == \E m \in In(queue) : IsFinal(m) /\ m.call = c

TabsInv == \A n \in Numbers : tabs[n] \in Calls =>
  /\ num[tabs[n]] = n /\ inv[tabs[n]] # "unused"
  /\ inv[tabs[n]] \in Active \/ EndIn(tabs[n]) \/ tabs[n] \in lost

DlgsInv == \A c \in Calls :
  /\ dlg[c] # "none" => c \in Incoming /\ inv[c] # "unused"
  /\ dlg[c] = "open" => Waiting(c) \/ ClosingQueued(c)
  /\ Waiting(c) => dlg[c] # "none" \/ Queued("incoming", c) \/ Queued("ringing", c)

\* A message that stops the ringtone unless another window is open.
Stops(m) == IsClosing(m) /\ m.call \in Incoming /\ (IsFinal(m) => m.call \notin conn)
RingtoneInv == sound = "ring" =>
  \/ OpenDlgs # {}
  \/ \E c \in Calls : Waiting(c) /\ Queued("ringing", c)
  \/ \E m \in In(queue) : Stops(m)

Alone(c) == \A d \in Calls \ {c} : num[d] # num[c]
ReachInv == \A c \in Calls :
  inv[c] \in {"connecting", "confirmed"} /\ c \notin ending /\ Alone(c) =>
    tabs[num[c]] = c \/ NewsQueued(c)

LogInv ==
  /\ \A c \in Calls : inv[c] = "unused" => log[c] = "none"
  /\ \A c \in Outgoing : log[c] \in {"out", "none"}
  /\ \A c \in Incoming : log[c] # "out"
  /\ \A c \in Calls : log[c] = "miss" => c \in ending \/ (c \notin conn /\ inv[c] \in Ended)
  /\ \A c \in hidden : log[c] # "in" /\ c \in Incoming
  /\ \A c \in Incoming \ (conn \cup hidden \cup lost) :
       inv[c] \in Ended => log[c] = "miss" \/ EndIn(c)

\* A call that waits without call waiting: the others are hung up.
OfferInv == ~CallWaiting => \A c, d \in Calls :
  Waiting(c) /\ Waiting(d) /\ c # d => c \in hung \/ d \in hung

WidgetsInv == SlotsInv /\ QueueInv /\ TabsInv /\ DlgsInv /\ RingtoneInv /\ ReachInv /\ LogInv
                /\ OfferInv

-----------------------------------------------------------------------------
(* Sequences.                                                              *)

LEMMA InTail ==
  ASSUME NEW q \in Seq(Messages), q # <<>>
  PROVE  /\ Tail(q) \in Seq(Messages) /\ Head(q) \in In(q) /\ Head(q) \in Messages
         /\ In(Tail(q)) \subseteq In(q) /\ In(q) \subseteq In(Tail(q)) \cup {Head(q)}
         /\ Len(Tail(q)) = Len(q) - 1 /\ Len(q) \in Nat \ {0} /\ Head(q) = q[1]
         /\ \A i \in 1..Len(Tail(q)) : Tail(q)[i] = q[i + 1]
<1>1. /\ Tail(q) \in Seq(Messages) /\ Head(q) \in Messages /\ Head(q) = q[1]
      /\ Len(Tail(q)) = Len(q) - 1 /\ Len(q) \in Nat \ {0}
      /\ \A i \in 1..Len(Tail(q)) : Tail(q)[i] = q[i + 1]
  BY HeadTailProperties, LenProperties, EmptySeq
<1>2. Head(q) \in In(q)
  BY <1>1 DEF In
<1>3. ASSUME NEW m \in In(Tail(q)) PROVE m \in In(q)
  <2>1. PICK i \in 1..Len(Tail(q)) : m = Tail(q)[i]
    BY <1>3 DEF In
  <2>2. i + 1 \in 1..Len(q) /\ m = q[i + 1]
    BY <1>1, <2>1
  <2>. QED  BY <2>2 DEF In
<1>4. ASSUME NEW m \in In(q), m # Head(q) PROVE m \in In(Tail(q))
  <2>1. PICK i \in 1..Len(q) : m = q[i]
    BY <1>4 DEF In
  <2>2. i # 1
    BY <1>1, <1>4, <2>1
  <2>3. i - 1 \in 1..Len(Tail(q)) /\ m = Tail(q)[i - 1]
    BY <1>1, <2>1, <2>2
  <2>. QED  BY <2>3 DEF In
<1>. QED  BY <1>1, <1>2, <1>3, <1>4

LEMMA InConcat ==
  ASSUME NEW q \in Seq(Messages), NEW s \in Seq(Messages)
  PROVE  /\ q \o s \in Seq(Messages) /\ In(q \o s) = In(q) \cup In(s)
         /\ Len(q \o s) = Len(q) + Len(s) /\ Len(q) \in Nat /\ Len(s) \in Nat
         /\ \A i \in 1..Len(q) : i \in 1..Len(q \o s) /\ (q \o s)[i] = q[i]
         /\ \A i \in 1..Len(s) : Len(q) + i \in 1..Len(q \o s) /\ (q \o s)[Len(q) + i] = s[i]
         /\ \A i \in 1..Len(q \o s) : i \in 1..Len(q) \/ \E k \in 1..Len(s) : i = Len(q) + k
<1>1. /\ q \o s \in Seq(Messages) /\ Len(q \o s) = Len(q) + Len(s)
      /\ Len(q) \in Nat /\ Len(s) \in Nat
      /\ \A i \in 1..(Len(q) + Len(s)) :
           (q \o s)[i] = IF i <= Len(q) THEN q[i] ELSE s[i - Len(q)]
  BY ConcatProperties, LenProperties
<1>2. \A i \in 1..Len(q) : i \in 1..Len(q \o s) /\ (q \o s)[i] = q[i]
  BY <1>1
<1>3. \A i \in 1..Len(s) : Len(q) + i \in 1..Len(q \o s) /\ (q \o s)[Len(q) + i] = s[i]
  BY <1>1
<1>4. ASSUME NEW i \in 1..Len(q \o s), i \notin 1..Len(q)
      PROVE  \E k \in 1..Len(s) : i = Len(q) + k
  <2>1. i - Len(q) \in 1..Len(s) /\ i = Len(q) + (i - Len(q))
    BY <1>1, <1>4
  <2>. QED  BY <2>1
<1>5. In(q) \cup In(s) \subseteq In(q \o s)
  BY <1>2, <1>3 DEF In
<1>6. In(q \o s) \subseteq In(q) \cup In(s)
  BY <1>2, <1>3, <1>4 DEF In
<1>. QED  BY <1>1, <1>2, <1>3, <1>4, <1>5, <1>6

LEMMA InOne == \A m \in Messages : <<m>> \in Seq(Messages) /\ In(<<m>>) = {m}
  BY DEF In

LEMMA InNone == <<>> \in Seq(Messages) /\ In(<<>>) = {}
  BY DEF In

\* The oldest message leaves an ordered queue.
LEMMA OrderedTail ==
  ASSUME NEW q, NEW G, NEW F, NEW A, Ordered(q, G, F, A), q # <<>>
  PROVE  /\ Ordered(Tail(q), G, F, A) /\ Head(q) \in G \cap Messages
         /\ \A m \in In(Tail(q)) : m.type = "incoming" => m.call # Head(q).call
         /\ Head(q) \in F \/ \E m \in In(Tail(q)) : m \in Finals /\ m.call = Head(q).call
         /\ Head(q) \in A \/ \E m \in In(Tail(q)) : m \in Closings /\ m.call = Head(q).call
<1>. DEFINE t == Tail(q)
<1>1. /\ q \in Seq(Messages) /\ In(q) \subseteq G /\ IncomingFirst(q)
      /\ Covered(q, F, Finals) /\ Covered(q, A, Closings)
  BY DEF Ordered
<1>2. /\ t \in Seq(Messages) /\ Head(q) \in In(q) /\ Head(q) \in Messages
      /\ In(t) \subseteq In(q) /\ Len(t) = Len(q) - 1 /\ Len(q) \in Nat \ {0} /\ Head(q) = q[1]
      /\ \A i \in 1..Len(t) : t[i] = q[i + 1]
  BY <1>1, InTail
<1>. HIDE DEF t
<1>3. \A i \in 1..Len(t) : i + 1 \in 1..Len(q) /\ t[i] = q[i + 1]
  BY <1>2
<1>4. IncomingFirst(t)
  <2>. SUFFICES ASSUME NEW j \in 1..Len(t), t[j].type = "incoming", NEW i \in 1..(j - 1)
                PROVE  t[i].call # t[j].call
    BY DEF IncomingFirst
  <2>1. i \in 1..Len(t) /\ i + 1 \in 1..((j + 1) - 1)
    BY <1>2
  <2>. QED  BY <1>1, <1>3, <2>1 DEF IncomingFirst
<1>5. ASSUME NEW E, NEW T, Covered(q, E, T)
      PROVE  /\ Covered(t, E, T)
             /\ q[1] \in E \/ \E m \in In(t) : m \in T /\ m.call = q[1].call
  <2>1. \A k \in 1..Len(q) : \A j \in (k + 1)..Len(q) : j - 1 \in k..Len(t) /\ t[j - 1] = q[j]
    BY <1>2
  <2>2. ASSUME NEW i \in 1..Len(t), t[i] \notin E
        PROVE  \E j \in (i + 1)..Len(t) : t[j] \in T /\ t[j].call = t[i].call
    <3>1. PICK j \in ((i + 1) + 1)..Len(q) : q[j] \in T /\ q[j].call = q[i + 1].call
      BY <1>3, <1>5, <2>2 DEF Covered
    <3>2. j - 1 \in (i + 1)..Len(t) /\ t[j - 1] = q[j]
      BY <1>2, <1>3, <2>1, <3>1
    <3>. QED  BY <1>3, <3>1, <3>2
  <2>3. ASSUME q[1] \notin E PROVE \E m \in In(t) : m \in T /\ m.call = q[1].call
    <3>1. PICK j \in (1 + 1)..Len(q) : q[j] \in T /\ q[j].call = q[1].call
      BY <1>2, <1>5, <2>3 DEF Covered
    <3>2. j - 1 \in 1..Len(t) /\ t[j - 1] = q[j]
      BY <1>2, <2>1, <3>1
    <3>. QED  BY <3>1, <3>2 DEF In
  <2>. QED  BY <2>2, <2>3 DEF Covered
<1>6. \A m \in In(t) : m.type = "incoming" => m.call # Head(q).call
  <2>. SUFFICES ASSUME NEW i \in 1..Len(t), t[i].type = "incoming"
                PROVE  t[i].call # q[1].call
    BY <1>2 DEF In
  <2>1. 1 \in 1..((i + 1) - 1)
    BY <1>2
  <2>. QED  BY <1>1, <1>3, <2>1 DEF IncomingFirst
<1>7. Ordered(t, G, F, A)
  BY <1>1, <1>2, <1>4, <1>5 DEF Ordered
<1>8. Head(q) \in G \cap Messages
  BY <1>1, <1>2
<1>9. Head(q) \in F \/ \E m \in In(t) : m \in Finals /\ m.call = Head(q).call
  BY <1>1, <1>2, <1>5
<1>10. Head(q) \in A \/ \E m \in In(t) : m \in Closings /\ m.call = Head(q).call
  BY <1>1, <1>2, <1>5
<1>. QED  BY <1>6, <1>7, <1>8, <1>9, <1>10 DEF t

\* Messages s come to the queue q, while the sets become H, F2 and A2.
LEMMA OrderedMore ==
  ASSUME NEW q, NEW G, NEW F, NEW A, Ordered(q, G, F, A),
         NEW s \in Seq(Messages), NEW H, NEW F2, NEW A2,
         In(q) \subseteq H, In(s) \subseteq H \cap F2 \cap A2,
         \A m \in In(s) : m.type = "incoming" =>
           Len(s) = 1 /\ \A k \in In(q) : k.call # m.call,
         \A m \in In(q) : m \in F => m \in F2 \/ \E k \in In(s) : k \in Finals /\ k.call = m.call,
         \A m \in In(q) : m \in A => m \in A2 \/ \E k \in In(s) : k \in Closings /\ k.call = m.call
  PROVE  Ordered(q \o s, H, F2, A2)
<1>. DEFINE r == q \o s
<1>1. /\ q \in Seq(Messages) /\ In(q) \subseteq G /\ IncomingFirst(q)
      /\ Covered(q, F, Finals) /\ Covered(q, A, Closings)
  BY DEF Ordered
<1>2. /\ r \in Seq(Messages) /\ In(r) = In(q) \cup In(s)
      /\ Len(r) = Len(q) + Len(s) /\ Len(q) \in Nat /\ Len(s) \in Nat
      /\ \A i \in 1..Len(q) : i \in 1..Len(r) /\ r[i] = q[i]
      /\ \A i \in 1..Len(s) : Len(q) + i \in 1..Len(r) /\ r[Len(q) + i] = s[i]
      /\ \A i \in 1..Len(r) : i \in 1..Len(q) \/ \E k \in 1..Len(s) : i = Len(q) + k
  BY <1>1, InConcat
<1>. HIDE DEF r
<1>3. IncomingFirst(r)
  <2>. SUFFICES ASSUME NEW j \in 1..Len(r), r[j].type = "incoming", NEW i \in 1..(j - 1)
                PROVE  r[i].call # r[j].call
    BY DEF IncomingFirst
  <2>1. CASE j \in 1..Len(q)
    <3>1. i \in 1..Len(q)  BY <1>2, <2>1
    <3>. QED  BY <1>1, <1>2, <2>1, <3>1 DEF IncomingFirst
  <2>2. CASE \E k \in 1..Len(s) : j = Len(q) + k
    <3>1. PICK k \in 1..Len(s) : j = Len(q) + k
      BY <2>2
    <3>2. r[j] = s[k] /\ s[k] \in In(s)
      BY <1>2, <3>1 DEF In
    <3>3. Len(s) = 1 /\ \A x \in In(q) : x.call # s[k].call
      BY <3>2
    <3>4. i \in 1..Len(q)
      BY <1>2, <3>1, <3>3
    <3>. QED  BY <1>2, <3>2, <3>3, <3>4 DEF In
  <2>. QED  BY <1>2, <2>1, <2>2
<1>4. ASSUME NEW E, NEW E2, NEW T, Covered(q, E, T), In(s) \subseteq E2,
             \A m \in In(q) : m \in E => m \in E2 \/ \E k \in In(s) : k \in T /\ k.call = m.call
      PROVE  Covered(r, E2, T)
  <2>. SUFFICES ASSUME NEW i \in 1..Len(r), r[i] \notin E2
                PROVE  \E j \in (i + 1)..Len(r) : r[j] \in T /\ r[j].call = r[i].call
    BY DEF Covered
  <2>1. i \in 1..Len(q) /\ r[i] = q[i]
    <3>1. ASSUME NEW k \in 1..Len(s), i = Len(q) + k PROVE FALSE
      <4>1. r[i] = s[k] /\ s[k] \in In(s)
        BY <1>2, <3>1 DEF In
      <4>. QED  BY <1>4, <4>1
    <3>. QED  BY <1>2, <3>1
  <2>2. CASE q[i] \in E
    <3>1. PICK x \in In(s) : x \in T /\ x.call = q[i].call
      BY <1>4, <2>1, <2>2 DEF In
    <3>2. PICK k \in 1..Len(s) : x = s[k]
      BY DEF In
    <3>3. Len(q) + k \in (i + 1)..Len(r) /\ r[Len(q) + k] = s[k]
      BY <1>2, <2>1
    <3>. QED  BY <2>1, <3>1, <3>2, <3>3
  <2>3. CASE q[i] \notin E
    <3>1. PICK j \in (i + 1)..Len(q) : q[j] \in T /\ q[j].call = q[i].call
      BY <1>4, <2>1, <2>3 DEF Covered
    <3>2. j \in (i + 1)..Len(r) /\ r[j] = q[j]
      BY <1>2, <2>1, <3>1
    <3>. QED  BY <2>1, <3>1, <3>2
  <2>. QED  BY <2>2, <2>3
<1>5. Covered(r, F2, Finals)
  BY <1>1, <1>4
<1>6. Covered(r, A2, Closings)
  BY <1>1, <1>4
<1>7. In(r) \subseteq H
  BY <1>2
<1>. QED  BY <1>2, <1>3, <1>5, <1>6, <1>7 DEF Ordered, r

-----------------------------------------------------------------------------
(* The ways in which the actions change the slots and the queue.           *)

\* Q is the queue before a callback reports the step: the messages that the
\* step found, but for the one that the UI thread took, and those that say
\* nothing new about their calls.
Ready(Q) ==
  /\ Ordered(Q, Good, Going, Asking)
  /\ \A m \in In(queue) : m \in In(Q) \/ (UiMessage /\ m = Current)
  /\ \A m \in In(Q) : m.type = "incoming" => dlg'[m.call] = "none"

\* No call changes its state.
Stay(Q) == UNCHANGED <<inv, num, conn, data, hidden, lost, uiCall, wkCall>> /\ queue' = Q

\* Call c enters the state st and goes on.
Advance(Q, c, st) ==
  /\ inv[c] \in Active \ {"confirmed"} /\ st \in {"early", "connecting", "confirmed"}
  /\ st = "confirmed" <=> inv[c] = "connecting"
  /\ c \in Incoming /\ st = "early" => Waiting(c)
  /\ st # "early" => \A m \in In(Q) : m.type = "incoming" => m.call # c
  /\ inv' = [inv EXCEPT ![c] = st]
  /\ conn' = IF st = "confirmed" THEN conn \cup {c} ELSE conn
  /\ \E code \in Codes : queue' = Q \o <<Msg("state", c, c, st, code)>>
  /\ UNCHANGED <<num, data, hidden, lost, uiCall, wkCall>>

\* Call c is over; the thread that ended it is inside the callback.
End(Q, c) ==
  /\ inv[c] \in Active
  /\ inv' = [inv EXCEPT ![c] = "disconnected"] /\ data' = [data EXCEPT ![c] = None]
  /\ \E code \in Codes : /\ code = "486" => Waiting(c)
                         /\ queue' = Q \o <<Msg("state", c, c, "disconnected", code)>>
  /\ \/ uiCall = None /\ Waiting(c) /\ uiCall' = c /\ wkCall' = wkCall
     \/ wkCall = None /\ wkCall' = c /\ uiCall' = uiCall
  /\ UNCHANGED <<num, conn, hidden, lost>>

\* Call c is over and nobody is told.
Vanish(Q, c) ==
  /\ inv[c] \in Active /\ ~Waiting(c)
  /\ inv' = [inv EXCEPT ![c] = "disconnected"] /\ lost' = lost \cup {c}
  /\ wkCall = None /\ wkCall' = c /\ queue' = Q
  /\ UNCHANGED <<num, conn, data, hidden, uiCall>>

\* Call c is offered to the user.
Offered(c) == \E n \in Numbers : IncomingOffered(c, n)

\* Call c begins.
Begin(Q, c) ==
  /\ inv[c] = "unused"
  /\ \E n \in Numbers : num' = [num EXCEPT ![c] = n]
  /\ data' = [data EXCEPT ![c] = c]
  /\ \/ /\ c \in Incoming /\ inv' = [inv EXCEPT ![c] = "incoming"]
        /\ Offered(c)
        /\ queue' = Q \o <<Msg("incoming", c, c, "incoming", "-")>>
     \/ /\ c \in Outgoing /\ inv' = [inv EXCEPT ![c] = "calling"]
        /\ queue' = Q \o <<Msg("state", c, c, "calling", "-")>>
  /\ UNCHANGED <<conn, hidden, lost, uiCall, wkCall, dlg>>

\* Call c is refused when it arrives.
Refuse(Q, c) ==
  /\ inv[c] = "unused" /\ c \in Incoming
  /\ \E n \in Numbers : num' = [num EXCEPT ![c] = n]
  /\ inv' = [inv EXCEPT ![c] = "reset"] /\ hidden' = hidden \cup {c}
  /\ \E code \in Codes : queue' = Q \o <<Msg("state", c, c, "disconnected", code)>>
  /\ UNCHANGED <<data, conn, lost, uiCall, wkCall>>

\* The slot of call c is reset.
Reset(Q, c) ==
  /\ inv' = [inv EXCEPT ![c] = "reset"] /\ data' = [data EXCEPT ![c] = None]
  /\ \/ c = uiCall /\ uiCall' = None /\ wkCall' = wkCall
     \/ c = wkCall /\ wkCall' = None /\ uiCall' = uiCall
  /\ queue' = Q
  /\ UNCHANGED <<num, conn, hidden, lost>>

\* The process dies when call c arrives.
Crash(Q, c) ==
  /\ inv[c] = "unused" /\ crashed'
  /\ \E n \in Numbers \cup {None} : num' = [num EXCEPT ![c] = n]
  /\ queue' = Q /\ UNCHANGED <<inv, conn, data, hidden, lost, uiCall, wkCall>>

Effect(Q) == \/ Stay(Q)
             \/ \E c \in Calls : \/ \E st \in States : Advance(Q, c, st)
                                 \/ End(Q, c) \/ Vanish(Q, c) \/ Begin(Q, c)
                                 \/ Refuse(Q, c) \/ Reset(Q, c) \/ Crash(Q, c)

\* What every step leaves of the past of call c.
Kept(c) ==
  /\ inv[c] # "unused" => inv'[c] # "unused" /\ num'[c] = num[c]
  /\ inv[c] \in Ended => inv'[c] \in Ended
  /\ inv'[c] \in Ended => inv[c] \in Ended \/ EndIn(c)' \/ c \in lost'
  /\ inv'[c] \in {"connecting", "confirmed"} =>
       inv[c] \in {"connecting", "confirmed"} \/ NewsQueued(c)'
  /\ Waiting(c) => Waiting(c)' \/ \E m \in In(queue)' : Stops(m)' /\ m.call = c
  /\ Waiting(c)' =>
       Waiting(c) \/ (inv[c] = "unused" /\ inv'[c] = "incoming" /\ Queued("incoming", c)')
  /\ c \in conn' => c \in conn \/ inv[c] = "connecting"
  /\ c \in hidden' => c \in hidden \/ (c \in Incoming /\ inv[c] = "unused")

\* and of the messages: only the UI thread takes one.
Past == /\ \A c \in Calls : Kept(c)
        /\ conn \subseteq conn' /\ hidden \subseteq hidden' /\ lost \subseteq lost'
        /\ \A m \in In(queue) : m \in In(queue)' \/ (UiMessage /\ m = Current)

Before == IInv /\ TypeOK' /\ SlotsInv /\ DlgsInv /\ ~crashed


\* The messages of Q, when the step adds message m or none.
LEMMA Adds ==
  ASSUME NEW Q, Ready(Q), NEW m \in Messages
  PROVE  /\ Q \in Seq(Messages) /\ In(Q) \subseteq Good
         /\ In(Q \o <<m>>) = In(Q) \cup {m}
  BY InConcat, InOne DEF Ready, Ordered

\* The queue after a step that adds no message.
LEMMA QueueKept ==
  ASSUME NEW Q, Ready(Q), queue' = Q,
         \A k \in In(Q) : k \in Good =>
           /\ k \in Good' /\ (k \in Going => k \in Going') /\ (k \in Asking => k \in Asking')
  PROVE  QueueInv'
<1>1. Ordered(Q, Good, Going, Asking) /\ Q \in Seq(Messages) /\ In(Q) \subseteq Good
  BY DEF Ready, Ordered
<1>2. Ordered(Q \o <<>>, Good', Going', Asking')
  <2>1. <<>> \in Seq(Messages) /\ In(<<>>) = {}
    BY InNone
  <2>. QED  BY <1>1, <2>1, OrderedMore
<1>3. Q \o <<>> = Q
  BY <1>1, ConcatEmptySeq
<1>. QED  BY <1>2, <1>3 DEF QueueInv

\* The queue after a step that adds message m about call c.
LEMMA QueueAdds ==
  ASSUME NEW Q, Ready(Q), NEW m \in Messages, queue' = Q \o <<m>>,
         m \in Good' /\ m \in Going' /\ m \in Asking',
         m.type = "incoming" => \A k \in In(Q) : k.call # m.call,
         \A k \in In(Q) : k \in Good =>
           /\ k \in Good'
           /\ k \in Going => k \in Going' \/ (m \in Finals /\ k.call = m.call)
           /\ k \in Asking => k \in Asking' \/ (m \in Closings /\ k.call = m.call)
  PROVE  QueueInv'
<1>1. Ordered(Q, Good, Going, Asking) /\ Q \in Seq(Messages) /\ In(Q) \subseteq Good
  BY DEF Ready, Ordered
<1>2. <<m>> \in Seq(Messages) /\ In(<<m>>) = {m} /\ Len(<<m>>) = 1
  BY InOne
<1>3. Ordered(Q \o <<m>>, Good', Going', Asking')
  <2>1. In(<<m>>) \subseteq Good' \cap Going' \cap Asking'
    BY <1>2
  <2>2. In(Q) \subseteq Good'
    BY <1>1
  <2>3. \A k \in In(<<m>>) : k.type = "incoming" =>
          Len(<<m>>) = 1 /\ \A x \in In(Q) : x.call # k.call
    BY <1>2
  <2>4. \A k \in In(Q) : k \in Going =>
          k \in Going' \/ \E x \in In(<<m>>) : x \in Finals /\ x.call = k.call
    BY <1>1, <1>2
  <2>5. \A k \in In(Q) : k \in Asking =>
          k \in Asking' \/ \E x \in In(<<m>>) : x \in Closings /\ x.call = k.call
    BY <1>1, <1>2
  <2>. HIDE DEF Good, Going, Asking
  <2>. QED  BY <1>1, <1>2, <2>1, <2>2, <2>3, <2>4, <2>5, OrderedMore
<1>. QED  BY <1>3 DEF QueueInv

LEMMA StayStep ==
  ASSUME Before, NEW Q, Ready(Q), Stay(Q)
  PROVE  SlotsInv' /\ QueueInv' /\ Past
<1>1. \A k \in In(Q) : k \in Good =>
        /\ k \in Good' /\ (k \in Going => k \in Going') /\ (k \in Asking => k \in Asking')
  BY DEF Stay, Ready, Good, Going, Asking, Faithful, Waiting
<1>2. QueueInv'
  BY <1>1, QueueKept DEF Stay
<1>3. SlotsInv'
  BY DEF Before, Stay, SlotsInv, PartyKnown, ConnEstablished, EndedEmpty, LostEnded, Roles,
     Inside
<1>4. Past
  BY DEF Ready, Stay, Past, Kept, Waiting, EndIn, Before
<1>. QED  BY <1>2, <1>3, <1>4

\* What the lemmas about a new state of call c need.
LEMMA ActiveCall ==
  ASSUME Before, NEW c \in Calls, inv[c] \in Active
  PROVE  /\ data[c] = c /\ c \notin hidden \cup lost /\ (c \in conn => inv[c] = "confirmed")
         /\ inv \in [Calls -> States] /\ data \in [Calls -> Calls \cup {None}]
         /\ c # uiCall /\ c # wkCall /\ c # None
  BY CallsAssumption
  DEF Before, IInv, TypeOK, UserData, ActiveOwns, HiddenIsOver, SlotsInv, LostEnded,
      ConnEstablished, Inside, Active, Ended

\* What a step may do to call x without making a message of Q about it untrue.
Follows(Q, x) ==
  /\ inv[x] # "unused" => inv'[x] # "unused" /\ (Waiting(x)' => Waiting(x))
  /\ inv[x] \in Ended => inv'[x] \in Ended
  /\ x \in conn' => x \in conn \/ inv[x] = "connecting"
  /\ x \in hidden' => x \in hidden \/ inv[x] = "unused"
  /\ x \in lost' => x \in lost \/ (inv[x] \in Active /\ ~Waiting(x))
  /\ Waiting(x) => \/ Waiting(x)' \/ inv'[x] \in Ended
                   \/ \A m \in In(Q) : m.type = "incoming" => m.call # x

LEMMA KeptMessages ==
  ASSUME Before, NEW Q, Ready(Q), \A x \in Calls : Follows(Q, x), NEW k \in In(Q)
  PROVE  /\ k \in Good' /\ k \in Messages
         /\ k.call \in Calls => inv[k.call] # "unused"
         /\ k.type \in {"state", "incoming", "media", "xfer", "ringing"} => k.call \in Calls
<1>1. /\ k \in Messages /\ Faithful(k)
      /\ k.type \in {"state", "incoming", "media", "xfer", "ringing"} => k.call \in Calls
      /\ k.type = "incoming" => dlg'[k.call] = "none"
  BY MessageFields DEF Good, Ready, Ordered, WithData
<1>2. k.type \in WithData => k.data = k.call /\ (k.call \in hidden' => IsFinal(k))
  BY <1>1 DEF Follows, Faithful, WithData
<1>3. k.call \in Calls => inv'[k.call] # "unused" /\ inv[k.call] # "unused"
  BY <1>1 DEF Follows, Faithful
<1>4. IsFinal(k) => /\ inv'[k.call] \in Ended /\ k.call \notin lost'
                    /\ k.code = "486" => k.call \notin conn'
  BY <1>1 DEF Follows, Faithful, IsFinal, Ended, Active
<1>5. IsClosing(k) => ~Waiting(k.call)'
  BY <1>1, <1>3 DEF Follows, Faithful, IsClosing
<1>6. k.type = "incoming" => /\ k.call \in Incoming \ (conn' \cup lost')
                             /\ dlg'[k.call] = "none"
                             /\ Waiting(k.call)' \/ inv'[k.call] \in Ended
  BY <1>1 DEF Follows, Faithful, Waiting, Ended, Active
<1>7. k.type = "ringing" => k.call \in Incoming
  BY <1>1 DEF Faithful
<1>. QED  BY <1>1, <1>2, <1>3, <1>4, <1>5, <1>6, <1>7 DEF Good, Faithful

LEMMA AdvanceStep ==
  ASSUME Before, NEW Q, Ready(Q), NEW c \in Calls, NEW st \in States, Advance(Q, c, st)
  PROVE  SlotsInv' /\ QueueInv' /\ Past
<1>. DEFINE M(k) == Msg("state", c, c, st, k)
<1>1. PICK code \in Codes : queue' = Q \o <<M(code)>>
  BY DEF Advance
<1>2. /\ M(code) \in Messages /\ M(code).type = "state" /\ M(code).call = c
      /\ M(code).data = c /\ M(code).st = st
  BY MessageTypes DEF Msg, WithData
<1>. DEFINE m == M(code)
<1>3. /\ data[c] = c /\ c \notin hidden \cup lost /\ c \notin conn
      /\ inv \in [Calls -> States] /\ c # uiCall /\ c # wkCall
      /\ inv[c] \in Active \ {"confirmed"}
      /\ inv'[c] = st /\ st \in {"early", "connecting", "confirmed"}
      /\ \A x \in Calls \ {c} : inv'[x] = inv[x] /\ (Waiting(x)' <=> Waiting(x))
      /\ Waiting(c)' => Waiting(c)
      /\ UNCHANGED <<num, data, hidden, lost, uiCall, wkCall>>
      /\ conn' \subseteq conn \cup {c}
  BY ActiveCall DEF Advance, Waiting
<1>4. ~IsFinal(m) /\ (IsClosing(m) <=> st # "early")
  BY <1>2, <1>3 DEF IsFinal, IsClosing
<1>. HIDE DEF M
<1>5. m \in Good' /\ m \in Going' /\ m \in Asking'
  BY <1>2, <1>3, <1>4 DEF Good, Going, Asking, Faithful, Active, Waiting
<1>6. ASSUME NEW k \in In(Q)
      PROVE  /\ k \in Good'
             /\ k \in Going => k \in Going'
             /\ k \in Asking => k \in Asking' \/ (m \in Closings /\ k.call = c)
  <2>1. \A x \in Calls : Follows(Q, x)
    BY <1>3 DEF Follows, Waiting, Active, Ended, Advance
  <2>2. /\ k \in Messages /\ k \in Good'
        /\ k.type \in {"state", "incoming", "media", "xfer", "ringing"} => k.call \in Calls
    BY <2>1, KeptMessages
  <2>3. k \in Going => k \in Going'
    BY <1>3, <2>2 DEF Going, WithData, Active
  <2>4. k \in Asking => k \in Asking' \/ (m \in Closings /\ k.call = c)
    BY <1>2, <1>3, <1>4, <2>2 DEF Asking, Closings, Waiting, Active, Ended
  <2>. QED  BY <2>2, <2>3, <2>4
<1>7. QueueInv'
  BY <1>1, <1>2, <1>4, <1>5, <1>6, QueueAdds
<1>8. SlotsInv'
  BY <1>3 DEF Before, Advance, SlotsInv, PartyKnown, ConnEstablished, EndedEmpty, LostEnded,
     Roles, Inside, Active, Ended
<1>9. m \in In(queue)' /\ In(Q) \subseteq In(queue)'
  BY <1>1, <1>2, Adds
<1>10. \A x \in Calls : Kept(x)
  <2>1. Kept(c)
    <3>1. Waiting(c) => Waiting(c)' \/ Stops(m)'
      BY <1>2, <1>3, <1>4 DEF Waiting, Stops
    <3>2. st \in {"connecting", "confirmed"} => NewsQueued(c)'
      BY <1>2, <1>4, <1>9 DEF NewsQueued
    <3>3. c \in conn' => inv[c] = "connecting"
      BY <1>3 DEF Advance
    <3>. QED  BY <1>2, <1>3, <1>9, <3>1, <3>2, <3>3 DEF Kept, Active, Ended
  <2>2. ASSUME NEW x \in Calls \ {c} PROVE Kept(x)
    BY <1>3, <2>2 DEF Kept
  <2>. QED  BY <2>1, <2>2
<1>. QED  BY <1>3, <1>7, <1>8, <1>9, <1>10 DEF Past, Ready, Advance

\* The slots when call c is over.
LEMMA SlotsOver ==
  ASSUME Before, NEW c \in Calls, inv[c] # "unused", inv'[c] \in Ended,
         \A x \in Calls \ {c} : inv'[x] = inv[x] /\ data'[x] = data[x],
         UNCHANGED <<num, conn>>, lost' \in {lost, lost \cup {c}},
         data'[c] = None \/ c \in lost'
  PROVE  (PartyKnown /\ ConnEstablished /\ EndedEmpty /\ LostEnded /\ Roles)'
<1>1. /\ PartyKnown /\ ConnEstablished /\ EndedEmpty /\ LostEnded /\ Roles
      /\ conn \subseteq Calls /\ lost \subseteq Calls /\ ~crashed
  BY DEF Before, SlotsInv, IInv, TypeOK
<1>2. PartyKnown'
  BY <1>1 DEF PartyKnown, Ended
<1>3. ConnEstablished'
  BY <1>1 DEF ConnEstablished, Ended
<1>4. EndedEmpty'
  BY <1>1 DEF EndedEmpty
<1>5. LostEnded'
  BY <1>1 DEF LostEnded
<1>6. Roles'
  BY <1>1 DEF Roles, Ended, Calls
<1>. QED  BY <1>2, <1>3, <1>4, <1>5, <1>6

\* The end of call c takes its object out of the slot and covers every message
\* about it with the final one.
LEMMA EndStep ==
  ASSUME Before, NEW Q, Ready(Q), NEW c \in Calls, End(Q, c)
  PROVE  SlotsInv' /\ QueueInv' /\ Past
<1>. DEFINE M(k) == Msg("state", c, c, "disconnected", k)
<1>1. PICK code \in Codes : (code = "486" => Waiting(c)) /\ queue' = Q \o <<M(code)>>
  BY DEF End
<1>2. /\ M(code) \in Messages /\ M(code).type = "state" /\ M(code).call = c
      /\ M(code).data = c /\ M(code).st = "disconnected" /\ M(code).code = code
  BY MessageTypes DEF Msg, WithData, States
<1>. DEFINE m == M(code)
<1>3. /\ data[c] = c /\ c \notin hidden \cup lost /\ (c \in conn => inv[c] = "confirmed")
      /\ inv \in [Calls -> States] /\ data \in [Calls -> Calls \cup {None}]
      /\ c # uiCall /\ c # wkCall /\ c # None
      /\ inv[c] \in Active /\ inv'[c] = "disconnected" /\ data'[c] = None
      /\ \A x \in Calls \ {c} : /\ inv'[x] = inv[x] /\ (Waiting(x)' <=> Waiting(x))
                              /\ data'[x] = data[x]
      /\ ~Waiting(c)'
      /\ UNCHANGED <<num, conn, hidden, lost>>
  BY ActiveCall DEF End, Waiting
<1>4. IsFinal(m) /\ IsClosing(m) /\ m \in Finals /\ m \in Closings
  BY <1>2 DEF IsFinal, IsClosing, Finals, Closings
<1>. HIDE DEF M
<1>5. m \in Good' /\ m \in Going' /\ m \in Asking'
  <2>1. code = "486" => c \notin conn
    BY <1>1, <1>3 DEF Waiting
  <2>. QED  BY <1>2, <1>3, <1>4, <2>1 DEF Good, Going, Asking, Faithful, Ended
<1>6. ASSUME NEW k \in In(Q)
      PROVE  /\ k \in Good'
             /\ k \in Going => k \in Going' \/ (m \in Finals /\ k.call = c)
             /\ k \in Asking => k \in Asking' \/ (m \in Closings /\ k.call = c)
  <2>1. \A x \in Calls : Follows(Q, x)
    BY <1>3 DEF Follows, Active, Ended
  <2>2. /\ k \in Messages /\ k \in Good'
        /\ k.type \in {"state", "incoming", "media", "xfer", "ringing"} => k.call \in Calls
    BY <2>1, KeptMessages
  <2>3. k \in Going => k \in Going' \/ (m \in Finals /\ k.call = c)
    BY <1>3, <1>4, <2>2 DEF Going, WithData
  <2>4. k \in Asking => k \in Asking' \/ (m \in Closings /\ k.call = c)
    BY <1>3, <1>4, <2>2 DEF Asking
  <2>. QED  BY <2>2, <2>3, <2>4
<1>7. QueueInv'
  BY <1>1, <1>2, <1>4, <1>5, <1>6, QueueAdds DEF IsFinal
<1>8. SlotsInv'
  <2>1. (PartyKnown /\ ConnEstablished /\ EndedEmpty /\ LostEnded /\ Roles)'
    BY <1>3, SlotsOver DEF Active, Ended
  <2>2. Inside'
    <3>1. uiCall \in Calls \cup {None} /\ wkCall \in Calls \cup {None} /\ Inside
      BY DEF Before, IInv, TypeOK, SlotsInv
    <3>2. CASE uiCall = None /\ Waiting(c) /\ uiCall' = c /\ wkCall' = wkCall
      BY <1>3, <3>1, <3>2 DEF Inside, Waiting
    <3>3. CASE wkCall = None /\ wkCall' = c /\ uiCall' = uiCall
      BY <1>3, <3>1, <3>3 DEF Inside
    <3>. QED  BY <3>2, <3>3 DEF End
  <2>. QED  BY <2>1, <2>2 DEF SlotsInv
<1>9. m \in In(queue)' /\ In(Q) \subseteq In(queue)'
  BY <1>1, <1>2, Adds
<1>10. \A x \in Calls : Kept(x)
  <2>1. Kept(c)
    <3>1. Waiting(c) => Stops(m)'
      BY <1>2, <1>3, <1>4 DEF Waiting, Stops
    <3>2. EndIn(c)'
      BY <1>2, <1>4, <1>9 DEF EndIn
    <3>. QED  BY <1>2, <1>3, <1>9, <3>1, <3>2 DEF Kept, Active, Ended
  <2>2. ASSUME NEW x \in Calls \ {c} PROVE Kept(x)
    BY <1>3, <2>2 DEF Kept
  <2>. QED  BY <2>1, <2>2
<1>. QED  BY <1>3, <1>7, <1>8, <1>9, <1>10 DEF Past, Ready

LEMMA VanishStep ==
  ASSUME Before, NEW Q, Ready(Q), NEW c \in Calls, Vanish(Q, c)
  PROVE  SlotsInv' /\ QueueInv' /\ Past
<1>1. /\ inv \in [Calls -> States] /\ c # uiCall /\ c # wkCall /\ c # None
      /\ inv[c] \in Active /\ inv'[c] = "disconnected" /\ ~Waiting(c) /\ ~Waiting(c)'
      /\ \A x \in Calls \ {c} : inv'[x] = inv[x] /\ (Waiting(x)' <=> Waiting(x))
      /\ UNCHANGED <<num, data, conn, hidden>> /\ lost' = lost \cup {c} /\ queue' = Q
      /\ c \in conn => inv[c] = "confirmed"
  BY ActiveCall DEF Vanish, Waiting
<1>2. QueueInv'
  <2>1. ASSUME NEW k \in In(Q)
        PROVE  /\ k \in Good'
               /\ k \in Going => k \in Going'
               /\ k \in Asking => k \in Asking'
    <3>1. \A x \in Calls : Follows(Q, x)
      BY <1>1 DEF Follows, Active, Ended
    <3>2. /\ k \in Messages /\ k \in Good'
          /\ k.type \in {"state", "incoming", "media", "xfer", "ringing"} => k.call \in Calls
      BY <3>1, KeptMessages
    <3>3. k \in Going => k \in Going'
      BY <1>1, <3>2 DEF Going, WithData
    <3>4. k \in Asking => k \in Asking'
      BY <1>1, <3>2 DEF Asking, Active, Ended
    <3>. QED  BY <3>2, <3>3, <3>4
  <2>. QED  BY <1>1, <2>1, QueueKept
<1>3. SlotsInv'
  <2>1. (PartyKnown /\ ConnEstablished /\ EndedEmpty /\ LostEnded /\ Roles)'
    BY <1>1, SlotsOver DEF Active, Ended
  <2>2. Inside'
    <3>1. uiCall \in Calls \cup {None} /\ Inside
      BY DEF Before, IInv, TypeOK, SlotsInv
    <3>. QED  BY <1>1, <3>1 DEF Inside, Vanish
  <2>. QED  BY <2>1, <2>2 DEF SlotsInv
<1>4. \A x \in Calls : Kept(x)
  BY <1>1 DEF Kept, Active, Ended
<1>. QED  BY <1>1, <1>2, <1>3, <1>4 DEF Past, Ready

LEMMA ResetStep ==
  ASSUME Before, NEW Q, Ready(Q), NEW c \in Calls, Reset(Q, c)
  PROVE  SlotsInv' /\ QueueInv' /\ Past
<1>1. /\ inv \in [Calls -> States] /\ data \in [Calls -> Calls \cup {None}] /\ c # None
      /\ inv[c] = "disconnected" /\ inv'[c] = "reset" /\ data'[c] = None
      /\ ~Waiting(c) /\ ~Waiting(c)'
      /\ \A x \in Calls \ {c} : /\ inv'[x] = inv[x] /\ (Waiting(x)' <=> Waiting(x))
                              /\ data'[x] = data[x]
      /\ UNCHANGED <<num, conn, hidden, lost>> /\ queue' = Q
  BY CallsAssumption DEF Reset, Waiting, Before, IInv, TypeOK, SlotsInv, Inside
<1>2. QueueInv'
  <2>1. ASSUME NEW k \in In(Q)
        PROVE  /\ k \in Good'
               /\ k \in Going => k \in Going'
               /\ k \in Asking => k \in Asking'
    <3>1. \A x \in Calls : Follows(Q, x)
      BY <1>1 DEF Follows, Active, Ended
    <3>2. /\ k \in Messages /\ k \in Good'
          /\ k.type \in {"state", "incoming", "media", "xfer", "ringing"} => k.call \in Calls
      BY <3>1, KeptMessages
    <3>3. k \in Going => k \in Going'
      BY <1>1, <3>2 DEF Going, WithData, Active
    <3>4. k \in Asking => k \in Asking'
      BY <1>1, <3>2 DEF Asking, Active, Ended
    <3>. QED  BY <3>2, <3>3, <3>4
  <2>. QED  BY <1>1, <2>1, QueueKept
<1>3. SlotsInv'
  <2>1. (PartyKnown /\ ConnEstablished /\ EndedEmpty /\ LostEnded /\ Roles)'
    BY <1>1, SlotsOver DEF Active, Ended
  <2>2. Inside'
    <3>1. uiCall \in Calls \cup {None} /\ wkCall \in Calls \cup {None} /\ Inside
      BY DEF Before, IInv, TypeOK, SlotsInv
    <3>. QED  BY <1>1, <3>1 DEF Inside, Reset
  <2>. QED  BY <2>1, <2>2 DEF SlotsInv
<1>4. \A x \in Calls : Kept(x)
  BY <1>1 DEF Kept, Active, Ended
<1>. QED  BY <1>1, <1>2, <1>3, <1>4 DEF Past, Ready

LEMMA CrashStep ==
  ASSUME Before, NEW Q, Ready(Q), NEW c \in Calls, Crash(Q, c)
  PROVE  SlotsInv' /\ QueueInv' /\ Past
<1>1. \A k \in In(Q) : k \in Good =>
        /\ k \in Good' /\ (k \in Going => k \in Going') /\ (k \in Asking => k \in Asking')
  BY DEF Crash, Ready, Good, Going, Asking, Faithful, Waiting
<1>2. QueueInv'
  BY <1>1, QueueKept DEF Crash
<1>3. SlotsInv'
  BY DEF Before, Crash, SlotsInv, PartyKnown, ConnEstablished, EndedEmpty, LostEnded, Roles,
     Inside, IInv, TypeOK
<1>4. Past
  BY DEF Ready, Crash, Past, Kept, Waiting, EndIn, Before, IInv, TypeOK
<1>. QED  BY <1>2, <1>3, <1>4

\* Nothing is known of a call before it begins.
LEMMA UnusedCall ==
  ASSUME Before, NEW c \in Calls, inv[c] = "unused"
  PROVE  /\ data[c] = None /\ c \notin hidden \cup lost \cup conn /\ num[c] = None
         /\ inv \in [Calls -> States] /\ data \in [Calls -> Calls \cup {None}]
         /\ num \in [Calls -> Numbers \cup {None}]
         /\ c # uiCall /\ c # wkCall /\ c # None /\ dlg[c] = "none"
<1>1. /\ data[c] = None /\ c \notin hidden \cup lost \cup conn /\ num[c] = None
      /\ inv \in [Calls -> States] /\ data \in [Calls -> Calls \cup {None}]
      /\ num \in [Calls -> Numbers \cup {None}]
      /\ c # None
  BY CallsAssumption
  DEF Before, IInv, TypeOK, UserData, UnusedFresh, HiddenIsOver, SlotsInv, LostEnded,
      ConnEstablished, PartyKnown, Ended
<1>2. c # uiCall /\ c # wkCall
  BY <1>1 DEF Before, SlotsInv, Inside
<1>3. dlg[c] = "none"
  BY DEF Before, DlgsInv
<1>. QED  BY <1>1, <1>2, <1>3

LEMMA BeginStep ==
  ASSUME Before, NEW Q, Ready(Q), NEW c \in Calls, Begin(Q, c)
  PROVE  SlotsInv' /\ QueueInv' /\ Past
<1>1. PICK n \in Numbers : num' = [num EXCEPT ![c] = n]
  BY DEF Begin
<1>2. PICK st \in {"incoming", "calling"} :
        \E t \in {"incoming", "state"} :
           /\ queue' = Q \o <<Msg(t, c, c, st, "-")>> /\ inv' = [inv EXCEPT ![c] = st]
           /\ st = "incoming" => c \in Incoming /\ Offered(c)
           /\ st = "calling" => c \in Outgoing
           /\ t = "incoming" <=> st = "incoming"
  BY DEF Begin
<1>3. PICK t \in {"incoming", "state"} :
           /\ queue' = Q \o <<Msg(t, c, c, st, "-")>> /\ inv' = [inv EXCEPT ![c] = st]
           /\ st = "incoming" => c \in Incoming /\ Offered(c)
           /\ st = "calling" => c \in Outgoing
           /\ t = "incoming" <=> st = "incoming"
  BY <1>2
<1>. DEFINE m == Msg(t, c, c, st, "-")
<1>4. /\ m \in Messages /\ m.type = t /\ m.call = c /\ m.data = c /\ m.st = st
      /\ queue' = Q \o <<m>>
  BY <1>3, MessageTypes DEF Msg, WithData, States, Codes
<1>5. /\ data[c] = None /\ c \notin hidden \cup lost \cup conn /\ num[c] = None
      /\ num'[c] = n /\ inv[c] = "unused" /\ inv'[c] = st /\ data'[c] = c
      /\ st \in Active /\ c # uiCall /\ c # wkCall /\ dlg'[c] = "none"
      /\ \A x \in Calls \ {c} : /\ inv'[x] = inv[x] /\ (Waiting(x)' <=> Waiting(x))
                              /\ data'[x] = data[x] /\ num'[x] = num[x]
      /\ ~Waiting(c) /\ (Waiting(c)' <=> t = "incoming")
      /\ UNCHANGED <<conn, hidden, lost, uiCall, wkCall>>
  BY <1>1, <1>3, UnusedCall DEF Begin, Waiting, Active, Calls
<1>6. ~IsFinal(m) /\ ~IsClosing(m)
  BY <1>3, <1>4 DEF IsFinal, IsClosing
<1>. HIDE DEF m
<1>7. m \in Good' /\ m \in Going' /\ m \in Asking'
  BY <1>3, <1>4, <1>5, <1>6 DEF Good, Going, Asking, Faithful, Active, Ended, WithData
<1>8. ASSUME NEW k \in In(Q)
      PROVE  /\ k \in Good' /\ k.call # c
             /\ k \in Going => k \in Going'
             /\ k \in Asking => k \in Asking'
  <2>1. \A x \in Calls : Follows(Q, x)
    BY <1>5 DEF Follows, Ended
  <2>2. /\ k \in Messages /\ k \in Good' /\ k.call # c
        /\ k.type \in {"state", "incoming", "media", "xfer", "ringing"} => k.call \in Calls
    BY <1>5, <2>1, KeptMessages
  <2>3. k \in Going => k \in Going'
    BY <1>5, <2>2 DEF Going, WithData
  <2>4. k \in Asking => k \in Asking'
    BY <1>5, <2>2 DEF Asking
  <2>. QED  BY <2>2, <2>3, <2>4
<1>9. QueueInv'
  BY <1>4, <1>7, <1>8, QueueAdds
<1>10. SlotsInv'
  <2>1. /\ PartyKnown /\ ConnEstablished /\ EndedEmpty /\ LostEnded /\ Roles /\ Inside
        /\ conn \subseteq Calls /\ lost \subseteq Calls /\ ~crashed
        /\ uiCall \in Calls \cup {None} /\ wkCall \in Calls \cup {None}
    BY DEF Before, SlotsInv, IInv, TypeOK
  <2>2. PartyKnown'
    BY <1>5, <2>1 DEF PartyKnown, Active
  <2>3. ConnEstablished' /\ EndedEmpty' /\ LostEnded'
    BY <1>5, <2>1 DEF ConnEstablished, EndedEmpty, LostEnded, Ended, Active
  <2>4. Roles'
    BY <1>3, <1>5, <2>1, CallsAssumption DEF Roles, Calls
  <2>5. Inside'
    BY <1>5, <2>1 DEF Inside
  <2>. QED  BY <2>2, <2>3, <2>4, <2>5 DEF SlotsInv
<1>11. m \in In(queue)' /\ In(Q) \subseteq In(queue)'
  BY <1>4, Adds
<1>12. \A x \in Calls : Kept(x)
  <2>1. Kept(c)
    <3>1. Waiting(c)' => Queued("incoming", c)'
      BY <1>4, <1>5, <1>11 DEF Queued
    <3>. QED  BY <1>3, <1>5, <3>1 DEF Kept, Active, Ended
  <2>2. ASSUME NEW x \in Calls \ {c} PROVE Kept(x)
    BY <1>5, <2>2 DEF Kept
  <2>. QED  BY <2>1, <2>2
<1>. QED  BY <1>5, <1>9, <1>10, <1>11, <1>12 DEF Past, Ready

LEMMA RefuseStep ==
  ASSUME Before, NEW Q, Ready(Q), NEW c \in Calls, Refuse(Q, c)
  PROVE  SlotsInv' /\ QueueInv' /\ Past
<1>1. PICK n \in Numbers : num' = [num EXCEPT ![c] = n]
  BY DEF Refuse
<1>. DEFINE M(k) == Msg("state", c, c, "disconnected", k)
<1>2. PICK code \in Codes : queue' = Q \o <<M(code)>>
  BY DEF Refuse
<1>. DEFINE m == M(code)
<1>3. /\ m \in Messages /\ m.type = "state" /\ m.call = c /\ m.data = c
      /\ m.st = "disconnected"
  BY MessageTypes DEF Msg, WithData, States
<1>4. /\ data[c] = None /\ c \notin hidden \cup lost \cup conn /\ num[c] = None
      /\ num'[c] = n /\ inv[c] = "unused" /\ inv'[c] = "reset" /\ data' = data
      /\ c \in Incoming /\ c # uiCall /\ c # wkCall
      /\ \A x \in Calls \ {c} : /\ inv'[x] = inv[x] /\ (Waiting(x)' <=> Waiting(x))
                              /\ num'[x] = num[x]
      /\ ~Waiting(c) /\ ~Waiting(c)'
      /\ UNCHANGED <<conn, lost, uiCall, wkCall>> /\ hidden' = hidden \cup {c}
  BY <1>1, UnusedCall DEF Refuse, Waiting
<1>5. IsFinal(m)
  BY <1>3 DEF IsFinal
<1>. HIDE DEF M
<1>6. m \in Good' /\ m \in Going' /\ m \in Asking'
  BY <1>3, <1>4, <1>5 DEF Good, Going, Asking, Faithful, Ended, WithData
<1>7. ASSUME NEW k \in In(Q)
      PROVE  /\ k \in Good' /\ k.call # c
             /\ k \in Going => k \in Going'
             /\ k \in Asking => k \in Asking'
  <2>1. \A x \in Calls : Follows(Q, x)
    BY <1>4 DEF Follows, Ended
  <2>2. /\ k \in Messages /\ k \in Good' /\ k.call # c
        /\ k.type \in {"state", "incoming", "media", "xfer", "ringing"} => k.call \in Calls
    BY <1>4, <2>1, KeptMessages
  <2>3. k \in Going => k \in Going'
    BY <1>4, <2>2 DEF Going, WithData
  <2>4. k \in Asking => k \in Asking'
    BY <1>4, <2>2 DEF Asking
  <2>. QED  BY <2>2, <2>3, <2>4
<1>8. QueueInv'
  BY <1>2, <1>3, <1>6, <1>7, QueueAdds
<1>9. SlotsInv'
  <2>1. /\ PartyKnown /\ ConnEstablished /\ EndedEmpty /\ LostEnded /\ Roles /\ Inside
        /\ conn \subseteq Calls /\ lost \subseteq Calls /\ ~crashed
        /\ uiCall \in Calls \cup {None} /\ wkCall \in Calls \cup {None}
    BY DEF Before, SlotsInv, IInv, TypeOK
  <2>2. PartyKnown'
    BY <1>4, <2>1 DEF PartyKnown
  <2>3. ConnEstablished' /\ EndedEmpty' /\ LostEnded'
    BY <1>4, <2>1 DEF ConnEstablished, EndedEmpty, LostEnded, Ended
  <2>4. Roles'
    BY <1>4, <2>1 DEF Roles, Calls
  <2>5. Inside'
    BY <1>4, <2>1 DEF Inside
  <2>. QED  BY <2>2, <2>3, <2>4, <2>5 DEF SlotsInv
<1>10. m \in In(queue)' /\ In(Q) \subseteq In(queue)'
  BY <1>2, <1>3, Adds
<1>11. \A x \in Calls : Kept(x)
  <2>1. Kept(c)
    <3>1. EndIn(c)'
      BY <1>3, <1>5, <1>10 DEF EndIn
    <3>. QED  BY <1>4, <3>1 DEF Kept, Ended
  <2>2. ASSUME NEW x \in Calls \ {c} PROVE Kept(x)
    BY <1>4, <2>2 DEF Kept
  <2>. QED  BY <2>1, <2>2
<1>. QED  BY <1>4, <1>8, <1>9, <1>10, <1>11 DEF Past, Ready

LEMMA EffectStep ==
  ASSUME Before, NEW Q, Ready(Q), Effect(Q)
  PROVE  SlotsInv' /\ QueueInv' /\ Past
  BY StayStep, AdvanceStep, EndStep, VanishStep, BeginStep, RefuseStep, ResetStep, CrashStep
  DEF Effect

-----------------------------------------------------------------------------
(* Every step has one of these effects.                                    *)

\* Every window stays as it is or is closed.
DlgQuiet == \A c \in Calls : dlg'[c] = dlg[c] \/ (dlg[c] = "open" /\ dlg'[c] = "closed")

LEMMA ReadyQueue ==
  ASSUME QueueInv, DlgQuiet
  PROVE  Ready(queue)
<1>1. ASSUME NEW m \in In(queue), m.type = "incoming" PROVE dlg'[m.call] = "none"
  <2>1. m \in Messages /\ dlg[m.call] = "none"
    BY <1>1 DEF QueueInv, Ordered, Good, Faithful
  <2>. QED  BY <1>1, <2>1, MessageFields DEF DlgQuiet, WithData
<1>. QED  BY <1>1 DEF Ready, QueueInv

\* What the UI thread knows of the message that it takes.
LEMMA Takes ==
  ASSUME QueueInv, queue # <<>>
  PROVE  /\ Ordered(Rest, Good, Going, Asking) /\ Rest \in Seq(Messages)
         /\ Current \in Messages /\ Faithful(Current) /\ Current \in In(queue)
         /\ In(queue) \subseteq In(Rest) \cup {Current} /\ In(Rest) \subseteq In(queue)
         /\ \A m \in In(Rest) : m.type = "incoming" => m.call # Current.call
         /\ Current \in Going \/ \E m \in In(Rest) : m \in Finals /\ m.call = Current.call
         /\ Current \in Asking \/ \E m \in In(Rest) : m \in Closings /\ m.call = Current.call
<1>1. Ordered(queue, Good, Going, Asking) /\ queue \in Seq(Messages)
  BY DEF QueueInv, Ordered
<1>2. /\ Ordered(Rest, Good, Going, Asking) /\ Current \in Good
      /\ \A m \in In(Rest) : m.type = "incoming" => m.call # Current.call
      /\ Current \in Going \/ \E m \in In(Rest) : m \in Finals /\ m.call = Current.call
      /\ Current \in Asking \/ \E m \in In(Rest) : m \in Closings /\ m.call = Current.call
  BY <1>1, OrderedTail DEF Rest, Current
<1>3. /\ Current \in Messages /\ Current \in In(queue) /\ Rest \in Seq(Messages)
      /\ In(queue) \subseteq In(Rest) \cup {Current} /\ In(Rest) \subseteq In(queue)
  BY <1>1, InTail DEF Rest, Current
<1>. QED  BY <1>2, <1>3 DEF Good

LEMMA ReadyRest ==
  ASSUME QueueInv, queue # <<>>, UiMessage, dlg \in [Calls -> {"none", "open", "closed"}],
         \/ DlgQuiet
         \/ dlg' = [dlg EXCEPT ![Current.call] = "open"]
  PROVE  Ready(Rest)
<1>1. ASSUME NEW m \in In(Rest), m.type = "incoming" PROVE dlg'[m.call] = "none"
  <2>1. m \in In(queue) /\ m.call # Current.call
    BY <1>1, Takes
  <2>2. m \in Messages /\ dlg[m.call] = "none"
    BY <1>1, <2>1 DEF QueueInv, Ordered, Good, Faithful
  <2>3. m.call \in Calls
    BY <1>1, <2>2, MessageFields DEF WithData
  <2>. QED  BY <2>1, <2>2, <2>3 DEF DlgQuiet
<1>. QED  BY <1>1, Takes DEF Ready

\* A message that says nothing new.
LEMMA ReadyMore ==
  ASSUME NEW Q, Ready(Q), NEW m \in Messages, Faithful(m), m \in Going, m \in Asking,
         m.type # "incoming"
  PROVE  Ready(Q \o <<m>>)
<1>1. Ordered(Q, Good, Going, Asking) /\ Q \in Seq(Messages) /\ In(Q) \subseteq Good
  BY DEF Ready, Ordered
<1>2. <<m>> \in Seq(Messages) /\ In(<<m>>) = {m} /\ In(Q \o <<m>>) = In(Q) \cup {m}
  BY InOne, Adds
<1>3. Ordered(Q \o <<m>>, Good, Going, Asking)
  <2>1. m \in Good
    BY DEF Good
  <2>2. In(<<m>>) \subseteq Good \cap Going \cap Asking
    BY <1>2, <2>1
  <2>3. \A k \in In(<<m>>) : k.type = "incoming" =>
          Len(<<m>>) = 1 /\ \A x \in In(Q) : x.call # k.call
    BY <1>2
  <2>. HIDE DEF Good, Going, Asking
  <2>. QED  BY <1>1, <1>2, <2>2, <2>3, OrderedMore
<1>. QED  BY <1>2, <1>3 DEF Ready

LEMMA ReadyNone == ASSUME NEW Q, Ready(Q) PROVE Ready(Q \o <<>>) /\ Q \o <<>> = Q
  BY ConcatEmptySeq DEF Ready, Ordered

LEMMA ReadyPlayerStop == ASSUME NEW Q, Ready(Q) PROVE Ready(Q \o <<PlayerStopMsg>>)
<1>. DEFINE m == PlayerStopMsg
<1>1. m \in Messages /\ m.type = "playerStop" /\ m.call = None /\ None \notin Calls
  BY MessageTypes, CallsAssumption DEF PlayerStopMsg, Msg
<1>. HIDE DEF m
<1>2. Faithful(m) /\ m \in Going /\ m \in Asking /\ m.type # "incoming"
  BY <1>1 DEF Faithful, Going, Asking, IsFinal, IsClosing, WithData
<1>3. Ready(Q \o <<m>>)
  BY <1>1, <1>2, ReadyMore
<1>. QED  BY <1>3 DEF m

LEMMA ReadyTone == ASSUME NEW Q, Ready(Q), NEW c, NEW k PROVE Ready(Q \o ToneMsgs(c, k))
  BY ReadyNone, ReadyPlayerStop DEF ToneMsgs

LEMMA ReadyAnswer ==
  ASSUME NEW Q, Ready(Q), NEW c \in Calls, inv[c] # "unused", NEW k \in Codes
  PROVE  Ready(Q \o <<Msg("answer", c, None, "unused", k)>>)
<1>. DEFINE M == Msg("answer", c, None, "unused", k)
<1>1. M \in Messages /\ M.type = "answer" /\ M.call = c
  BY MessageTypes DEF Msg
<1>2. Faithful(M) /\ M \in Going /\ M \in Asking
  BY <1>1 DEF Faithful, Going, Asking, IsFinal, IsClosing, WithData
<1>. QED  BY <1>1, <1>2, ReadyMore

LEMMA ReadyRefuse ==
  ASSUME NEW Q, Ready(Q), NEW c \in Calls, inv[c] # "unused", NEW st
  PROVE  Ready(Q \o RefuseMsgs(c, st))
  BY ReadyNone, ReadyAnswer DEF RefuseMsgs, Codes

\* The window is asked for while the call waits or when it is gone.
LEMMA ReadyRinging ==
  ASSUME NEW Q, Ready(Q), NEW c \in Incoming, NEW k \in Codes, inv[c] # "unused",
         Waiting(c) \/ (inv[c] \in Ended /\ data[c] = None)
  PROVE  Ready(Q \o <<Msg("ringing", c, None, "unused", k)>>)
<1>. DEFINE M == Msg("ringing", c, None, "unused", k)
<1>1. M \in Messages /\ M.type = "ringing" /\ M.call = c
  BY MessageTypes DEF Msg, Calls
<1>2. Faithful(M) /\ M \in Going /\ M \in Asking
  BY <1>1 DEF Faithful, Going, Asking, IsFinal, IsClosing, WithData
<1>. QED  BY <1>1, <1>2, ReadyMore

\* on_call_media_state and on_call_transfer_status report what the call is.
LEMMA ReadyNews ==
  ASSUME Before, NEW Q, Ready(Q), NEW c \in Calls, inv[c] \in Active, NEW k \in Codes,
         NEW t \in {"media", "xfer"}, NEW st \in States
  PROVE  Ready(Q \o <<Msg(t, c, c, st, k)>>)
<1>. DEFINE M == Msg(t, c, c, st, k)
<1>1. M \in Messages /\ M.type = t /\ M.call = c /\ M.data = c
  BY MessageTypes DEF Msg, WithData
<1>2. c \notin hidden /\ inv[c] # "unused"
  BY ActiveCall DEF Active
<1>3. Faithful(M) /\ M \in Going /\ M \in Asking
  BY <1>1, <1>2 DEF Faithful, Going, Asking, IsFinal, IsClosing, WithData
<1>. QED  BY <1>1, <1>3, ReadyMore

\* The callback on_call_state of an active call.
LEMMA Enters ==
  ASSUME Before, NEW c \in Calls, inv[c] \in Active, NEW st, NEW code,
         NEW rest, NEW first, EnterState(c, st, code, rest, first)
  PROVE  /\ inv' = [inv EXCEPT ![c] = st]
         /\ st # "disconnected" => data' = data
         /\ st = "disconnected" /\ code # "481" => data' = [data EXCEPT ![c] = None]
         /\ st # "disconnected" \/ code # "481" =>
              queue' = (rest \o first) \o <<Msg("state", c, c, st, code)>>
<1>1. data[c] = c /\ c \notin hidden /\ c # None /\ data \in [Calls -> Calls \cup {None}]
  BY ActiveCall
<1>. QED  BY <1>1 DEF EnterState, SlotData, StateMsgs, NotReported, IsHidden, Cell

\* A final answer in the UI thread.
LEMMA UiEnds ==
  ASSUME Before, NEW Q, Ready(Q), NEW c \in Calls, Waiting(c), uiCall = None,
         NEW code \in {"486", "other"}, NEW then, UiDisconnects(c, code, Q, then),
         UNCHANGED <<num, conn, hidden, wkCall, lost>>
  PROVE  End(Q, c)
<1>1. inv[c] \in Active /\ code \in Codes
  BY WaitingActive DEF Codes
<1>2. /\ inv' = [inv EXCEPT ![c] = "disconnected"] /\ data' = [data EXCEPT ![c] = None]
      /\ queue' = Q \o <<Msg("state", c, c, "disconnected", code)>>
  BY <1>1, Enters, ReadyNone DEF UiDisconnects
<1>. QED  BY <1>1, <1>2 DEF End, UiDisconnects

\* Answering a waiting call, which succeeds or does nothing.
LEMMA Answers ==
  ASSUME Before, NEW Q, Ready(Q), NEW c \in Calls, Waiting(c), Answer(c, Q),
         \A m \in In(Q) : m.type = "incoming" => m.call # c
  PROVE  Effect(Q)
<1>1. UNCHANGED <<num, conn, hidden, lost, uiCall, wkCall>>
  BY DEF Answer, pcVars
<1>2. CASE EnterState(c, "connecting", "200", Q, <<>>)
  <2>1. inv[c] \in Active \ {"confirmed", "connecting"} /\ "200" \in Codes
        /\ "connecting" \in States
    BY DEF Waiting, Active, Codes, States
  <2>2. /\ inv' = [inv EXCEPT ![c] = "connecting"] /\ data' = data
        /\ queue' = Q \o <<Msg("state", c, c, "connecting", "200")>>
    BY <1>2, <2>1, Enters, ReadyNone
  <2>3. Advance(Q, c, "connecting")
    BY <1>1, <2>1, <2>2 DEF Advance
  <2>. QED  BY <2>1, <2>3 DEF Effect
<1>3. CASE queue' = Q /\ UNCHANGED <<inv, data, heap>>
  BY <1>1, <1>3 DEF Effect, Stay
<1>. QED  BY <1>2, <1>3 DEF Answer

-----------------------------------------------------------------------------
(* One lemma per group of actions.                                         *)

\* The calls of the messages, as their handlers find them.
LEMMA MessageCall ==
  ASSUME Before, QueueInv, queue # <<>>
  PROVE  /\ Current.type \in WithData \cup {"ringing", "answer"} =>
              Current.call \in Calls /\ inv[Current.call] # "unused"
         /\ Current.type = "incoming" =>
              /\ Current.call \in Incoming
              /\ Waiting(Current.call) \/ (inv[Current.call] \in Ended /\ data[Current.call] = None)
<1>1. Current \in Messages /\ Faithful(Current)
  BY Takes
<1>2. Current.type \in WithData \cup {"ringing", "answer"} => Current.call \in Calls
  BY <1>1, MessageFields
<1>3. Current.call \in Calls => inv[Current.call] # "unused"
  BY <1>1 DEF Faithful
<1>4. ASSUME Current.type = "incoming"
      PROVE  /\ Current.call \in Incoming
             /\ Waiting(Current.call) \/ (inv[Current.call] \in Ended /\ data[Current.call] = None)
  <2>1. /\ Current.call \in Incoming \ lost
        /\ Waiting(Current.call) \/ inv[Current.call] \in Ended
    BY <1>1, <1>4 DEF Faithful
  <2>. QED  BY <2>1 DEF Before, SlotsInv, EndedEmpty, Calls
<1>. QED  BY <1>2, <1>3, <1>4

LEMMA UiMessageEffect ==
  ASSUME Before, QueueInv, UiMessage
  PROVE  \E Q : Ready(Q) /\ Effect(Q)
<1>. DEFINE c == Current.call
<1>1. queue # <<>> /\ uiCall = None
  BY DEF UiMessage, UiForwardNow, UiRing, UiCallState, UiCallEnd, UiMedia,
     UiTransferStatus, UiCreateRingingDlg, UiPlayerStop, UiAnswer, UiRefuse,
     UiAnswerTooLate, UiTakes, UiIdle
<1>2. /\ Current.type \in WithData \cup {"ringing", "answer"} =>
           c \in Calls /\ inv[c] # "unused"
      /\ Current.type = "incoming" =>
           c \in Incoming /\ (Waiting(c) \/ (inv[c] \in Ended /\ data[c] = None))
      /\ \A m \in In(Rest) : m.type = "incoming" => m.call # c
      /\ dlg \in [Calls -> {"none", "open", "closed"}] /\ Current.code \in Codes
  BY <1>1, MessageCall, Takes, MessageFields DEF Before, IInv, TypeOK
<1>3. ASSUME DlgQuiet PROVE Ready(Rest)
  BY <1>1, <1>2, <1>3, ReadyRest
<1>4. CASE UiForwardNow \/ UiRefuse
  <2>1. PICK code \in {"486", "other"} :
          UiDisconnects(c, code, Rest, "none") /\ Waiting(c) /\ UNCHANGED uiVars
          /\ UNCHANGED <<num, conn, hidden, wkCall, lost>>
    BY <1>4 DEF UiForwardNow, UiRefuse
  <2>2. Ready(Rest) /\ c \in Calls
    BY <1>3, <2>1 DEF DlgQuiet, uiVars, Waiting, Calls
  <2>3. End(Rest, c)
    BY <1>1, <2>1, <2>2, UiEnds
  <2>. QED  BY <2>2, <2>3 DEF Effect
<1>5. CASE UiRing
  <2>. DEFINE m == Msg("ringing", c, None, "unused", "-")
              Q == Rest \o <<m>>
  <2>1. Ready(Rest) /\ c \in Incoming /\ c \in Calls /\ "-" \in Codes /\ "180" \in Codes
        /\ inv[c] # "unused" /\ (Waiting(c) \/ (inv[c] \in Ended /\ data[c] = None))
    BY <1>2, <1>3, <1>5 DEF UiRing, UiTakes, DlgQuiet, WithData, Calls, Codes
  <2>2. Ready(Q)
    BY <2>1, ReadyRinging
  <2>3. UNCHANGED <<num, conn, hidden, lost, uiCall, wkCall>>
    BY <1>5 DEF UiRing, pcVars
  <2>4. CASE Waiting(c) /\ EnterState(c, "early", "180", Rest, <<m>>)
    <3>1. inv[c] \in Active \ {"confirmed", "connecting"} /\ "early" \in States
      BY <2>4 DEF Waiting, Active, States
    <3>2. /\ inv' = [inv EXCEPT ![c] = "early"] /\ data' = data
          /\ queue' = Q \o <<Msg("state", c, c, "early", "180")>>
      <4>. HIDE DEF m
      <4>1. data[c] = c /\ c \notin hidden /\ c # None /\ data \in [Calls -> Calls \cup {None}]
        BY <2>1, <3>1, ActiveCall
      <4>. QED
        BY <2>4, <4>1 DEF EnterState, SlotData, StateMsgs, NotReported, IsHidden, Cell
    <3>. HIDE DEF Q
    <3>3. Advance(Q, c, "early")
      BY <2>1, <2>3, <2>4, <3>1, <3>2 DEF Advance
    <3>. QED  BY <2>1, <2>2, <3>1, <3>3 DEF Effect
  <2>5. CASE queue' = Q /\ UNCHANGED <<inv, data, heap>>
    <3>. HIDE DEF Q
    <3>. QED  BY <2>2, <2>3, <2>5 DEF Effect, Stay
  <2>. QED  BY <1>5, <2>4, <2>5 DEF UiRing
<1>6. CASE UiCallState
  <2>. DEFINE Q == (Rest \o ToneMsgs(c, Current.code)) \o RefuseMsgs(c, Current.st)
  <2>1. queue' = Q /\ UNCHANGED <<inv, num, conn, data, hidden, lost, uiCall, wkCall>>
    BY <1>6 DEF UiCallState, pjsuaVars, heapVars, pcVars
  <2>2. DlgQuiet
    BY <1>2, <1>6 DEF UiCallState, UiTakes, CloseDlg, DlgQuiet, WithData
  <2>3. Ready(Q)
    BY <1>2, <1>3, <1>6, <2>2, ReadyTone, ReadyRefuse DEF UiCallState, UiTakes, WithData
  <2>. QED  BY <2>1, <2>3 DEF Effect, Stay
<1>7. CASE UiCallEnd
  <2>1. /\ queue' = Rest \o ToneMsgs(c, Current.code)
        /\ UNCHANGED <<inv, num, conn, data, hidden, lost, uiCall, wkCall>>
    BY <1>7 DEF UiCallEnd, pjsuaVars, pcVars
  <2>2. DlgQuiet
    BY <1>2, <1>7 DEF UiCallEnd, UiTakes, CloseDlg, DlgQuiet, WithData
  <2>3. Ready(queue')
    BY <1>3, <2>1, <2>2, ReadyTone
  <2>. QED  BY <2>1, <2>3 DEF Effect, Stay
<1>8. CASE UiMedia \/ UiTransferStatus
  <2>1. /\ queue' = Rest \o RefuseMsgs(c, Current.st) /\ UNCHANGED dlg
        /\ UNCHANGED <<inv, num, conn, data, hidden, lost, uiCall, wkCall>>
        /\ Current.type \in WithData
    BY <1>8 DEF UiMedia, UiTransferStatus, UiTakes, WithData, pjsuaVars, heapVars, pcVars
  <2>2. Ready(queue')
    BY <1>2, <1>3, <2>1, ReadyRefuse DEF DlgQuiet
  <2>. QED  BY <2>1, <2>2 DEF Effect, Stay
<1>9. CASE UiCreateRingingDlg \/ UiPlayerStop \/ UiAnswerTooLate
  <2>1. /\ queue' = Rest
        /\ UNCHANGED <<inv, num, conn, data, hidden, lost, uiCall, wkCall>>
        /\ dlg' \in {dlg, [dlg EXCEPT ![c] = "open"]}
    BY <1>9 DEF UiCreateRingingDlg, UiPlayerStop, UiAnswerTooLate, pjsuaVars, heapVars,
       uiVars, pcVars
  <2>2. Ready(Rest)
    BY <1>1, <1>2, <2>1, ReadyRest DEF DlgQuiet
  <2>. QED  BY <2>1, <2>2 DEF Effect, Stay
<1>10. CASE UiAnswer
  <2>1. Waiting(c) /\ c \in Calls /\ Answer(c, Rest) /\ UNCHANGED dlg
    BY <1>10 DEF UiAnswer, Answer, Waiting, Calls
  <2>2. Ready(Rest)
    BY <1>3, <2>1 DEF DlgQuiet
  <2>3. Effect(Rest)
    BY <1>2, <2>1, <2>2, Answers
  <2>. QED  BY <2>2, <2>3
<1>. QED
  BY <1>4, <1>5, <1>6, <1>7, <1>8, <1>9, <1>10 DEF UiMessage

LEMMA UserEffect ==
  ASSUME Before, QueueInv, User
  PROVE  \E Q : Ready(Q) /\ Effect(Q)
<1>1. ASSUME NEW c \in Outgoing, NEW n \in Numbers, MakeCall(c, n)
      PROVE  \E Q : Ready(Q) /\ Effect(Q)
  <2>1. c \in Calls /\ inv[c] = "unused" /\ c \notin hidden /\ c # None
        /\ data \in [Calls -> Calls \cup {None}]
    BY <1>1, UnusedCall DEF MakeCall, Calls
  <2>2. StateMsgs(c, c, "calling", "-") = <<Msg("state", c, c, "calling", "-")>>
    BY <2>1 DEF StateMsgs, NotReported, IsHidden, Cell
  <2>3. /\ queue' = queue \o <<Msg("state", c, c, "calling", "-")>>
        /\ inv' = [inv EXCEPT ![c] = "calling"] /\ data' = [data EXCEPT ![c] = c]
        /\ num' = [num EXCEPT ![c] = n]
        /\ UNCHANGED <<conn, hidden, lost, uiCall, wkCall, dlg>>
    BY <1>1, <2>2 DEF MakeCall, pcVars
  <2>4. Begin(queue, c)
    BY <2>1, <2>3 DEF Begin
  <2>5. Ready(queue)
    BY <2>3, ReadyQueue DEF DlgQuiet
  <2>. QED  BY <2>1, <2>4, <2>5 DEF Effect
<1>2. ASSUME NEW c \in Calls, CommandAnswer(c)
      PROVE  \E Q : Ready(Q) /\ Effect(Q)
  <2>. DEFINE m == Msg("answer", c, None, "unused", "200")
  <2>1. /\ UNCHANGED <<inv, num, conn, data, hidden, lost, uiCall, wkCall, dlg>>
        /\ queue' = Append(queue, m) /\ inv[c] # "unused" /\ "200" \in Codes
    BY <1>2 DEF CommandAnswer, pjsuaVars, heapVars, uiVars, pcVars, Waiting, Codes
  <2>2. Ready(queue) /\ queue \in Seq(Messages) /\ m \in Messages
    BY <2>1, ReadyQueue, MessageTypes DEF DlgQuiet, Ready, Ordered
  <2>3. queue' = queue \o <<m>>
    <3>. HIDE DEF m
    <3>. QED  BY <2>1, <2>2, QForms
  <2>4. Ready(queue \o <<m>>)
    BY <2>1, <2>2, ReadyAnswer
  <2>. HIDE DEF m
  <2>. QED  BY <2>1, <2>3, <2>4 DEF Effect, Stay
<1>3. ASSUME NEW c \in Calls, DlgAnswer(c)
      PROVE  \E Q : Ready(Q) /\ Effect(Q)
  <2>1. Waiting(c) /\ Answer(c, queue) /\ UNCHANGED dlg /\ dlg[c] = "open"
    BY <1>3 DEF DlgAnswer, Answer
  <2>2. Ready(queue)
    BY <2>1, ReadyQueue DEF DlgQuiet
  <2>3. \A m \in In(queue) : m.type = "incoming" => m.call # c
    BY <2>1 DEF QueueInv, Ordered, Good, Faithful
  <2>4. Effect(queue)
    BY <2>1, <2>2, <2>3, Answers
  <2>. QED  BY <2>2, <2>4
<1>4. ASSUME NEW c \in Calls, DlgDecline(c) \/ \E mark \in Marks : HangUpWaiting(c, mark)
      PROVE  \E Q : Ready(Q) /\ Effect(Q)
  <2>1. PICK code \in {"486", "other"}, then \in {"closeDlg", "endCall"} :
          UiDisconnects(c, code, queue, then) /\ Waiting(c) /\ uiCall = None
          /\ UNCHANGED <<num, conn, hidden, wkCall, lost, dlg>>
    BY <1>4 DEF DlgDecline, HangUpWaiting, UiIdle, uiVars
  <2>2. Ready(queue)
    BY <2>1, ReadyQueue DEF DlgQuiet
  <2>3. End(queue, c)
    BY <2>1, <2>2, UiEnds
  <2>. QED  BY <2>2, <2>3 DEF Effect
<1>5. ASSUME NEW c \in Calls, \/ DlgDeclineLate(c) \/ DlgIgnore(c) \/ HangUpFails(c)
                              \/ \E mark \in Marks : HangUp(c, mark)
      PROVE  \E Q : Ready(Q) /\ Effect(Q)
  <2>1. /\ UNCHANGED <<inv, num, conn, data, hidden, lost, uiCall, wkCall>> /\ queue' = queue
        /\ CloseDlg(c) \/ dlg' = dlg
    BY <1>5 DEF DlgDeclineLate, DlgIgnore, HangUpFails, HangUp, pjsuaVars, heapVars,
       uiVars, pcVars
  <2>2. dlg \in [Calls -> {"none", "open", "closed"}]
    BY DEF Before, IInv, TypeOK
  <2>3. Ready(queue)
    BY <2>1, <2>2, ReadyQueue DEF DlgQuiet, CloseDlg
  <2>. QED  BY <2>1, <2>3 DEF Effect, Stay
<1>. QED  BY <1>1, <1>2, <1>3, <1>4, <1>5 DEF User

LEMMA UiRestEffect ==
  ASSUME Before, QueueInv, UiResetCall \/ TimerForward \/ TimerTone \/ SoundEnds
  PROVE  \E Q : Ready(Q) /\ Effect(Q)
<1>0. /\ uiCall \in Calls \cup {None} /\ fwdCall \in Calls \cup {None}
      /\ dlg \in [Calls -> {"none", "open", "closed"}]
      /\ uiThen \in {"none", "endCall", "closeDlg", "fwdTimer"}
  BY DEF Before, IInv, TypeOK
<1>1. CASE UiResetCall
  <2>1. /\ uiCall \in Calls /\ queue' = queue /\ uiCall' = None
        /\ inv' = [inv EXCEPT ![uiCall] = "reset"] /\ data' = [data EXCEPT ![uiCall] = None]
        /\ UNCHANGED <<num, conn, hidden, lost, wkCall>>
    BY <1>0, <1>1 DEF UiResetCall, heapVars
  <2>2. CloseDlg(uiCall) \/ dlg' = dlg
    BY <1>0, <1>1 DEF UiResetCall
  <2>3. Ready(queue)
    BY <1>0, <2>1, <2>2, ReadyQueue DEF DlgQuiet, CloseDlg
  <2>4. Reset(queue, uiCall)
    BY <2>1 DEF Reset
  <2>. QED  BY <2>1, <2>3, <2>4 DEF Effect
<1>2. CASE TimerForward
  <2>1. UNCHANGED <<num, conn, hidden, dlg, wkCall, lost>> /\ uiCall = None
    BY <1>2 DEF TimerForward, UiIdle
  <2>2. Ready(queue)
    BY <2>1, ReadyQueue DEF DlgQuiet
  <2>3. CASE fwdCall # None /\ Waiting(fwdCall)
             /\ UiDisconnects(fwdCall, "other", queue, "fwdTimer")
    <3>1. fwdCall \in Calls
      BY <1>0, <2>3
    <3>2. End(queue, fwdCall)
      BY <2>1, <2>2, <2>3, <3>1, UiEnds
    <3>. QED  BY <2>2, <3>1, <3>2 DEF Effect
  <2>4. CASE UNCHANGED <<inv, data, heap, queue, uiCall, uiThen>>
    BY <2>1, <2>2, <2>4 DEF Effect, Stay
  <2>. QED  BY <1>2, <2>3, <2>4 DEF TimerForward
<1>3. CASE TimerTone
  <2>1. UNCHANGED <<inv, num, conn, data, hidden, lost, uiCall, wkCall, queue, dlg>>
    BY <1>3 DEF TimerTone, pjsuaVars, heapVars, pcVars
  <2>2. Ready(queue)
    BY <2>1, ReadyQueue DEF DlgQuiet
  <2>. QED  BY <2>1, <2>2 DEF Effect, Stay
<1>4. CASE SoundEnds
  <2>1. /\ UNCHANGED <<inv, num, conn, data, hidden, lost, uiCall, wkCall, dlg>>
        /\ queue' = Append(queue, PlayerStopMsg)
    BY <1>4 DEF SoundEnds, pjsuaVars, heapVars, pcVars
  <2>2. Ready(queue)
    BY <2>1, ReadyQueue DEF DlgQuiet
  <2>3. queue' = queue \o <<PlayerStopMsg>>
    BY <2>1, <2>2, MessageTypes, QForms DEF Ready, Ordered
  <2>. QED  BY <2>1, <2>2, <2>3, ReadyPlayerStop DEF Effect, Stay
<1>. QED  BY <1>1, <1>2, <1>3, <1>4

LEMMA WorkerEffect ==
  ASSUME Before, QueueInv, Worker
  PROVE  \E Q : Ready(Q) /\ Effect(Q)
<1>0. queue \in Seq(Messages)
  BY DEF QueueInv, Ordered
<1>1. ASSUME NEW c \in Incoming, NEW n \in Numbers, IncomingOffered(c, n)
      PROVE  \E Q : Ready(Q) /\ Effect(Q)
  <2>. DEFINE m == Msg("incoming", c, c, "incoming", "-")
  <2>1. c \in Calls /\ inv[c] = "unused"
    BY <1>1 DEF IncomingOffered, ArrivesAt, Calls
  <2>2. /\ inv' = [inv EXCEPT ![c] = "incoming"] /\ data' = [data EXCEPT ![c] = c]
        /\ num' = [num EXCEPT ![c] = n] /\ queue' = Append(queue, m)
        /\ UNCHANGED <<conn, hidden, lost, uiCall, wkCall, dlg>>
    BY <1>1 DEF IncomingOffered, ArrivesAt, pcVars
  <2>3. m \in Messages
    BY <2>1, MessageTypes DEF WithData, States, Codes
  <2>4. queue' = queue \o <<m>>
    <3>. HIDE DEF m
    <3>. QED  BY <1>0, <2>2, <2>3, QForms
  <2>5. Begin(queue, c)
    BY <1>1, <2>1, <2>2, <2>4 DEF Begin, Offered
  <2>6. Ready(queue)
    BY <2>2, ReadyQueue DEF DlgQuiet
  <2>. QED  BY <2>1, <2>5, <2>6 DEF Effect
<1>2. ASSUME NEW c \in Incoming, NEW n \in Numbers, IncomingRefused(c, n)
      PROVE  \E Q : Ready(Q) /\ Effect(Q)
  <2>1. c \in Calls /\ inv[c] = "unused" /\ c \notin hidden /\ c # None
    BY <1>2, UnusedCall DEF IncomingRefused, ArrivesAt, Calls
  <2>2. PICK code \in {"486", "other"} :
          queue' = queue \o StateMsgs(c, c, "disconnected", code)
    BY <1>2 DEF IncomingRefused
  <2>3. queue' = queue \o <<Msg("state", c, c, "disconnected", code)>> /\ code \in Codes
    BY <2>1, <2>2 DEF StateMsgs, NotReported, IsHidden, Cell, Codes
  <2>4. /\ inv' = [inv EXCEPT ![c] = "reset"] /\ hidden' = hidden \cup {c}
        /\ num' = [num EXCEPT ![c] = n]
        /\ UNCHANGED <<data, conn, lost, uiCall, wkCall, dlg>>
    BY <1>2 DEF IncomingRefused, ArrivesAt, uiVars, pcVars
  <2>5. Refuse(queue, c)
    BY <2>1, <2>3, <2>4 DEF Refuse
  <2>6. Ready(queue)
    BY <2>4, ReadyQueue DEF DlgQuiet
  <2>. QED  BY <2>1, <2>5, <2>6 DEF Effect
<1>3. ASSUME NEW c \in Incoming, NEW n \in Numbers, IncomingCrash(c, n)
      PROVE  \E Q : Ready(Q) /\ Effect(Q)
  <2>1. c \in Calls
    BY DEF Calls
  <2>2. Crash(queue, c) /\ UNCHANGED dlg
    BY <1>3 DEF IncomingCrash, ArrivesAt, Crash, heapVars, uiVars, pcVars
  <2>3. Ready(queue)
    BY <2>2, ReadyQueue DEF DlgQuiet
  <2>. QED  BY <2>1, <2>2, <2>3 DEF Effect
<1>4. ASSUME NEW c \in Calls, NEW st \in States, NEW code \in Codes, CallProgress(c, st, code)
      PROVE  \E Q : Ready(Q) /\ Effect(Q)
  <2>1. /\ inv[c] \in {"calling", "early", "connecting"}
        /\ st \in {"early", "connecting", "confirmed"}
        /\ st = "confirmed" <=> inv[c] = "connecting"
        /\ c \in Incoming => st = "confirmed"
    BY <1>4 DEF CallProgress, Progress
  <2>2. inv[c] \in Active \ {"confirmed"} /\ st # "disconnected"
    BY <2>1 DEF Active
  <2>3. UNCHANGED <<num, hidden, lost, uiCall, wkCall, dlg>>
        /\ conn' = IF st = "confirmed" THEN conn \cup {c} ELSE conn
    BY <1>4 DEF CallProgress, uiVars, pcVars
  <2>4. Ready(queue)
    BY <2>3, ReadyQueue DEF DlgQuiet
  <2>5. /\ inv' = [inv EXCEPT ![c] = st] /\ data' = data
        /\ queue' = queue \o <<Msg("state", c, c, st, code)>>
    BY <1>4, <2>2, <2>4, Enters, ReadyNone DEF CallProgress
  <2>6. \A m \in In(queue) : m.type = "incoming" => m.call # c
    BY <2>1 DEF QueueInv, Ordered, Good, Faithful, Waiting, Ended
  <2>7. Advance(queue, c, st)
    BY <2>1, <2>2, <2>3, <2>5, <2>6 DEF Advance
  <2>. QED  BY <2>4, <2>7 DEF Effect
<1>5. ASSUME NEW c \in Calls, NEW code \in Codes, CallEnds(c, code)
      PROVE  \E Q : Ready(Q) /\ Effect(Q)
  <2>1. /\ inv[c] \in Active /\ EnterState(c, "disconnected", code, queue, <<>>)
        /\ wkCall = None /\ wkCall' = c /\ code # "486" /\ (code = "481" => ~Waiting(c))
        /\ UNCHANGED <<num, conn, hidden, dlg, uiCall>>
        /\ lost' = IF code = "481" THEN lost \cup {c} ELSE lost
    BY <1>5 DEF CallEnds, WkIdle, uiVars
  <2>2. Ready(queue)
    BY <2>1, ReadyQueue DEF DlgQuiet
  <2>3. CASE code = "481"
    <3>1. /\ inv' = [inv EXCEPT ![c] = "disconnected"] /\ data' = data /\ queue' = queue
      <4>1. /\ inv' = [inv EXCEPT ![c] = "disconnected"] /\ data' = data
            /\ queue' = (queue \o <<>>) \o <<>>
        <5>1. data[c] = c /\ c \notin hidden /\ c # None /\ data \in [Calls -> Calls \cup {None}]
          BY <2>1, ActiveCall
        <5>. QED  BY <2>1, <2>3, <5>1 DEF EnterState, SlotData, StateMsgs, NotReported
      <4>. QED  BY <2>2, <4>1, ReadyNone
    <3>2. Vanish(queue, c)
      BY <2>1, <2>3, <3>1 DEF Vanish
    <3>. QED  BY <2>2, <3>2 DEF Effect
  <2>4. CASE code # "481"
    <3>1. /\ inv' = [inv EXCEPT ![c] = "disconnected"] /\ data' = [data EXCEPT ![c] = None]
          /\ queue' = queue \o <<Msg("state", c, c, "disconnected", code)>>
      BY <2>1, <2>2, <2>4, Enters, ReadyNone
    <3>2. End(queue, c)
      BY <2>1, <2>4, <3>1 DEF End
    <3>. QED  BY <2>2, <3>2 DEF Effect
  <2>. QED  BY <2>3, <2>4
<1>6. ASSUME NEW c \in Calls, MediaState(c) \/ \E k \in {"200", "other"} : TransferStatus(c, k)
      PROVE  \E Q : Ready(Q) /\ Effect(Q)
  <2>1. PICK t \in {"media", "xfer"}, k \in Codes : PostWithData(c, t, k) /\ inv[c] \in Active
    BY <1>6 DEF MediaState, TransferStatus, Active, Codes
  <2>. DEFINE m == Msg(t, c, c, inv[c], k)
  <2>2. data[c] = c /\ c # None /\ data \in [Calls -> Calls \cup {None}] /\ inv[c] \in States
    BY <2>1, ActiveCall
  <2>3. /\ UNCHANGED <<inv, num, conn, data, hidden, lost, uiCall, wkCall, dlg>>
        /\ queue' = Append(queue, m)
    BY <2>1, <2>2 DEF PostWithData, uiVars, pcVars
  <2>4. m \in Messages
    BY <2>2, MessageTypes DEF WithData
  <2>5. queue' = queue \o <<m>>
    <3>. HIDE DEF m
    <3>. QED  BY <1>0, <2>3, <2>4, QForms
  <2>6. Ready(queue)
    BY <2>3, ReadyQueue DEF DlgQuiet
  <2>7. Ready(queue \o <<m>>)
    BY <2>1, <2>2, <2>6, ReadyNews
  <2>. HIDE DEF m
  <2>. QED  BY <2>3, <2>5, <2>7 DEF Effect, Stay
<1>7. ASSUME NEW c \in Calls, NEW d \in Outgoing, NEW n \in Numbers, Transferred(c, d, n)
      PROVE  \E Q : Ready(Q) /\ Effect(Q)
  <2>. DEFINE x == Msg("xfer", c, c, "confirmed", "other")
              Q == queue \o <<x>>
  <2>1. d \in Calls /\ inv[d] = "unused" /\ inv[c] \in Active /\ c # d
        /\ "confirmed" \in States /\ "other" \in Codes
    BY <1>7 DEF Transferred, Calls, Active, States, Codes
  <2>2. /\ data[c] = c /\ c # None /\ c \notin hidden
        /\ data \in [Calls -> Calls \cup {None}]
    BY <2>1, ActiveCall
  <2>3. /\ inv' = [inv EXCEPT ![d] = "calling"] /\ data' = [data EXCEPT ![d] = d]
        /\ num' = [num EXCEPT ![d] = n] /\ queue' = Q \o <<Msg("state", d, d, "calling", "-")>>
        /\ UNCHANGED <<conn, hidden, lost, uiCall, wkCall, dlg>>
    BY <1>7, <2>1, <2>2
    DEF Transferred, SlotData, StateMsgs, NotReported, IsHidden, Cell, uiVars, pcVars
  <2>4. Ready(queue)
    BY <2>3, ReadyQueue DEF DlgQuiet
  <2>5. Ready(Q)
    BY <2>1, <2>4, ReadyNews
  <2>. HIDE DEF Q
  <2>6. Begin(Q, d)
    BY <2>1, <2>3 DEF Begin
  <2>. QED  BY <2>1, <2>5, <2>6 DEF Effect
<1>8. CASE WkResetCall
  <2>1. /\ wkCall \in Calls /\ queue' = queue /\ wkCall' = None
        /\ inv' = [inv EXCEPT ![wkCall] = "reset"] /\ data' = [data EXCEPT ![wkCall] = None]
        /\ UNCHANGED <<num, conn, hidden, lost, uiCall, dlg>>
    BY <1>8 DEF WkResetCall, heapVars, uiVars, Before, IInv, TypeOK
  <2>2. Ready(queue)
    BY <2>1, ReadyQueue DEF DlgQuiet
  <2>3. Reset(queue, wkCall)
    BY <2>1 DEF Reset
  <2>. QED  BY <2>1, <2>2, <2>3 DEF Effect
<1>. QED  BY <1>1, <1>2, <1>3, <1>4, <1>5, <1>6, <1>7, <1>8 DEF Worker

\* Nothing happens any more once the process has crashed.
LEMMA NotCrashed ==
  ASSUME Next
  PROVE  ~crashed
<1>1. CASE UiMessage
  BY <1>1 DEF UiMessage, UiForwardNow, UiRing, UiCallState, UiCallEnd, UiMedia,
     UiTransferStatus, UiCreateRingingDlg, UiPlayerStop, UiAnswer, UiRefuse,
     UiAnswerTooLate, UiTakes, UiIdle
<1>2. CASE User
  BY <1>2 DEF User, MakeCall, CommandAnswer, DlgAnswer, DlgDecline, DlgDeclineLate,
     DlgIgnore, HangUpFails, HangUp, HangUpWaiting, UiIdle
<1>3. CASE UiResetCall \/ TimerForward \/ TimerTone \/ SoundEnds
  BY <1>3 DEF UiResetCall, TimerForward, TimerTone, SoundEnds, UiIdle
<1>4. CASE Worker
  BY <1>4 DEF Worker, IncomingOffered, IncomingRefused, IncomingCrash, ArrivesAt,
     CallProgress, CallEnds, MediaState, TransferStatus, PostWithData, Transferred,
     WkResetCall, WkIdle
<1>. QED  BY <1>1, <1>2, <1>3, <1>4 DEF Next

\* Whatever the step, the slots and the queue stay in order and the calls
\* keep their past.
LEMMA PastStep ==
  ASSUME Before, QueueInv, Next
  PROVE  SlotsInv' /\ QueueInv' /\ Past
<1>1. \E Q : Ready(Q) /\ Effect(Q)
  BY UiMessageEffect, UserEffect, UiRestEffect, WorkerEffect DEF Next
<1>. QED  BY <1>1, EffectStep

\* A call that begins to wait was offered by on_incoming_call in this step.
LEMMA NewOffer ==
  ASSUME Before, QueueInv, Next, NEW c \in Calls, inv[c] = "unused", inv'[c] = "incoming"
  PROVE  Offered(c)
<1>0. inv \in [Calls -> States] /\ uiCall \in Calls \cup {None} /\ wkCall \in Calls \cup {None}
      /\ Inside
  BY DEF Before, IInv, TypeOK, SlotsInv
<1>1. PICK Q : Ready(Q) /\ Effect(Q)
  BY UiMessageEffect, UserEffect, UiRestEffect, WorkerEffect DEF Next
<1>2. ~Stay(Q)
  BY DEF Stay
<1>3. ASSUME NEW d \in Calls, \/ \E st \in States : Advance(Q, d, st)
                              \/ End(Q, d) \/ Vanish(Q, d) \/ Refuse(Q, d) \/ Reset(Q, d)
                              \/ Crash(Q, d)
      PROVE  FALSE
  BY <1>0, <1>3 DEF Advance, End, Vanish, Refuse, Reset, Crash, Active
<1>4. ASSUME NEW d \in Calls, Begin(Q, d)
      PROVE  Offered(c)
  <2>1. d = c
    BY <1>0, <1>4 DEF Begin
  <2>. QED  BY <1>0, <1>4, <2>1 DEF Begin
<1>. QED  BY <1>1, <1>2, <1>3, <1>4 DEF Effect

-----------------------------------------------------------------------------
(* What the steps do to the widgets.                                       *)

\* The ringtone, if it plays, is not new.
NotRung == sound' = sound \/ sound' # "ring"

\* Nothing changes but the sound.
Quiet == UNCHANGED <<tabs, dlg, log, ending>> /\ NotRung

\* The calls S are hung up.
Hangs(S) == /\ tabs' = EndTabs(tabs, S) /\ log' = EndLog(S, HiddenData)
            /\ ending' = ending \cup S /\ dlg' = dlg /\ NotRung

\* The window of call c is closed by the user, or by the end of its call.
Closes(c) == /\ CloseDlg(c) /\ sound' = CloseSound(c, sound) /\ UNCHANGED <<tabs, log>>
             /\ ending' \in {ending, ending \cup {c}}
             /\ Waiting(c) => DlgIgnore(c) \/ DlgDeclineLate(c)

\* The UI thread learns from reset_call that its own call is over.
OverEnd == /\ uiCall \in Calls /\ tabs' = EndTabs(tabs, {uiCall}) /\ log' = EndLog({uiCall}, {})
           /\ UNCHANGED <<dlg, ending>> /\ NotRung

Widgets == \/ Quiet \/ OverEnd
           \/ \E S \in SUBSET NotIncoming : Hangs(S)
           \/ \E c \in Calls : Closes(c)
           \/ \E c \in Outgoing, n \in Numbers : MakeCall(c, n)
           \/ UiRing \/ UiCallState \/ UiCallEnd \/ UiMedia \/ UiTransferStatus
           \/ UiCreateRingingDlg

LEMMA EndSounds ==
  \A t, S, b : EndSound(t, S, b) = sound \/ EndSound(t, S, b) # "ring"
  BY DEF EndSound

LEMMA WidgetsStep ==
  ASSUME Before, Next
  PROVE  Widgets
<1>1. ASSUME NEW c, NEW Q, Answer(c, Q) PROVE \E S \in SUBSET NotIncoming : Hangs(S)
  <2>. DEFINE S == IF SingleMode THEN NotIncoming ELSE {}
  <2>1. S \in SUBSET NotIncoming /\ Hangs(S)
    BY <1>1 DEF Answer, Hangs, NotRung
  <2>. QED  BY <2>1
<1>2. CASE UiMessage
  <2>1. CASE UiForwardNow \/ UiRefuse \/ UiAnswerTooLate \/ UiPlayerStop
    <3>1. Quiet
      BY <2>1 DEF UiForwardNow, UiRefuse, UiAnswerTooLate, UiPlayerStop, uiVars, Quiet, NotRung,
         pjsuaVars
    <3>. QED  BY <3>1 DEF Widgets
  <2>2. CASE UiAnswer
    BY <1>1, <2>2 DEF UiAnswer, Widgets
  <2>. QED  BY <1>2, <2>1, <2>2 DEF UiMessage, Widgets
<1>3. CASE User
  <2>1. ASSUME NEW c \in Calls, \/ CommandAnswer(c) \/ DlgDecline(c) \/ HangUpFails(c)
                                \/ \E mark \in Marks : HangUpWaiting(c, mark)
        PROVE  Widgets
    <3>1. Quiet
      BY <2>1 DEF CommandAnswer, DlgDecline, HangUpFails, HangUpWaiting, uiVars, Quiet, NotRung,
         pjsuaVars
    <3>. QED  BY <3>1 DEF Widgets
  <2>2. ASSUME NEW c \in Calls, DlgAnswer(c)
        PROVE  Widgets
    BY <1>1, <2>2 DEF DlgAnswer, Widgets
  <2>3. ASSUME NEW c \in Calls, DlgDeclineLate(c) \/ DlgIgnore(c)
        PROVE  Widgets
    <3>1. Closes(c)
      BY <2>3 DEF DlgDeclineLate, DlgIgnore, Closes, pjsuaVars
    <3>. QED  BY <3>1 DEF Widgets
  <2>4. ASSUME NEW c \in Calls, NEW mark \in Marks, HangUp(c, mark)
        PROVE  Widgets
    <3>1. Hangs({c}) /\ {c} \in SUBSET NotIncoming
      BY <2>4, EndSounds DEF HangUp, OnEndCall, Hangs, NotRung
    <3>. QED  BY <3>1 DEF Widgets
  <2>5. ASSUME NEW c \in Outgoing, NEW n \in Numbers, MakeCall(c, n)
        PROVE  Widgets
    BY <2>5 DEF Widgets
  <2>. QED  BY <1>3, <2>1, <2>2, <2>3, <2>4, <2>5 DEF User
<1>4. CASE UiResetCall
  <2>1. /\ uiThen \in {"none", "endCall", "closeDlg", "fwdTimer"} /\ uiCall \in Calls
        /\ inv[uiCall] = "disconnected" /\ ending' = ending
    BY <1>4 DEF UiResetCall, Before, IInv, TypeOK, SlotsInv, Inside
  <2>2. CASE uiThen = "endCall"
    <3>1. OnEndCall({uiCall}, {}, TRUE) /\ UNCHANGED dlg
      BY <1>4, <2>2 DEF UiResetCall
    <3>2. OverEnd
      BY <2>1, <3>1, EndSounds DEF OnEndCall, OverEnd, NotRung
    <3>. QED  BY <3>2 DEF Widgets
  <2>3. CASE uiThen = "closeDlg"
    <3>1. /\ CloseDlg(uiCall) /\ sound' = CloseSound(uiCall, sound)
          /\ UNCHANGED <<tabs, log, fwdCall>>
      BY <1>4, <2>3 DEF UiResetCall
    <3>2. ~Waiting(uiCall)
      BY <2>1 DEF Waiting
    <3>3. Closes(uiCall)
      BY <2>1, <3>1, <3>2 DEF Closes
    <3>. QED  BY <2>1, <3>3 DEF Widgets
  <2>4. CASE uiThen \in {"fwdTimer", "none"}
    <3>1. UNCHANGED <<tabs, log, dlg, sound>>
      BY <1>4, <2>4 DEF UiResetCall
    <3>. QED  BY <2>1, <3>1 DEF Widgets, Quiet, NotRung
  <2>. QED  BY <2>1, <2>2, <2>3, <2>4
<1>5. CASE TimerForward \/ TimerTone \/ SoundEnds
  <2>1. Quiet
    BY <1>5 DEF TimerForward, TimerTone, SoundEnds, Quiet, NotRung, pjsuaVars
  <2>. QED  BY <2>1 DEF Widgets
<1>6. CASE Worker
  <2>1. Quiet
    BY <1>6 DEF Worker, IncomingOffered, IncomingRefused, IncomingCrash, CallProgress,
       CallEnds, MediaState, TransferStatus, PostWithData, Transferred, WkResetCall,
       uiVars, Quiet, NotRung
  <2>. QED  BY <2>1 DEF Widgets
<1>. QED  BY <1>2, <1>3, <1>4, <1>5, <1>6 DEF Next

-----------------------------------------------------------------------------
(* The widgets along a step.                                               *)

Along == /\ IInv /\ TypeOK' /\ ~crashed /\ WidgetsInv /\ Next
         /\ SlotsInv' /\ QueueInv' /\ Past /\ Widgets

LEMMA AlongStep ==
  ASSUME IInv, TypeOK', WidgetsInv, Next
  PROVE  Along
<1>1. Before /\ QueueInv
  BY NotCrashed DEF Before, WidgetsInv
<1>. QED  BY <1>1, PastStep, WidgetsStep, NotCrashed DEF Along

\* The handlers of the messages.
LEMMA TakenBy ==
  ASSUME UiMessage
  PROVE  /\ queue # <<>>
         /\ IsFinal(Current) => UiCallEnd
         /\ Current.type = "state" /\ ~IsFinal(Current) => UiCallState
         /\ Current.type = "incoming" => UiForwardNow \/ UiRing
         /\ Current.type = "ringing" => UiCreateRingingDlg
  BY DEF UiMessage, UiForwardNow, UiRing, UiCallState, UiCallEnd, UiMedia,
     UiTransferStatus, UiCreateRingingDlg, UiPlayerStop, UiAnswer, UiRefuse,
     UiAnswerTooLate, UiTakes, IsFinal

\* The call of a tab is known to PJSUA, or its end is on the way or lost.
TabFine(c) == inv[c] # "unused" /\ (inv[c] \in Active \/ EndIn(c) \/ c \in lost)

\* A message about a call that is not its end comes before the end.
LEMMA CurrentFine ==
  ASSUME Along, queue # <<>>, Current.type \in WithData, ~IsFinal(Current)
  PROVE  /\ Current.call \in Calls /\ TabFine(Current.call) /\ num[Current.call] \in Numbers
         /\ Current.data = Current.call /\ Current.call \notin hidden
         /\ inv[Current.call] \in Ended \ {"unused"} /\ Current.call \notin lost =>
              \E m \in In(Rest) : IsFinal(m) /\ m.call = Current.call
<1>. DEFINE c == Current.call
<1>1. /\ Current \in Messages /\ Faithful(Current) /\ In(Rest) \subseteq In(queue)
      /\ Current \in Going \/ \E m \in In(Rest) : m \in Finals /\ m.call = c
  BY Takes DEF Along, WidgetsInv
<1>2. c \in Calls /\ inv[c] # "unused" /\ num[c] \in Numbers
  BY <1>1, MessageFields DEF Faithful, Along, WidgetsInv, SlotsInv, PartyKnown
<1>3. (inv[c] \in Active \/ c \in lost) \/ \E m \in In(Rest) : IsFinal(m) /\ m.call = c
  BY <1>1 DEF Going, Finals
<1>4. TabFine(c)
  BY <1>1, <1>2, <1>3 DEF TabFine, EndIn
<1>5. Current.data = c /\ c \notin hidden
  BY <1>1 DEF Faithful
<1>6. inv[c] \in Ended /\ c \notin lost => \E m \in In(Rest) : IsFinal(m) /\ m.call = c
  BY <1>3 DEF Ended, Active
<1>. QED  BY <1>2, <1>4, <1>5, <1>6

LEMMA TabFineKept ==
  ASSUME Along, NEW c \in Calls, TabFine(c), ~(UiCallEnd /\ Current.call = c)
  PROVE  TabFine(c)' /\ num'[c] = num[c]
<1>1. Kept(c) /\ inv'[c] \in States /\ lost \subseteq lost'
  BY DEF Along, Past, TypeOK
<1>2. inv'[c] # "unused" /\ num'[c] = num[c]
  BY <1>1 DEF Kept, TabFine
<1>3. CASE inv[c] \in Active
  <2>1. inv'[c] \in Active \/ inv'[c] \in Ended
    BY <1>1, <1>2 DEF States, Active, Ended
  <2>2. inv'[c] \in Ended => EndIn(c)' \/ c \in lost'
    BY <1>1, <1>3 DEF Kept, Active, Ended
  <2>. QED  BY <1>2, <2>1, <2>2 DEF TabFine
<1>4. CASE EndIn(c)
  <2>1. PICK m \in In(queue) : IsFinal(m) /\ m.call = c
    BY <1>4 DEF EndIn
  <2>2. m \in In(queue)'
    BY <2>1, TakenBy DEF Along, Past
  <2>. QED  BY <1>2, <2>1, <2>2 DEF TabFine, EndIn
<1>5. CASE c \in lost
  BY <1>1, <1>2, <1>5 DEF TabFine
<1>. QED  BY <1>3, <1>4, <1>5 DEF TabFine

LEMMA TabsStep == ASSUME Along PROVE TabsInv'
<1>0. /\ tabs \in TabTypes /\ NoCall \notin Calls /\ NotIncoming \subseteq Calls
      /\ \A n \in Numbers : tabs[n] \in Calls => num[tabs[n]] = n /\ TabFine(tabs[n])
  BY CallsAssumption
  DEF Along, IInv, TypeOK, WidgetsInv, TabTypes, NotIncoming, TabsInv, TabFine
<1>. SUFFICES ASSUME NEW n \in Numbers, tabs'[n] \in Calls
              PROVE  (num[tabs[n]] = n /\ TabFine(tabs[n]))'
  BY DEF TabsInv, TabFine
<1>. DEFINE x == tabs'[n]
<1>1. ASSUME ~UiCallEnd, x = tabs[n] \/ (num[x] = n /\ TabFine(x))
      PROVE  (num[tabs[n]] = n /\ TabFine(tabs[n]))'
  <2>1. num[x] = n /\ TabFine(x)
    BY <1>0, <1>1
  <2>2. ASSUME NEW y \in Calls, num[y] = n, TabFine(y) PROVE num'[y] = n /\ TabFine(y)'
    BY <1>1, <2>2, TabFineKept
  <2>3. \A y \in Calls : y = x => num'[y] = n /\ TabFine(y)'
    BY <2>1, <2>2
  <2>. QED  BY <2>3 DEF TabFine, EndIn
<1>3. CASE UiCallEnd
  <2>1. tabs' = EndTabs(tabs, {Current.call})
    BY <1>3 DEF UiCallEnd
  <2>2. x = tabs[n] /\ tabs[n] # Current.call /\ num[x] = n /\ TabFine(x)
    BY <1>0, <2>1 DEF EndTabs
  <2>3. \A y \in Calls : y = x => num'[y] = n /\ TabFine(y)'
    BY <2>2, TabFineKept
  <2>. QED  BY <2>3 DEF TabFine, EndIn
<1>4. CASE UiCallState \/ UiMedia \/ UiTransferStatus
  <2>. DEFINE c == Current.call
  <2>1. queue # <<>> /\ Current.type \in WithData /\ ~IsFinal(Current) /\ ~UiCallEnd
    BY <1>4 DEF UiCallState, UiMedia, UiTransferStatus, UiCallEnd, UiTakes, WithData, IsFinal
  <2>2. c \in Calls /\ TabFine(c) /\ num[c] \in Numbers
    BY <2>1, CurrentFine
  <2>3. tabs' \in {ShowTab(c), LinkTab(c), EndTabs(LinkTab(c), {c})}
    BY <1>4 DEF UiCallState, UiMedia, UiTransferStatus
  <2>4. tabs'[n] = tabs[n] \/ (n = num[c] /\ tabs'[n] = c)
    BY <1>0, <2>2, <2>3 DEF ShowTab, LinkTab, EndTabs, TabTypes
  <2>. QED  BY <1>1, <2>1, <2>2, <2>4
<1>5. ASSUME NEW c \in Outgoing, NEW k \in Numbers, MakeCall(c, k)
      PROVE  (num[tabs[n]] = n /\ TabFine(tabs[n]))'
  <2>. DEFINE S == IF SingleMode THEN NotIncoming ELSE {}
  <2>1. /\ tabs' = [EndTabs(tabs, S) EXCEPT ![k] = c] /\ num' = [num EXCEPT ![c] = k]
        /\ inv' = [inv EXCEPT ![c] = "calling"] /\ c \in Calls
    BY <1>5 DEF MakeCall, Calls
  <2>2. num'[c] = k /\ inv'[c] \in Active /\ inv'[c] # "unused"
    BY <2>1 DEF Along, IInv, TypeOK, Active
  <2>3. tabs'[n] = tabs[n] \/ (n = k /\ tabs'[n] = c)
    BY <1>0, <2>1 DEF EndTabs, TabTypes
  <2>4. ~UiCallEnd
    BY <1>5, <2>1, <2>2 DEF MakeCall, UiCallEnd, pjsuaVars, Active
  <2>5. x = c /\ n = k => (num[tabs[n]] = n /\ TabFine(tabs[n]))'
    BY <2>2 DEF TabFine
  <2>. QED  BY <1>1, <2>3, <2>4, <2>5
<1>6. CASE \/ Quiet \/ OverEnd \/ UiRing \/ UiCreateRingingDlg
           \/ \E S \in SUBSET NotIncoming : Hangs(S)
           \/ \E c \in Calls : Closes(c)
  <2>1. tabs'[n] = tabs[n]
    BY <1>0, <1>6 DEF Quiet, OverEnd, UiRing, UiCreateRingingDlg, Hangs, Closes, EndTabs
  <2>. QED  BY <1>0, <1>1, <1>3, <2>1
<1>. QED  BY <1>3, <1>4, <1>5, <1>6 DEF Along, Widgets

\* A message of the queue is still there, or the UI thread has just taken it.
LEMMA StillQueued ==
  ASSUME Along, NEW c
  PROVE  /\ EndIn(c) => EndIn(c)' \/ (UiCallEnd /\ Current.call = c)
         /\ NewsQueued(c) => NewsQueued(c)' \/ (UiCallState /\ Current.call = c)
         /\ Queued("incoming", c) => \/ Queued("incoming", c)'
                                     \/ (UiForwardNow \/ UiRing) /\ Current.call = c
         /\ Queued("ringing", c) => \/ Queued("ringing", c)'
                                    \/ UiCreateRingingDlg /\ Current.call = c
         /\ ClosingQueued(c) =>
              \/ ClosingQueued(c)'
              \/ (UiCallEnd \/ UiCallState) /\ IsClosing(Current) /\ Current.call = c
<1>1. ASSUME NEW m \in In(queue) PROVE m \in In(queue') \/ (UiMessage /\ m = Current)
  BY DEF Along, Past
<1>2. EndIn(c) => EndIn(c)' \/ (UiCallEnd /\ Current.call = c)
  BY <1>1, TakenBy DEF EndIn
<1>3. NewsQueued(c) => NewsQueued(c)' \/ (UiCallState /\ Current.call = c)
  BY <1>1, TakenBy DEF NewsQueued
<1>4. Queued("incoming", c) => \/ Queued("incoming", c)'
                               \/ (UiForwardNow \/ UiRing) /\ Current.call = c
  BY <1>1, TakenBy DEF Queued
<1>5. Queued("ringing", c) => Queued("ringing", c)' \/ (UiCreateRingingDlg /\ Current.call = c)
  BY <1>1, TakenBy DEF Queued
<1>6. ClosingQueued(c) =>
        \/ ClosingQueued(c)'
        \/ (UiCallEnd \/ UiCallState) /\ IsClosing(Current) /\ Current.call = c
  BY <1>1, TakenBy DEF ClosingQueued, IsClosing
<1>. QED  BY <1>2, <1>3, <1>4, <1>5, <1>6

\* onIncomingCall asks for the window of its call.
LEMMA AsksRinging ==
  ASSUME Along, UiRing, NEW c, c = Current.call
  PROVE  Queued("ringing", c)'
<1>. DEFINE m == Msg("ringing", c, None, "unused", "-")
            s == StateMsgs(c, data[c], "early", "180")
<1>1. /\ queue # <<>> /\ QueueInv /\ Current.type \in WithData /\ ~IsFinal(Current)
  BY DEF UiRing, UiTakes, Along, WidgetsInv, WithData, IsFinal
<1>2. c \in Calls /\ Rest \in Seq(Messages)
  BY <1>1, Takes, CurrentFine
<1>3. m \in Messages /\ m.type = "ringing" /\ m.call = c
  BY <1>2, MessageTypes DEF Msg, Codes
<1>4. <<m>> \in Seq(Messages) /\ In(<<m>>) = {m}
  BY <1>3, InOne
<1>. HIDE DEF m
<1>5. Rest \o <<m>> \in Seq(Messages) /\ m \in In(Rest \o <<m>>)
  BY <1>2, <1>4, InConcat
<1>6. queue' = Rest \o <<m>> \/ queue' = (Rest \o <<m>>) \o s
  BY DEF UiRing, EnterState, m
<1>7. s \in Seq(Messages)
  <2>1. Cell(c, data[c]) \in Calls
    BY <1>2 DEF Along, IInv, TypeOK, Cell
  <2>2. Msg("state", c, Cell(c, data[c]), "early", "180") \in Messages
    BY <1>2, <2>1, MessageTypes DEF WithData, States, Codes
  <2>. QED  BY <2>2, InNone, InOne DEF StateMsgs
<1>. HIDE DEF s
<1>8. In((Rest \o <<m>>) \o s) = In(Rest \o <<m>>) \cup In(s)
  BY <1>5, <1>7, InConcat
<1>9. m \in In(queue')
  BY <1>5, <1>6, <1>8
<1>. QED  BY <1>3, <1>9 DEF Queued

\* onCreateRingingDlg opens the window of a call that waits.
LEMMA OpensDlg ==
  ASSUME Along, NEW c \in Calls, Waiting(c), UiCreateRingingDlg, Current.call = c
  PROVE  dlg' = [dlg EXCEPT ![c] = "open"]
<1>1. inv[c] \in Active
  BY WaitingActive
<1>2. data[c] = c /\ c # None /\ c \in Enumerated
  BY <1>1, ActiveCall DEF Along, Before, WidgetsInv, Enumerated, InPjsua
<1>. QED  BY <1>2 DEF UiCreateRingingDlg, CanShowDlg

LEMMA DlgsStep == ASSUME Along PROVE DlgsInv'
<1>0. /\ dlg \in [Calls -> {"none", "open", "closed"}] /\ DlgsInv
      /\ \A c \in Calls : Kept(c)
  BY DEF Along, IInv, TypeOK, WidgetsInv, Past
<1>1. ASSUME NEW c \in Calls
      PROVE  \/ dlg'[c] = dlg[c]
             \/ dlg[c] = "open" /\ dlg'[c] = "closed"
             \/ UiCreateRingingDlg /\ Current.call = c /\ CanShowDlg(c) /\ dlg'[c] = "open"
  BY <1>0 DEF Along, Widgets, Quiet, OverEnd, Hangs, Closes, CloseDlg, MakeCall, UiRing,
     UiCallState, UiCallEnd, UiMedia, UiTransferStatus, UiCreateRingingDlg
\* A window that is asked for belongs to a call that waits or will close it.
<1>2. ASSUME NEW c, UiCreateRingingDlg, c = Current.call, CanShowDlg(c)
      PROVE  /\ c \in Incoming /\ inv[c] # "unused"
             /\ Waiting(c) \/ ClosingQueued(c)'
  <2>1. queue # <<>> /\ Current.type = "ringing" /\ queue' = Rest
    BY <1>2 DEF UiCreateRingingDlg, UiTakes
  <2>2. /\ Current \in Messages /\ Faithful(Current)
        /\ Current \in Asking \/ \E m \in In(Rest) : m \in Closings /\ m.call = c
    BY <1>2, <2>1, Takes DEF Along, WidgetsInv
  <2>3. c \in Incoming /\ inv[c] # "unused"
    BY <1>2, <2>1, <2>2 DEF Faithful, Calls
  <2>4. data[c] # None
    BY <1>2 DEF CanShowDlg
  <2>5. Current \in Asking => Waiting(c)
    BY <1>2, <2>1, <2>4 DEF Asking
  <2>6. ASSUME NEW m \in In(Rest), m \in Closings, m.call = c PROVE ClosingQueued(c)'
    <3>1. m \in In(queue') /\ IsClosing(m)
      BY <2>1, <2>6 DEF Closings
    <3>. QED  BY <2>6, <3>1 DEF ClosingQueued
  <2>7. Waiting(c) \/ ClosingQueued(c)'
    BY <2>2, <2>5, <2>6
  <2>. QED  BY <2>3, <2>7
<1>3. ASSUME NEW c \in Calls, Waiting(c) PROVE Waiting(c)' \/ ClosingQueued(c)'
  BY <1>0, <1>3 DEF Kept, Stops, ClosingQueued
<1>. SUFFICES ASSUME NEW c \in Calls
              PROVE  /\ dlg'[c] # "none" => c \in Incoming /\ inv'[c] # "unused"
                     /\ dlg'[c] = "open" => Waiting(c)' \/ ClosingQueued(c)'
                     /\ Waiting(c)' => \/ dlg'[c] # "none"
                                       \/ Queued("incoming", c)' \/ Queued("ringing", c)'
  BY DEF DlgsInv
<1>4. dlg'[c] # "none" => c \in Incoming /\ inv'[c] # "unused"
  <2>1. dlg'[c] # "none" => c \in Incoming /\ inv[c] # "unused"
    BY <1>0, <1>1, <1>2 DEF DlgsInv
  <2>. QED  BY <1>0, <2>1 DEF Kept
<1>5. ASSUME dlg'[c] = "open" PROVE Waiting(c)' \/ ClosingQueued(c)'
  <2>1. CASE dlg[c] # "open"
    <3>1. dlg'[c] # dlg[c]
      BY <1>5, <2>1
    <3>2. UiCreateRingingDlg /\ Current.call = c /\ CanShowDlg(c)
      BY <1>1, <1>5, <2>1, <3>1
    <3>. QED  BY <1>2, <1>3, <3>2
  <2>2. CASE Waiting(c)
    BY <1>3, <2>2
  <2>3. CASE dlg[c] = "open" /\ ClosingQueued(c) /\ ~ClosingQueued(c)'
    <3>1. (UiCallEnd \/ UiCallState) /\ IsClosing(Current) /\ Current.call = c
      BY <2>3, StillQueued
    <3>2. c \in Incoming
      BY <1>0, <2>3 DEF DlgsInv
    <3>3. CloseDlg(c)
      BY <3>1, <3>2 DEF UiCallEnd, UiCallState, IsClosing
    <3>. QED  BY <1>0, <1>5, <3>3 DEF CloseDlg
  <2>. QED  BY <1>0, <2>1, <2>2, <2>3 DEF DlgsInv
<1>6. ASSUME Waiting(c)', dlg'[c] = "none"
      PROVE  Queued("incoming", c)' \/ Queued("ringing", c)'
  <2>1. CASE ~Waiting(c)
    BY <1>0, <1>6, <2>1 DEF Kept
  <2>2. CASE Waiting(c)
    <3>1. dlg[c] = "none"
      BY <1>0, <1>1, <1>6
    <3>2. CASE Queued("incoming", c)
      <4>1. CASE UiForwardNow /\ Current.call = c
        <5>1. inv' = [inv EXCEPT ![Current.call] = "disconnected"]
          BY <4>1 DEF UiForwardNow, UiDisconnects, EnterState
        <5>2. inv'[c] = "disconnected"
          BY <4>1, <5>1 DEF Along, IInv, TypeOK
        <5>. QED  BY <1>6, <5>2 DEF Waiting
      <4>. QED  BY <3>2, <4>1, StillQueued, AsksRinging
    <3>3. CASE Queued("ringing", c)
      <4>1. CASE UiCreateRingingDlg /\ Current.call = c
        <5>1. dlg' = [dlg EXCEPT ![c] = "open"]
          BY <2>2, <4>1, OpensDlg
        <5>. QED  BY <1>0, <1>6, <5>1
      <4>. QED  BY <3>3, <4>1, StillQueued
    <3>. QED  BY <1>0, <2>2, <3>1, <3>2, <3>3 DEF DlgsInv
  <2>. QED  BY <2>1, <2>2
<1>. QED  BY <1>4, <1>5, <1>6


-----------------------------------------------------------------------------
(* The ringtone.                                                           *)

\* The ringtone goes with the last window.
LEMMA CloseKeeps ==
  ASSUME NEW c, NEW s, dlg \in [Calls -> {"none", "open", "closed"}],
         CloseDlg(c), OpenDlgs # {}, CloseSound(c, s) # "none"
  PROVE  OpenDlgs' # {}
<1>1. PICK x \in OpenDlgs : x # c
  BY DEF CloseSound
<1>2. x \in Calls /\ dlg'[x] = "open"
  BY <1>1 DEF OpenDlgs, CloseDlg
<1>. QED  BY <1>2 DEF OpenDlgs

LEMMA RingtoneStep == ASSUME Along PROVE RingtoneInv'
<1>0. /\ dlg \in [Calls -> {"none", "open", "closed"}] /\ RingtoneInv
      /\ \A c \in Calls : Kept(c)
      /\ \A m \in In(queue) : m \in In(queue)' \/ (UiMessage /\ m = Current)
  BY DEF Along, IInv, TypeOK, WidgetsInv, Past
<1>. SUFFICES ASSUME sound' = "ring"
              PROVE  \/ OpenDlgs' # {}
                     \/ \E c \in Calls : Waiting(c)' /\ Queued("ringing", c)'
                     \/ \E m \in In(queue)' : Stops(m)'
  BY DEF RingtoneInv
<1>1. ASSUME NEW m, Stops(m), m.call \in Calls,
             IsFinal(m) => inv[m.call] \in Ended
      PROVE  Stops(m)'
  BY <1>0, <1>1 DEF Stops, Kept, Ended
<1>2. ASSUME NEW c \in Calls, Waiting(c), Queued("ringing", c)'
      PROVE  \/ \E x \in Calls : Waiting(x)' /\ Queued("ringing", x)'
             \/ \E m \in In(queue)' : Stops(m)'
  BY <1>0, <1>2 DEF Kept
<1>3. CASE UiRing
  <2>1. PICK c : c = Current.call
    OBVIOUS
  <2>2. /\ queue # <<>> /\ Current.type = "incoming" /\ Current.type \in WithData
        /\ ~IsFinal(Current) /\ QueueInv
    BY <1>3 DEF UiRing, UiTakes, WithData, IsFinal, Along, WidgetsInv
  <2>3. c \in Incoming \ (conn \cup lost) /\ (Waiting(c) \/ inv[c] \in Ended) /\ c \in Calls
    BY <2>1, <2>2, Takes DEF Faithful, Calls
  <2>4. CASE Waiting(c)
    BY <1>2, <1>3, <2>1, <2>3, <2>4, AsksRinging
  <2>5. CASE inv[c] \in Ended
    <3>1. PICK m \in In(Rest) : IsFinal(m) /\ m.call = c
      BY <2>1, <2>2, <2>3, <2>5, CurrentFine DEF Ended
    <3>2. m \in In(queue)'
      BY <1>0, <2>2, <3>1, Takes
    <3>3. Stops(m)
      BY <2>3, <3>1 DEF Stops, IsClosing, IsFinal
    <3>4. Stops(m)'
      BY <1>1, <2>3, <2>5, <3>1, <3>3
    <3>. QED  BY <3>2, <3>4
  <2>. QED  BY <2>3, <2>4, <2>5
<1>4. CASE ~UiRing
  <2>1. sound = "ring"
    <3>1. CASE UiCallEnd
      BY <3>1, EndSounds DEF UiCallEnd, CloseSound
    <3>2. CASE UiCallState
      BY <3>2 DEF UiCallState, CloseSound
    <3>3. ASSUME NEW c \in Calls, Closes(c) PROVE sound = "ring"
      BY <3>3 DEF Closes, CloseSound
    <3>4. ASSUME NEW c, NEW n, MakeCall(c, n) PROVE sound = "ring"
      BY <3>4, EndSounds DEF MakeCall
    <3>5. CASE UiTransferStatus
      BY <3>5, EndSounds DEF UiTransferStatus
    <3>6. CASE UiMedia \/ UiCreateRingingDlg
      BY <3>6 DEF UiMedia, UiCreateRingingDlg
    <3>7. CASE Quiet \/ OverEnd \/ \E S \in SUBSET NotIncoming : Hangs(S)
      BY <3>7 DEF Quiet, OverEnd, Hangs, NotRung
    <3>. QED  BY <1>4, <3>1, <3>2, <3>3, <3>4, <3>5, <3>6, <3>7 DEF Along, Widgets
  <2>2. ASSUME OpenDlgs # {} PROVE OpenDlgs' # {}
    <3>1. CASE UiCallState
      BY <1>0, <2>2, <3>1, CloseKeeps DEF UiCallState, OpenDlgs
    <3>2. CASE UiCallEnd
      BY <1>0, <2>2, <3>2, CloseKeeps DEF UiCallEnd, OpenDlgs
    <3>3. ASSUME NEW c \in Calls, Closes(c) PROVE OpenDlgs' # {}
      BY <1>0, <2>2, <3>3, CloseKeeps DEF Closes
    <3>4. CASE UiCreateRingingDlg
      BY <1>0, <2>2, <3>4 DEF UiCreateRingingDlg, OpenDlgs
    <3>5. CASE dlg' = dlg
      BY <2>2, <3>5 DEF OpenDlgs
    <3>. QED  BY <1>4, <3>1, <3>2, <3>3, <3>4, <3>5
         DEF Along, Widgets, Quiet, OverEnd, Hangs, MakeCall, UiMedia, UiTransferStatus
  <2>3. ASSUME NEW c \in Calls, Waiting(c), Queued("ringing", c)
        PROVE  \/ OpenDlgs' # {}
               \/ \E x \in Calls : Waiting(x)' /\ Queued("ringing", x)'
               \/ \E m \in In(queue)' : Stops(m)'
    <3>1. CASE UiCreateRingingDlg /\ Current.call = c
      <4>1. dlg'[c] = "open"
        BY <1>0, <2>3, <3>1, OpensDlg
      <4>. QED  BY <4>1 DEF OpenDlgs
    <3>. QED  BY <1>2, <2>3, <3>1, StillQueued
  <2>4. ASSUME NEW m \in In(queue), Stops(m)
        PROVE  OpenDlgs' # {} \/ \E k \in In(queue)' : Stops(k)'
    <3>1. m \in Messages /\ m.call \in Calls /\ (IsFinal(m) => inv[m.call] \in Ended)
      BY <2>4 DEF Along, WidgetsInv, QueueInv, Ordered, Good, Faithful, Stops, Calls
    <3>2. CASE m \in In(queue)'
      BY <1>1, <2>4, <3>1, <3>2
    <3>3. CASE UiMessage /\ m = Current /\ IsFinal(m)
      <4>1. UiCallEnd
        BY <3>3, TakenBy
      <4>2. CloseDlg(m.call) /\ OpenDlgs # {}
        BY <2>4, <3>3, <4>1 DEF UiCallEnd, Stops
      <4>. QED  BY <2>2, <4>2
    <3>4. CASE UiMessage /\ m = Current /\ ~IsFinal(m)
      <4>1. UiCallState
        BY <2>4, <3>4, TakenBy DEF Stops, IsClosing
      <4>2. CloseDlg(m.call) /\ OpenDlgs # {}
        BY <2>4, <3>4, <4>1 DEF UiCallState, Stops, IsClosing, IsFinal
      <4>. QED  BY <2>2, <4>2
    <3>. QED  BY <1>0, <3>2, <3>3, <3>4
  <2>. QED  BY <1>0, <2>1, <2>2, <2>3, <2>4 DEF RingtoneInv
<1>. QED  BY <1>3, <1>4

-----------------------------------------------------------------------------
(* The established calls.                                                  *)

\* A call of a tab leaves it only when it is hung up or over.
LEMMA TabKept ==
  ASSUME Along, NEW c \in Calls, NEW n \in Numbers, tabs[n] = c,
         inv[c] \notin Ended, c \notin ending'
  PROVE  tabs'[n] = c
<1>0. tabs \in TabTypes
  BY DEF Along, IInv, TypeOK, TabTypes
<1>1. CASE UiCallEnd
  <2>1. queue # <<>> /\ IsFinal(Current) /\ tabs' = EndTabs(tabs, {Current.call})
    BY <1>1 DEF UiCallEnd, UiTakes, IsFinal
  <2>2. inv[Current.call] \in Ended
    BY <2>1, Takes DEF Along, WidgetsInv, Faithful
  <2>. QED  BY <2>1, <2>2 DEF EndTabs
<1>2. ASSUME NEW d, tabs' \in {ShowTab(d), LinkTab(d)} PROVE tabs'[n] = c
  BY <1>0, <1>2 DEF ShowTab, LinkTab, TabBusy, TabTypes
<1>3. CASE UiTransferStatus
  <2>. DEFINE d == Current.call
  <2>1. CASE tabs' = LinkTab(d)
    BY <1>2, <2>1
  <2>2. CASE tabs' = EndTabs(LinkTab(d), {d}) /\ ending' = ending \cup {d}
    <3>1. LinkTab(d)[n] = c
      BY <1>0 DEF LinkTab, TabBusy, TabTypes
    <3>. QED  BY <2>2, <3>1 DEF EndTabs
  <2>. QED  BY <1>3, <2>1, <2>2 DEF UiTransferStatus
<1>4. ASSUME NEW d, NEW k, MakeCall(d, k) PROVE tabs'[n] = c
  <2>. DEFINE S == IF SingleMode THEN NotIncoming ELSE {}
  <2>1. /\ tabs' = [EndTabs(tabs, S) EXCEPT ![k] = d] /\ ending' = ending \cup S
        /\ tabs[k] \notin Calls
    BY <1>4 DEF MakeCall
  <2>. HIDE DEF S
  <2>2. c \notin S /\ k # n
    BY <2>1
  <2>. QED  BY <2>1, <2>2 DEF EndTabs
<1>5. CASE UiCallState \/ UiMedia
  BY <1>2, <1>5 DEF UiCallState, UiMedia
<1>6. CASE OverEnd
  <2>1. uiCall # c
    BY CallsAssumption, <1>6 DEF Along, WidgetsInv, SlotsInv, Inside, Ended, OverEnd
  <2>. QED  BY <1>6, <2>1 DEF OverEnd, EndTabs
<1>7. CASE \E S \in SUBSET NotIncoming : Hangs(S)
  BY <1>7 DEF Hangs, EndTabs
<1>8. CASE \/ Quiet \/ UiRing \/ UiCreateRingingDlg \/ \E d \in Calls : Closes(d)
  BY <1>8 DEF Quiet, UiRing, UiCreateRingingDlg, Closes
<1>. QED  BY <1>1, <1>3, <1>4, <1>5, <1>6, <1>7, <1>8 DEF Along, Widgets

\* No call is taken off the list of those that are hung up.
LEMMA EndingGrows == ASSUME Along PROVE ending \subseteq ending'
<1>1. ASSUME NEW d, NEW k, MakeCall(d, k) PROVE ending \subseteq ending'
  BY <1>1 DEF MakeCall
<1>2. CASE \/ UiRing \/ UiCallState \/ UiCallEnd \/ UiMedia \/ UiTransferStatus
           \/ UiCreateRingingDlg
  BY <1>2 DEF UiRing, UiCallState, UiCallEnd, UiMedia, UiTransferStatus, UiCreateRingingDlg,
     pjsuaVars
<1>3. CASE Quiet \/ OverEnd
  BY <1>3 DEF Quiet, OverEnd
<1>4. ASSUME NEW S, Hangs(S) PROVE ending \subseteq ending'
  BY <1>4 DEF Hangs
<1>5. ASSUME NEW c, Closes(c) PROVE ending \subseteq ending'
  BY <1>5 DEF Closes
<1>. QED  BY <1>1, <1>2, <1>3, <1>4, <1>5 DEF Along, Widgets

LEMMA ReachStep == ASSUME Along PROVE ReachInv'
<1>0. /\ tabs \in TabTypes /\ PartyKnown /\ ReachInv /\ TabsInv /\ ~crashed
      /\ \A c \in Calls : Kept(c)
  BY DEF Along, IInv, TypeOK, TabTypes, WidgetsInv, SlotsInv, Past
<1>. SUFFICES ASSUME NEW c \in Calls, inv'[c] \in {"connecting", "confirmed"},
                     c \notin ending', Alone(c)'
              PROVE  tabs'[num'[c]] = c \/ NewsQueued(c)'
  BY DEF ReachInv
<1>1. CASE inv[c] \notin {"connecting", "confirmed"}
  BY <1>0, <1>1 DEF Kept
<1>2. CASE inv[c] \in {"connecting", "confirmed"}
  <2>1. num[c] \in Numbers /\ num'[c] = num[c] /\ c \notin ending /\ inv[c] \notin Ended
    BY <1>0, <1>2, EndingGrows DEF Kept, PartyKnown, Ended
  <2>2. Alone(c)
    <3>. SUFFICES ASSUME NEW d \in Calls \ {c} PROVE num[d] # num[c]
      BY DEF Alone
    <3>1. CASE inv[d] = "unused"
      BY <1>0, <2>1, <3>1, CallsAssumption DEF PartyKnown
    <3>2. CASE inv[d] # "unused"
      BY <1>0, <2>1, <3>2 DEF Kept, Alone
    <3>. QED  BY <3>1, <3>2
  <2>3. CASE tabs[num[c]] = c
    BY <2>1, <2>3, TabKept
  <2>4. CASE NewsQueued(c) /\ UiCallState /\ Current.call = c
    <3>1. tabs' = ShowTab(c)
      BY <2>4 DEF UiCallState
    <3>2. ~TabBusy(c)
      BY <1>0, <2>1, <2>2 DEF TabBusy, TabsInv, Alone
    <3>. QED  BY <1>0, <2>1, <3>1, <3>2 DEF ShowTab, TabTypes
  <2>. QED  BY <1>0, <1>2, <2>1, <2>2, <2>3, <2>4, StillQueued DEF ReachInv
<1>. QED  BY <1>1, <1>2

-----------------------------------------------------------------------------
(* The call log.                                                           *)

\* How a step writes the entry of call c.
LEMMA LogMoves ==
  ASSUME Along, NEW c \in Calls
  PROVE  \/ log'[c] = log[c]
         \/ /\ log'[c] = "miss" /\ c \in Incoming \ conn
            /\ (c \in ending' /\ inv[c] \in Active) \/ inv[c] \in Ended
         \/ log'[c] = "in" /\ c \in Incoming /\ UiCallState /\ Current.call = c
         \/ log'[c] = "out" /\ c \in Outgoing /\ UiCallState /\ Current.call = c
         \/ log'[c] = "out" /\ c \in Outgoing /\ inv'[c] # "unused"
<1>0. /\ log \in [Calls -> {"none", "in", "out", "miss"}] /\ inv \in [Calls -> States]
      /\ QueueInv
  BY DEF Along, IInv, TypeOK, WidgetsInv
<1>1. ASSUME NEW S, NEW hid, NEW l, l = EndLog(S, hid)
      PROVE  l[c] = log[c] \/ (l[c] = "miss" /\ c \in (S \cap Incoming) \ conn)
  BY <1>1 DEF EndLog
<1>2. ASSUME NEW S \in SUBSET NotIncoming, c \in S PROVE inv[c] \in Active
  BY <1>2 DEF NotIncoming
<1>3. CASE UiCallEnd
  <2>1. queue # <<>> /\ IsFinal(Current)
    BY <1>3 DEF UiCallEnd, UiTakes, IsFinal
  <2>2. inv[Current.call] \in Ended /\ (Current.code = "486" => Current.call \notin conn)
    BY <1>0, <2>1, Takes DEF Faithful
  <2>3. \/ /\ log' = [log EXCEPT ![Current.call] = "miss"]
           /\ Current.call \in Incoming /\ Current.code = "486"
        \/ \E hid : log' = EndLog({Current.call}, hid)
    BY <1>3 DEF UiCallEnd
  <2>4. CASE \E hid : log' = EndLog({Current.call}, hid)
    BY <1>1, <2>2, <2>4
  <2>. QED  BY <1>0, <2>2, <2>3, <2>4
<1>4. CASE UiCallState
  BY <1>0, <1>4 DEF UiCallState, Calls
<1>5. CASE UiTransferStatus
  <2>1. \/ log' = log
        \/ /\ log' = EndLog({Current.call}, HiddenData) /\ ending' = ending \cup {Current.call}
           /\ Current.call \in NotIncoming
    BY <1>5 DEF UiTransferStatus
  <2>. QED  BY <1>1, <1>2, <2>1
<1>6. ASSUME NEW d \in Outgoing, NEW n, MakeCall(d, n)
      PROVE  \/ log'[c] = log[c]
             \/ log'[c] = "miss" /\ c \in Incoming \ conn /\ c \in ending' /\ inv[c] \in Active
             \/ log'[c] = "out" /\ c \in Outgoing /\ inv'[c] # "unused"
  <2>. DEFINE S == IF SingleMode THEN NotIncoming ELSE {}
  <2>1. /\ S \in SUBSET NotIncoming /\ ending' = ending \cup S
        /\ log' = [EndLog(S, HiddenData) EXCEPT ![d] = "out"]
        /\ inv' = [inv EXCEPT ![d] = "calling"]
    BY <1>6 DEF MakeCall
  <2>. HIDE DEF S
  <2>2. CASE c = d
    <3>1. log'[c] = "out"
      BY <2>1, <2>2 DEF EndLog
    <3>. QED  BY <1>0, <2>1, <2>2, <3>1
  <2>3. CASE c # d
    <3>1. log'[c] = EndLog(S, HiddenData)[c]
      BY <2>1, <2>3 DEF EndLog
    <3>. QED  BY <1>1, <1>2, <2>1, <3>1
  <2>. QED  BY <2>2, <2>3
<1>7. CASE OverEnd
  <2>1. inv[uiCall] \in Ended
    BY <1>7, CallsAssumption DEF OverEnd, Along, WidgetsInv, SlotsInv, Inside, Ended
  <2>. QED  BY <1>1, <1>7, <2>1 DEF OverEnd
<1>8. ASSUME NEW S \in SUBSET NotIncoming, Hangs(S)
      PROVE  \/ log'[c] = log[c]
             \/ log'[c] = "miss" /\ c \in Incoming \ conn /\ c \in ending' /\ inv[c] \in Active
  BY <1>1, <1>2, <1>8 DEF Hangs
<1>9. CASE \/ Quiet \/ UiRing \/ UiMedia \/ UiCreateRingingDlg \/ \E d \in Calls : Closes(d)
  BY <1>9 DEF Quiet, UiRing, UiMedia, UiCreateRingingDlg, Closes
<1>. QED  BY <1>3, <1>4, <1>5, <1>6, <1>7, <1>8, <1>9 DEF Along, Widgets

LEMMA LogStep == ASSUME Along PROVE LogInv'
<1>0. /\ log \in [Calls -> {"none", "in", "out", "miss"}] /\ LogInv
      /\ conn \subseteq Calls /\ hidden \subseteq Calls /\ hidden' \subseteq Calls
      /\ conn \subseteq conn' /\ hidden \subseteq hidden' /\ lost \subseteq lost'
      /\ ending \subseteq ending'
      /\ \A c \in Calls : Kept(c)
  BY EndingGrows DEF Along, IInv, TypeOK, WidgetsInv, Past
\* The handler of a state that a call goes on with.
<1>1. ASSUME NEW c, UiCallState, Current.call = c
      PROVE  /\ inv[c] # "unused" /\ c \notin hidden
             /\ inv[c] \in Ended /\ c \notin lost => EndIn(c)'
  <2>1. queue # <<>> /\ Current.type \in WithData /\ ~IsFinal(Current) /\ QueueInv
    BY <1>1 DEF UiCallState, UiTakes, WithData, IsFinal, Along, WidgetsInv
  <2>2. inv[c] # "unused" /\ c \notin hidden
    BY <1>1, <2>1, CurrentFine DEF TabFine
  <2>3. ASSUME inv[c] \in Ended, c \notin lost PROVE EndIn(c)'
    <3>1. PICK m \in In(Rest) : IsFinal(m) /\ m.call = c
      BY <1>1, <2>1, <2>2, <2>3, CurrentFine
    <3>2. m \in In(queue)'
      BY <2>1, <3>1, Takes DEF Along, Past
    <3>. QED  BY <3>1, <3>2 DEF EndIn
  <2>. QED  BY <2>2, <2>3
<1>2. ASSUME NEW c \in Calls, inv'[c] = "unused" PROVE log'[c] = "none"
  <2>1. inv[c] = "unused" /\ log[c] = "none"
    BY <1>0, <1>2 DEF Kept, LogInv
  <2>. QED  BY <1>1, <1>2, <2>1, LogMoves DEF Active, Ended
<1>3. ASSUME NEW c \in Outgoing PROVE log'[c] \in {"out", "none"}
  BY <1>0, CallsAssumption, LogMoves DEF LogInv, Calls
<1>4. ASSUME NEW c \in Incoming PROVE log'[c] # "out"
  BY <1>0, CallsAssumption, LogMoves DEF LogInv, Calls
<1>5. ASSUME NEW c \in Calls, log'[c] = "miss"
      PROVE  c \in ending' \/ (c \notin conn' /\ inv'[c] \in Ended)
  <2>1. c \in ending' \/ (c \notin conn /\ inv[c] \in Ended)
    BY <1>0, <1>5, LogMoves DEF LogInv
  <2>. QED  BY <1>0, <2>1 DEF Kept, Ended
<1>6. ASSUME NEW c \in hidden' PROVE log'[c] # "in" /\ c \in Incoming
  <2>1. CASE c \in hidden
    BY <1>0, <1>1, <2>1, LogMoves DEF LogInv
  <2>2. CASE c \notin hidden
    <3>1. inv[c] = "unused" /\ c \in Incoming /\ log[c] = "none"
      BY <1>0, <2>2 DEF Kept, LogInv
    <3>. QED  BY <1>0, <1>1, <3>1, LogMoves
  <2>. QED  BY <2>1, <2>2
<1>7. ASSUME NEW c \in Incoming \ (conn' \cup hidden' \cup lost'), inv'[c] \in Ended
      PROVE  log'[c] = "miss" \/ EndIn(c)'
  <2>1. c \in Calls /\ c \notin conn \cup hidden \cup lost /\ c \notin Outgoing
    BY <1>0, CallsAssumption DEF Calls
  <2>2. CASE inv[c] \notin Ended
    BY <1>0, <1>7, <2>1, <2>2 DEF Kept
  <2>3. CASE inv[c] \in Ended /\ log[c] = "miss"
    BY <1>1, <2>1, <2>3, LogMoves
  <2>4. CASE inv[c] \in Ended /\ EndIn(c)
    <3>1. CASE UiCallEnd /\ Current.call = c
      <4>1. queue # <<>> /\ IsFinal(Current) /\ Current.type \in WithData
        BY <3>1 DEF UiCallEnd, UiTakes, IsFinal, WithData
      <4>2. Current.data = c
        BY <3>1, <4>1, Takes DEF Along, WidgetsInv, Faithful
      <4>3. \/ log' = [log EXCEPT ![c] = "miss"]
            \/ log' = EndLog({c}, {})
        BY <2>1, <3>1, <4>2 DEF UiCallEnd
      <4>4. EndLog({c}, {})[c] = "miss"
        BY <2>1 DEF EndLog
      <4>. QED  BY <1>0, <2>1, <4>3, <4>4
    <3>. QED  BY <2>4, <3>1, StillQueued
  <2>. QED  BY <1>0, <2>1, <2>2, <2>3, <2>4 DEF LogInv
<1>. QED  BY <1>2, <1>3, <1>4, <1>5, <1>6, <1>7 DEF LogInv

-----------------------------------------------------------------------------
(* The calls that are offered.                                             *)

\* The flag hangup is never cleared.
LEMMA HungGrows == ASSUME Next PROVE hung \subseteq hung'
<1>1. CASE UiMessage
  BY <1>1 DEF UiMessage, UiForwardNow, UiRing, UiCallState, UiCallEnd, UiMedia,
     UiTransferStatus, UiCreateRingingDlg, UiPlayerStop, UiAnswer, Answer, UiRefuse,
     UiAnswerTooLate, heapVars
<1>2. CASE User
  BY <1>2 DEF User, MakeCall, CommandAnswer, DlgAnswer, Answer, DlgDecline, DlgDeclineLate,
     DlgIgnore, HangUpFails, HangUp, HangUpWaiting, heapVars
<1>3. CASE UiResetCall \/ TimerForward \/ TimerTone \/ SoundEnds
  BY <1>3 DEF UiResetCall, TimerForward, TimerTone, SoundEnds, heapVars
<1>4. CASE Worker
  BY <1>4 DEF Worker, IncomingOffered, IncomingRefused, IncomingCrash, CallProgress,
     CallEnds, MediaState, TransferStatus, PostWithData, Transferred, WkResetCall, heapVars
<1>. QED  BY <1>1, <1>2, <1>3, <1>4 DEF Next

\* on_incoming_call offers no call while another one counts.
LEMMA OfferedAlone ==
  ASSUME Before, ~CallWaiting, NEW c, NEW n, IncomingOffered(c, n),
         NEW d \in Calls, d # c, Waiting(d)
  PROVE  d \in hung
<1>1. inv[d] \in Active
  BY WaitingActive
<1>2. data[d] = d
  BY <1>1, ActiveCall
<1>. SUFFICES ASSUME d \notin hung PROVE FALSE
  OBVIOUS
<1>3. d \in Counted
  BY <1>1, <1>2 DEF Counted, Enumerated, InPjsua, Active
<1>. DEFINE S == Counted \cup {c}
<1>4. c \in Calls
  BY DEF IncomingOffered, ArrivesAt, Calls
<1>5. IsFiniteSet(S)
  <2>1. S \in SUBSET Calls
    BY <1>4 DEF Counted, Enumerated
  <2>. HIDE DEF S
  <2>. QED  BY <2>1, CallsAssumption, FS_Subset
<1>6. {c, d} \in SUBSET S
  BY <1>3
<1>7. ~(Cardinality(S) > 1)
  BY DEF IncomingOffered, OverLimit
<1>. HIDE DEF S
<1>8. Cardinality({c, d}) = 2
  <2>1. IsFiniteSet({c}) /\ Cardinality({c}) = 1 /\ {c} \cup {d} = {c, d}
    BY FS_Singleton
  <2>2. Cardinality({c} \cup {d}) = 1 + 1
    BY <2>1, FS_AddElement
  <2>. QED  BY <2>1, <2>2
<1>9. Cardinality({c, d}) <= Cardinality(S) /\ Cardinality(S) \in Nat
  BY <1>5, <1>6, FS_Subset, FS_CardinalityType
<1>. QED  BY <1>7, <1>8, <1>9

LEMMA OfferStep == ASSUME Along PROVE OfferInv'
<1>0. /\ Before /\ QueueInv /\ Next /\ OfferInv /\ hung \subseteq hung'
      /\ \A c \in Calls : Kept(c)
  BY HungGrows DEF Along, Before, WidgetsInv, Past
<1>1. ASSUME ~CallWaiting, NEW c \in Calls, NEW d \in Calls, c # d, ~Waiting(c),
             Waiting(c)', Waiting(d)'
      PROVE  d \in hung'
  <2>1. inv[c] = "unused" /\ inv'[c] = "incoming"
    BY <1>0, <1>1 DEF Kept
  <2>2. PICK n \in Numbers : IncomingOffered(c, n)
    BY <1>0, <2>1, NewOffer DEF Offered
  <2>3. inv' = [inv EXCEPT ![c] = "incoming"]
    BY <2>2 DEF IncomingOffered
  <2>4. Waiting(d)
    BY <1>1, <2>3 DEF Waiting
  <2>. QED  BY <1>0, <1>1, <2>2, <2>4, OfferedAlone
<1>2. ASSUME ~CallWaiting, NEW c \in Calls, NEW d \in Calls, c # d, Waiting(c), Waiting(d)
      PROVE  c \in hung' \/ d \in hung'
  BY <1>0, <1>2 DEF OfferInv
<1>. QED  BY <1>1, <1>2 DEF OfferInv

-----------------------------------------------------------------------------
(* The invariant and the properties.                                       *)

LEMMA InitWidgets == Init => WidgetsInv
<1>. SUFFICES ASSUME Init PROVE WidgetsInv
  OBVIOUS
<1>0. In(queue) = {} /\ queue \in Seq(Messages) /\ Len(queue) = 0
  BY InNone DEF Init
<1>1. SlotsInv
  BY DEF Init, SlotsInv, PartyKnown, ConnEstablished, EndedEmpty, LostEnded, Roles, Inside,
     Ended, Calls
<1>2. QueueInv
  BY <1>0 DEF QueueInv, Ordered, IncomingFirst, Covered
<1>3. TabsInv
  BY CallsAssumption DEF Init, TabsInv
<1>4. DlgsInv
  BY DEF Init, DlgsInv, Waiting, Calls
<1>5. RingtoneInv /\ ReachInv
  BY DEF Init, RingtoneInv, ReachInv
<1>6. LogInv
  BY DEF Init, LogInv, Ended, Calls
<1>7. OfferInv
  BY DEF Init, OfferInv, Waiting
<1>. QED  BY <1>1, <1>2, <1>3, <1>4, <1>5, <1>6, <1>7 DEF WidgetsInv

LEMMA WidgetsStutter == WidgetsInv /\ UNCHANGED vars => WidgetsInv'
<1>. SUFFICES ASSUME WidgetsInv, UNCHANGED vars PROVE WidgetsInv'
  OBVIOUS
<1>0. /\ UNCHANGED <<inv, num, conn, ending, data, hidden, hung, queue>>
      /\ UNCHANGED <<tabs, dlg, sound, log, uiCall, wkCall, lost, crashed>>
  BY DEF vars, pjsuaVars, heapVars, uiVars, pcVars
<1>1. SlotsInv'
  BY <1>0 DEF WidgetsInv, SlotsInv, PartyKnown, ConnEstablished, EndedEmpty, LostEnded, Roles,
     Inside
<1>2. QueueInv'
  BY <1>0 DEF WidgetsInv, QueueInv, Good, Going, Asking, Faithful, Waiting
<1>3. TabsInv' /\ DlgsInv'
  BY <1>0 DEF WidgetsInv, TabsInv, DlgsInv, Waiting, EndIn, Queued, ClosingQueued
<1>4. RingtoneInv' /\ ReachInv'
  BY <1>0 DEF WidgetsInv, RingtoneInv, ReachInv, Waiting, OpenDlgs, Queued, Stops, Alone,
     NewsQueued
<1>5. LogInv' /\ OfferInv'
  BY <1>0 DEF WidgetsInv, LogInv, OfferInv, Waiting, EndIn
<1>. QED  BY <1>1, <1>2, <1>3, <1>4, <1>5 DEF WidgetsInv

\* Every widget is as it should be, or the message that will put it right is
\* on its way: the strengthening that the theorems below follow from.
THEOREM WidgetsFollow == Spec => []WidgetsInv
<1>1. IInv /\ TypeOK' /\ WidgetsInv /\ [Next]_vars => WidgetsInv'
  <2>. SUFFICES ASSUME IInv, TypeOK', WidgetsInv, [Next]_vars PROVE WidgetsInv'
    OBVIOUS
  <2>1. CASE Next
    <3>1. Along
      BY <2>1, AlongStep
    <3>. QED  BY <3>1, TabsStep, DlgsStep, RingtoneStep, ReachStep, LogStep, OfferStep
         DEF Along, WidgetsInv
  <2>2. CASE UNCHANGED vars
    BY <2>2, WidgetsStutter
  <2>. QED  BY <2>1, <2>2
<1>. QED  BY <1>1, InitWidgets, Inductive, TypeCorrect, PTL DEF Spec

\* The call of every tab exists in PJSUA, or its end is on the way to the UI or
\* was swallowed by the early return for status 481; no two tabs share a call.
THEOREM TabsAgree == Spec => []TabAgreement
<1>1. WidgetsInv => TabAgreement
  <2>1. \A c : EndIn(c) => EndQueued(c)
    BY DEF EndIn, EndQueued, In
  <2>. QED  BY <2>1 DEF WidgetsInv, TabsInv, TabAgreement
<1>. QED  BY <1>1, WidgetsFollow, PTL

\* Once the UI thread has taken all its messages, no ringing window outlives
\* its call and no waiting call is without one, unless the user closed it.
THEOREM WindowsMatchCalls == Spec => []RingingWindows
<1>1. WidgetsInv => RingingWindows
  <2>. SUFFICES ASSUME WidgetsInv, AtRest, NEW c \in Incoming
                PROVE  /\ dlg[c] = "open" => Waiting(c)
                       /\ Waiting(c) => dlg[c] # "none"
    BY DEF RingingWindows
  <2>1. In(queue) = {}
    BY InNone DEF AtRest
  <2>. QED  BY <2>1 DEF WidgetsInv, DlgsInv, ClosingQueued, Queued, Calls
<1>. QED  BY <1>1, WidgetsFollow, PTL

\* The looped ringtone does not go on when nobody calls any more, whichever
\* handlers started and stopped it.
THEOREM RingtoneStops == Spec => []RingtoneForSomebody
<1>1. WidgetsInv => RingtoneForSomebody
  <2>. SUFFICES ASSUME WidgetsInv, AtRest, sound = "ring"
                PROVE  \E c \in Incoming : Waiting(c)
    BY DEF RingtoneForSomebody
  <2>1. In(queue) = {}
    BY InNone DEF AtRest
  <2>2. PICK c \in OpenDlgs : TRUE
    BY <2>1 DEF WidgetsInv, RingtoneInv, Queued
  <2>3. c \in Incoming /\ Waiting(c)
    BY <2>1 DEF WidgetsInv, DlgsInv, OpenDlgs, ClosingQueued
  <2>. QED  BY <2>3
<1>. QED  BY <1>1, WidgetsFollow, PTL

\* A call the user talks in has a tab, unless another call had that number.
THEOREM CallsReachable == Spec => []EstablishedCallReachable
<1>1. WidgetsInv => EstablishedCallReachable
  <2>. SUFFICES ASSUME WidgetsInv, AtRest, NEW c \in Calls, inv[c] = "confirmed",
                       c \notin ending, Alone(c)
                PROVE  tabs[num[c]] = c
    BY DEF EstablishedCallReachable, Alone
  <2>1. In(queue) = {}
    BY InNone DEF AtRest
  <2>. QED  BY <2>1 DEF WidgetsInv, ReachInv, NewsQueued
<1>. QED  BY <1>1, WidgetsFollow, PTL

\* The entry that the log ends up with is that of the last handler that wrote
\* it; whatever their order, it tells what became of the call.
THEOREM LogIsRight == Spec => []LogTellsOutcome
<1>1. TypeOK /\ WidgetsInv => LogTellsOutcome
  <2>. SUFFICES ASSUME TypeOK, WidgetsInv, AtRest, NEW c \in Calls \ lost, inv[c] = "reset"
                PROVE  IF c \in Outgoing THEN log[c] \in {"out", "none"}
                       ELSE IF c \in conn THEN log[c] \in {"in", "none"} \/ c \in ending
                       ELSE IF c \in hidden THEN log[c] \in {"miss", "none"}
                       ELSE log[c] = "miss"
    BY DEF LogTellsOutcome
  <2>1. In(queue) = {} /\ inv[c] \in Ended /\ log[c] \in {"none", "in", "out", "miss"}
    BY InNone DEF AtRest, Ended, TypeOK
  <2>. QED  BY <2>1 DEF WidgetsInv, LogInv, EndIn, Calls
<1>. QED  BY <1>1, TypeCorrect, WidgetsFollow, PTL

\* on_incoming_call refuses a second call while one waits that the user has
\* not hung up, if call waiting is off.
THEOREM OneCallOffered == Spec => []OneOfferAtATime
<1>1. IInv /\ WidgetsInv => OneOfferAtATime
  <2>. SUFFICES ASSUME IInv, WidgetsInv, ~CallWaiting, NEW c \in Incoming, NEW d \in Incoming,
                       Waiting(c), Waiting(d), c # d
                PROVE  {data[c], data[d]} \cap hung # {}
    BY DEF OneOfferAtATime
  <2>1. c \in hung \/ d \in hung
    BY DEF WidgetsInv, OfferInv, Calls
  <2>2. data[c] = c /\ data[d] = d
    BY WaitingActive DEF IInv, UserData, ActiveOwns, Calls
  <2>. QED  BY <2>1, <2>2
<1>. QED  BY <1>1, Inductive, WidgetsFollow, PTL

\* A step that closes the window of a call that waits is the user's: the
\* messages that close windows are about calls that do not wait any more.
THEOREM WindowsStay == Spec => WindowKeptWhileWaiting
<1>. DEFINE A == \A c \in Calls : dlg[c] = "open" /\ dlg'[c] # "open" =>
                   ~Waiting(c) \/ DlgIgnore(c) \/ DlgDeclineLate(c)
<1>1. IInv /\ TypeOK' /\ WidgetsInv /\ [Next]_vars => [A]_vars
  <2>. SUFFICES ASSUME IInv, TypeOK', WidgetsInv, Next, NEW c \in Calls,
                       dlg[c] = "open", dlg'[c] # "open"
                PROVE  ~Waiting(c) \/ DlgIgnore(c) \/ DlgDeclineLate(c)
    OBVIOUS
  <2>0. Along /\ dlg \in [Calls -> {"none", "open", "closed"}] /\ QueueInv
    BY AlongStep DEF IInv, TypeOK, WidgetsInv
  <2>1. CASE UiCallState \/ UiCallEnd
    <3>1. queue # <<>> /\ IsClosing(Current) /\ c = Current.call
      BY <2>0, <2>1 DEF UiCallState, UiCallEnd, UiTakes, CloseDlg, IsClosing
    <3>. QED  BY <2>0, <3>1, Takes DEF Faithful
  <2>2. ASSUME NEW d \in Calls, Closes(d)
        PROVE  ~Waiting(c) \/ DlgIgnore(c) \/ DlgDeclineLate(c)
    <3>1. c = d
      BY <2>0, <2>2 DEF Closes, CloseDlg
    <3>. QED  BY <2>2, <3>1 DEF Closes
  <2>3. CASE UiCreateRingingDlg
    BY <2>0, <2>3 DEF UiCreateRingingDlg
  <2>4. CASE dlg' = dlg
    BY <2>4
  <2>. QED  BY <2>0, <2>1, <2>2, <2>3, <2>4
       DEF Along, Widgets, Quiet, OverEnd, Hangs, MakeCall, UiRing, UiMedia, UiTransferStatus
<1>. QED  BY <1>1, Inductive, TypeCorrect, WidgetsFollow, PTL DEF WindowKeptWhileWaiting, Spec

=============================================================================
