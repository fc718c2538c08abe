------------------------ MODULE CallLifecycleProofs ------------------------
(***************************************************************************)
(* Theorems about CallLifecycle: its types, the three properties that      *)
(* keep the two threads from meeting on a deleted call_user_data, and the  *)
(* bookkeeping of delayed forwarding, for any number of calls and parties  *)
(* and any settings.                                                       *)
(*                                                                         *)
(* The properties are not inductive alone.  UserData adds that a slot      *)
(* holds its own object exactly while the call is active (so that a        *)
(* transferred call never inherits one), that an object does not exist     *)
(* before its call, and that a hidden object's call is over.  That delayed *)
(* forwarding is never disabled needs one fact about the UI thread: it has *)
(* something left to do only while it is inside a callback.                *)
(***************************************************************************)
EXTENDS CallLifecycle, SequenceTheorems, TLAPS

-----------------------------------------------------------------------------
(* The inductive invariant.                                                *)

\* Every object that a message of q carries is alive.
QLive(q, h) == \A i \in 1..Len(q) : q[i].type \in WithData => h[q[i].data] = "live"

\* The object of a final message of q is in no slot and in no later message.
QFinal(q, d) ==
  \A i \in 1..Len(q) : IsFinal(q[i]) =>
    /\ d[q[i].data] = None
    /\ \A j \in (i + 1)..Len(q) : ~Carries(q[j], q[i].data)

QOK(q, d, h) == q \in Seq(Messages) /\ QLive(q, h) /\ QFinal(q, d)

SlotOwn      == \A c \in Calls : data[c] # None => data[c] = c /\ heap[c] = "live"
ActiveOwns   == \A c \in Calls : inv[c] \in Active => data[c] = c
UnusedFresh  == \A c \in Calls : inv[c] = "unused" => heap[c] = "none" /\ data[c] = None
HiddenIsOver == \A c \in hidden : inv[c] = "reset"

UserData == /\ SlotOwn /\ ActiveOwns /\ UnusedFresh /\ HiddenIsOver
            /\ QOK(queue, data, heap)

IInv == TypeOK /\ UserData

-----------------------------------------------------------------------------
(* The queue.                                                              *)

\* Messages whose handlers follow no pointer.
Plain(s) == s \in Seq(Messages) /\ \A i \in 1..Len(s) : s[i].type \notin WithData

\* What the type of a message says about its fields.
LEMMA MessageFields ==
  ASSUME NEW m \in Messages
  PROVE  /\ m.type \in WithData => m.data \in Calls /\ m.call \in Calls
         /\ m.type \in {"ringing", "answer"} => m.call \in Calls
         /\ m.st \in States /\ m.code \in Codes
  BY DEF Messages, WithData, States, Codes

\* The messages that the program builds are well typed.
LEMMA MessageTypes ==
  /\ \A t \in WithData, c \in Calls, u \in Calls, st \in States, k \in Codes :
       Msg(t, c, u, st, k) \in Messages
  /\ \A t \in {"ringing", "answer"}, c \in Calls, k \in Codes :
       Msg(t, c, None, "unused", k) \in Messages
  /\ PlayerStopMsg \in Messages
  BY DEF Messages, Msg, PlayerStopMsg, States, Codes

\* Taking the oldest message keeps the queue in order.
LEMMA QTail ==
  ASSUME NEW q, NEW d, NEW h, QOK(q, d, h), q # <<>>
  PROVE  QOK(Tail(q), d, h) /\ Head(q) \in Messages /\ Head(q) = q[1]
<1>. q \in Seq(Messages) /\ QLive(q, h) /\ QFinal(q, d)  BY DEF QOK
<1>1. /\ Head(q) \in Messages /\ Tail(q) \in Seq(Messages)
      /\ Len(Tail(q)) = Len(q) - 1 /\ Len(q) \in Nat
      /\ \A i \in 1..Len(Tail(q)) : Tail(q)[i] = q[i + 1]
  BY HeadTailProperties, LenProperties
<1>2. QLive(Tail(q), h)
  BY <1>1 DEF QLive
<1>3. QFinal(Tail(q), d)
  <2>. SUFFICES ASSUME NEW i \in 1..Len(Tail(q)), IsFinal(Tail(q)[i])
                PROVE  /\ d[Tail(q)[i].data] = None
                       /\ \A j \in (i + 1)..Len(Tail(q)) :
                            ~Carries(Tail(q)[j], Tail(q)[i].data)
    BY DEF QFinal
  <2>1. i + 1 \in 1..Len(q) /\ IsFinal(q[i + 1]) /\ Tail(q)[i] = q[i + 1]
    BY <1>1
  <2>2. /\ d[q[i + 1].data] = None
        /\ \A j \in (i + 2)..Len(q) : ~Carries(q[j], q[i + 1].data)
    BY <2>1 DEF QFinal
  <2>3. ASSUME NEW j \in (i + 1)..Len(Tail(q))
        PROVE  ~Carries(Tail(q)[j], Tail(q)[i].data)
    <3>1. j + 1 \in (i + 2)..Len(q) /\ Tail(q)[j] = q[j + 1]  BY <1>1
    <3>. QED  BY <2>1, <2>2, <3>1
  <2>. QED  BY <2>1, <2>2, <2>3
<1>4. Head(q) = q[1]
  OBVIOUS
<1>. QED  BY <1>1, <1>2, <1>3, <1>4 DEF QOK

\* Appending messages to the queue: each carries a live object that no final
\* message carries already.
LEMMA QConcat ==
  ASSUME NEW q, NEW s, NEW d, NEW h, QOK(q, d, h), QOK(s, d, h),
         \A i \in 1..Len(q), j \in 1..Len(s) :
           IsFinal(q[i]) => ~Carries(s[j], q[i].data)
  PROVE  QOK(q \o s, d, h)
<1>. /\ q \in Seq(Messages) /\ QLive(q, h) /\ QFinal(q, d)
     /\ s \in Seq(Messages) /\ QLive(s, h) /\ QFinal(s, d)
  BY DEF QOK
<1>1. /\ q \o s \in Seq(Messages) /\ Len(q \o s) = Len(q) + Len(s)
      /\ Len(q) \in Nat /\ Len(s) \in Nat
      /\ \A i \in 1..(Len(q) + Len(s)) :
           (q \o s)[i] = IF i <= Len(q) THEN q[i] ELSE s[i - Len(q)]
  BY ConcatProperties, LenProperties
<1>2. QLive(q \o s, h)
  <2>. SUFFICES ASSUME NEW i \in 1..(Len(q) + Len(s)), (q \o s)[i].type \in WithData
                PROVE  h[(q \o s)[i].data] = "live"
    BY <1>1 DEF QLive
  <2>1. CASE i <= Len(q)
    BY <1>1, <2>1 DEF QLive
  <2>2. CASE ~(i <= Len(q))
    <3>1. i - Len(q) \in 1..Len(s) /\ (q \o s)[i] = s[i - Len(q)]
      BY <1>1, <2>2
    <3>. QED  BY <3>1 DEF QLive
  <2>. QED  BY <2>1, <2>2
<1>3. QFinal(q \o s, d)
  <2>. SUFFICES ASSUME NEW i \in 1..(Len(q) + Len(s)), IsFinal((q \o s)[i])
                PROVE  /\ d[(q \o s)[i].data] = None
                       /\ \A j \in (i + 1)..(Len(q) + Len(s)) :
                            ~Carries((q \o s)[j], (q \o s)[i].data)
    BY <1>1 DEF QFinal
  <2>1. CASE i <= Len(q)
    <3>1. i \in 1..Len(q) /\ (q \o s)[i] = q[i] /\ IsFinal(q[i])
      BY <1>1, <2>1
    <3>2. /\ d[q[i].data] = None
          /\ \A j \in (i + 1)..Len(q) : ~Carries(q[j], q[i].data)
      BY <3>1 DEF QFinal
    <3>3. ASSUME NEW j \in (i + 1)..(Len(q) + Len(s))
          PROVE  ~Carries((q \o s)[j], q[i].data)
      <4>1. CASE j <= Len(q)
        BY <4>1, <1>1, <3>2
      <4>2. CASE ~(j <= Len(q))
        <5>1. j - Len(q) \in 1..Len(s) /\ (q \o s)[j] = s[j - Len(q)]
          BY <1>1, <4>2
        <5>. QED  BY <5>1, <3>1
      <4>. QED  BY <4>1, <4>2
    <3>. QED  BY <3>1, <3>2, <3>3
  <2>2. CASE ~(i <= Len(q))
    <3>. DEFINE k == i - Len(q)
    <3>1. k \in 1..Len(s) /\ (q \o s)[i] = s[k] /\ IsFinal(s[k])
      BY <1>1, <2>2
    <3>2. /\ d[s[k].data] = None
          /\ \A j \in (k + 1)..Len(s) : ~Carries(s[j], s[k].data)
      BY <3>1 DEF QFinal
    <3>3. ASSUME NEW j \in (i + 1)..(Len(q) + Len(s))
          PROVE  ~Carries((q \o s)[j], s[k].data)
      <4>1. j - Len(q) \in (k + 1)..Len(s) /\ (q \o s)[j] = s[j - Len(q)]
        BY <1>1, <2>2
      <4>. QED  BY <4>1, <3>2
    <3>. QED  BY <3>1, <3>2, <3>3
  <2>. QED  BY <2>1, <2>2
<1>. QED  BY <1>1, <1>2, <1>3 DEF QOK

\* Messages without a pointer can always be appended.
LEMMA QPlain ==
  ASSUME NEW q, NEW s, NEW d, NEW h, QOK(q, d, h), Plain(s)
  PROVE  QOK(q \o s, d, h)
<1>1. \A j \in 1..Len(s) : ~IsFinal(s[j]) /\ \A u : ~Carries(s[j], u)
  BY DEF Plain, IsFinal, Carries, WithData
<1>2. QOK(s, d, h)
  BY <1>1 DEF Plain, QOK, QLive, QFinal
<1>. QED  BY <1>1, <1>2, QConcat

\* One message with a pointer can be appended if its object is alive, no final
\* message has it and, should it be final itself, no slot has it.
LEMMA QAdd ==
  ASSUME NEW q, NEW m \in Messages, NEW d, NEW h, QOK(q, d, h),
         h[m.data] = "live",
         \A i \in 1..Len(q) : IsFinal(q[i]) => q[i].data # m.data,
         IsFinal(m) => d[m.data] = None
  PROVE  QOK(q \o <<m>>, d, h)
<1>1. QOK(<<m>>, d, h)
  BY DEF QOK, QLive, QFinal
<1>2. \A i \in 1..Len(q), j \in 1..Len(<<m>>) :
        IsFinal(q[i]) => ~Carries(<<m>>[j], q[i].data)
  BY DEF Carries
<1>. QED  BY <1>1, <1>2, QConcat

\* The queue does not mind a slot that is cleared, nor an object that is
\* created.
LEMMA QMono ==
  ASSUME NEW q, NEW d, NEW h, NEW e, NEW g, QOK(q, d, h),
         \A i \in 1..Len(q) : q[i].type \in WithData =>
            /\ h[q[i].data] = "live" => g[q[i].data] = "live"
            /\ IsFinal(q[i]) /\ d[q[i].data] = None => e[q[i].data] = None
  PROVE  QOK(q, e, g)
<1>1. QLive(q, g)
  BY DEF QOK, QLive
<1>2. QFinal(q, e)
  BY DEF QOK, QFinal, IsFinal, WithData
<1>. QED  BY <1>1, <1>2 DEF QOK

\* The forms in which the program appends.
LEMMA QForms ==
  ASSUME NEW q \in Seq(Messages), NEW m \in Messages
  PROVE  /\ q \o <<>> = q
         /\ Append(q, m) = q \o <<m>>
         /\ <<m>> \in Seq(Messages)
         /\ m.type \notin WithData => Plain(<<m>>)
  BY ConcatEmptySeq, AppendIsConcat DEF Plain

LEMMA PlainEmpty == Plain(<<>>)
  BY DEF Plain

-----------------------------------------------------------------------------
(* The slots: the few ways in which the actions change them.               *)

\* The part of TypeOK about the variables of the inductive invariant, and the
\* rest.
SlotTypes ==
  /\ inv \in [Calls -> States]
  /\ data \in [Calls -> Calls \cup {None}]
  /\ heap \in [Calls -> {"none", "live", "freed"}]
  /\ hidden \subseteq Calls
  /\ queue \in Seq(Messages)

OtherTypes ==
  /\ num \in [Calls -> Numbers \cup {None}]
  /\ conn \subseteq Calls /\ ending \subseteq Calls /\ hung \subseteq Calls
  /\ tabs \in [Numbers -> Calls \cup {NoTab, NoCall}]
  /\ dlg \in [Calls -> {"none", "open", "closed"}]
  /\ sound \in {"none", "ring", "short", "ended"}
  /\ tones \subseteq Calls
  /\ fwdCall \in Calls \cup {None} /\ fwdTimer \in BOOLEAN
  /\ log \in [Calls -> {"none", "in", "out", "miss"}]
  /\ uiCall \in Calls \cup {None} /\ wkCall \in Calls \cup {None}
  /\ uiThen \in {"none", "endCall", "closeDlg", "fwdTimer"}
  /\ lost \subseteq Calls /\ crashed \in BOOLEAN

LEMMA TypeParts == TypeOK <=> SlotTypes /\ OtherTypes
  BY DEF TypeOK, SlotTypes, OtherTypes

Core == SlotTypes /\ UserData

\* Actions that change the queue only.
LEMMA QueueOnly ==
  ASSUME Core, UNCHANGED <<inv, data, heap, hidden>>, QOK(queue', data, heap)
  PROVE  Core'
  BY DEF Core, SlotTypes, UserData, SlotOwn, ActiveOwns, UnusedFresh,
         HiddenIsOver, QOK

\* The callback on_call_state of an active call.  Such a call owns its object
\* and is not hidden, so the callback neither allocates nor deletes, and it
\* takes the object out of the slot exactly when the message is final.
LEMMA EnterStateInv ==
  ASSUME Core, NEW c \in Calls, inv[c] \in Active,
         NEW st \in States \ {"unused", "reset"}, NEW code \in Codes,
         NEW rest, QOK(rest, data, heap), NEW first, Plain(first),
         EnterState(c, st, code, rest, first), UNCHANGED hidden
  PROVE  Core'
<1>. USE CallsAssumption
<1>1. /\ data[c] = c /\ heap[c] = "live" /\ c \notin hidden /\ c # None
      /\ data \in [Calls -> Calls \cup {None}]
      /\ heap \in [Calls -> {"none", "live", "freed"}]
      /\ inv \in [Calls -> States] /\ hidden \subseteq Calls
  BY DEF Core, UserData, SlotOwn, ActiveOwns, HiddenIsOver, Active, SlotTypes
<1>. DEFINE e == IF NotReported(st, code) THEN c
                 ELSE IF st = "disconnected" THEN None ELSE c
            m == Msg("state", c, c, st, code)
            s == IF NotReported(st, code) THEN <<>> ELSE <<m>>
<1>2. /\ inv' = [inv EXCEPT ![c] = st] /\ data' = [data EXCEPT ![c] = e]
      /\ heap' = heap /\ queue' = (rest \o first) \o s /\ hidden' = hidden
  BY <1>1 DEF EnterState, SlotData, HeapAfter, StateMsgs, IsHidden, Cell
<1>3. m \in Messages /\ m.data = c /\ m.type \in WithData
      /\ (IsFinal(m) => st = "disconnected")
  BY MessageTypes DEF Msg, WithData, IsFinal
<1>. DEFINE q == rest \o first
<1>4. QOK(q, data, heap)
  BY QPlain
<1>5. \A i \in 1..Len(q) : q[i].type \in WithData =>
         /\ (IsFinal(q[i]) => q[i].data # c)
         /\ (IsFinal(q[i]) /\ data[q[i].data] = None => data'[q[i].data] = None)
  <2>. SUFFICES ASSUME NEW i \in 1..Len(q), IsFinal(q[i]), q[i].type \in WithData
                PROVE  /\ q[i].data # c
                       /\ data'[q[i].data] = None
    OBVIOUS
  <2>1. data[q[i].data] = None /\ q[i] \in Messages
    BY <1>4, ElementOfSeq DEF QOK, QFinal
  <2>2. q[i].data \in Calls
    BY <2>1, MessageFields
  <2>. QED  BY <2>1, <2>2, <1>1, <1>2
<1>6. QOK(q, data', heap)
  <2>. HIDE DEF q
  <2>. QED  BY <1>4, <1>5, QMono
<1>7. QOK(queue', data', heap)
  <2>1. CASE NotReported(st, code)
    <3>1. queue' = q
      BY <1>2, <1>4, <2>1, ConcatEmptySeq DEF QOK
    <3>. QED  BY <3>1, <1>6
  <2>2. CASE ~NotReported(st, code)
    <3>1. queue' = q \o <<m>>  BY <1>2, <2>2
    <3>2. \A i \in 1..Len(q) : IsFinal(q[i]) => q[i].data # m.data
      BY <1>5, <1>3 DEF IsFinal, WithData
    <3>3. IsFinal(m) => data'[m.data] = None
      BY <1>1, <1>2, <1>3, <2>2
    <3>. HIDE DEF q, m
    <3>. QED  BY <3>1, <3>2, <3>3, <1>1, <1>3, <1>6, QAdd
  <2>. QED  BY <2>1, <2>2
<1>8. SlotTypes'
  BY <1>1, <1>2, <1>7 DEF SlotTypes, QOK
<1>9. (SlotOwn /\ ActiveOwns /\ UnusedFresh /\ HiddenIsOver)'
  BY <1>1, <1>2 DEF Core, UserData, SlotOwn, ActiveOwns, UnusedFresh,
     HiddenIsOver, Active, NotReported
<1>. QED  BY <1>2, <1>7, <1>8, <1>9 DEF Core, UserData

\* A new call with a new object, announced by message m: it owns the object,
\* or it is over and m is final.
LEMMA NewObject ==
  ASSUME Core, NEW c \in Calls, inv[c] = "unused",
         NEW st \in Active \cup {"reset"}, NEW e \in {c, None},
         NEW m \in Messages, NEW q, QOK(q, data, heap),
         m.data = c, IsFinal(m) => e = None, st \in Active => e = c,
         inv' = [inv EXCEPT ![c] = st], data' = [data EXCEPT ![c] = e],
         heap' = [heap EXCEPT ![c] = "live"], queue' = q \o <<m>>,
         \/ hidden' = hidden
         \/ st = "reset" /\ hidden' = hidden \cup {c}
  PROVE  Core'
<1>. USE CallsAssumption
<1>1. /\ heap[c] = "none" /\ data[c] = None /\ c # None
      /\ data \in [Calls -> Calls \cup {None}]
      /\ heap \in [Calls -> {"none", "live", "freed"}]
      /\ inv \in [Calls -> States] /\ hidden \subseteq Calls
  BY DEF Core, UserData, UnusedFresh, SlotTypes
<1>2. ASSUME NEW i \in 1..Len(q), q[i].type \in WithData
      PROVE  q[i].data \in Calls \ {c}
  <2>1. q[i] \in Messages /\ heap[q[i].data] = "live"
    BY <1>2, ElementOfSeq DEF QOK, QLive
  <2>. QED  BY <1>1, <1>2, <2>1, MessageFields
<1>3. QOK(q, data', heap')
  <2>1. \A i \in 1..Len(q) : q[i].type \in WithData =>
          /\ heap'[q[i].data] = heap[q[i].data]
          /\ data'[q[i].data] = data[q[i].data]
    BY <1>1, <1>2
  <2>2. QLive(q, heap')
    BY <2>1 DEF QOK, QLive
  <2>3. QFinal(q, data')
    BY <2>1 DEF QOK, QFinal, IsFinal, WithData
  <2>. QED  BY <2>2, <2>3 DEF QOK
<1>4. \A i \in 1..Len(q) : IsFinal(q[i]) => q[i].data # m.data
  BY <1>2 DEF IsFinal, WithData
<1>5. QOK(queue', data', heap')
  <2>1. heap'[m.data] = "live" /\ data'[m.data] = e
    BY <1>1
  <2>. QED  BY <1>3, <1>4, <2>1, QAdd
<1>6. SlotTypes'
  BY <1>1, <1>5 DEF SlotTypes, QOK, States, Active
<1>7. (SlotOwn /\ ActiveOwns /\ UnusedFresh /\ HiddenIsOver)'
  BY <1>1 DEF Core, UserData, SlotOwn, ActiveOwns, UnusedFresh, HiddenIsOver, Active
<1>. QED  BY <1>5, <1>6, <1>7 DEF Core, UserData

\* reset_call clears the slot.
LEMMA ResetInv ==
  ASSUME Core, NEW c \in Calls,
         inv' = [inv EXCEPT ![c] = "reset"], data' = [data EXCEPT ![c] = None],
         UNCHANGED <<heap, hidden, queue>>
  PROVE  Core'
<1>1. ASSUME NEW i \in 1..Len(queue), queue[i].type \in WithData
      PROVE  queue[i].data \in Calls
  BY <1>1, ElementOfSeq, MessageFields DEF Core, SlotTypes
<1>2. QOK(queue, data', heap)
  BY <1>1, QMono DEF Core, UserData, SlotTypes
<1>3. SlotTypes'
  BY DEF Core, SlotTypes, States
<1>4. (SlotOwn /\ ActiveOwns /\ UnusedFresh /\ HiddenIsOver)'
  BY DEF Core, UserData, SlotTypes, SlotOwn, ActiveOwns, UnusedFresh,
     HiddenIsOver, Active
<1>. QED  BY <1>2, <1>3, <1>4 DEF Core, UserData

\* The oldest message leaves the queue: its object, if it has one, is alive
\* and, if it is final, is nowhere else.
LEMMA Taken ==
  ASSUME Core, queue # <<>>
  PROVE  /\ QOK(Rest, data, heap) /\ Current \in Messages
         /\ Current.type \in WithData => heap[Current.data] = "live"
         /\ IsFinal(Current) =>
              /\ data[Current.data] = None
              /\ \A i \in 1..Len(Rest) : ~Carries(Rest[i], Current.data)
<1>1. QOK(queue, data, heap)
  BY DEF Core, UserData
<1>2. QOK(Rest, data, heap) /\ Current \in Messages /\ Current = queue[1]
  BY <1>1, QTail DEF Rest, Current
<1>3. /\ 1 \in 1..Len(queue) /\ Len(Rest) = Len(queue) - 1 /\ Len(queue) \in Nat
      /\ \A i \in 1..Len(Rest) : Rest[i] = queue[i + 1]
  BY <1>1, HeadTailProperties, LenProperties, EmptySeq DEF Rest, QOK
<1>4. Current.type \in WithData => heap[Current.data] = "live"
  BY <1>1, <1>2, <1>3 DEF QOK, QLive
<1>5. ASSUME IsFinal(Current)
      PROVE  /\ data[Current.data] = None
             /\ \A j \in 2..Len(queue) : ~Carries(queue[j], Current.data)
  BY <1>1, <1>2, <1>3, <1>5 DEF QOK, QFinal
<1>6. ASSUME IsFinal(Current), NEW i \in 1..Len(Rest)
      PROVE  ~Carries(Rest[i], Current.data)
  <2>1. i + 1 \in 2..Len(queue)  BY <1>3
  <2>. QED  BY <1>3, <1>5, <1>6, <2>1
<1>. QED  BY <1>2, <1>4, <1>5, <1>6

-----------------------------------------------------------------------------
(* The operators of the user interface have the types of their variables.  *)

TabTypes == [Numbers -> Calls \cup {NoTab, NoCall}]
LogTypes == [Calls -> {"none", "in", "out", "miss"}]
Sounds   == {"none", "ring", "short", "ended"}

LEMMA WidgetTypes ==
  ASSUME OtherTypes
  PROVE  /\ \A c \in Calls : ShowTab(c) \in TabTypes /\ LinkTab(c) \in TabTypes
         /\ \A t \in TabTypes, S \in SUBSET Calls : EndTabs(t, S) \in TabTypes
         /\ \A S \in SUBSET Calls : \A hid : EndLog(S, hid) \in LogTypes
         /\ \A t, S, b : EndSound(t, S, b) \in Sounds
         /\ \A c : \A x \in Sounds : CloseSound(c, x) \in Sounds
         /\ \A c \in Calls : \A k : TonesAfter(c, k) \subseteq Calls
         /\ \A a : FwdAfterState(a) \in Calls \cup {None}
         /\ \A c : CloseDlg(c) => dlg' \in [Calls -> {"none", "open", "closed"}]
  BY DEF OtherTypes, TabTypes, LogTypes, Sounds, ShowTab, LinkTab, EndTabs, EndLog,
         EndSound, CloseSound, TonesAfter, FwdAfterState, CloseDlg

LEMMA OnEndCallTypes ==
  ASSUME OtherTypes, NEW S \in SUBSET Calls, NEW hid, NEW b, OnEndCall(S, hid, b)
  PROVE  /\ tabs' \in TabTypes /\ log' \in LogTypes /\ sound' \in Sounds
         /\ fwdCall' \in Calls \cup {None}
  BY WidgetTypes DEF OnEndCall, OtherTypes, TabTypes

\* The messages that the UI thread posts to itself carry no pointer.
LEMMA PlainMsgs ==
  /\ \A c, k : Plain(ToneMsgs(c, k))
  /\ \A c \in Calls : \A st : Plain(RefuseMsgs(c, st))
  /\ Plain(<<PlayerStopMsg>>)
  /\ \A c \in Calls, k \in Codes : Plain(<<Msg("ringing", c, None, "unused", k)>>)
  /\ \A c \in Calls, k \in Codes : Plain(<<Msg("answer", c, None, "unused", k)>>)
<1>1. Plain(<<PlayerStopMsg>>)
  <2>1. PlayerStopMsg \in Messages /\ PlayerStopMsg.type \notin WithData
    BY MessageTypes DEF PlayerStopMsg, Msg, WithData
  <2>. QED  BY <2>1 DEF Plain
<1>2. ASSUME NEW t \in {"ringing", "answer"}, NEW c \in Calls, NEW k \in Codes
      PROVE  Plain(<<Msg(t, c, None, "unused", k)>>)
  <2>1. /\ Msg(t, c, None, "unused", k) \in Messages
        /\ Msg(t, c, None, "unused", k).type \notin WithData
    BY MessageTypes DEF Msg, WithData
  <2>. QED  BY <2>1 DEF Plain
<1>3. \A c, k : Plain(ToneMsgs(c, k))
  BY <1>1, PlainEmpty DEF ToneMsgs
<1>4. \A c \in Calls : \A st : Plain(RefuseMsgs(c, st))
  BY <1>2, PlainEmpty DEF RefuseMsgs, Codes
<1>. QED  BY <1>1, <1>2, <1>3, <1>4

-----------------------------------------------------------------------------
(* The initial states, and the steps of the UI thread.                     *)

LEMMA InitInv == Init => IInv
<1>. SUFFICES ASSUME Init PROVE IInv
  OBVIOUS
<1>1. TypeOK
  <2>1. SlotTypes
    BY EmptySeq DEF Init, SlotTypes, States
  <2>2. OtherTypes
    BY DEF Init, OtherTypes
  <2>. QED  BY <2>1, <2>2, TypeParts
<1>2. QOK(queue, data, heap)
  BY DEF Init, QOK, QLive, QFinal
<1>3. SlotOwn /\ ActiveOwns /\ UnusedFresh /\ HiddenIsOver
  BY DEF Init, SlotOwn, ActiveOwns, UnusedFresh, HiddenIsOver, Active
<1>. QED  BY <1>1, <1>2, <1>3 DEF IInv, UserData

LEMMA InvParts == IInv <=> Core /\ OtherTypes
  BY TypeParts DEF IInv, Core

\* A call that waits is active; so is one that is not incoming.
LEMMA WaitingActive ==
  /\ \A c \in Calls : Waiting(c) => inv[c] \in Active /\ c \in Incoming
  /\ NotIncoming \subseteq Calls
  BY DEF Waiting, Active, NotIncoming, Calls

\* A final answer given in the UI thread to a waiting call.
LEMMA UiDisconnectsInv ==
  ASSUME Core, NEW c \in Calls, Waiting(c), NEW code \in Codes,
         NEW rest, QOK(rest, data, heap), NEW then,
         UiDisconnects(c, code, rest, then), UNCHANGED hidden
  PROVE  Core' /\ uiCall' = c /\ uiThen' = then
<1>1. inv[c] \in Active /\ "disconnected" \in States \ {"unused", "reset"}
  BY WaitingActive DEF States
<1>2. Core'
  BY <1>1, PlainEmpty, EnterStateInv DEF UiDisconnects
<1>. QED  BY <1>2 DEF UiDisconnects

\* Answering a waiting call.
LEMMA AnswerInv ==
  ASSUME Core, OtherTypes, NEW c \in Calls, Waiting(c),
         NEW rest, QOK(rest, data, heap), Answer(c, rest)
  PROVE  Core' /\ OtherTypes'
<1>1. UNCHANGED <<num, conn, hidden, hung, dlg, tones, fwdTimer, pcVars, lost, crashed>>
  BY DEF Answer
<1>2. Core'
  <2>1. CASE EnterState(c, "connecting", "200", rest, <<>>)
    <3>1. inv[c] \in Active /\ "connecting" \in States \ {"unused", "reset"}
          /\ "200" \in Codes
      BY WaitingActive DEF States, Codes
    <3>. QED  BY <1>1, <2>1, <3>1, PlainEmpty, EnterStateInv
  <2>2. CASE queue' = rest /\ UNCHANGED <<inv, data, heap>>
    BY <1>1, <2>2, QueueOnly
  <2>. QED  BY <2>1, <2>2 DEF Answer
<1>3. OtherTypes'
  <2>. DEFINE S == IF SingleMode THEN NotIncoming ELSE {}
  <2>1. S \in SUBSET Calls
    BY WaitingActive
  <2>2. /\ ending' = ending \cup S /\ tabs' = EndTabs(tabs, S)
        /\ log' = EndLog(S, HiddenData) /\ sound' = "none"
        /\ fwdCall' \in {None, fwdCall}
    BY DEF Answer
  <2>. HIDE DEF S
  <2>. QED  BY <1>1, <2>1, <2>2, WidgetTypes
       DEF OtherTypes, TabTypes, LogTypes, pcVars
<1>. QED  BY <1>2, <1>3

LEMMA UiMessageInv == IInv /\ UiMessage => IInv'
<1>. SUFFICES ASSUME IInv, UiMessage PROVE Core' /\ OtherTypes'
  BY InvParts, PTL
<1>0. /\ Core /\ OtherTypes /\ QOK(Rest, data, heap) /\ Current \in Messages
      /\ Current.type \in WithData => /\ Current.data \in Calls
                                      /\ Current.call \in Calls
                                      /\ heap[Current.data] = "live"
      /\ Current.type \in {"ringing", "answer"} => Current.call \in Calls
      /\ Current.code \in Codes
      /\ Rest \in Seq(Messages) /\ queue # <<>>
  <2>1. queue # <<>>
    BY DEF UiMessage, UiForwardNow, UiRing, UiCallState, UiCallEnd, UiMedia,
       UiTransferStatus, UiCreateRingingDlg, UiPlayerStop, UiAnswer, UiRefuse,
       UiAnswerTooLate, UiTakes
  <2>. QED  BY <2>1, InvParts, Taken, MessageFields DEF QOK
<1>1. CASE UiForwardNow
  <2>1. Current.call \in Calls /\ "other" \in Codes
    BY <1>0, <1>1 DEF UiForwardNow, UiTakes, WithData, Codes
  <2>2. Core' /\ uiCall' = Current.call /\ uiThen' = "none"
    BY <1>0, <1>1, <2>1, UiDisconnectsInv DEF UiForwardNow
  <2>3. OtherTypes'
    BY <1>0, <1>1, <2>1, <2>2 DEF UiForwardNow, OtherTypes, uiVars
  <2>. QED  BY <2>2, <2>3
<1>2. CASE UiRing
  <2>. DEFINE c == Current.call
              ask == <<Msg("ringing", c, None, "unused", "-")>>
  <2>1. c \in Calls /\ {"-", "180"} \subseteq Codes
    BY <1>0, <1>2 DEF UiRing, UiTakes, WithData, Codes
  <2>2. Plain(ask)
    BY <2>1, PlainMsgs
  <2>3. Core'
    <3>1. CASE Waiting(c) /\ EnterState(c, "early", "180", Rest, ask)
      <4>1. inv[c] \in Active /\ "early" \in States \ {"unused", "reset"}
        BY <2>1, <3>1, WaitingActive DEF States
      <4>2. UNCHANGED hidden
        BY <1>2 DEF UiRing
      <4>. HIDE DEF ask
      <4>. QED  BY <1>0, <2>1, <2>2, <3>1, <4>1, <4>2, EnterStateInv
    <3>2. CASE queue' = Rest \o ask /\ UNCHANGED <<inv, data, heap>>
      <4>1. UNCHANGED hidden
        BY <1>2 DEF UiRing
      <4>. HIDE DEF ask
      <4>. QED  BY <1>0, <2>2, <3>2, <4>1, QPlain, QueueOnly
    <3>. QED  BY <1>2, <3>1, <3>2 DEF UiRing
  <2>4. OtherTypes'
    BY <1>0, <1>2 DEF UiRing, OtherTypes, pcVars
  <2>. QED  BY <2>3, <2>4
<1>3. CASE UiCallState
  <2>. DEFINE c == Current.call
  <2>1. c \in Calls
    BY <1>0, <1>3 DEF UiCallState, UiTakes, WithData
  <2>2. /\ queue' = (Rest \o ToneMsgs(c, Current.code)) \o RefuseMsgs(c, Current.st)
        /\ UNCHANGED <<inv, data, heap, hidden>>
    BY <1>3 DEF UiCallState, pjsuaVars, heapVars
  <2>3. QOK(queue', data, heap)
    BY <1>0, <2>1, <2>2, PlainMsgs, QPlain
  <2>4. Core'
    BY <1>0, <2>2, <2>3, QueueOnly
  <2>5. /\ UNCHANGED <<num, conn, ending, hung, uiCall, uiThen, wkCall, lost, crashed>>
        /\ tones' = TonesAfter(c, Current.code) /\ tabs' = ShowTab(c)
        /\ log' \in {log, [log EXCEPT ![c] = "in"], [log EXCEPT ![c] = "out"]}
        /\ \E a : fwdCall' = FwdAfterState(a)
        /\ fwdTimer' \in BOOLEAN
        /\ CloseDlg(c) \/ dlg' = dlg
        /\ sound' \in {sound, "none", CloseSound(c, sound)}
    BY <1>3 DEF UiCallState, pjsuaVars, heapVars, pcVars
  <2>6. tabs' \in TabTypes /\ tones' \subseteq Calls /\ fwdCall' \in Calls \cup {None}
    BY <1>0, <2>1, <2>5, WidgetTypes
  <2>7. log' \in LogTypes /\ dlg' \in [Calls -> {"none", "open", "closed"}]
    BY <1>0, <2>1, <2>5, WidgetTypes DEF OtherTypes, LogTypes
  <2>8. sound' \in Sounds
    BY <1>0, <2>5, WidgetTypes DEF OtherTypes, Sounds
  <2>9. OtherTypes'
    BY <1>0, <2>5, <2>6, <2>7, <2>8 DEF OtherTypes, TabTypes, LogTypes, Sounds
  <2>. QED  BY <2>4, <2>9
<1>4. CASE UiCallEnd
  <2>. DEFINE c == Current.call
              u == Current.data
  <2>1. c \in Calls /\ u \in Calls /\ heap[u] = "live" /\ u # None
    BY <1>0, <1>4, CallsAssumption DEF UiCallEnd, UiTakes, WithData
  <2>2. /\ queue' = Rest \o ToneMsgs(c, Current.code)
        /\ heap' = [heap EXCEPT ![u] = "freed"]
        /\ UNCHANGED <<inv, data, hidden>>
    BY <1>4 DEF UiCallEnd, pjsuaVars
  <2>3. /\ data[u] = None
        /\ \A i \in 1..Len(Rest) : ~Carries(Rest[i], u)
    BY <1>0, <1>4, Taken DEF UiCallEnd, UiTakes, IsFinal
  <2>4. \A i \in 1..Len(Rest) : Rest[i].type \in WithData =>
           Rest[i].data \in Calls \ {u}
    BY <1>0, <2>3, ElementOfSeq, MessageFields DEF Carries
  <2>5. QOK(Rest, data, heap')
    <3>1. QLive(Rest, heap')
      BY <1>0, <2>1, <2>2, <2>4 DEF QOK, QLive, Core, SlotTypes
    <3>. QED  BY <1>0, <3>1 DEF QOK
  <2>6. QOK(queue', data', heap')
    BY <2>2, <2>5, PlainMsgs, QPlain
  <2>7. SlotTypes'
    BY <1>0, <2>2, <2>6 DEF Core, SlotTypes, QOK
  <2>8. (SlotOwn /\ ActiveOwns /\ UnusedFresh /\ HiddenIsOver)'
    BY <1>0, <2>1, <2>2, <2>3 DEF Core, SlotTypes, UserData, SlotOwn, ActiveOwns,
       UnusedFresh, HiddenIsOver
  <2>9. OtherTypes'
    <3>1. /\ UNCHANGED <<num, conn, ending, hung, fwdTimer, uiCall, uiThen, wkCall,
                         lost, crashed>>
          /\ tones' = TonesAfter(c, Current.code) /\ tabs' = EndTabs(tabs, {c})
          /\ \E hid : log' \in {[log EXCEPT ![c] = "miss"], EndLog({c}, hid)}
          /\ fwdCall' \in {None, fwdCall}
          /\ CloseDlg(c) \/ dlg' = dlg
          /\ \E b : sound' \in {"none", EndSound(tabs, {c}, b),
                                CloseSound(c, EndSound(tabs, {c}, b))}
      BY <1>4, Zenon DEF UiCallEnd, pjsuaVars, pcVars
    <3>2. {c} \in SUBSET Calls
      BY <2>1
    <3>3. tabs' \in TabTypes /\ tones' \subseteq Calls
      BY <1>0, <2>1, <3>1, <3>2, WidgetTypes DEF OtherTypes, TabTypes
    <3>4. log' \in LogTypes
      <4>1. \A hid : EndLog({c}, hid) \in LogTypes
        BY <1>0, <3>2, WidgetTypes
      <4>2. [log EXCEPT ![c] = "miss"] \in LogTypes
        BY <1>0 DEF OtherTypes, LogTypes
      <4>3. PICK hid : log' \in {[log EXCEPT ![c] = "miss"], EndLog({c}, hid)}
        BY <3>1
      <4>4. log' = [log EXCEPT ![c] = "miss"] \/ log' = EndLog({c}, hid)
        BY <4>3
      <4>. QED  BY <4>1, <4>2, <4>4
    <3>5. dlg' \in [Calls -> {"none", "open", "closed"}]
      BY <1>0, <3>1, WidgetTypes DEF OtherTypes
    <3>6. sound' \in Sounds
      BY <1>0, <3>1, WidgetTypes DEF Sounds
    <3>. QED  BY <1>0, <3>1, <3>3, <3>4, <3>5, <3>6
         DEF OtherTypes, TabTypes, LogTypes, Sounds
  <2>. QED  BY <2>6, <2>7, <2>8, <2>9 DEF Core, UserData
<1>5. CASE UiMedia
  <2>1. Current.call \in Calls
    BY <1>0, <1>5 DEF UiMedia, UiTakes, WithData
  <2>2. queue' = Rest \o RefuseMsgs(Current.call, Current.st)
        /\ UNCHANGED <<inv, data, heap, hidden>>
    BY <1>5 DEF UiMedia, pjsuaVars, heapVars
  <2>3. Core'
    BY <1>0, <2>1, <2>2, PlainMsgs, QPlain, QueueOnly
  <2>4. OtherTypes'
    BY <1>0, <1>5, <2>1, WidgetTypes
    DEF UiMedia, OtherTypes, TabTypes, pjsuaVars, heapVars, pcVars
  <2>. QED  BY <2>3, <2>4
<1>6. CASE UiTransferStatus
  <2>. DEFINE c == Current.call
  <2>1. c \in Calls
    BY <1>0, <1>6 DEF UiTransferStatus, UiTakes, WithData
  <2>2. queue' = Rest \o RefuseMsgs(c, Current.st)
        /\ UNCHANGED <<inv, data, heap, hidden>>
    BY <1>6 DEF UiTransferStatus, heapVars
  <2>3. Core'
    BY <1>0, <2>1, <2>2, PlainMsgs, QPlain, QueueOnly
  <2>4. /\ UNCHANGED <<num, conn, hung, dlg, tones, fwdTimer, uiCall, uiThen, wkCall,
                       lost, crashed>>
        /\ ending' \in {ending, ending \cup {c}}
        /\ tabs' \in {LinkTab(c), EndTabs(LinkTab(c), {c})}
        /\ log' \in {log, EndLog({c}, HiddenData)}
        /\ fwdCall' \in {None, fwdCall}
        /\ sound' \in {sound, EndSound(LinkTab(c), {c}, TRUE)}
    BY <1>6 DEF UiTransferStatus, heapVars, pcVars
  <2>5. OtherTypes'
    <3>1. {c} \in SUBSET Calls
      BY <2>1
    <3>2. tabs' \in TabTypes
      BY <1>0, <2>1, <2>4, <3>1, WidgetTypes
    <3>3. log' \in LogTypes
      <4>1. EndLog({c}, HiddenData) \in LogTypes
        BY <1>0, <3>1, WidgetTypes
      <4>. QED  BY <1>0, <2>4, <4>1 DEF OtherTypes, LogTypes
    <3>4. sound' \in Sounds
      <4>1. EndSound(LinkTab(c), {c}, TRUE) \in Sounds
        BY <1>0, WidgetTypes
      <4>. QED  BY <1>0, <2>4, <4>1 DEF OtherTypes, Sounds
    <3>. QED  BY <1>0, <2>1, <2>4, <3>2, <3>3, <3>4
         DEF OtherTypes, TabTypes, LogTypes, Sounds
  <2>. QED  BY <2>3, <2>5
<1>7. CASE UiCreateRingingDlg
  <2>1. Current.call \in Calls
    BY <1>0, <1>7 DEF UiCreateRingingDlg, UiTakes
  <2>2. Core'
    BY <1>0, <1>7, QueueOnly DEF UiCreateRingingDlg, pjsuaVars, heapVars
  <2>3. OtherTypes'
    BY <1>0, <1>7, <2>1 DEF UiCreateRingingDlg, OtherTypes, pjsuaVars, heapVars, pcVars
  <2>. QED  BY <2>2, <2>3
<1>8. CASE UiPlayerStop
  <2>1. Core'
    BY <1>0, <1>8, QueueOnly DEF UiPlayerStop, pjsuaVars, heapVars
  <2>2. OtherTypes'
    BY <1>0, <1>8 DEF UiPlayerStop, OtherTypes, pjsuaVars, heapVars, pcVars
  <2>. QED  BY <2>1, <2>2
<1>9. CASE UiAnswer
  BY <1>0, <1>9, AnswerInv DEF UiAnswer, UiTakes
<1>10. CASE UiRefuse
  <2>1. Current.call \in Calls /\ "486" \in Codes
    BY <1>0, <1>10 DEF UiRefuse, UiTakes, Codes
  <2>2. Core' /\ uiCall' = Current.call /\ uiThen' = "none"
    BY <1>0, <1>10, <2>1, UiDisconnectsInv DEF UiRefuse
  <2>3. OtherTypes'
    BY <1>0, <1>10, <2>1, <2>2 DEF UiRefuse, OtherTypes, uiVars
  <2>. QED  BY <2>2, <2>3
<1>11. CASE UiAnswerTooLate
  <2>1. Core'
    BY <1>0, <1>11, QueueOnly DEF UiAnswerTooLate, pjsuaVars, heapVars
  <2>2. OtherTypes'
    BY <1>0, <1>11 DEF UiAnswerTooLate, OtherTypes, pjsuaVars, heapVars, uiVars, pcVars
  <2>. QED  BY <2>1, <2>2
<1>. QED
  BY <1>1, <1>2, <1>3, <1>4, <1>5, <1>6, <1>7, <1>8, <1>9, <1>10, <1>11 DEF UiMessage

\* A new call's message, and the data of its object.
LEMMA NewCallMsgs ==
  ASSUME Core, NEW c \in Calls, c \notin hidden,
         NEW st \in {"calling", "disconnected"}, NEW k \in Codes \ {"481"}
  PROVE  /\ StateMsgs(c, c, st, k) = <<Msg("state", c, c, st, k)>>
         /\ Msg("state", c, c, st, k) \in Messages
         /\ Msg("state", c, c, st, k).data = c
         /\ IsFinal(Msg("state", c, c, st, k)) <=> st = "disconnected"
<1>. c # None
  BY CallsAssumption
<1>. QED
  BY MessageTypes
  DEF StateMsgs, NotReported, IsHidden, Cell, Msg, IsFinal, States, WithData

LEMMA MakeCallInv ==
  ASSUME Core, OtherTypes, NEW c \in Outgoing, NEW n \in Numbers, MakeCall(c, n)
  PROVE  Core' /\ OtherTypes'
<1>. USE CallsAssumption
<1>. DEFINE S == IF SingleMode THEN NotIncoming ELSE {}
            m == Msg("state", c, c, "calling", "-")
<1>1. c \in Calls /\ inv[c] = "unused" /\ c \notin hidden /\ S \in SUBSET Calls
      /\ "-" \in Codes \ {"481"} /\ "calling" \in Active /\ QOK(queue, data, heap)
  BY WaitingActive DEF MakeCall, Calls, Core, UserData, HiddenIsOver, Codes, Active
<1>2. m \in Messages /\ m.data = c /\ ~IsFinal(m) /\ queue' = queue \o <<m>>
  BY <1>1, NewCallMsgs DEF MakeCall
<1>3. /\ inv' = [inv EXCEPT ![c] = "calling"] /\ data' = [data EXCEPT ![c] = c]
      /\ heap' = [heap EXCEPT ![c] = "live"] /\ hidden' = hidden
  BY DEF MakeCall
<1>4. Core'
  <2>. HIDE DEF m
  <2>. QED  BY <1>1, <1>2, <1>3, NewObject
<1>5. OtherTypes'
  <2>1. EndTabs(tabs, S) \in TabTypes /\ EndLog(S, HiddenData) \in LogTypes
        /\ EndSound(tabs, S, TRUE) \in Sounds
    <3>. HIDE DEF S
    <3>. QED  BY <1>1, WidgetTypes DEF OtherTypes, TabTypes
  <2>2. /\ tabs' = [EndTabs(tabs, S) EXCEPT ![n] = c]
        /\ log' = [EndLog(S, HiddenData) EXCEPT ![c] = "out"]
        /\ sound' = EndSound(tabs, S, TRUE)
        /\ ending' = ending \cup S /\ num' = [num EXCEPT ![c] = n]
        /\ fwdCall' \in {None, fwdCall}
        /\ UNCHANGED <<conn, hung, dlg, tones, fwdTimer, uiCall, uiThen, wkCall,
                       lost, crashed>>
    BY DEF MakeCall, pcVars
  <2>. HIDE DEF S
  <2>. QED  BY <1>1, <2>1, <2>2 DEF OtherTypes, TabTypes, LogTypes, Sounds
<1>. QED  BY <1>4, <1>5

LEMMA UserInv == IInv /\ User => IInv'
<1>. SUFFICES ASSUME IInv, User PROVE Core' /\ OtherTypes'
  BY InvParts, PTL
<1>0. Core /\ OtherTypes /\ QOK(queue, data, heap)
  BY InvParts DEF Core, UserData
<1>1. ASSUME NEW c \in Outgoing, NEW n \in Numbers, MakeCall(c, n)
      PROVE  Core' /\ OtherTypes'
  BY <1>0, <1>1, MakeCallInv
<1>2. ASSUME NEW c \in Calls, CommandAnswer(c)
      PROVE  Core' /\ OtherTypes'
  <2>. DEFINE m == Msg("answer", c, None, "unused", "200")
  <2>1. "200" \in Codes /\ m \in Messages /\ queue \in Seq(Messages)
    BY <1>0, MessageTypes DEF Codes, QOK
  <2>2. queue' = queue \o <<m>> /\ Plain(<<m>>)
    BY <1>2, <2>1, QForms, PlainMsgs DEF CommandAnswer
  <2>3. Core'
    <3>. HIDE DEF m
    <3>. QED  BY <1>0, <1>2, <2>2, QPlain, QueueOnly
         DEF CommandAnswer, pjsuaVars, heapVars
  <2>4. OtherTypes'
    BY <1>0, <1>2 DEF CommandAnswer, OtherTypes, pjsuaVars, heapVars, uiVars, pcVars
  <2>. QED  BY <2>3, <2>4
<1>3. ASSUME NEW c \in Calls, DlgAnswer(c)
      PROVE  Core' /\ OtherTypes'
  BY <1>0, <1>3, AnswerInv DEF DlgAnswer
<1>4. ASSUME NEW c \in Calls, DlgDecline(c)
      PROVE  Core' /\ OtherTypes'
  <2>1. "486" \in Codes
    BY DEF Codes
  <2>2. Core' /\ uiCall' = c /\ uiThen' = "closeDlg"
    BY <1>0, <1>4, <2>1, UiDisconnectsInv DEF DlgDecline
  <2>3. hung' \subseteq Calls
    BY <1>0, <1>4 DEF DlgDecline, Core, SlotTypes, OtherTypes
  <2>4. OtherTypes'
    BY <1>0, <1>4, <2>2, <2>3 DEF DlgDecline, OtherTypes, uiVars
  <2>. QED  BY <2>2, <2>4
<1>5. ASSUME NEW c \in Calls, DlgDeclineLate(c)
      PROVE  Core' /\ OtherTypes'
  <2>1. Core'
    BY <1>0, <1>5, QueueOnly DEF DlgDeclineLate
  <2>2. /\ hung' \subseteq Calls /\ ending' \subseteq Calls /\ sound' \in Sounds
        /\ dlg' \in [Calls -> {"none", "open", "closed"}]
    BY <1>0, <1>5, WidgetTypes
    DEF DlgDeclineLate, Core, SlotTypes, OtherTypes, Sounds
  <2>3. OtherTypes'
    BY <1>0, <1>5, <2>2 DEF DlgDeclineLate, OtherTypes, Sounds, pcVars
  <2>. QED  BY <2>1, <2>3
<1>6. ASSUME NEW c \in Calls, DlgIgnore(c)
      PROVE  Core' /\ OtherTypes'
  <2>1. Core'
    BY <1>0, <1>6, QueueOnly DEF DlgIgnore, pjsuaVars, heapVars
  <2>2. sound' \in Sounds /\ dlg' \in [Calls -> {"none", "open", "closed"}]
    BY <1>0, <1>6, WidgetTypes DEF DlgIgnore, OtherTypes, Sounds
  <2>3. OtherTypes'
    BY <1>0, <1>6, <2>2 DEF DlgIgnore, OtherTypes, Sounds, pjsuaVars, heapVars, pcVars
  <2>. QED  BY <2>1, <2>3
<1>7. ASSUME NEW c \in Calls, NEW mark \in Marks, HangUp(c, mark)
      PROVE  Core' /\ OtherTypes'
  <2>1. Core'
    BY <1>0, <1>7, QueueOnly DEF HangUp
  <2>2. hung' \subseteq Calls /\ {c} \in SUBSET Calls
    BY <1>0, <1>7 DEF HangUp, Core, SlotTypes, OtherTypes
  <2>3. /\ tabs' \in TabTypes /\ log' \in LogTypes /\ sound' \in Sounds
        /\ fwdCall' \in Calls \cup {None}
    BY <1>0, <1>7, <2>2, OnEndCallTypes DEF HangUp
  <2>4. OtherTypes'
    BY <1>0, <1>7, <2>2, <2>3
    DEF HangUp, OtherTypes, TabTypes, LogTypes, Sounds, pcVars
  <2>. QED  BY <2>1, <2>4
<1>8. ASSUME NEW c \in Calls, NEW mark \in Marks, HangUpWaiting(c, mark)
      PROVE  Core' /\ OtherTypes'
  <2>1. "other" \in Codes
    BY DEF Codes
  <2>2. Core' /\ uiCall' = c /\ uiThen' = "endCall"
    BY <1>0, <1>8, <2>1, UiDisconnectsInv DEF HangUpWaiting
  <2>3. hung' \subseteq Calls
    BY <1>0, <1>8 DEF HangUpWaiting, Core, SlotTypes, OtherTypes
  <2>4. OtherTypes'
    BY <1>0, <1>8, <2>2, <2>3 DEF HangUpWaiting, OtherTypes, uiVars
  <2>. QED  BY <2>2, <2>4
<1>9. ASSUME NEW c \in Calls, HangUpFails(c)
      PROVE  Core' /\ OtherTypes'
  <2>1. Core'
    BY <1>0, <1>9, QueueOnly DEF HangUpFails, pjsuaVars
  <2>2. hung' \subseteq Calls
    BY <1>0, <1>9 DEF HangUpFails, Core, SlotTypes, OtherTypes
  <2>3. OtherTypes'
    BY <1>0, <1>9, <2>2 DEF HangUpFails, OtherTypes, pjsuaVars, uiVars, pcVars
  <2>. QED  BY <2>1, <2>3
<1>. QED
  BY <1>1, <1>2, <1>3, <1>4, <1>5, <1>6, <1>7, <1>8, <1>9 DEF User

\* The reset of a slot after a final answer, the timers and the audio thread.
LEMMA UiRestInv ==
  IInv /\ (UiResetCall \/ TimerForward \/ TimerTone \/ SoundEnds) => IInv'
<1>. SUFFICES ASSUME IInv, UiResetCall \/ TimerForward \/ TimerTone \/ SoundEnds
              PROVE  Core' /\ OtherTypes'
  BY InvParts, PTL
<1>0. Core /\ OtherTypes /\ QOK(queue, data, heap)
  BY InvParts DEF Core, UserData
<1>1. CASE UiResetCall
  <2>1. uiCall \in Calls /\ {uiCall} \in SUBSET Calls
    BY <1>0, <1>1 DEF UiResetCall, OtherTypes
  <2>2. Core'
    BY <1>0, <1>1, <2>1, ResetInv DEF UiResetCall, heapVars
  <2>3. /\ UNCHANGED <<num, conn, ending, hung, tones, fwdTimer, wkCall, lost, crashed>>
        /\ uiCall' = None /\ uiThen' = "none"
    BY <1>1 DEF UiResetCall, heapVars
  <2>4. /\ tabs' \in TabTypes /\ log' \in LogTypes /\ sound' \in Sounds
        /\ fwdCall' \in Calls \cup {None}
        /\ dlg' \in [Calls -> {"none", "open", "closed"}]
    <3>1. CASE uiThen = "endCall"
      <4>1. OnEndCall({uiCall}, {}, TRUE) /\ UNCHANGED dlg
        BY <1>1, <3>1 DEF UiResetCall
      <4>. QED  BY <1>0, <2>1, <4>1, OnEndCallTypes DEF OtherTypes
    <3>2. CASE uiThen = "closeDlg"
      <4>1. /\ CloseDlg(uiCall) /\ sound' = CloseSound(uiCall, sound)
            /\ UNCHANGED <<tabs, log, fwdCall>>
        BY <1>1, <3>2 DEF UiResetCall
      <4>. QED  BY <1>0, <4>1, WidgetTypes DEF OtherTypes, TabTypes, LogTypes, Sounds
    <3>3. CASE uiThen \in {"fwdTimer", "none"}
      <4>1. fwdCall' \in {None, fwdCall} /\ UNCHANGED <<tabs, log, dlg, sound>>
        BY <1>1, <3>3 DEF UiResetCall
      <4>. QED  BY <1>0, <4>1 DEF OtherTypes, TabTypes, LogTypes, Sounds
    <3>. QED  BY <1>0, <3>1, <3>2, <3>3 DEF OtherTypes
  <2>5. OtherTypes'
    BY <1>0, <2>3, <2>4 DEF OtherTypes, TabTypes, LogTypes, Sounds
  <2>. QED  BY <2>2, <2>5
<1>2. CASE TimerForward
  <2>1. /\ UNCHANGED <<num, conn, ending, hidden, hung, tabs, dlg, sound, tones, log,
                       wkCall, lost, crashed>>
        /\ fwdTimer' = FALSE
    BY <1>2 DEF TimerForward
  <2>2. CASE /\ fwdCall # None /\ Waiting(fwdCall)
             /\ UiDisconnects(fwdCall, "other", queue, "fwdTimer")
             /\ UNCHANGED fwdCall
    <3>1. fwdCall \in Calls /\ "other" \in Codes
      BY <1>0, <2>2 DEF OtherTypes, Codes
    <3>2. Core' /\ uiCall' = fwdCall /\ uiThen' = "fwdTimer"
      BY <1>0, <2>1, <2>2, <3>1, UiDisconnectsInv
    <3>3. OtherTypes'
      BY <1>0, <2>1, <2>2, <3>1, <3>2 DEF OtherTypes
    <3>. QED  BY <3>2, <3>3
  <2>3. CASE fwdCall' = None /\ UNCHANGED <<inv, data, heap, queue, uiCall, uiThen>>
    <3>1. Core'
      BY <1>0, <2>1, <2>3, QueueOnly
    <3>2. OtherTypes'
      BY <1>0, <2>1, <2>3 DEF OtherTypes
    <3>. QED  BY <3>1, <3>2
  <2>. QED  BY <1>2, <2>2, <2>3 DEF TimerForward
<1>3. CASE TimerTone
  <2>1. Core'
    BY <1>0, <1>3, QueueOnly DEF TimerTone, pjsuaVars, heapVars
  <2>2. OtherTypes'
    BY <1>0, <1>3 DEF TimerTone, OtherTypes, pjsuaVars, heapVars, pcVars
  <2>. QED  BY <2>1, <2>2
<1>4. CASE SoundEnds
  <2>1. queue \in Seq(Messages) /\ PlayerStopMsg \in Messages
    BY <1>0, MessageTypes DEF QOK
  <2>2. queue' = queue \o <<PlayerStopMsg>> /\ UNCHANGED <<inv, data, heap, hidden>>
    BY <1>4, <2>1, QForms DEF SoundEnds, pjsuaVars, heapVars
  <2>3. Core'
    BY <1>0, <2>2, PlainMsgs, QPlain, QueueOnly
  <2>4. OtherTypes'
    BY <1>0, <1>4 DEF SoundEnds, OtherTypes, pjsuaVars, heapVars, pcVars
  <2>. QED  BY <2>3, <2>4
<1>. QED  BY <1>1, <1>2, <1>3, <1>4

-----------------------------------------------------------------------------
(* The steps of the PJSIP worker.                                          *)

\* on_call_media_state and on_call_transfer_status of an active call: the slot
\* has its object, so nothing is allocated and the message carries it.
LEMMA PostWithDataInv ==
  ASSUME Core, NEW c \in Calls, inv[c] \in Active, NEW type \in {"media", "xfer"},
         NEW code \in Codes, PostWithData(c, type, code)
  PROVE  Core'
<1>. DEFINE m == Msg(type, c, c, inv[c], code)
<1>1. /\ data[c] = c /\ c # None /\ heap[c] = "live" /\ QOK(queue, data, heap)
      /\ data \in [Calls -> Calls \cup {None}]
      /\ heap \in [Calls -> {"none", "live", "freed"}]
      /\ inv[c] \in States
  BY CallsAssumption DEF Core, UserData, SlotOwn, ActiveOwns, SlotTypes
<1>2. m \in Messages /\ m.data = c /\ ~IsFinal(m)
  BY <1>1, MessageTypes DEF Msg, IsFinal, WithData
<1>3. UNCHANGED <<inv, data, heap, hidden>> /\ queue' = queue \o <<m>>
  <2>1. UNCHANGED <<inv, data, heap, hidden>> /\ queue' = Append(queue, m)
    BY <1>1 DEF PostWithData
  <2>. HIDE DEF m
  <2>. QED  BY <1>1, <1>2, <2>1, QForms DEF QOK
<1>4. \A i \in 1..Len(queue) : IsFinal(queue[i]) => queue[i].data # m.data
  BY <1>1, <1>2 DEF QOK, QFinal
<1>5. QOK(queue', data, heap)
  <2>. HIDE DEF m
  <2>. QED  BY <1>1, <1>2, <1>3, <1>4, QAdd
<1>. QED  BY <1>3, <1>5, QueueOnly

LEMMA IncomingInv ==
  ASSUME Core, NEW c \in Incoming, NEW n \in Numbers,
         IncomingOffered(c, n) \/ IncomingRefused(c, n)
  PROVE  Core'
<1>1. /\ c \in Calls /\ inv[c] = "unused" /\ c \notin hidden /\ data[c] = None
      /\ QOK(queue, data, heap) /\ data \in [Calls -> Calls \cup {None}]
  BY DEF IncomingOffered, IncomingRefused, ArrivesAt, Calls, Core, UserData,
     HiddenIsOver, UnusedFresh, SlotTypes
<1>2. CASE IncomingOffered(c, n)
  <2>. DEFINE m == Msg("incoming", c, c, "incoming", "-")
  <2>1. m \in Messages /\ m.data = c /\ ~IsFinal(m) /\ "incoming" \in Active
    BY <1>1, MessageTypes DEF Msg, IsFinal, WithData, States, Codes, Active
  <2>2. /\ inv' = [inv EXCEPT ![c] = "incoming"] /\ data' = [data EXCEPT ![c] = c]
        /\ heap' = [heap EXCEPT ![c] = "live"] /\ hidden' = hidden
        /\ queue' = Append(queue, m)
    BY <1>2 DEF IncomingOffered
  <2>. HIDE DEF m
  <2>3. queue' = queue \o <<m>>
    BY <1>1, <2>1, <2>2, QForms DEF QOK
  <2>. QED  BY <1>1, <2>1, <2>2, <2>3, NewObject
<1>3. CASE IncomingRefused(c, n)
  <2>1. PICK code \in {"486", "other"} :
          queue' = queue \o StateMsgs(c, c, "disconnected", code)
    BY <1>3 DEF IncomingRefused
  <2>. DEFINE m == Msg("state", c, c, "disconnected", code)
  <2>2. m \in Messages /\ m.data = c /\ queue' = queue \o <<m>>
    BY <1>1, <2>1, NewCallMsgs DEF Codes
  <2>3. /\ inv' = [inv EXCEPT ![c] = "reset"] /\ hidden' = hidden \cup {c}
        /\ heap' = [heap EXCEPT ![c] = "live"] /\ data' = [data EXCEPT ![c] = None]
    BY <1>1, <1>3 DEF IncomingRefused
  <2>4. "reset" \notin Active
    BY DEF Active
  <2>. HIDE DEF m
  <2>. QED  BY <1>1, <2>2, <2>3, <2>4, NewObject
<1>. QED  BY <1>2, <1>3

LEMMA TransferredInv ==
  ASSUME Core, NEW c \in Calls, NEW d \in Outgoing, NEW n \in Numbers,
         Transferred(c, d, n)
  PROVE  Core'
<1>. DEFINE x == Msg("xfer", c, c, "confirmed", "other")
            m == Msg("state", d, d, "calling", "-")
            q == queue \o <<x>>
<1>1. /\ d \in Calls /\ inv[d] = "unused" /\ inv[c] = "confirmed" /\ c # d
      /\ data[c] = c /\ heap[c] = "live" /\ QOK(queue, data, heap)
      /\ c # None /\ d # None /\ "confirmed" \in States /\ {"other", "-"} \subseteq Codes
      /\ "calling" \in Active /\ "calling" \in States
  BY CallsAssumption DEF Transferred, Calls, Core, UserData, ActiveOwns, SlotOwn,
     Active, States, Codes
<1>2. x \in Messages /\ x.data = c /\ ~IsFinal(x)
      /\ m \in Messages /\ m.data = d /\ ~IsFinal(m)
  BY <1>1, MessageTypes DEF Msg, IsFinal, WithData
<1>3. /\ inv' = [inv EXCEPT ![d] = "calling"] /\ data' = [data EXCEPT ![d] = d]
      /\ heap' = [heap EXCEPT ![d] = "live"] /\ hidden' = hidden
      /\ queue' = q \o <<m>>
  BY <1>1 DEF Transferred, SlotData, HeapAfter, StateMsgs, NotReported, IsHidden, Cell
<1>4. QOK(q, data, heap)
  <2>1. \A i \in 1..Len(queue) : IsFinal(queue[i]) => queue[i].data # x.data
    BY <1>1, <1>2 DEF QOK, QFinal
  <2>. HIDE DEF x
  <2>. QED  BY <1>1, <1>2, <2>1, QAdd
<1>. HIDE DEF m, q
<1>. QED  BY <1>1, <1>2, <1>3, <1>4, NewObject

LEMMA WorkerInv == IInv /\ Worker => IInv'
<1>. SUFFICES ASSUME IInv, Worker PROVE Core' /\ OtherTypes'
  BY InvParts, PTL
<1>0. Core /\ OtherTypes /\ QOK(queue, data, heap)
  BY InvParts DEF Core, UserData
<1>1. ASSUME NEW c \in Incoming, NEW n \in Numbers,
             IncomingOffered(c, n) \/ IncomingRefused(c, n)
      PROVE  Core' /\ OtherTypes'
  <2>1. Core'
    BY <1>0, <1>1, IncomingInv
  <2>2. c \in Calls
    BY DEF Calls
  <2>3. CASE IncomingOffered(c, n)
    BY <1>0, <2>1, <2>2, <2>3 DEF IncomingOffered, ArrivesAt, OtherTypes, pcVars
  <2>4. CASE IncomingRefused(c, n)
    BY <1>0, <2>1, <2>2, <2>4 DEF IncomingRefused, ArrivesAt, OtherTypes, uiVars, pcVars
  <2>. QED  BY <1>1, <2>3, <2>4
<1>2. ASSUME NEW c \in Incoming, NEW n \in Numbers, IncomingCrash(c, n)
      PROVE  Core' /\ OtherTypes'
  <2>1. c \in Calls
    BY DEF Calls
  <2>2. Core'
    BY <1>0, <1>2, QueueOnly DEF IncomingCrash, heapVars
  <2>3. OtherTypes'
    BY <1>0, <1>2, <2>1
    DEF IncomingCrash, ArrivesAt, OtherTypes, heapVars, uiVars, pcVars
  <2>. QED  BY <2>2, <2>3
<1>3. ASSUME NEW c \in Calls, NEW st \in States, NEW code \in Codes,
             CallProgress(c, st, code)
      PROVE  Core' /\ OtherTypes'
  <2>1. inv[c] \in Active /\ st \notin {"unused", "reset"}
    BY <1>3 DEF CallProgress, Progress, Active
  <2>2. Core'
    <3>1. EnterState(c, st, code, queue, <<>>) /\ UNCHANGED hidden
      BY <1>3 DEF CallProgress
    <3>. QED  BY <1>0, <2>1, <3>1, PlainEmpty, EnterStateInv
  <2>3. OtherTypes'
    BY <1>0, <1>3 DEF CallProgress, OtherTypes, uiVars, pcVars
  <2>. QED  BY <2>2, <2>3
<1>4. ASSUME NEW c \in Calls, NEW code \in Codes, CallEnds(c, code)
      PROVE  Core' /\ OtherTypes'
  <2>1. /\ inv[c] \in Active /\ "disconnected" \in States \ {"unused", "reset"}
        /\ EnterState(c, "disconnected", code, queue, <<>>) /\ UNCHANGED hidden
    BY <1>4 DEF CallEnds, States
  <2>2. Core'
    BY <1>0, <2>1, PlainEmpty, EnterStateInv
  <2>3. OtherTypes'
    BY <1>0, <1>4 DEF CallEnds, OtherTypes, uiVars
  <2>. QED  BY <2>2, <2>3
<1>5. ASSUME NEW c \in Calls, MediaState(c)
      PROVE  Core' /\ OtherTypes'
  <2>1. inv[c] \in Active /\ "-" \in Codes /\ PostWithData(c, "media", "-")
    BY <1>5 DEF MediaState, Active, Codes
  <2>2. Core'
    BY <1>0, <2>1, PostWithDataInv
  <2>3. OtherTypes'
    BY <1>0, <2>1 DEF PostWithData, OtherTypes, uiVars, pcVars
  <2>. QED  BY <2>2, <2>3
<1>6. ASSUME NEW c \in Calls, NEW code \in {"200", "other"}, TransferStatus(c, code)
      PROVE  Core' /\ OtherTypes'
  <2>1. inv[c] \in Active /\ code \in Codes /\ PostWithData(c, "xfer", code)
    BY <1>6 DEF TransferStatus, Active, Codes
  <2>2. Core'
    BY <1>0, <2>1, PostWithDataInv
  <2>3. OtherTypes'
    BY <1>0, <2>1 DEF PostWithData, OtherTypes, uiVars, pcVars
  <2>. QED  BY <2>2, <2>3
<1>7. ASSUME NEW c \in Calls, NEW d \in Outgoing, NEW n \in Numbers,
             Transferred(c, d, n)
      PROVE  Core' /\ OtherTypes'
  <2>1. Core'
    BY <1>0, <1>7, TransferredInv
  <2>2. OtherTypes'
    BY <1>0, <1>7 DEF Transferred, OtherTypes, uiVars, pcVars
  <2>. QED  BY <2>1, <2>2
<1>8. CASE WkResetCall
  <2>1. wkCall \in Calls
    BY <1>0, <1>8 DEF WkResetCall, OtherTypes
  <2>2. Core'
    BY <1>0, <1>8, <2>1, ResetInv DEF WkResetCall, heapVars
  <2>3. OtherTypes'
    BY <1>0, <1>8 DEF WkResetCall, OtherTypes, heapVars, uiVars
  <2>. QED  BY <2>2, <2>3
<1>. QED
  BY <1>1, <1>2, <1>3, <1>4, <1>5, <1>6, <1>7, <1>8 DEF Worker

-----------------------------------------------------------------------------
(* The theorems.                                                           *)

\* UserData is inductive together with the types.
THEOREM Inductive == Spec => []IInv
<1>1. IInv /\ [Next]_vars => IInv'
  <2>. SUFFICES ASSUME IInv, [Next]_vars PROVE IInv'
    OBVIOUS
  <2>1. CASE Next
    BY <2>1, UiMessageInv, UserInv, UiRestInv, WorkerInv DEF Next
  <2>2. CASE UNCHANGED vars
    <3>1. UNCHANGED <<inv, data, heap, hidden, queue>>
      BY <2>2 DEF vars, pjsuaVars, heapVars
    <3>2. Core' /\ OtherTypes'
      <4>1. Core'
        BY <3>1, InvParts, QueueOnly DEF Core, UserData
      <4>2. OtherTypes'
        BY <2>2, InvParts
        DEF vars, pjsuaVars, heapVars, uiVars, pcVars, OtherTypes
      <4>. QED  BY <4>1, <4>2
    <3>. QED  BY <3>2, InvParts, PTL
  <2>. QED  BY <2>1, <2>2
<1>. QED  BY <1>1, InitInv, PTL DEF Spec

\* Whatever the threads, the user and the peers do, every variable keeps a value
\* the code can give it; in particular a message never carries NULL where its
\* handler expects an object (on_call_transfer_request2 passes on the user data
\* of the slot without looking at it).
THEOREM TypeCorrect == Spec => []TypeOK
<1>1. IInv => TypeOK
  BY DEF IInv
<1>. QED  BY <1>1, Inductive, PTL

\* Neither thread can reach a deleted call_user_data, through a slot or through
\* a posted message, for any number of calls.
THEOREM UserDataAlive == Spec => []NoDanglingUserData
<1>1. IInv => NoDanglingUserData
  BY DEF IInv, UserData, SlotOwn, QOK, QLive, Carries, NoDanglingUserData
<1>. QED  BY <1>1, Inductive, PTL

\* The delete in onCallState is neither repeated nor overtaken by a use.
THEOREM DeleteIsLastUse == Spec => []FinalMessageIsLast
<1>1. IInv => FinalMessageIsLast
  <2>. SUFFICES ASSUME IInv, NEW i \in 1..Len(queue), NEW u \in Calls,
                       IsFinal(queue[i]), queue[i].data = u
                PROVE  /\ \A c \in Calls : data[c] # u
                       /\ \A j \in (i + 1)..Len(queue) : ~Carries(queue[j], u)
    BY DEF FinalMessageIsLast
  <2>1. data[u] = None /\ \A j \in (i + 1)..Len(queue) : ~Carries(queue[j], u)
    BY DEF IInv, UserData, QOK, QFinal
  <2>2. \A c \in Calls : data[c] # u
    BY <2>1, CallsAssumption DEF IInv, UserData, SlotOwn
  <2>. QED  BY <2>1, <2>2
<1>. QED  BY <1>1, Inductive, PTL

\* No two slots ever have the same object, although a transferred call is
\* created with the user data of the call it replaces.
THEOREM UserDataNotShared == Spec => []NoSharedUserData
<1>1. IInv => NoSharedUserData
  BY DEF IInv, UserData, SlotOwn, NoSharedUserData
<1>. QED  BY <1>1, Inductive, PTL

-----------------------------------------------------------------------------
(* Delayed forwarding is never disabled for good.                          *)

\* The UI thread has something to do after a reset only while it is inside
\* the callback of a call.
UiThenInv == uiCall = None => uiThen = "none"

FwdInv == UiThenInv /\ ForwardingNotStuck

\* Steps that may clear the identifier but leave the timer alone, and enter a
\* callback only from the message loop.
FwdQuiet ==
  /\ fwdCall' \in {None, fwdCall} /\ fwdTimer' = fwdTimer
  /\ \/ UNCHANGED <<uiCall, uiThen>>
     \/ uiCall = None /\ uiCall' # None /\ uiThen' # "fwdTimer"

LEMMA FwdQuietInv == FwdInv /\ FwdQuiet => FwdInv'
  BY DEF FwdInv, FwdQuiet, UiThenInv, ForwardingNotStuck

LEMMA UiDisconnectsCall ==
  ASSUME NEW c \in Calls, NEW k, NEW rest, NEW then, UiDisconnects(c, k, rest, then)
  PROVE  uiCall' = c /\ uiCall' # None /\ uiThen' = then
  BY CallsAssumption DEF UiDisconnects

LEMMA FwdUiMessage == FwdInv /\ IInv /\ UiMessage => FwdInv'
<1>. SUFFICES ASSUME FwdInv, IInv, UiMessage PROVE FwdInv'
  OBVIOUS
<1>0. UiIdle
  BY DEF UiMessage, UiForwardNow, UiRing, UiCallState, UiCallEnd, UiMedia,
     UiTransferStatus, UiCreateRingingDlg, UiPlayerStop, UiAnswer, UiRefuse,
     UiAnswerTooLate, UiTakes
<1>1. CASE UiForwardNow \/ UiRefuse
  <2>1. PICK k \in {"other", "486"} :
          UiDisconnects(Current.call, k, Rest, "none") /\ UNCHANGED uiVars
    BY <1>1 DEF UiForwardNow, UiRefuse
  <2>2. Current.call \in Calls
    <3>1. queue # <<>> /\ Waiting(Current.call)
      BY <1>1 DEF UiForwardNow, UiRefuse, UiTakes
    <3>. QED  BY <3>1 DEF Waiting, Calls
  <2>3. FwdQuiet
    BY <1>0, <2>1, <2>2, UiDisconnectsCall DEF FwdQuiet, UiIdle, uiVars
  <2>. QED  BY <2>3, FwdQuietInv
<1>2. CASE UiCallState
  <2>. DEFINE answered == Current.st \in {"connecting", "confirmed"}
  <2>1. /\ fwdCall' = FwdAfterState(answered)
        /\ fwdTimer' = (fwdTimer /\ ~(answered /\ fwdCall # None))
        /\ UNCHANGED <<uiCall, uiThen>>
    BY <1>2 DEF UiCallState, pcVars
  <2>. HIDE DEF answered
  <2>2. CASE answered
    BY <2>1, <2>2 DEF FwdAfterState, FwdInv, UiThenInv, ForwardingNotStuck
  <2>3. CASE ~answered
    BY <2>1, <2>3 DEF FwdAfterState, FwdInv, UiThenInv, ForwardingNotStuck
  <2>. QED  BY <2>2, <2>3
<1>3. CASE UiAnswer
  BY <1>3, FwdQuietInv DEF UiAnswer, Answer, FwdQuiet, pcVars
<1>4. CASE \/ UiRing \/ UiCallEnd \/ UiMedia \/ UiTransferStatus
           \/ UiCreateRingingDlg \/ UiPlayerStop \/ UiAnswerTooLate
  <2>1. FwdQuiet
    BY <1>4 DEF UiRing, UiCallEnd, UiMedia, UiTransferStatus, UiCreateRingingDlg,
       UiPlayerStop, UiAnswerTooLate, FwdQuiet, uiVars, pcVars
  <2>. QED  BY <2>1, FwdQuietInv
<1>. QED  BY <1>1, <1>2, <1>3, <1>4 DEF UiMessage

LEMMA FwdUser == FwdInv /\ User => FwdInv'
<1>. SUFFICES ASSUME FwdInv, User PROVE FwdInv'
  OBVIOUS
<1>1. ASSUME NEW c \in Outgoing, NEW n \in Numbers, MakeCall(c, n) PROVE FwdQuiet
  BY <1>1 DEF MakeCall, FwdQuiet, pcVars
<1>2. ASSUME NEW c \in Calls, \/ CommandAnswer(c) \/ DlgDeclineLate(c)
                              \/ DlgIgnore(c) \/ HangUpFails(c)
      PROVE  FwdQuiet
  BY <1>2 DEF CommandAnswer, DlgDeclineLate, DlgIgnore, HangUpFails, FwdQuiet,
              uiVars, pcVars
<1>3. ASSUME NEW c \in Calls, DlgAnswer(c) PROVE FwdQuiet
  BY <1>3 DEF DlgAnswer, Answer, FwdQuiet, pcVars
<1>4. ASSUME NEW c \in Calls, DlgDecline(c) PROVE FwdQuiet
  BY <1>4, UiDisconnectsCall DEF DlgDecline, FwdQuiet, UiIdle, uiVars
<1>5. ASSUME NEW c \in Calls, NEW mark \in Marks, HangUp(c, mark) PROVE FwdQuiet
  BY <1>5 DEF HangUp, OnEndCall, FwdQuiet, pcVars
<1>6. ASSUME NEW c \in Calls, NEW mark \in Marks, HangUpWaiting(c, mark) PROVE FwdQuiet
  BY <1>6, UiDisconnectsCall DEF HangUpWaiting, FwdQuiet, UiIdle, uiVars
<1>. QED
  BY <1>1, <1>2, <1>3, <1>4, <1>5, <1>6, FwdQuietInv DEF User

LEMMA FwdUiRest ==
  FwdInv /\ IInv /\ (UiResetCall \/ TimerForward \/ TimerTone \/ SoundEnds) => FwdInv'
<1>. SUFFICES ASSUME FwdInv, IInv,
                     UiResetCall \/ TimerForward \/ TimerTone \/ SoundEnds
              PROVE  FwdInv'
  OBVIOUS
<1>1. CASE UiResetCall
  <2>1. /\ uiCall' = None /\ uiThen' = "none" /\ fwdTimer' = fwdTimer
        /\ fwdCall' \in {None, fwdCall} /\ (uiThen = "fwdTimer" => fwdCall' = None)
    <3>1. uiThen \in {"none", "endCall", "closeDlg", "fwdTimer"}
      BY DEF IInv, TypeOK
    <3>. QED  BY <1>1, <3>1 DEF UiResetCall, OnEndCall
  <2>. QED  BY <2>1 DEF FwdInv, UiThenInv, ForwardingNotStuck
<1>2. CASE TimerForward
  <2>1. CASE fwdCall' = None /\ UNCHANGED <<inv, data, heap, queue, uiCall, uiThen>>
    BY <2>1 DEF FwdInv, UiThenInv, ForwardingNotStuck
  <2>2. CASE Waiting(fwdCall) /\ UiDisconnects(fwdCall, "other", queue, "fwdTimer")
    <3>1. fwdCall \in Calls
      BY <2>2 DEF Waiting, Calls
    <3>2. uiCall' # None /\ uiThen' = "fwdTimer"
      BY <2>2, <3>1, UiDisconnectsCall
    <3>. QED  BY <3>2 DEF FwdInv, UiThenInv, ForwardingNotStuck
  <2>. QED  BY <1>2, <2>1, <2>2 DEF TimerForward
<1>3. CASE TimerTone \/ SoundEnds
  <2>1. FwdQuiet
    BY <1>3 DEF TimerTone, SoundEnds, FwdQuiet, pcVars
  <2>. QED  BY <2>1, FwdQuietInv
<1>. QED  BY <1>1, <1>2, <1>3

LEMMA FwdWorker == FwdInv /\ Worker => FwdInv'
<1>. SUFFICES ASSUME FwdInv, Worker PROVE FwdInv'
  OBVIOUS
<1>1. ASSUME NEW c \in Incoming, NEW n \in Numbers, IncomingOffered(c, n)
      PROVE  FwdInv'
  BY <1>1 DEF IncomingOffered, pcVars, FwdInv, UiThenInv, ForwardingNotStuck
<1>2. ASSUME NEW c \in Incoming, NEW n \in Numbers,
             IncomingRefused(c, n) \/ IncomingCrash(c, n)
      PROVE  FwdQuiet
  BY <1>2 DEF IncomingRefused, IncomingCrash, FwdQuiet, uiVars, pcVars
<1>3. ASSUME NEW c \in Calls, NEW code \in Codes,
             CallEnds(c, code) \/ \E st \in States : CallProgress(c, st, code)
      PROVE  FwdQuiet
  BY <1>3 DEF CallProgress, CallEnds, FwdQuiet, uiVars, pcVars
<1>4. ASSUME NEW c \in Calls,
             MediaState(c) \/ \E code \in {"200", "other"} : TransferStatus(c, code)
      PROVE  FwdQuiet
  BY <1>4 DEF MediaState, TransferStatus, PostWithData, FwdQuiet, uiVars, pcVars
<1>5. ASSUME NEW c \in Calls, NEW d \in Outgoing, NEW n \in Numbers,
             Transferred(c, d, n)
      PROVE  FwdQuiet
  BY <1>5 DEF Transferred, FwdQuiet, uiVars, pcVars
<1>6. CASE WkResetCall
  <2>1. FwdQuiet
    BY <1>6 DEF WkResetCall, FwdQuiet, uiVars
  <2>. QED  BY <2>1, FwdQuietInv
<1>. QED
  BY <1>1, <1>2, <1>3, <1>4, <1>5, <1>6, FwdQuietInv DEF Worker

\* Each call of on_incoming_call finds the forwarding identifier free or its
\* timer still running.
THEOREM ForwardingRecovers == Spec => []ForwardingNotStuck
<1>1. Init => FwdInv
  BY DEF Init, FwdInv, UiThenInv, ForwardingNotStuck
<1>2. FwdInv /\ IInv /\ [Next]_vars => FwdInv'
  <2>. SUFFICES ASSUME FwdInv, IInv, [Next]_vars PROVE FwdInv'
    OBVIOUS
  <2>1. CASE Next
    BY <2>1, FwdUiMessage, FwdUser, FwdUiRest, FwdWorker DEF Next
  <2>2. CASE UNCHANGED vars
    <3>1. FwdQuiet
      BY <2>2 DEF vars, uiVars, pcVars, FwdQuiet
    <3>. QED  BY <3>1, FwdQuietInv
  <2>. QED  BY <2>1, <2>2
<1>3. FwdInv => ForwardingNotStuck
  BY DEF FwdInv
<1>. QED  BY <1>1, <1>2, <1>3, Inductive, PTL DEF Spec

=============================================================================
