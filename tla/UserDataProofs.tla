--------------------------- MODULE UserDataProofs ---------------------------
(***************************************************************************)
(* CallLifecycle implements UserDataLifetime: every step of the two        *)
(* threads gives, announces, loses or deletes one call_user_data object    *)
(* as the abstract specification allows, or touches none.                  *)
(*                                                                         *)
(* The argument goes through the ways in which a step changes the slots    *)
(* (Effect).  Two facts about the heap complete them: only the handler of  *)
(* a final message deletes, and only the step that begins a call           *)
(* allocates; the other callbacks find the object of their call in its     *)
(* slot.  That an announced object is deleted in the end needs fairness    *)
(* and is left to the model checker.                                       *)
(***************************************************************************)
EXTENDS CallWidgetsProofs

-----------------------------------------------------------------------------
(* The heap.                                                               *)

\* A step that begins a call allocates its object; no other object changes.
HeapGrows == \A u \in Calls :
  heap'[u] = IF inv[u] = "unused" /\ inv'[u] # "unused" THEN "live" ELSE heap[u]

LEMMA SameHeap ==
  ASSUME heap' = heap, inv' = inv \/ \E c \in Calls, st \in States :
                         inv[c] # "unused" /\ inv' = [inv EXCEPT ![c] = st],
         inv \in [Calls -> States]
  PROVE  HeapGrows
  BY DEF HeapGrows

LEMMA NewHeap ==
  ASSUME Before, NEW c \in Calls, inv[c] = "unused", NEW st \in States \ {"unused"},
         inv' = [inv EXCEPT ![c] = st], heap' = [heap EXCEPT ![c] = "live"]
  PROVE  HeapGrows
<1>1. inv \in [Calls -> States] /\ heap \in [Calls -> {"none", "live", "freed"}]
  BY DEF Before, IInv, TypeOK
<1>. QED  BY <1>1 DEF HeapGrows

\* The callback of an active call finds its object in the slot.
LEMMA FoundHeap ==
  ASSUME Before, NEW c \in Calls, inv[c] \in Active
  PROVE  /\ data[c] = c /\ c # None /\ c \notin hidden /\ inv[c] # "unused"
         /\ [heap EXCEPT ![c] = "live"] = heap
<1>1. data[c] = c /\ c # None /\ c \notin hidden
  BY ActiveCall
<1>2. heap[c] = "live" /\ heap \in [Calls -> {"none", "live", "freed"}]
  BY <1>1 DEF Before, IInv, TypeOK, UserData, SlotOwn
<1>. QED  BY <1>1, <1>2 DEF Active

LEMMA EnterHeap ==
  ASSUME Before, NEW c \in Calls, inv[c] \in Active, NEW st \in States, NEW code,
         NEW rest, NEW first, EnterState(c, st, code, rest, first)
  PROVE  HeapGrows
<1>1. inv \in [Calls -> States] /\ inv' = [inv EXCEPT ![c] = st]
  BY DEF Before, IInv, TypeOK, EnterState
<1>2. heap' = heap
  BY FoundHeap DEF EnterState, HeapAfter, IsHidden, Cell
<1>. QED  BY <1>1, <1>2, FoundHeap, SameHeap

LEMMA AnswerHeap ==
  ASSUME Before, NEW c, Waiting(c), NEW Q, Answer(c, Q)
  PROVE  HeapGrows
<1>1. c \in Calls /\ inv[c] \in Active /\ inv \in [Calls -> States]
  BY DEF Waiting, Active, Calls, Before, IInv, TypeOK
<1>2. CASE EnterState(c, "connecting", "200", Q, <<>>)
  BY <1>1, <1>2, EnterHeap DEF States
<1>3. CASE UNCHANGED <<inv, data, heap>>
  BY <1>1, <1>3, SameHeap
<1>. QED  BY <1>2, <1>3 DEF Answer

LEMMA DisconnectHeap ==
  ASSUME Before, NEW c, Waiting(c), NEW code, NEW Q, NEW then, UiDisconnects(c, code, Q, then)
  PROVE  HeapGrows
<1>1. c \in Calls /\ inv[c] \in Active
  BY DEF Waiting, Active, Calls
<1>. QED  BY <1>1, EnterHeap DEF UiDisconnects, States

\* Only the handler of a final message deletes an object.
LEMMA UiHeap ==
  ASSUME Before, UiMessage \/ User, ~UiCallEnd
  PROVE  HeapGrows
<1>0. inv \in [Calls -> States]
  BY DEF Before, IInv, TypeOK
<1>1. CASE \/ UiCallState \/ UiMedia \/ UiTransferStatus \/ UiCreateRingingDlg
           \/ UiPlayerStop \/ UiAnswerTooLate
           \/ \E c \in Calls : \/ CommandAnswer(c) \/ DlgDeclineLate(c) \/ DlgIgnore(c)
                               \/ HangUpFails(c) \/ \E mark \in Marks : HangUp(c, mark)
  <2>1. inv' = inv /\ heap' = heap
    BY <1>1 DEF UiCallState, UiMedia, UiTransferStatus, UiCreateRingingDlg, UiPlayerStop,
       UiAnswerTooLate, CommandAnswer, DlgDeclineLate, DlgIgnore, HangUpFails, HangUp,
       pjsuaVars, heapVars
  <2>. QED  BY <1>0, <2>1, SameHeap
<1>2. CASE UiForwardNow \/ UiRefuse
  BY <1>2, DisconnectHeap DEF UiForwardNow, UiRefuse
<1>3. ASSUME NEW c \in Calls, DlgDecline(c) \/ \E mark \in Marks : HangUpWaiting(c, mark)
      PROVE  HeapGrows
  BY <1>3, DisconnectHeap DEF DlgDecline, HangUpWaiting
<1>4. CASE UiAnswer
  BY <1>4, AnswerHeap DEF UiAnswer
<1>5. ASSUME NEW c \in Calls, DlgAnswer(c)
      PROVE  HeapGrows
  BY <1>5, AnswerHeap DEF DlgAnswer
<1>6. CASE UiRing
  <2>. DEFINE c == Current.call
  <2>1. CASE inv' = inv /\ heap' = heap
    BY <1>0, <2>1, SameHeap
  <2>2. ASSUME NEW ask, Waiting(c), EnterState(c, "early", "180", Rest, ask)
        PROVE  HeapGrows
    <3>1. c \in Calls /\ inv[c] \in Active /\ "early" \in States
      BY <2>2 DEF Waiting, Active, Calls, States
    <3>. HIDE DEF c
    <3>. QED  BY <2>2, <3>1, EnterHeap
  <2>. QED  BY <1>6, <2>1, <2>2 DEF UiRing
<1>7. ASSUME NEW c \in Outgoing, NEW n \in Numbers, MakeCall(c, n)
      PROVE  HeapGrows
  BY <1>7, NewHeap DEF MakeCall, Calls, States
<1>. QED
  BY <1>1, <1>2, <1>3, <1>4, <1>5, <1>6, <1>7 DEF UiMessage, User

LEMMA OtherHeap ==
  ASSUME Before, UiResetCall \/ TimerForward \/ TimerTone \/ SoundEnds \/ Worker
  PROVE  HeapGrows
<1>0. /\ inv \in [Calls -> States] /\ data \in [Calls -> Calls \cup {None}]
      /\ uiCall \in Calls \cup {None} /\ wkCall \in Calls \cup {None} /\ Inside
  BY DEF Before, IInv, TypeOK, SlotsInv
<1>1. CASE UiResetCall \/ WkResetCall
  <2>1. PICK c \in {uiCall, wkCall} : c # None /\ inv' = [inv EXCEPT ![c] = "reset"]
    BY <1>1 DEF UiResetCall, WkResetCall
  <2>2. c \in Calls /\ inv[c] # "unused" /\ heap' = heap /\ "reset" \in States
    BY <1>0, <1>1, <2>1 DEF Inside, UiResetCall, WkResetCall, heapVars, States
  <2>. QED  BY <1>0, <2>1, <2>2, SameHeap
<1>2. CASE TimerForward
  <2>1. CASE inv' = inv /\ heap' = heap
    BY <1>0, <2>1, SameHeap
  <2>. QED  BY <1>2, <2>1, DisconnectHeap DEF TimerForward
<1>3. CASE TimerTone \/ SoundEnds \/ \E c \in Incoming, n \in Numbers : IncomingCrash(c, n)
  <2>1. inv' = inv /\ heap' = heap
    BY <1>3 DEF TimerTone, SoundEnds, IncomingCrash, pjsuaVars, heapVars
  <2>. QED  BY <1>0, <2>1, SameHeap
<1>4. ASSUME NEW c \in Incoming, NEW n \in Numbers,
             IncomingOffered(c, n) \/ IncomingRefused(c, n)
      PROVE  HeapGrows
  <2>1. c \in Calls /\ inv[c] = "unused" /\ heap' = [heap EXCEPT ![c] = "live"]
    BY <1>4 DEF IncomingOffered, IncomingRefused, ArrivesAt, Calls
  <2>2. PICK st \in {"incoming", "reset"} : inv' = [inv EXCEPT ![c] = st]
    BY <1>4 DEF IncomingOffered, IncomingRefused
  <2>. QED  BY <2>1, <2>2, NewHeap DEF States
<1>5. ASSUME NEW c \in Calls, NEW st \in States, NEW code \in Codes, CallProgress(c, st, code)
      PROVE  HeapGrows
  <2>1. inv[c] \in Active
    BY <1>5 DEF CallProgress, Progress, Active
  <2>. QED  BY <1>5, <2>1, EnterHeap DEF CallProgress
<1>6. ASSUME NEW c \in Calls, NEW code \in Codes, CallEnds(c, code)
      PROVE  HeapGrows
  BY <1>6, EnterHeap DEF CallEnds, States
<1>7. ASSUME NEW c \in Calls, MediaState(c) \/ \E k \in {"200", "other"} : TransferStatus(c, k)
      PROVE  HeapGrows
  <2>1. PICK t, k : PostWithData(c, t, k) /\ inv[c] \in Active
    BY <1>7 DEF MediaState, TransferStatus, Active
  <2>2. heap' = heap /\ inv' = inv
    BY <2>1, FoundHeap DEF PostWithData
  <2>. QED  BY <1>0, <2>2, SameHeap
<1>8. ASSUME NEW c \in Calls, NEW d \in Outgoing, NEW n \in Numbers, Transferred(c, d, n)
      PROVE  HeapGrows
  <2>1. /\ d \in Calls /\ inv[d] = "unused" /\ inv[c] \in Active /\ c # d
        /\ inv' = [inv EXCEPT ![d] = "calling"]
    BY <1>8 DEF Transferred, Calls, Active
  <2>2. heap' = [heap EXCEPT ![d] = "live"]
    BY <1>8, <2>1, FoundHeap DEF Transferred, HeapAfter, NotReported, IsHidden, Cell
  <2>. QED  BY <2>1, <2>2, NewHeap DEF States
<1>. QED
  BY <1>1, <1>2, <1>3, <1>4, <1>5, <1>6, <1>7, <1>8 DEF Worker

-----------------------------------------------------------------------------
(* The owner of an object.                                                 *)

Owners == [u \in Calls |-> Owner(u)]

\* An object is only ever in the slot of its own call.
Known == \A u \in Calls :
  Owner(u) = IF heap[u] = "none" THEN "nobody"
             ELSE IF heap[u] = "freed" THEN "freed"
             ELSE IF data[u] = u THEN "slot"
             ELSE IF u \in lost THEN "leaked" ELSE "announced"

LEMMA OwnersKnown == SlotOwn => Known
<1>1. ASSUME SlotOwn, NEW u \in Calls
      PROVE  (\E c \in Calls : data[c] = u) <=> data[u] = u
  BY <1>1, CallsAssumption DEF SlotOwn
<1>. QED  BY <1>1 DEF Owner, Known

\* The step changes the owner of one object, or of none.
LEMMA OneMoves ==
  ASSUME NEW c \in Calls, \A u \in Calls \ {c} : Owner(u)' = Owner(u)
  PROVE  Owners' = [Owners EXCEPT ![c] = Owner(c)']
  BY DEF Owners

LEMMA NoneMoves ==
  ASSUME \A u \in Calls : Owner(u)' = Owner(u)
  PROVE  Owners' = Owners
  BY DEF Owners

\* What the step does to the objects, from what it does to the slots.
LEMMA EffectOwner ==
  ASSUME Before, UserData', HeapGrows, NEW Q, Effect(Q)
  PROVE  Lifetime!Next \/ Owners' = Owners
<1>0. /\ SlotOwn /\ SlotOwn' /\ inv \in [Calls -> States] /\ lost \subseteq Calls
      /\ data \in [Calls -> Calls \cup {None}] /\ heap \in [Calls -> {"none", "live", "freed"}]
      /\ UnusedFresh /\ EndedEmpty /\ LostEnded /\ Inside
  BY DEF Before, IInv, TypeOK, UserData, SlotsInv
<1>1. Known /\ Known'
  BY <1>0, OwnersKnown, PTL
<1>2. ASSUME NEW c \in Calls, \A u \in Calls \ {c} : Owner(u)' = Owner(u)
      PROVE  \A from, to : Owner(c) = from /\ Owner(c)' = to => Lifetime!Move(c, from, to)
  BY <1>2, OneMoves DEF Owners, Lifetime!Move
<1>3. CASE Stay(Q) \/ \E c \in Calls : \/ \E st \in States : Advance(Q, c, st)
                                       \/ Crash(Q, c)
  <2>1. /\ UNCHANGED <<data, lost>>
        /\ \A u \in Calls : inv[u] = "unused" => inv'[u] = "unused"
    BY <1>0, <1>3 DEF Stay, Advance, Crash, Active
  <2>2. \A u \in Calls : heap'[u] = heap[u]
    BY <2>1 DEF HeapGrows
  <2>3. \A u \in Calls : Owner(u)' = Owner(u)
    BY <1>1, <2>1, <2>2 DEF Known
  <2>. QED  BY <2>3, NoneMoves
<1>4. ASSUME NEW c \in Calls, End(Q, c) \/ Vanish(Q, c)
      PROVE  Lifetime!Next \/ Owners' = Owners
  <2>1. /\ data[c] = c /\ c # None /\ c \notin lost
        /\ heap[c] = "live" /\ \A u \in Calls : heap'[u] = heap[u]
    BY <1>0, <1>4, ActiveCall DEF End, Vanish, HeapGrows, SlotOwn, Active
  <2>2. \A u \in Calls \ {c} : Owner(u)' = Owner(u)
    BY <1>0, <1>1, <1>4, <2>1 DEF Known, End, Vanish
  <2>3. CASE End(Q, c)
    <3>1. Owner(c) = "slot" /\ Owner(c)' = "announced"
      BY <1>0, <1>1, <2>1, <2>3 DEF Known, End
    <3>. QED  BY <1>2, <2>2, <3>1 DEF Lifetime!Next, Lifetime!Announce
  <2>4. CASE Vanish(Q, c)
    <3>1. Owner(c)' = Owner(c)
      BY <1>0, <1>1, <2>1, <2>4 DEF Known, Vanish
    <3>. QED  BY <2>2, <3>1, NoneMoves
  <2>. QED  BY <1>4, <2>3, <2>4
<1>5. ASSUME NEW c \in Calls, Begin(Q, c) \/ Refuse(Q, c)
      PROVE  Lifetime!Next \/ Owners' = Owners
  <2>1. /\ data[c] = None /\ heap[c] = "none" /\ c \notin lost /\ c # None
        /\ heap'[c] = "live" /\ \A u \in Calls \ {c} : heap'[u] = heap[u]
    BY <1>0, <1>5, UnusedCall DEF Begin, Refuse, HeapGrows, UnusedFresh, LostEnded, Ended
  <2>2. \A u \in Calls \ {c} : Owner(u)' = Owner(u)
    BY <1>0, <1>1, <1>5, <2>1 DEF Known, Begin, Refuse
  <2>3. Owner(c) = "nobody"
    BY <1>1, <2>1 DEF Known
  <2>4. CASE Begin(Q, c)
    <3>1. Owner(c)' = "slot"
      BY <1>0, <1>1, <2>1, <2>4 DEF Known, Begin
    <3>. QED  BY <1>2, <2>2, <2>3, <3>1 DEF Lifetime!Next, Lifetime!Create
  <2>5. CASE Refuse(Q, c)
    <3>1. Owner(c)' = "announced"
      BY <1>0, <1>1, <2>1, <2>5 DEF Known, Refuse
    <3>. QED  BY <1>2, <2>2, <2>3, <3>1 DEF Lifetime!Next, Lifetime!CreateFinal
  <2>. QED  BY <1>5, <2>4, <2>5
<1>6. ASSUME NEW c \in Calls, Reset(Q, c)
      PROVE  Lifetime!Next \/ Owners' = Owners
  <2>1. /\ inv[c] = "disconnected" /\ (data[c] = None \/ (data[c] = c /\ c \in lost)) /\ c # None
        /\ \A u \in Calls : heap'[u] = heap[u]
    BY <1>0, <1>6, CallsAssumption DEF Reset, Inside, EndedEmpty, SlotOwn, Ended, HeapGrows
  <2>2. \A u \in Calls \ {c} : Owner(u)' = Owner(u)
    BY <1>0, <1>1, <1>6, <2>1 DEF Known, Reset
  <2>3. data'[c] = None /\ lost' = lost
    BY <1>0, <1>6 DEF Reset
  <2>4. CASE data[c] = None
    <3>1. Owner(c)' = Owner(c)
      BY <1>1, <2>1, <2>3, <2>4 DEF Known
    <3>. QED  BY <2>2, <3>1, NoneMoves
  <2>5. CASE data[c] = c /\ c \in lost
    <3>1. heap[c] = "live"
      BY <1>0, <2>1, <2>5 DEF SlotOwn
    <3>2. Owner(c) = "slot" /\ Owner(c)' = "leaked"
      BY <1>1, <2>1, <2>3, <2>5, <3>1 DEF Known
    <3>. QED  BY <1>2, <2>2, <3>2 DEF Lifetime!Next, Lifetime!Leak
  <2>. QED  BY <2>1, <2>4, <2>5
<1>. QED  BY <1>3, <1>4, <1>5, <1>6 DEF Effect

\* The handler of the final message deletes the object that was announced.
LEMMA EndOwner ==
  ASSUME Before, UserData', QueueInv, UiCallEnd
  PROVE  Lifetime!Next
<1>1. queue # <<>> /\ IsFinal(Current) /\ Current.type \in WithData
  BY DEF UiCallEnd, UiTakes, IsFinal, WithData
<1>2. PICK c \in Calls : Current.data = c /\ c \notin lost
  BY <1>1, Takes, MessageFields DEF Faithful
<1>3. heap[c] = "live" /\ data[c] = None
  BY <1>1, <1>2, Taken, InvParts DEF Before
<1>4. heap' = [heap EXCEPT ![c] = "freed"] /\ UNCHANGED <<data, lost>>
  BY <1>2 DEF UiCallEnd, pjsuaVars
<1>5. heap \in [Calls -> {"none", "live", "freed"}] /\ SlotOwn /\ SlotOwn' /\ c # None
  BY <1>2, CallsAssumption DEF Before, IInv, TypeOK, UserData
<1>6. Known /\ Known'
  BY <1>5, OwnersKnown, PTL
<1>7. \A u \in Calls \ {c} : Owner(u)' = Owner(u)
  BY <1>4, <1>5, <1>6 DEF Known
<1>8. Owner(c) = "announced" /\ Owner(c)' = "freed"
  BY <1>2, <1>3, <1>4, <1>5, <1>6 DEF Known
<1>9. Lifetime!Move(c, "announced", "freed")
  BY <1>2, <1>7, <1>8, OneMoves DEF Owners, Lifetime!Move
<1>. QED  BY <1>2, <1>9 DEF Lifetime!Next, Lifetime!Delete

-----------------------------------------------------------------------------
(* The refinement.                                                         *)

\* Every object is created once, belongs to the slot of its own call, leaves
\* it when the call is over and is deleted only after its end was announced,
\* once: the steps of the two threads are steps of UserDataLifetime.  The run
\* on ImplementsLifetime adds that an announced object is deleted.
THEOREM LifetimeKept == Spec => Lifetime!Safety
<1>1. Init => Lifetime!Init
  BY DEF Init, Lifetime!Init, Owner
<1>2. IInv /\ IInv' /\ WidgetsInv /\ [Next]_vars => [Lifetime!Next]_Owners
  <2>. SUFFICES ASSUME IInv, IInv', WidgetsInv, [Next]_vars
                PROVE  Lifetime!Next \/ Owners' = Owners
    OBVIOUS
  <2>1. CASE Next
    <3>1. Before /\ QueueInv /\ UserData'
      BY <2>1, NotCrashed DEF Before, WidgetsInv, IInv
    <3>2. CASE UiCallEnd
      BY <3>1, <3>2, EndOwner
    <3>3. CASE ~UiCallEnd
      <4>1. HeapGrows
        BY <2>1, <3>1, <3>3, UiHeap, OtherHeap DEF Next
      <4>2. PICK Q : Effect(Q)
        BY <2>1, <3>1, UiMessageEffect, UserEffect, UiRestEffect, WorkerEffect DEF Next
      <4>. QED  BY <3>1, <4>1, <4>2, EffectOwner
    <3>. QED  BY <3>2, <3>3
  <2>2. CASE UNCHANGED vars
    <3>1. UNCHANGED <<heap, data, lost>>
      BY <2>2 DEF vars, pjsuaVars, heapVars
    <3>. QED  BY <3>1 DEF Owners, Owner
  <2>. QED  BY <2>1, <2>2
<1>3. IInv /\ IInv' /\ WidgetsInv /\ [Next]_vars => [Lifetime!Next]_[u \in Calls |-> Owner(u)]
  BY <1>2 DEF Owners
<1>. QED  BY <1>1, <1>3, Inductive, WidgetsFollow, PTL DEF Spec, Lifetime!Safety

=============================================================================
