--------------------- MODULE AccountRegistrationProofs ---------------------
(***************************************************************************)
(* Two more theorems about AccountLifecycle, for any settings, numbers,    *)
(* failures and bounds: once the account is registered and everything is   *)
(* handled no number waits, and the registered account has the buddies of  *)
(* the shortcuts or the program subscribed when it had no account.         *)
(*                                                                         *)
(* Both rest on what is still to come.  Fresh relates what PJSUA knows of  *)
(* its slots to the accounts in them; Later(u, v) says that the change of  *)
(* u to v did not register the account, or end its subscription, by        *)
(* itself; Pending names what will dial the number that waits: an answer   *)
(* of the registrar in the queue, a call that has to end, or the box of a  *)
(* call that failed.                                                       *)
(***************************************************************************)
EXTENDS AccountLifecycleProofs

-----------------------------------------------------------------------------
(* The inductive invariant.                                                *)

Registered(u) == u.account \in u.registered

\* What PJSUA and the main window keep is about the accounts there are.
Fresh(u) ==
  /\ \A s \in u.registered : u.slot[s] \in Servers /\ u.code[s] = 200
  /\ \A s \in u.regc : u.slot[s] \in Servers
  /\ u.buddies => u.running /\ u.subscribed
  /\ u.subscribed /\ u.running => u.buddies \/ u.missed

\* The queue has the message of a registration, or of the end of a call.
Accepted(m) == m.type = "regState" /\ m.code = 200
Ended(m) == m.type = "callEnd"
RegQueued(q) == \E i \in 1..Len(q) : Accepted(q[i])
EndQueued(q) == \E i \in 1..Len(q) : Ended(q[i])

\* A box of the number that waits is open.
BoxOpen(b) == \E i \in 1..Len(b) : b[i] = "delayed"

Pending == RegQueued(queue) \/ call # "none" \/ BoxOpen(boxes)

Promises ==
  /\ Fresh(ua)
  /\ call = "over" => EndQueued(queue)
  /\ Registered(ua) => ua.subscribed \/ RegQueued(queue)
  /\ Registered(ua) /\ delayed # NoNumber => Pending

\* What a change of the accounts leaves to hope for.
Later(u, v) ==
  Registered(v) => Registered(u) /\ (u.subscribed => v.subscribed)

-----------------------------------------------------------------------------
(* The procedures that change the accounts.                                *)

\* The fields Fresh speaks of, but the slots and whether PJSUA is running.
SameRest(u, v) ==
  /\ v.code = u.code /\ v.regc = u.regc /\ v.registered = u.registered
  /\ v.subscribed = u.subscribed /\ v.buddies = u.buddies /\ v.missed = u.missed

LEMMA FreshSame ==
  ASSUME NEW u, NEW v, Fresh(u), SameRest(u, v), v.slot = u.slot, v.running = u.running
  PROVE  Fresh(v)
  BY DEF Fresh, SameRest

LEMMA ChoiceRest ==
  ASSUME NEW u \in UserAgent, NEW s
  PROVE  SameRest(u, [u EXCEPT !.account = s]) /\ SameRest(u, [u EXCEPT !.local = s])
  BY DEF UserAgent, SameRest

\* An account that is registered is in PJSUA.
LEMMA RegisteredValid ==
  ASSUME NEW u \in UserAgent, Fresh(u), Registered(u)
  PROVE  /\ Valid(u, u.account) /\ u.slot[u.account] \in Servers
         /\ u.code[u.account] = 200 /\ StatusOK(u)
<1>1. u.account \in Slots /\ u.slot[u.account] \in Servers /\ u.code[u.account] = 200
  BY DEF Registered, Fresh, UserAgent
<1>2. u.slot[u.account] # Free /\ u.account # None
  BY <1>1, AccountAssumption DEF Free, Slots, None
<1> QED
  BY <1>1, <1>2 DEF Valid, StatusOK

LEMMA LaterTwice ==
  ASSUME NEW u, NEW v, NEW w, Later(u, v), Later(v, w)
  PROVE  Later(u, w)
  BY DEF Later

LEMMA SubscribeFresh ==
  ASSUME NEW u \in UserAgent, Fresh(u)
  PROVE  /\ Fresh(Subscribe(u)) /\ Later(u, Subscribe(u)) /\ Subscribe(u).subscribed
         /\ Subscribe(u).account = u.account /\ Subscribe(u).registered = u.registered
         /\ Fresh(Unsubscribe(u)) /\ ~Unsubscribe(u).buddies /\ ~Unsubscribe(u).subscribed
         /\ Unsubscribe(u).account = u.account /\ Unsubscribe(u).registered = u.registered
<1> DEFINE B == u.running /\ (Valid(u, u.account) \/ Valid(u, u.local))
           M == u.running /\ ~(Valid(u, u.account) \/ Valid(u, u.local))
           v == [u EXCEPT !.subscribed = TRUE, !.buddies = B, !.missed = M]
           w == [u EXCEPT !.subscribed = FALSE, !.buddies = FALSE, !.missed = FALSE]
<1>1. Subscribe(u) = (IF u.subscribed THEN u ELSE v) /\ Unsubscribe(u) = (IF u.subscribed THEN w ELSE u)
  BY DEF Subscribe, Unsubscribe
<1>2. B \in BOOLEAN /\ M \in BOOLEAN /\ (B => u.running) /\ (u.running => B \/ M)
      /\ u.subscribed \in BOOLEAN /\ u.buddies \in BOOLEAN
  BY DEF UserAgent
<1> HIDE DEF B, M
<1>3. /\ v.slot = u.slot /\ v.code = u.code /\ v.regc = u.regc /\ v.registered = u.registered
      /\ v.account = u.account /\ v.running = u.running
      /\ v.subscribed = TRUE /\ v.buddies = B /\ v.missed = M
  BY DEF UserAgent
<1>4. /\ w.slot = u.slot /\ w.code = u.code /\ w.regc = u.regc /\ w.registered = u.registered
      /\ w.account = u.account /\ w.running = u.running
      /\ w.subscribed = FALSE /\ w.buddies = FALSE
  BY DEF UserAgent
<1> HIDE DEF v, w
<1>5. Fresh(v)
  BY <1>2, <1>3 DEF Fresh
<1>6. Fresh(w)
  BY <1>4 DEF Fresh
<1>7. CASE u.subscribed
  BY <1>1, <1>4, <1>6, <1>7 DEF Later, Registered
<1>8. CASE ~u.subscribed
  <2>1. ~u.buddies
    BY <1>8 DEF Fresh
  <2> QED
    BY <1>1, <1>3, <1>5, <1>8, <2>1 DEF Later, Registered
<1> QED
  BY <1>7, <1>8

LEMMA AccAddFresh ==
  ASSUME NEW u \in UserAgent, Fresh(u), NEW p \in Profiles \cup {Local},
         NEW r \in Slots, u.slot[r] = Free
  PROVE  LET v == AccAdd(u, p) IN
         /\ Fresh(v) /\ v.registered = u.registered \ {FreeSlot(u)}
         /\ v.subscribed = u.subscribed
<1> DEFINE s == FreeSlot(u)
           R == u.registered \ {s}
           G == IF p \in Servers THEN u.regc \cup {s} ELSE u.regc \ {s}
           v == [u EXCEPT !.slot[s] = p, !.registered = R, !.regc = G]
<1>1. s \in Slots
  BY FreeSlotIsFree
<1>2. AccAdd(u, p) = v
  BY DEF AccAdd
<1>3. u.registered \in SUBSET Slots /\ u.regc \in SUBSET Slots
      /\ u.slot \in [Slots -> Profiles \cup {Local, Free}]
  BY DEF UserAgent
<1>4. \A t \in G : (t = s /\ p \in Servers) \/ (t # s /\ t \in u.regc)
  OBVIOUS
<1>5. \A t \in R : t # s /\ t \in u.registered
  OBVIOUS
<1> HIDE DEF R, G, s
<1>6. /\ v.slot = [u.slot EXCEPT ![s] = p] /\ v.registered = R /\ v.regc = G
      /\ v.code = u.code /\ v.running = u.running /\ v.subscribed = u.subscribed
      /\ v.buddies = u.buddies /\ v.missed = u.missed
  BY DEF UserAgent
<1> HIDE DEF v
<1>7. \A t \in R : v.slot[t] \in Servers /\ v.code[t] = 200
  BY <1>1, <1>3, <1>5, <1>6 DEF Fresh
<1>8. \A t \in G : v.slot[t] \in Servers
  BY <1>1, <1>3, <1>4, <1>6 DEF Fresh
<1>9. Fresh(v)
  BY <1>6, <1>7, <1>8 DEF Fresh
<1> QED
  BY <1>2, <1>6, <1>9 DEF R, s

LEMMA AccDelFresh ==
  ASSUME NEW u \in UserAgent, Fresh(u), NEW s \in Slots
  PROVE  LET v == AccDel(u, s) IN
         /\ Fresh(v) /\ v.registered = u.registered \ {s}
         /\ v.subscribed = u.subscribed /\ v.buddies = u.buddies
<1> DEFINE R == u.registered \ {s}
           G == u.regc \ {s}
           v == [u EXCEPT !.slot[s] = Free, !.registered = R, !.regc = G]
<1>1. AccDel(u, s) = v
  BY DEF AccDel
<1>2. u.registered \in SUBSET Slots /\ u.regc \in SUBSET Slots
      /\ u.slot \in [Slots -> Profiles \cup {Local, Free}]
  BY DEF UserAgent
<1>3. (\A t \in G : t # s /\ t \in u.regc) /\ (\A t \in R : t # s /\ t \in u.registered)
  OBVIOUS
<1> HIDE DEF R, G
<1>4. /\ v.slot = [u.slot EXCEPT ![s] = Free] /\ v.registered = R /\ v.regc = G
      /\ v.code = u.code /\ v.running = u.running /\ v.subscribed = u.subscribed
      /\ v.buddies = u.buddies /\ v.missed = u.missed
  BY DEF UserAgent
<1> HIDE DEF v
<1>5. \A t \in R : v.slot[t] \in Servers /\ v.code[t] = 200
  BY <1>2, <1>3, <1>4 DEF Fresh
<1>6. \A t \in G : v.slot[t] \in Servers
  BY <1>2, <1>3, <1>4 DEF Fresh
<1>7. Fresh(v)
  BY <1>4, <1>5, <1>6 DEF Fresh
<1> QED
  BY <1>1, <1>4, <1>7 DEF R

\* What every procedure is shown to do.
Change(u, v) == Fresh(v) /\ Later(u, v)

LEMMA ChangeTwice ==
  ASSUME NEW u, NEW v, NEW w, Change(u, v), Change(v, w)
  PROVE  Change(u, w)
  BY LaterTwice DEF Change

LEMMA AddLocalFresh ==
  ASSUME NEW u, NEW p, Sound(u, p), Fresh(u), ~Valid(u, u.local),
         NEW ok \in BOOLEAN
  PROVE  Change(u, PJAccountAddLocal(u, p, ok))
<1>1. CASE ~(LocalEnabled(u, p) /\ u.running /\ ok)
  BY <1>1 DEF PJAccountAddLocal, Change, Later
<1>2. CASE LocalEnabled(u, p) /\ u.running /\ ok
  <2> DEFINE s == FreeSlot(u)
             v == AccAdd(u, Local)
             w == [v EXCEPT !.local = s]
  <2>1. PICK r \in Slots : u.slot[r] = Free
    BY SlotLeft
  <2>2. u \in UserAgent
    BY DEF Sound
  <2>3. v \in UserAgent /\ v.account = u.account
    BY <2>1, <2>2, AccAddTyped
  <2>4. Fresh(v) /\ v.registered \subseteq u.registered /\ v.subscribed = u.subscribed
    BY <2>1, <2>2, AccAddFresh
  <2>5. PJAccountAddLocal(u, p, ok) = w
    BY <1>2 DEF PJAccountAddLocal
  <2> HIDE DEF v, s
  <2>6. SameRest(v, w) /\ w.slot = v.slot /\ w.account = v.account /\ w.running = v.running
    BY <2>3, ChoiceRest, ChoiceFields
  <2> HIDE DEF w
  <2>7. Fresh(w)
    BY <2>4, <2>6, FreshSame
  <2>8. Later(u, w)
    BY <2>3, <2>4, <2>6 DEF Later, Registered, SameRest
  <2> QED
    BY <2>5, <2>7, <2>8 DEF Change
<1> QED
  BY <1>1, <1>2

LEMMA DeleteLocalFresh ==
  ASSUME NEW u, NEW p, Sound(u, p), Fresh(u)
  PROVE  Change(u, PJAccountDeleteLocal(u))
<1>1. CASE ~Valid(u, u.local)
  BY <1>1 DEF PJAccountDeleteLocal, Change, Later
<1>2. CASE Valid(u, u.local)
  <2> DEFINE s == u.local
             v == AccDel(u, s)
             w == [v EXCEPT !.local = None]
  <2>1. s \in Slots /\ u \in UserAgent
    BY <1>2 DEF Sound, Valid, UserAgent
  <2>2. v \in UserAgent /\ v.account = u.account
    BY <2>1, AccDelTyped
  <2>3. Fresh(v) /\ v.registered \subseteq u.registered /\ v.subscribed = u.subscribed
    BY <2>1, AccDelFresh
  <2>4. PJAccountDeleteLocal(u) = w
    BY <1>2 DEF PJAccountDeleteLocal
  <2> HIDE DEF v
  <2>5. SameRest(v, w) /\ w.slot = v.slot /\ w.account = v.account /\ w.running = v.running
    BY <2>2, ChoiceRest, ChoiceFields
  <2> HIDE DEF w
  <2>6. Fresh(w)
    BY <2>3, <2>5, FreshSame
  <2>7. Later(u, w)
    BY <2>2, <2>3, <2>5 DEF Later, Registered, SameRest
  <2> QED
    BY <2>4, <2>6, <2>7 DEF Change
<1> QED
  BY <1>1, <1>2

\* The account just added is not registered yet.
LEMMA AddFresh ==
  ASSUME NEW u, NEW p \in Selection, Sound(u, p), Fresh(u), NEW ok \in BOOLEAN
  PROVE  Change(u, PJAccountAdd(u, p, ok))
<1>1. CASE ~u.running \/ Valid(u, u.account) \/ p.id = 0 \/ ~ok
  BY <1>1 DEF PJAccountAdd, Change, Later
<1>2. CASE ~(~u.running \/ Valid(u, u.account) \/ p.id = 0 \/ ~ok)
  <2> DEFINE s == FreeSlot(u)
             v == AccAdd(u, p.account)
             w == [v EXCEPT !.account = s]
  <2>1. PICK r \in Slots : u.slot[r] = Free
    BY <1>2, SlotLeft
  <2>2. u \in UserAgent /\ p.account \in Profiles
    BY <1>2, SelectionTyped DEF Sound
  <2>3. s \in Slots
    BY <2>1, <2>2, FreeSlotIsFree
  <2>4. v \in UserAgent
    BY <2>1, <2>2, AccAddTyped
  <2>5. Fresh(v) /\ v.registered = u.registered \ {s}
    BY <2>1, <2>2, AccAddFresh
  <2>6. PJAccountAdd(u, p, ok) = IF p.account \in Servers THEN w ELSE Subscribe(w)
    BY <1>2 DEF PJAccountAdd
  <2> HIDE DEF v, s
  <2>7. w \in UserAgent
    BY <2>3, <2>4, ChoiceTyped
  <2>8. SameRest(v, w) /\ w.slot = v.slot /\ w.account = s /\ w.running = v.running
    BY <2>4, ChoiceRest, ChoiceFields
  <2> HIDE DEF w
  <2>9. Fresh(w)
    BY <2>5, <2>8, FreshSame
  <2>10. ~Registered(w)
    BY <2>5, <2>8 DEF Registered, SameRest
  <2>11. Fresh(Subscribe(w)) /\ ~Registered(Subscribe(w))
    BY <2>7, <2>9, <2>10, SubscribeFresh DEF Registered
  <2> QED
    BY <2>6, <2>9, <2>10, <2>11 DEF Change, Later
<1> QED
  BY <1>1, <1>2

LEMMA DeleteFresh ==
  ASSUME NEW u, NEW p, Sound(u, p), Fresh(u)
  PROVE  LET w == PJAccountDelete(u) IN
         Change(u, w) /\ ~Registered(w) /\ ~w.buddies
<1> DEFINE x == Unsubscribe(u)
           s == x.account
           v == AccDel(x, s)
           w == [v EXCEPT !.account = None]
<1>1. PJAccountDelete(u) = IF Valid(x, s) THEN w ELSE x
  BY DEF PJAccountDelete
<1>2. Sound(x, p)
  BY SubscribeSound
<1>3. x \in UserAgent /\ u \in UserAgent
  BY <1>2 DEF Sound
<1>4. Fresh(x) /\ ~x.buddies
  BY <1>3, SubscribeFresh
<1> HIDE DEF x
<1>5. CASE ~Valid(x, s)
  <2>1. ~Registered(x)
    BY <1>3, <1>4, <1>5, RegisteredValid
  <2> QED
    BY <1>1, <1>4, <1>5, <2>1 DEF Change, Later
<1>6. CASE Valid(x, s)
  <2>1. s \in Slots
    BY <1>3, <1>6 DEF Valid, UserAgent
  <2>2. v \in UserAgent
    BY <1>3, <2>1, AccDelTyped
  <2>3. Fresh(v) /\ v.buddies = x.buddies
    BY <1>3, <1>4, <2>1, AccDelFresh
  <2> HIDE DEF v
  <2>4. SameRest(v, w) /\ w.slot = v.slot /\ w.account = None /\ w.running = v.running
    BY <2>2, ChoiceRest, ChoiceFields
  <2>5. v.registered \subseteq Slots
    BY <2>2 DEF UserAgent
  <2> HIDE DEF w
  <2>6. Fresh(w)
    BY <2>3, <2>4, FreshSame
  <2>7. ~Registered(w) /\ ~w.buddies
    BY <1>4, <2>3, <2>4, <2>5 DEF Registered, SameRest, None, Slots
  <2> QED
    BY <1>1, <1>6, <2>6, <2>7 DEF Change, Later
<1> QED
  BY <1>5, <1>6

LEMMA ReplaceFresh ==
  ASSUME NEW u, NEW p, Sound(u, p), Fresh(u), NEW q \in Selection, NEW ok \in BOOLEAN
  PROVE  Change(u, PJAccountAdd(PJAccountDelete(u), q, ok))
<1> DEFINE v == PJAccountDelete(u)
<1>1. Sound(v, q)
  BY DeleteSound
<1>2. Change(u, v)
  BY DeleteFresh
<1> HIDE DEF v
<1>3. Change(v, PJAccountAdd(v, q, ok))
  BY <1>1, <1>2, AddFresh DEF Change
<1> QED
  BY <1>2, <1>3, ChangeTwice DEF v

LEMMA AccountChangeFresh ==
  ASSUME NEW u, NEW p, Sound(u, p), Fresh(u), NEW q \in Selection, NEW ok \in BOOLEAN
  PROVE  Change(u, AccountChange(u, q, p, ok))
<1>1. CASE p.id # 0
  BY <1>1, ReplaceFresh DEF AccountChange
<1>2. CASE p.id = 0
  <2>1. ~Valid(u, u.account)
    BY <1>2 DEF Sound
  <2>2. Sound(u, q)
    BY <2>1, AnySelection
  <2> QED
    BY <1>2, <2>2, AddFresh DEF AccountChange
<1> QED
  BY <1>1, <1>2

LEMMA CreateFresh ==
  ASSUME NEW u, NEW p, Sound(u, p), Fresh(u), NEW ok \in BOOLEAN, NEW local \in BOOLEAN
  PROVE  Change(u, PJCreate(u, p, ok, local))
<1>1. CASE u.running \/ ~ok
  BY <1>1 DEF PJCreate, Change, Later
<1>2. CASE ~u.running /\ ok
  <2> DEFINE v == [u EXCEPT !.running = TRUE, !.account = None, !.local = None, !.subscribed = FALSE]
  <2>1. PJCreate(u, p, ok, local) = PJAccountAddLocal(v, p, local)
    BY <1>2 DEF PJCreate
  <2>2. v \in UserAgent /\ u \in UserAgent
    BY DEF Sound, UserAgent
  <2>3. /\ v.slot = u.slot /\ v.account = None /\ v.local = None /\ v.running = TRUE
        /\ v.code = u.code /\ v.regc = u.regc /\ v.registered = u.registered
        /\ v.subscribed = FALSE /\ v.buddies = u.buddies
    BY DEF Sound, UserAgent
  <2> HIDE DEF v
  <2>4. Sound(v, p) /\ ~Valid(v, v.local)
    BY <1>2, <2>2, <2>3 DEF Sound, Valid
  <2>5. Fresh(v)
    BY <1>2, <2>3 DEF Fresh
  <2>6. ~Registered(v)
    BY <2>2, <2>3 DEF Registered, UserAgent, None, Slots
  <2>7. Change(u, v)
    BY <2>5, <2>6 DEF Change, Later
  <2> QED
    BY <2>1, <2>4, <2>5, <2>7, AddLocalFresh, ChangeTwice
<1>3. u.running \in BOOLEAN
  BY DEF Sound, UserAgent
<1> QED
  BY <1>1, <1>2, <1>3

LEMMA DestroyFresh ==
  ASSUME NEW u, NEW p, Sound(u, p), Fresh(u)
  PROVE  Change(u, PJDestroy(u, p))
<1>1. CASE ~u.running
  BY <1>1 DEF PJDestroy, Change, Later
<1>2. CASE u.running
  <2> DEFINE x == Unsubscribe(u)
             v == IF p.id # 0 THEN PJAccountDelete(x) ELSE x
             w == [v EXCEPT !.running = FALSE, !.slot = [s \in Slots |-> Free],
                            !.code = [s \in Slots |-> 0], !.regc = {}, !.registered = {}]
  <2>1. Sound(x, p)
    BY SubscribeSound
  <2>2. Fresh(x) /\ ~x.buddies
    BY SubscribeFresh DEF Sound
  <2>3. PJDestroy(u, p) = w
    BY <1>2 DEF PJDestroy
  <2> HIDE DEF x
  <2>4. v \in UserAgent
    BY <2>1, DeleteSound DEF Sound
  <2>5. ~v.buddies
    BY <2>1, <2>2, DeleteFresh
  <2> HIDE DEF v
  <2>6. w.running = FALSE /\ w.regc = {} /\ w.registered = {} /\ w.buddies = v.buddies
    BY <2>4 DEF UserAgent
  <2> HIDE DEF w
  <2>7. Fresh(w) /\ ~Registered(w)
    BY <2>5, <2>6 DEF Fresh, Registered
  <2> QED
    BY <2>3, <2>7 DEF Change, Later
<1> QED
  BY <1>1, <1>2 DEF Sound, UserAgent

LEMMA CreatedFresh ==
  ASSUME NEW u, profile \in Selection, Sound(u, profile), Fresh(u), Created(u)
  PROVE  Change(u, ua')
<1>1. PICK init \in MaySucceed("init"), local \in MaySucceed("add"), add \in MaySucceed("add") :
        ua' = PJAccountAdd(PJCreate(u, profile, init, local), profile, add)
  BY DEF Created
<1>2. init \in BOOLEAN /\ local \in BOOLEAN /\ add \in BOOLEAN
  BY <1>1, Outcomes
<1> DEFINE v == PJCreate(u, profile, init, local)
<1>3. Sound(v, profile) /\ Change(u, v)
  BY <1>2, CreateSound, CreateFresh
<1> HIDE DEF v
<1>4. Change(v, PJAccountAdd(v, profile, add))
  BY <1>2, <1>3, AddFresh DEF Change
<1> QED
  BY <1>1, <1>3, <1>4, ChangeTwice DEF v
-----------------------------------------------------------------------------
(* The queue and the boxes.                                                *)

LEMMA AppendQueued ==
  ASSUME NEW q \in Seq(Messages), NEW m \in Messages
  PROVE  LET r == Append(q, m) IN
         /\ r \in Seq(Messages)
         /\ RegQueued(q) \/ Accepted(m) => RegQueued(r)
         /\ EndQueued(q) \/ Ended(m) => EndQueued(r)
<1> DEFINE r == Append(q, m)
<1>1. /\ r \in Seq(Messages) /\ Len(r) = Len(q) + 1 /\ Len(q) \in Nat
      /\ \A i \in 1..Len(q) : r[i] = q[i]
      /\ r[Len(q) + 1] = m
  BY AppendProperties, LenProperties
<1> HIDE DEF r
<1>2. Len(r) \in 1..Len(r) /\ r[Len(r)] = m /\ \A i \in 1..Len(q) : i \in 1..Len(r) /\ r[i] = q[i]
  BY <1>1
<1>3. RegQueued(q) \/ Accepted(m) => RegQueued(r)
  BY <1>2 DEF RegQueued
<1>4. EndQueued(q) \/ Ended(m) => EndQueued(r)
  BY <1>2 DEF EndQueued
<1> QED
  BY <1>1, <1>3, <1>4 DEF r

LEMMA TailQueued ==
  ASSUME NEW q \in Seq(Messages), q # <<>>
  PROVE  /\ RegQueued(q) => Accepted(Head(q)) \/ RegQueued(Tail(q))
         /\ EndQueued(q) => Ended(Head(q)) \/ EndQueued(Tail(q))
<1> DEFINE r == Tail(q)
<1>1. /\ Len(r) = Len(q) - 1 /\ Len(q) \in Nat \ {0}
      /\ \A i \in 1..Len(r) : r[i] = q[i + 1]
      /\ Head(q) = q[1]
  BY HeadTailProperties, LenProperties, EmptySeq
<1> HIDE DEF r
<1>2. ASSUME NEW i \in 1..Len(q)
      PROVE  q[i] = Head(q) \/ \E j \in 1..Len(r) : r[j] = q[i]
  <2>1. CASE i = 1
    BY <1>1, <2>1
  <2>2. CASE i # 1
    <3>1. i - 1 \in 1..Len(r) /\ r[i - 1] = q[(i - 1) + 1] /\ (i - 1) + 1 = i
      BY <1>1, <2>2
    <3> QED
      BY <3>1
  <2> QED
    BY <2>1, <2>2
<1>3. RegQueued(q) => Accepted(Head(q)) \/ RegQueued(r)
  BY <1>2 DEF RegQueued
<1>4. EndQueued(q) => Ended(Head(q)) \/ EndQueued(r)
  BY <1>2 DEF EndQueued
<1> QED
  BY <1>3, <1>4 DEF r

LEMMA BoxAppend ==
  ASSUME NEW b \in Seq({"delayed", "direct"}), NEW from \in {"delayed", "direct"}
  PROVE  BoxOpen(b) \/ from = "delayed" => BoxOpen(Append(b, from))
<1> DEFINE r == Append(b, from)
<1>1. /\ Len(r) = Len(b) + 1 /\ Len(b) \in Nat
      /\ \A i \in 1..Len(b) : r[i] = b[i]
      /\ r[Len(b) + 1] = from
  BY AppendProperties, LenProperties
<1> HIDE DEF r
<1>2. Len(r) \in 1..Len(r) /\ r[Len(r)] = from /\ \A i \in 1..Len(b) : i \in 1..Len(r) /\ r[i] = b[i]
  BY <1>1
<1>3. BoxOpen(b) \/ from = "delayed" => BoxOpen(r)
  BY <1>2 DEF BoxOpen
<1> QED
  BY <1>3 DEF r

\* The box on top belongs to the number that waits, or one below it still does.
LEMMA BoxClosed ==
  ASSUME NEW b \in Seq({"delayed", "direct"}), b # <<>>, BoxOpen(b)
  PROVE  b[Len(b)] = "delayed" \/ BoxOpen(SubSeq(b, 1, Len(b) - 1))
<1> DEFINE n == Len(b) - 1
           r == SubSeq(b, 1, n)
<1>1. Len(b) \in Nat \ {0}
  BY LenProperties, EmptySeq
<1>2. n \in Nat /\ n <= Len(b)
  BY <1>1
<1>3. Len(r) = n /\ \A i \in 1..n : r[i] = b[i]
  <2>1. n \in Nat /\ \A i \in 1..n : b[i] \in {"delayed", "direct"}
    BY <1>1, <1>2
  <2> HIDE DEF n
  <2>2. /\ Len(r) = IF 1 <= n THEN n - 1 + 1 ELSE 0
        /\ \A i \in 1..(n - 1 + 1) : r[i] = b[1 + i - 1]
    BY <2>1, SubSeqProperties
  <2> QED
    BY <1>2, <2>2
<1> HIDE DEF r
<1>4. PICK i \in 1..Len(b) : b[i] = "delayed"
  BY DEF BoxOpen
<1>5. i = Len(b) \/ i \in 1..n
  BY <1>1
<1>6. b[Len(b)] = "delayed" \/ BoxOpen(r)
  BY <1>3, <1>4, <1>5 DEF BoxOpen
<1> QED
  BY <1>6 DEF r

-----------------------------------------------------------------------------
(* Dialling.                                                               *)

\* What becomes of the number that waits when a number is dialled.
Tried(from, c) ==
  \/ /\ delayed' = LeftWaiting(from) /\ call' \in {c, "up"} /\ call' # "none"
     /\ boxes' = boxes
  \/ /\ delayed' = delayed /\ call' = c /\ boxes' = Append(boxes, from)

LEMMA DialTried ==
  ASSUME TypeOK, NEW n, NEW from, NEW u, NEW p, Possible(p), Sound(u, p), Fresh(u), NEW c,
         DialNumber(n, from, u, p, c)
  PROVE  Change(u, ua') /\ Tried(from, c)
<1>1. CASE u.single /\ c # "none"
  <2>1. ua' = u /\ call' = c /\ delayed' = LeftWaiting(from) /\ boxes' = boxes
    BY <1>1 DEF DialNumber
  <2> QED
    BY <1>1, <2>1 DEF Change, Later, Tried
<1>2. CASE ~(u.single /\ c # "none")
  <2> DEFINE selects == NeedsAccount(u) /\ stored # <<>>
             q == IF selects THEN Toggled(p, 1) ELSE p
             w(ok) == IF selects THEN AccountChange(u, q, p, ok) ELSE u
  <2>1. q \in Selection
    <3>1. stored # <<>> => 1 \in DOMAIN stored
      BY EmptySeq, LenProperties DEF TypeOK
    <3>2. Possible(q)
      BY <3>1, ToggledPossible
    <3> HIDE DEF q
    <3> QED
      BY <3>2, PossibleTyped
  <2>2. ASSUME NEW ok \in BOOLEAN PROVE Change(u, w(ok))
    BY <2>1, AccountChangeFresh DEF Change, Later
  <2>3. PICK ok \in MaySucceed("add") :
          /\ ua' = w(ok)
          /\ \/ call' = "up" /\ delayed' = LeftWaiting(from) /\ UNCHANGED boxes
             \/ boxes' = Append(boxes, from) /\ call' = c /\ UNCHANGED <<delayed, made>>
    BY <1>2 DEF DialNumber
  <2>4. Change(u, ua')
    BY <2>2, <2>3, Outcomes
  <2> HIDE DEF q, w
  <2> QED
    BY <2>3, <2>4 DEF Tried
<1> QED
  BY <1>1, <1>2

\* UpdateWindowText leaves no number waiting for nothing.
LEMMA WindowServed ==
  ASSUME TypeOK, NEW u, Sound(u, profile), Fresh(u),
         NEW always \in BOOLEAN, NEW c \in {"none", "up", "over"},
         UpdateWindowText(u, always, c)
  PROVE  /\ Change(u, ua') /\ call' \in {c, "up"}
         /\ Registered(ua') /\ delayed' # NoNumber => call' # "none" \/ BoxOpen(boxes')
<1>1. CASE delayed # NoNumber /\ StatusOK(u) /\ (always \/ c = "none")
  <2>1. DialNumber(delayed, "delayed", u, profile, c)
    BY <1>1 DEF UpdateWindowText
  <2>2. Change(u, ua') /\ Tried("delayed", c)
    BY <2>1, DialTried DEF Possible
  <2>3. LeftWaiting("delayed") = NoNumber
    BY DEF LeftWaiting
  <2>4. BoxOpen(Append(boxes, "delayed"))
    BY BoxAppend DEF TypeOK
  <2> QED
    BY <2>2, <2>3, <2>4 DEF Tried
<1>2. CASE ~(delayed # NoNumber /\ StatusOK(u) /\ (always \/ c = "none"))
  <2>1. ua' = u /\ call' = c /\ delayed' = delayed
    BY <1>2 DEF UpdateWindowText
  <2>2. Registered(u) => StatusOK(u)
    BY RegisteredValid DEF Sound
  <2> QED
    BY <1>2, <2>1, <2>2 DEF Change, Later
<1> QED
  BY <1>1, <1>2

\* A number handed over waits only while the account is not registered, and
\* when it is dialled the one that waits is left alone.
LEMMA CommandServed ==
  ASSUME TypeOK, Sound(ua, profile), Fresh(ua), NEW n \in Numbers,
         NEW p \in {0} \cup DOMAIN stored,
         CommandLine(n, p)
  PROVE  /\ Change(ua, ua') /\ call' \in {call, "up"}
         /\ \/ ~Registered(ua')
            \/ /\ delayed' = delayed
               /\ call # "none" => call' # "none"
               /\ BoxOpen(boxes) => BoxOpen(boxes')
<1> DEFINE q == IF p \in {0, profile.id} THEN profile ELSE Selected(stored, p)
           u(ok) == IF q = profile THEN ua ELSE AccountChange(ua, q, profile, ok)
<1>1. q \in Selection /\ Possible(q)
  <2>1. Possible(q)
    BY DEF Possible
  <2> HIDE DEF q
  <2> QED
    BY <2>1, PossibleTyped
<1>2. ASSUME NEW ok \in BOOLEAN PROVE Sound(u(ok), q) /\ Change(ua, u(ok))
  <2>1. CASE q = profile
    BY <2>1 DEF Change, Later
  <2>2. CASE q # profile
    BY <1>1, <2>2, ChangeSound, AccountChangeFresh
  <2> QED
    BY <2>1, <2>2
<1>3. PICK ok \in MaySucceed("add") :
        \/ Ready(u(ok), q) /\ DialNumber(n, "direct", u(ok), q, call)
        \/ ~Ready(u(ok), q) /\ ua' = u(ok) /\ UNCHANGED call
  BY DEF CommandLine
<1>4. Sound(u(ok), q) /\ Change(ua, u(ok))
  BY <1>2, <1>3, Outcomes
<1> DEFINE w == u(ok)
<1> HIDE DEF q
<1>5. CASE DialNumber(n, "direct", w, q, call)
  <2> HIDE DEF u, w
  <2>1. Change(w, ua') /\ Tried("direct", call)
    BY <1>1, <1>4, <1>5, DialTried DEF w, Change
  <2>2. LeftWaiting("direct") = delayed
    BY DEF LeftWaiting
  <2>3. BoxOpen(boxes) => BoxOpen(Append(boxes, "direct"))
    BY BoxAppend DEF TypeOK
  <2>4. Change(ua, ua')
    BY <1>4, <2>1, ChangeTwice DEF w
  <2> QED
    BY <2>1, <2>2, <2>3, <2>4 DEF Tried
<1>6. CASE ~Ready(w, q) /\ ua' = w /\ UNCHANGED call
  <2>1. Registered(w) => Valid(w, w.account) /\ StatusOK(w)
    BY <1>4, RegisteredValid DEF Sound, Change
  <2>2. q.id = 0 => ~Valid(w, w.account)
    BY <1>4 DEF Sound
  <2>3. ~Registered(w)
    BY <1>6, <2>1, <2>2 DEF Ready
  <2> QED
    BY <1>4, <1>6, <2>3
<1> QED
  BY <1>3, <1>5, <1>6
-----------------------------------------------------------------------------
(* The actions.                                                            *)

\* Nothing the number that waits depends on has gone.
LEMMA PromisesKept ==
  ASSUME Promises, Change(ua, ua'), RegQueued(queue) => RegQueued(queue'),
         EndQueued(queue) => EndQueued(queue'),
         call' = call \/ call' = "up" \/ (call' = "over" /\ EndQueued(queue')),
         delayed' = delayed, BoxOpen(boxes) => BoxOpen(boxes')
  PROVE  Promises'
  BY DEF Promises, Change, Later, Pending

LEMMA WindowPromises ==
  ASSUME TypeOK, Sound(ua, profile), Promises, NEW u, Sound(u, profile), Change(ua, u),
         NEW always \in BOOLEAN, NEW c \in {"none", "up", "over"},
         UpdateWindowText(u, always, c), c = "over" => EndQueued(queue'),
         u.subscribed \/ (RegQueued(queue) => RegQueued(queue'))
  PROVE  Promises'
<1>1. Fresh(u)
  BY DEF Change
<1>2. /\ Change(u, ua') /\ call' \in {c, "up"}
      /\ Registered(ua') /\ delayed' # NoNumber => call' # "none" \/ BoxOpen(boxes')
  BY <1>1, WindowServed
<1>3. Fresh(ua') /\ (call' = "over" => EndQueued(queue'))
  BY <1>2 DEF Change
<1>4. ASSUME Registered(ua') PROVE ua'.subscribed \/ RegQueued(queue')
  <2>1. Registered(u) /\ (u.subscribed => ua'.subscribed)
    BY <1>2, <1>4 DEF Change, Later
  <2>2. Registered(ua) /\ (ua.subscribed => u.subscribed)
    BY <2>1 DEF Change, Later
  <2> QED
    BY <2>1, <2>2 DEF Promises
<1>5. Registered(ua') /\ delayed' # NoNumber => Pending'
  BY <1>2 DEF Pending
<1> QED
  BY <1>3, <1>4, <1>5 DEF Promises

LEMMA CommandLinePromises ==
  ASSUME TypeOK, Sound(ua, profile), Promises, NEW n \in Numbers, NEW p \in {0} \cup DOMAIN stored,
         CommandLine(n, p), RegQueued(queue) => RegQueued(queue'),
         EndQueued(queue) => EndQueued(queue')
  PROVE  Promises'
<1>1. Fresh(ua)
  BY DEF Promises
<1>2. /\ Change(ua, ua') /\ call' \in {call, "up"}
      /\ \/ ~Registered(ua')
         \/ /\ delayed' = delayed
            /\ call # "none" => call' # "none"
            /\ BoxOpen(boxes) => BoxOpen(boxes')
  BY <1>1, CommandServed
<1>3. CASE ~Registered(ua')
  BY <1>2, <1>3 DEF Promises, Change
<1>4. CASE /\ delayed' = delayed
           /\ BoxOpen(boxes) => BoxOpen(boxes')
  BY <1>2, <1>4, PromisesKept
<1> QED
  BY <1>2, <1>3, <1>4

LEMMA CommandPromises ==
  ASSUME TypeOK, Sound(ua, profile), Promises, NEW n \in Numbers, NEW p,
         Command(n, p), RegQueued(queue) => RegQueued(queue'),
         EndQueued(queue) => EndQueued(queue')
  PROVE  Promises'
<1>1. CASE p \in {0} \cup DOMAIN stored /\ CommandLine(n, p)
  BY <1>1, CommandLinePromises
<1>2. CASE Emptied
  <2>1. UNCHANGED <<ua, call, boxes>> /\ delayed' \in {delayed, NoNumber}
    BY <1>2 DEF Emptied, Waits
  <2>2. Change(ua, ua')
    BY <2>1 DEF Promises, Change, Later
  <2>3. CASE delayed' = delayed
    BY <2>1, <2>2, <2>3, PromisesKept
  <2>4. CASE delayed' = NoNumber
    BY <2>1, <2>4 DEF Promises
  <2> QED
    BY <2>1, <2>3, <2>4
<1> QED
  BY <1>1, <1>2 DEF Command

LEMMA WorkerPromises ==
  ASSUME TypeOK, Sound(ua, profile), Promises, Worker
  PROVE  Promises'
<1>1. queue \in Seq(Messages) /\ ua \in UserAgent
  BY DEF TypeOK
<1>2. ASSUME NEW s \in Slots, NEW code \in {200, 403}, RegisterAnswered(s, code)
      PROVE  Promises'
  <2> DEFINE R == IF code = 200 THEN ua.registered \cup {s} ELSE ua.registered \ {s}
             m == [type |-> "regState", code |-> code]
             v == [ua EXCEPT !.code[s] = code, !.regc = @ \ {s}, !.registered = R]
  <2>1. ua' = v /\ queue' = Append(queue, m) /\ s \in ua.regc
        /\ UNCHANGED <<delayed, boxes, call>>
    BY <1>2 DEF RegisterAnswered, Post, NoDialling
  <2>2. m \in Messages /\ (code = 200 => Accepted(m))
    BY DEF Messages, Accepted
  <2>3. /\ RegQueued(queue) \/ code = 200 => RegQueued(queue')
        /\ EndQueued(queue) => EndQueued(queue')
    <3> HIDE DEF m
    <3> QED
      BY <1>1, <2>1, <2>2, AppendQueued
  <2>4. \A t \in R : (t = s /\ code = 200) \/ (t # s /\ t \in ua.registered)
    OBVIOUS
  <2>5. /\ ua.registered \in SUBSET Slots /\ ua.code \in [Slots -> {0, 200, 403}]
        /\ code # 200 => R \subseteq ua.registered
    BY <1>1 DEF UserAgent
  <2> HIDE DEF R
  <2>6. /\ v.slot = ua.slot /\ v.code = [ua.code EXCEPT ![s] = code]
        /\ v.regc = ua.regc \ {s} /\ v.registered = R
        /\ v.account = ua.account /\ v.running = ua.running
        /\ v.subscribed = ua.subscribed /\ v.buddies = ua.buddies /\ v.missed = ua.missed
    BY <1>1 DEF UserAgent
  <2> HIDE DEF v
  <2>7. Fresh(ua) /\ ua.slot[s] \in Servers
    BY <2>1 DEF Promises, Fresh
  <2>8. \A t \in R : v.slot[t] \in Servers /\ v.code[t] = 200
    BY <2>4, <2>5, <2>6, <2>7 DEF Fresh
  <2>9. Fresh(v)
    BY <2>6, <2>7, <2>8 DEF Fresh
  <2>10. CASE code = 200
    BY <2>1, <2>3, <2>9, <2>10 DEF Promises, Pending
  <2>11. CASE code # 200
    <3>1. Change(ua, ua')
      BY <2>1, <2>5, <2>6, <2>9, <2>11 DEF Change, Later, Registered
    <3> QED
      BY <2>1, <2>3, <3>1, PromisesKept
  <2> QED
    BY <2>10, <2>11
<1>3. ASSUME NEW s \in Slots, Reregister(s)
      PROVE  Promises'
  <2> DEFINE v == [ua EXCEPT !.regc = @ \cup {s}]
  <2>1. ua' = v /\ ua.slot[s] \in Servers /\ UNCHANGED <<delayed, boxes, call, queue>>
    BY <1>3 DEF Reregister, NoDialling
  <2>2. /\ v.slot = ua.slot /\ v.code = ua.code
        /\ v.regc = ua.regc \cup {s} /\ v.registered = ua.registered
        /\ v.account = ua.account /\ v.running = ua.running
        /\ v.subscribed = ua.subscribed /\ v.buddies = ua.buddies /\ v.missed = ua.missed
    BY <1>1 DEF UserAgent
  <2> HIDE DEF v
  <2>3. Fresh(v)
    BY <2>1, <2>2 DEF Promises, Fresh
  <2>4. Change(ua, ua')
    BY <2>1, <2>2, <2>3 DEF Change, Later, Registered
  <2> QED
    BY <2>1, <2>4, PromisesKept
<1>4. CASE CallOver
  <2> DEFINE m == [type |-> "callEnd"]
  <2>1. call' = "over" /\ queue' = Append(queue, m) /\ UNCHANGED <<ua, delayed, boxes>>
    BY <1>4 DEF CallOver, Post, NoDialling
  <2>2. m \in Messages /\ Ended(m)
    BY DEF Messages, Ended
  <2> HIDE DEF m
  <2>3. (RegQueued(queue) => RegQueued(queue')) /\ EndQueued(queue')
    BY <1>1, <2>1, <2>2, AppendQueued
  <2>4. Change(ua, ua')
    BY <2>1 DEF Change, Later, Promises
  <2> QED
    BY <2>1, <2>3, <2>4, PromisesKept
<1> QED
  BY <1>2, <1>3, <1>4 DEF Worker

\* The dialog changes the accounts as the other procedures do.
LEMMA EditsFresh ==
  ASSUME TypeOK, Sound(ua, profile), Fresh(ua), Edits
  PROVE  Change(ua, ua') /\ OnlyAccounts
<1>1. stored \in Seq(Profiles) /\ Change(ua, ua)
  BY DEF TypeOK, Change, Later
<1>2. OnlyAccounts
  BY DEF Edits, AccountDlgOpen, AccountDlgClose, AccountDlgOk, AccountDlgDelete
<1>3. ASSUME NEW p \in Selection, Replace(p) PROVE Change(ua, ua')
  BY <1>3, Outcomes, ReplaceFresh DEF Replace
<1>4. CASE AccountDlgOpen \/ AccountDlgClose
  BY <1>1, <1>4 DEF AccountDlgOpen, AccountDlgClose
<1>5. CASE AccountDlgOk
  <2>1. CASE dialog \in DOMAIN stored /\ Replace(Selected(stored, dialog))
    BY <1>1, <1>2, <1>3, <2>1, SelectedTyped
  <2>2. ASSUME NEW p \in Profiles, stored' = Append(stored, p),
               Replace(Selected(stored', Len(stored) + 1))
        PROVE  Change(ua, ua')
    <3>1. stored' \in Seq(Profiles) /\ Len(stored) + 1 \in DOMAIN stored'
      BY <1>1, <2>2, AppendTyped
    <3> QED
      BY <1>3, <2>2, <3>1, SelectedTyped
  <2>3. ASSUME NEW ok \in MaySucceed("add"),
               ua' = PJAccountAddLocal(PJAccountDeleteLocal(ua), profile, ok)
        PROVE  Change(ua, ua')
    <3> DEFINE v == PJAccountDeleteLocal(ua)
    <3>1. Sound(v, profile) /\ ~Valid(v, v.local) /\ Change(ua, v)
      BY DeleteLocalSound, DeleteLocalFresh
    <3>2. ua' = PJAccountAddLocal(v, profile, ok) /\ ok \in BOOLEAN
      BY <2>3, Outcomes
    <3> HIDE DEF v
    <3>3. Change(v, ua')
      BY <3>1, <3>2, AddLocalFresh DEF Change
    <3> QED
      BY <3>1, <3>3, ChangeTwice
  <2> QED
    BY <1>5, <2>1, <2>2, <2>3 DEF AccountDlgOk
<1>6. CASE AccountDlgDelete
  <2>1. stored' \in Seq(Profiles)
    BY <1>1, <1>6, WithoutTyped DEF AccountDlgDelete
  <2>2. stored' # <<>> => 1 \in DOMAIN stored'
    BY <2>1, EmptySeq, LenProperties
  <2>3. (IF stored' = <<>> THEN Nobody ELSE Selected(stored', 1)) \in Selection
    BY <2>1, <2>2, SelectionTyped, SelectedTyped
  <2> QED
    BY <1>1, <1>3, <1>6, <2>3 DEF AccountDlgDelete
<1> QED
  BY <1>2, <1>4, <1>5, <1>6 DEF Edits

LEMMA AccountsPromises ==
  ASSUME TypeOK, Sound(ua, profile), Promises, Accounts
  PROVE  Promises'
<1>1. queue \in Seq(Messages) /\ stored \in Seq(Profiles) /\ profile \in Selection
      /\ Fresh(ua)
  BY DEF TypeOK, Promises
<1>2. ASSUME NEW q, q = queue \o CallEnds
      PROVE  /\ q \in Seq(Messages) /\ (RegQueued(queue) => RegQueued(q))
             /\ EndQueued(queue) \/ (ua.running /\ call = "up") => EndQueued(q)
  <2> DEFINE m == [type |-> "callEnd"]
  <2>1. m \in Messages /\ Ended(m)
    BY DEF Messages, Ended
  <2> HIDE DEF m
  <2>2. queue \o <<>> = queue /\ queue \o <<m>> = Append(queue, m)
    BY <1>1, <2>1
  <2>3. CallEnds = IF ua.running /\ call = "up" THEN <<m>> ELSE <<>>
    BY DEF CallEnds, m
  <2> QED
    BY <1>1, <1>2, <2>1, <2>2, <2>3, AppendQueued
<1>3. ASSUME Destroyed, RegQueued(queue) => RegQueued(queue'),
             EndQueued(queue) \/ (ua.running /\ call = "up") => EndQueued(queue')
      PROVE  Promises'
  <2>1. Change(ua, ua')
    BY <1>1, <1>3, DestroyFresh DEF Destroyed
  <2>2. call' = call \/ (call' = "over" /\ EndQueued(queue'))
    BY <1>3 DEF Destroyed
  <2>3. delayed' = delayed /\ boxes' = boxes
    BY <1>3 DEF Destroyed, NoDialling
  <2> QED
    BY <1>3, <2>1, <2>2, <2>3, PromisesKept
<1>4. CASE Suspend
  BY <1>2, <1>3, <1>4 DEF Suspend
<1>5. CASE SettingsOk
  <2> DEFINE q == queue \o CallEnds
             m == [type |-> "settings"]
  <2>1. queue' = q \o <<m>> /\ Destroyed
    BY <1>5 DEF SettingsOk
  <2>2. /\ q \in Seq(Messages) /\ (RegQueued(queue) => RegQueued(q))
        /\ EndQueued(queue) \/ (ua.running /\ call = "up") => EndQueued(q)
    BY <1>2
  <2>3. m \in Messages
    BY DEF Messages
  <2> HIDE DEF q, m
  <2>4. q \o <<m>> = Append(q, m)
    BY <2>2, <2>3
  <2> QED
    BY <1>3, <2>1, <2>2, <2>3, <2>4, AppendQueued
<1>6. ASSUME Change(ua, ua'), OnlyAccounts PROVE Promises'
  BY <1>6, PromisesKept DEF OnlyAccounts, NoDialling
<1>7. CASE Resume
  BY <1>1, <1>6, <1>7, CreatedFresh DEF Resume
<1>8. ASSUME NEW i \in DOMAIN stored, MenuAccountChange(i)
      PROVE  Promises'
  <2> DEFINE q == Toggled(profile, i)
  <2>1. PICK ok \in MaySucceed("add") : ua' = AccountChange(ua, q, profile, ok)
    BY <1>8 DEF MenuAccountChange
  <2>2. Possible(q)
    BY ToggledPossible
  <2> HIDE DEF q
  <2>3. ok \in BOOLEAN /\ q \in Selection
    BY <2>1, <2>2, Outcomes, PossibleTyped
  <2>4. Change(ua, ua')
    BY <1>1, <2>1, <2>3, AccountChangeFresh
  <2> QED
    BY <1>6, <1>8, <2>4 DEF MenuAccountChange
<1>9. ASSUME Edits PROVE Promises'
  BY <1>1, <1>6, <1>9, EditsFresh
<1> QED
  BY <1>4, <1>5, <1>7, <1>8, <1>9 DEF Accounts, Edits

LEMMA MessagePromises ==
  ASSUME TypeOK, Sound(ua, profile), Promises,
         OnRegState \/ OnCallEnd \/ OnCommandLine \/ OnSettings
  PROVE  Promises'
<1> DEFINE m == Head(queue)
<1>1. profile \in Selection /\ call \in {"none", "up", "over"} /\ ua \in UserAgent /\ Fresh(ua)
  BY DEF TypeOK, Promises
<1>2. queue # <<>> /\ queue' = Tail(queue) /\ queue \in Seq(Messages)
  BY DEF OnRegState, OnCallEnd, OnCommandLine, OnSettings, Handle, TypeOK
<1>3. /\ RegQueued(queue) => Accepted(m) \/ RegQueued(queue')
      /\ EndQueued(queue) => Ended(m) \/ EndQueued(queue')
  BY <1>2, TailQueued
<1>4. Change(ua, ua)
  BY <1>1 DEF Change, Later
<1>5. CASE OnRegState
  <2>1. m.type = "regState"
    BY <1>5 DEF OnRegState, Handle
  <2>2. EndQueued(queue) => EndQueued(queue')
    BY <1>3, <2>1 DEF Ended
  <2>3. call = "over" => EndQueued(queue')
    BY <2>2 DEF Promises
  <2>4. CASE UpdateWindowText(Subscribe(ua), FALSE, call)
    <3> DEFINE u == Subscribe(ua)
    <3>1. Sound(u, profile) /\ Change(ua, u) /\ u.subscribed
      BY <1>1, SubscribeSound, SubscribeFresh DEF Change
    <3>2. UpdateWindowText(u, FALSE, call)
      BY <2>4
    <3> HIDE DEF u
    <3> QED
      BY <1>1, <2>3, <3>1, <3>2, WindowPromises
  <2>5. CASE m.code # 200 /\ UpdateWindowText(ua, FALSE, call)
    <3>1. RegQueued(queue) => RegQueued(queue')
      BY <1>3, <2>5 DEF Accepted
    <3> QED
      BY <1>1, <1>4, <2>3, <2>5, <3>1, WindowPromises
  <2>6. CASE m.code # 200 /\ NoDialling /\ UNCHANGED <<ua, profile, call>>
    <3>1. RegQueued(queue) => RegQueued(queue')
      BY <1>3, <2>6 DEF Accepted
    <3>2. Change(ua, ua')
      BY <1>4, <2>6
    <3> QED
      BY <2>2, <2>6, <3>1, <3>2, PromisesKept DEF NoDialling
  <2> QED
    BY <1>5, <2>4, <2>5, <2>6 DEF OnRegState
<1>6. CASE OnCallEnd
  <2> DEFINE c == IF call = "over" THEN "none" ELSE call
  <2>1. m.type = "callEnd" /\ UpdateWindowText(ua, TRUE, c)
    BY <1>6 DEF OnCallEnd, Handle
  <2>2. RegQueued(queue) => RegQueued(queue')
    BY <1>3, <2>1 DEF Accepted
  <2>3. c \in {"none", "up", "over"} /\ c # "over"
    BY <1>1
  <2> HIDE DEF c
  <2> QED
    BY <1>1, <1>4, <2>1, <2>2, <2>3, WindowPromises
<1>7. CASE OnCommandLine
  <2>1. m.type = "commandLine" /\ Command(m.number, m.profile)
    BY <1>7 DEF OnCommandLine, Handle
  <2>2. m.number \in Numbers
    BY <1>2, <2>1, HeadTyped DEF Messages
  <2>3. /\ RegQueued(queue) => RegQueued(queue')
        /\ EndQueued(queue) => EndQueued(queue')
    BY <1>3, <2>1 DEF Accepted, Ended
  <2> QED
    BY <2>1, <2>2, <2>3, CommandPromises
<1>8. CASE OnSettings
  <2>1. PICK choice \in LocalChoices : Created([ua EXCEPT !.enabled = choice])
    BY <1>8 DEF OnSettings
  <2> DEFINE v == [ua EXCEPT !.enabled = choice]
  <2>2. m.type = "settings" /\ NoDialling /\ UNCHANGED call
    BY <1>8 DEF OnSettings, Handle
  <2>3. choice \in BOOLEAN
    BY AccountAssumption
  <2>4. v \in UserAgent
    BY <1>1, <2>3 DEF UserAgent
  <2>5. /\ v.slot = ua.slot /\ v.account = ua.account /\ v.local = ua.local
        /\ v.running = ua.running /\ SameRest(ua, v)
    BY <1>1 DEF UserAgent, SameRest
  <2>6. Created(v)
    BY <2>1
  <2> HIDE DEF v
  <2>7. Sound(v, profile)
    BY <2>4, <2>5, SameAccounts
  <2>8. Change(ua, v)
    BY <1>1, <2>5, FreshSame DEF Change, Later, Registered, SameRest
  <2>9. Change(v, ua')
    BY <1>1, <2>6, <2>7, <2>8, CreatedFresh DEF Change
  <2>10. Change(ua, ua')
    BY <2>8, <2>9, ChangeTwice
  <2>11. /\ RegQueued(queue) => RegQueued(queue')
         /\ EndQueued(queue) => EndQueued(queue')
    BY <1>3, <2>2 DEF Accepted, Ended
  <2> QED
    BY <2>2, <2>10, <2>11, PromisesKept DEF NoDialling
<1> QED
  BY <1>5, <1>6, <1>7, <1>8

LEMMA UserPromises ==
  ASSUME TypeOK, Sound(ua, profile), Promises,
         Refresh \/ CallUp \/ HangUp \/ CloseBox
  PROVE  Promises'
<1>1. call \in {"none", "up", "over"} /\ Fresh(ua)
      /\ boxes \in Seq({"delayed", "direct"})
  BY DEF TypeOK, Promises
<1>2. Change(ua, ua) /\ queue' = queue
  BY <1>1 DEF Change, Later, Refresh, CallUp, HangUp, CloseBox
<1>3. CASE Refresh
  BY <1>1, <1>2, <1>3, WindowPromises DEF Refresh, Promises
<1>4. CASE CallUp
  BY <1>2, <1>4, PromisesKept DEF CallUp, NoDialling
<1>5. CASE HangUp
  <2>1. PICK left \in {"none", "up"} : UpdateWindowText(ua, TRUE, left)
    BY <1>5 DEF HangUp
  <2> QED
    BY <1>1, <1>2, <2>1, WindowPromises
<1>6. CASE CloseBox
  <2>1. /\ boxes # <<>> /\ boxes' = SubSeq(boxes, 1, Len(boxes) - 1)
        /\ delayed' = LeftWaiting(boxes[Len(boxes)]) /\ UNCHANGED <<ua, call>>
    BY <1>6 DEF CloseBox
  <2>2. CASE boxes[Len(boxes)] = "delayed"
    <3>1. delayed' = NoNumber
      BY <2>1, <2>2 DEF LeftWaiting
    <3> QED
      BY <1>2, <2>1, <3>1 DEF Promises
  <2>3. CASE boxes[Len(boxes)] # "delayed"
    <3>1. delayed' = delayed
      BY <2>1, <2>3 DEF LeftWaiting
    <3>2. BoxOpen(boxes) => BoxOpen(boxes')
      BY <1>1, <2>1, <2>3, BoxClosed
    <3> QED
      BY <1>2, <2>1, <3>1, <3>2, PromisesKept
  <2> QED
    BY <2>2, <2>3
<1> QED
  BY <1>3, <1>4, <1>5, <1>6

LEMMA CopyDataPromises ==
  ASSUME TypeOK, Sound(ua, profile), Promises, NEW n \in Numbers, NEW p \in Nat,
         CopyData(n, p)
  PROVE  Promises'
<1>1. queue \in Seq(Messages)
  BY DEF TypeOK
<1>2. CASE Command(n, p) /\ UNCHANGED queue
  BY <1>2, CommandPromises
<1>3. CASE /\ Post([type |-> "commandLine", number |-> n, profile |-> p])
           /\ UNCHANGED <<ua, profile, call>> /\ NoDialling
  <2> DEFINE m == [type |-> "commandLine", number |-> n, profile |-> p]
  <2>1. queue' = Append(queue, m)
    BY <1>3 DEF Post
  <2>2. m \in Messages
    BY DEF Messages
  <2> HIDE DEF m
  <2>3. /\ RegQueued(queue) => RegQueued(queue')
        /\ EndQueued(queue) => EndQueued(queue')
    BY <1>1, <2>1, <2>2, AppendQueued
  <2>4. Change(ua, ua')
    BY <1>3 DEF Change, Later, Promises
  <2> QED
    BY <1>3, <2>3, <2>4, PromisesKept DEF NoDialling
<1> QED
  BY <1>2, <1>3 DEF CopyData

LEMMA PromisesStep == IInv /\ Promises /\ [Next]_vars => Promises'
<1> SUFFICES ASSUME IInv, Promises, [Next]_vars PROVE Promises'
  OBVIOUS
<1>1. TypeOK /\ Sound(ua, profile)
  BY DEF IInv
<1>2. CASE UNCHANGED vars
  BY <1>2 DEF vars, Promises, Fresh, Registered, Pending
<1>3. ASSUME NEW n \in Numbers, NEW p \in CommandProfiles, CopyData(n, p)
      PROVE  Promises'
  BY <1>1, <1>3, CopyDataPromises, AccountAssumption
<1> QED
  BY <1>1, <1>2, <1>3, WorkerPromises, AccountsPromises, MessagePromises, UserPromises
     DEF Next

LEMMA PromisesInit == Init => Promises
<1> SUFFICES ASSUME Init PROVE Promises
  OBVIOUS
<1>1. profile \in Selection
  BY IInvInit DEF IInv, TypeOK
<1>2. PICK init \in MaySucceed("init"), local \in MaySucceed("add"), add \in MaySucceed("add"),
           choice \in LocalChoices, single \in SingleChoices :
        ua = PJAccountAdd(PJCreate([Blank EXCEPT !.enabled = choice, !.single = single],
                                   profile, init, local), profile, add)
  BY DEF Init
<1> DEFINE u == [Blank EXCEPT !.enabled = choice, !.single = single]
           v == PJCreate(u, profile, init, local)
<1>3. init \in BOOLEAN /\ local \in BOOLEAN /\ add \in BOOLEAN /\ choice \in BOOLEAN /\ single \in BOOLEAN
  BY <1>2, Outcomes, AccountAssumption
<1>4. u \in UserAgent
  BY <1>3 DEF Blank, UserAgent
<1>5. /\ u.slot = [s \in Slots |-> Free] /\ u.account = None /\ u.local = None
      /\ u.running = FALSE /\ u.registered = {} /\ u.regc = {} /\ u.buddies = FALSE
  BY DEF Blank
<1>6. ua = PJAccountAdd(v, profile, add)
  BY <1>2
<1> HIDE DEF u
<1>7. Sound(u, profile) /\ Fresh(u) /\ ~Registered(u)
  BY <1>4, <1>5 DEF Sound, Valid, Fresh, Registered
<1>8. Sound(v, profile) /\ Change(u, v)
  BY <1>3, <1>7, CreateSound, CreateFresh
<1> HIDE DEF v
<1>9. Change(v, ua)
  BY <1>1, <1>3, <1>6, <1>8, AddFresh DEF Change
<1>10. Fresh(ua) /\ ~Registered(ua)
  BY <1>7, <1>8, <1>9 DEF Change, Later
<1> QED
  BY <1>10 DEF Promises, Init

-----------------------------------------------------------------------------
(* The theorems.                                                           *)

\* What is still to come for a number that waits, and for the subscription,
\* is in the queue, in a call or in a box: in every state that is reached.
THEOREM PromisesHold == Spec => []Promises
  BY PromisesInit, PromisesStep, Invariance, PTL DEF Spec

\* Once the account is registered and nothing is left to handle, no number
\* waits, whatever calls, restarts and changes of the account came between.
THEOREM NumberIsServed == Spec => []NoNumberLeftWaiting
<1>1. Promises => NoNumberLeftWaiting
  BY DEF Promises, NoNumberLeftWaiting, Pending, Registered, RegQueued, BoxOpen
<1> QED
  BY <1>1, PromisesHold, PTL

\* The registered account has the buddies of the shortcuts, unless the program
\* had no account when it subscribed, and no buddy outlives PJSUA.
THEOREM BuddiesWatched == Spec => []PresenceAgrees
<1>1. IInv /\ Promises => PresenceAgrees
  <2> SUFFICES ASSUME IInv, Promises PROVE PresenceAgrees
    OBVIOUS
  <2>1. Fresh(ua) /\ ua \in UserAgent
    BY DEF Promises, IInv, TypeOK
  <2>2. ASSUME queue = <<>>, Registered(ua) PROVE ua.buddies \/ ua.missed
    <3>1. ua.subscribed
      BY <2>2 DEF Promises, RegQueued
    <3>2. ua.running
      BY <2>1, <2>2, RegisteredValid DEF IInv, Sound, Valid, UserAgent
    <3> QED
      BY <2>1, <3>1, <3>2 DEF Fresh
  <2> QED
    BY <2>1, <2>2 DEF PresenceAgrees, Fresh, Registered
<1> QED
  BY <1>1, Invariance, PromisesHold, PTL
=============================================================================
