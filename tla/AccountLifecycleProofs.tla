----------------------- MODULE AccountLifecycleProofs -----------------------
(***************************************************************************)
(* Theorems about AccountLifecycle, for any settings, numbers, failures    *)
(* and bounds: its types, that no account is lost, that calls are made     *)
(* with the selected one, and that a number handed over is called once at  *)
(* most and not given up silently.                                         *)
(*                                                                         *)
(* Sound, of PJSUA and what the main window keeps of it, is shown for each *)
(* procedure of the code and then for the actions that call it.  Once says *)
(* that a number is in the queue or waits, not both, and that no call was  *)
(* made for it before it left; Effect sums up what the actions do to it.   *)
(* Lists says at which number the settings hold the selected profile, and  *)
(* Edits what the dialog does to the profiles.                             *)
(***************************************************************************)
EXTENDS AccountLifecycle, SequenceTheorems, TLAPS

-----------------------------------------------------------------------------
(* The inductive invariant.                                                *)

\* What PJSUA and the main window know of the accounts, profile p being the
\* selected one.
Sound(u, p) ==
  /\ u \in UserAgent
  /\ \A s \in Slots : u.slot[s] # Free => s \in {u.account, u.local}
  /\ Valid(u, u.account) => u.slot[u.account] = p.account /\ p.id # 0 /\ p.account # Local
  /\ Valid(u, u.local) => u.slot[u.local] = Local
  /\ ~u.running => \A s \in Slots : u.slot[s] = Free
  /\ u.running => /\ u.account # None => Valid(u, u.account)
                  /\ u.local # None => Valid(u, u.local)

\* A number handed over is at one place only, in the queue or waiting, and no
\* call was made for it before it leaves that.
IsFor(m, n) == m.type = "commandLine" /\ m.number = n
Holds(q, n) == \E i \in 1..Len(q) : IsFor(q[i], n)
Unique(q, n) == \A i, j \in 1..Len(q) : IsFor(q[i], n) /\ IsFor(q[j], n) => i = j
Once(n) ==
  /\ made[n] <= 1 /\ Unique(queue, n)
  /\ Holds(queue, n) \/ n = delayed => made[n] = 0 /\ n \in given
  /\ ~(Holds(queue, n) /\ n = delayed)
  /\ n \notin given => made[n] = 0

\* Of profiles s, the selected one p is the one of its number; after a deletion
\* it is at a lower one, and the dialog d is not open for another profile.
Lists(p, s, d) ==
  p.id # 0 =>
    IF p.shifted
    THEN /\ \E j \in DOMAIN s : j < p.id /\ s[j] = p.account
         /\ d \in {Closed, New, Local, p.id}
    ELSE p.id \in DOMAIN s /\ s[p.id] = p.account

IInv ==
  /\ TypeOK /\ Sound(ua, profile) /\ Lists(profile, stored, dialog)
  /\ \A n \in Numbers : Once(n)

-----------------------------------------------------------------------------
(* Profiles.                                                               *)

\* A profile that is selected by a step that leaves the settings alone.
Possible(p) ==
  p = profile \/ p = Nobody \/ \E i \in DOMAIN stored : p = Selected(stored, i)

LEMMA SelectionTyped ==
  /\ Nobody \in Selection /\ Nobody.id = 0
  /\ \A p \in Selection : p.id # 0 => p.account \in Profiles
  BY DEF Selection, Nobody

LEMMA SelectedTyped ==
  ASSUME NEW s \in Seq(Profiles), NEW i \in DOMAIN s
  PROVE  /\ Selected(s, i) \in Selection /\ Selected(s, i).id = i
         /\ Selected(s, i).account = s[i] /\ ~Selected(s, i).shifted
<1>1. i \in Nat \ {0} /\ s[i] \in Profiles
  OBVIOUS
<1> QED
  BY <1>1 DEF Selected, Selection

LEMMA PossibleTyped ==
  ASSUME TypeOK, NEW p, Possible(p)
  PROVE  p \in Selection
  BY SelectionTyped, SelectedTyped DEF TypeOK, Possible

\* OnMenuAccountChange selects a profile of the settings or none.
LEMMA ToggledPossible ==
  ASSUME NEW p, NEW i \in DOMAIN stored
  PROVE  Possible(Toggled(p, i))
  BY DEF Toggled, Possible

-----------------------------------------------------------------------------
(* Accounts.                                                               *)

LEMMA FreeSlotIsFree ==
  ASSUME NEW u \in UserAgent, NEW r \in Slots, u.slot[r] = Free
  PROVE  FreeSlot(u) \in Slots /\ u.slot[FreeSlot(u)] = Free
<1> DEFINE Lowest(s) == u.slot[s] = Free /\ \A t \in 0..(s - 1) : u.slot[t] # Free
<1>1. \E s \in Slots : Lowest(s)
  <2>1. CASE u.slot[0] = Free
    <3>1. Lowest(0)  BY <2>1
    <3> QED BY <3>1 DEF Slots
  <2>2. CASE u.slot[0] # Free
    <3>1. r = 1  BY <2>2 DEF Slots
    <3>2. 0..(1 - 1) = {0}  OBVIOUS
    <3>3. Lowest(1)  BY <2>2, <3>1, <3>2
    <3> QED BY <3>3 DEF Slots
  <2> QED BY <2>1, <2>2
<1> HIDE DEF Lowest
<1>2. FreeSlot(u) = CHOOSE s \in Slots : Lowest(s)
  BY DEF FreeSlot, Lowest
<1>3. FreeSlot(u) \in Slots /\ Lowest(FreeSlot(u))
  BY <1>1, <1>2
<1> QED
  BY <1>3 DEF Lowest

\* What the updates of u keep: first the type, then the other fields.
LEMMA SubscribedTyped ==
  ASSUME NEW u \in UserAgent, NEW b \in BOOLEAN, NEW c \in BOOLEAN, NEW d \in BOOLEAN
  PROVE  [u EXCEPT !.subscribed = b, !.buddies = c, !.missed = d] \in UserAgent
  BY DEF UserAgent

LEMMA SubscribedFields ==
  ASSUME NEW u \in UserAgent, NEW b, NEW c, NEW d
  PROVE  LET v == [u EXCEPT !.subscribed = b, !.buddies = c, !.missed = d] IN
         v.slot = u.slot /\ v.account = u.account /\ v.local = u.local /\ v.running = u.running
  BY DEF UserAgent

LEMMA SlotTyped ==
  ASSUME NEW u \in UserAgent, NEW s \in Slots, NEW p \in Profiles \cup {Local, Free},
         NEW R \in SUBSET Slots, NEW G \in SUBSET Slots
  PROVE  [u EXCEPT !.slot[s] = p, !.registered = R, !.regc = G] \in UserAgent
  BY DEF UserAgent

LEMMA SlotFields ==
  ASSUME NEW u \in UserAgent, NEW s \in Slots, NEW p, NEW R, NEW G
  PROVE  LET v == [u EXCEPT !.slot[s] = p, !.registered = R, !.regc = G] IN
         /\ v.slot = [u.slot EXCEPT ![s] = p] /\ v.account = u.account
         /\ v.local = u.local /\ v.running = u.running
  BY DEF UserAgent

LEMMA ChoiceTyped ==
  ASSUME NEW u \in UserAgent, NEW s \in Slots \cup {None}
  PROVE  [u EXCEPT !.account = s] \in UserAgent /\ [u EXCEPT !.local = s] \in UserAgent
<1>1. [u EXCEPT !.account = s] \in UserAgent
  BY DEF UserAgent
<1>2. [u EXCEPT !.local = s] \in UserAgent
  BY DEF UserAgent
<1> QED
  BY <1>1, <1>2

LEMMA ChoiceFields ==
  ASSUME NEW u \in UserAgent, NEW s
  PROVE  /\ LET v == [u EXCEPT !.account = s] IN
            v.slot = u.slot /\ v.account = s /\ v.local = u.local /\ v.running = u.running
         /\ LET w == [u EXCEPT !.local = s] IN
            w.slot = u.slot /\ w.account = u.account /\ w.local = s /\ w.running = u.running
  BY DEF UserAgent

\* Sound speaks of these fields only.
LEMMA SameAccounts ==
  ASSUME NEW u, NEW p, Sound(u, p), NEW v \in UserAgent,
         v.slot = u.slot, v.account = u.account, v.local = u.local, v.running = u.running
  PROVE  Sound(v, p)
  BY DEF Sound, Valid

LEMMA SubscribeSound ==
  ASSUME NEW u, NEW p, Sound(u, p)
  PROVE  /\ Sound(Subscribe(u), p) /\ Sound(Unsubscribe(u), p)
         /\ Unsubscribe(u).account = u.account /\ Unsubscribe(u).slot = u.slot
         /\ Unsubscribe(u).running = u.running
<1> DEFINE B == u.running /\ (Valid(u, u.account) \/ Valid(u, u.local))
           M == u.running /\ ~(Valid(u, u.account) \/ Valid(u, u.local))
           v == [u EXCEPT !.subscribed = TRUE, !.buddies = B, !.missed = M]
           w == [u EXCEPT !.subscribed = FALSE, !.buddies = FALSE, !.missed = FALSE]
<1>1. u \in UserAgent /\ B \in BOOLEAN /\ M \in BOOLEAN
  BY DEF Sound
<1>2. Subscribe(u) = (IF u.subscribed THEN u ELSE v) /\ Unsubscribe(u) = (IF u.subscribed THEN w ELSE u)
  BY DEF Subscribe, Unsubscribe
<1> HIDE DEF B, M
<1>3. v \in UserAgent /\ w \in UserAgent
  BY <1>1, SubscribedTyped
<1>4. v.slot = u.slot /\ v.account = u.account /\ v.local = u.local /\ v.running = u.running
  BY <1>1, SubscribedFields
<1>5. w.slot = u.slot /\ w.account = u.account /\ w.local = u.local /\ w.running = u.running
  BY <1>1, SubscribedFields
<1> HIDE DEF v, w
<1> QED
  BY <1>2, <1>3, <1>4, <1>5, SameAccounts

LEMMA AnySelection ==
  ASSUME NEW u, NEW p, Sound(u, p), ~Valid(u, u.account), NEW q
  PROVE  Sound(u, q)
  BY DEF Sound

LEMMA AccAddTyped ==
  ASSUME NEW u \in UserAgent, NEW p \in Profiles \cup {Local}, NEW r \in Slots, u.slot[r] = Free
  PROVE  LET v == AccAdd(u, p) IN
         /\ v \in UserAgent /\ v.slot = [u.slot EXCEPT ![FreeSlot(u)] = p]
         /\ v.account = u.account /\ v.local = u.local /\ v.running = u.running
<1> DEFINE s == FreeSlot(u)
           R == u.registered \ {s}
           G == IF p \in Servers THEN u.regc \cup {s} ELSE u.regc \ {s}
           v == [u EXCEPT !.slot[s] = p, !.registered = R, !.regc = G]
<1>1. s \in Slots
  BY FreeSlotIsFree
<1>2. AccAdd(u, p) = v
  BY DEF AccAdd
<1>3. u.registered \in SUBSET Slots /\ u.regc \in SUBSET Slots
  BY DEF UserAgent
<1>4. R \in SUBSET Slots /\ G \in SUBSET Slots
  BY <1>1, <1>3
<1> HIDE DEF R, G, s
<1>5. v \in UserAgent
  BY <1>1, <1>4, SlotTyped
<1>6. /\ v.slot = [u.slot EXCEPT ![s] = p] /\ v.account = u.account
      /\ v.local = u.local /\ v.running = u.running
  BY <1>1, SlotFields
<1> QED
  BY <1>2, <1>5, <1>6 DEF s

LEMMA AccDelTyped ==
  ASSUME NEW u \in UserAgent, NEW s \in Slots
  PROVE  LET v == AccDel(u, s) IN
         /\ v \in UserAgent /\ v.slot = [u.slot EXCEPT ![s] = Free]
         /\ v.account = u.account /\ v.local = u.local /\ v.running = u.running
<1> DEFINE R == u.registered \ {s}
           G == u.regc \ {s}
           v == [u EXCEPT !.slot[s] = Free, !.registered = R, !.regc = G]
<1>1. AccDel(u, s) = v
  BY DEF AccDel
<1>2. R \in SUBSET Slots /\ G \in SUBSET Slots
  BY DEF UserAgent
<1> HIDE DEF R, G
<1>3. v \in UserAgent
  BY <1>2, SlotTyped
<1>4. /\ v.slot = [u.slot EXCEPT ![s] = Free] /\ v.account = u.account
      /\ v.local = u.local /\ v.running = u.running
  BY SlotFields
<1> QED
  BY <1>1, <1>3, <1>4

\* PJSUA has two slots, and those in use are known.
LEMMA SlotLeft ==
  ASSUME NEW u, NEW p, Sound(u, p), ~Valid(u, u.account) \/ ~Valid(u, u.local)
  PROVE  \E r \in Slots : u.slot[r] = Free
<1>1. SUFFICES ASSUME u.slot[0] # Free, u.slot[1] # Free PROVE FALSE
  BY DEF Slots
<1>2. 0 \in {u.account, u.local} /\ 1 \in {u.account, u.local}
  BY <1>1 DEF Sound, Slots
<1>3. /\ u.account \in {0, 1} /\ u.local \in {0, 1}
  BY <1>2
<1> QED
  BY <1>1, <1>3 DEF Valid, None

LEMMA AddLocalSound ==
  ASSUME NEW u, NEW p, Sound(u, p), ~Valid(u, u.local), NEW ok \in BOOLEAN
  PROVE  Sound(PJAccountAddLocal(u, p, ok), p)
<1>1. CASE ~(LocalEnabled(u, p) /\ u.running /\ ok)
  BY <1>1 DEF PJAccountAddLocal
<1>2. CASE LocalEnabled(u, p) /\ u.running /\ ok
  <2> DEFINE s == FreeSlot(u)
             v == AccAdd(u, Local)
             w == [v EXCEPT !.local = s]
  <2>1. PICK r \in Slots : u.slot[r] = Free
    BY SlotLeft
  <2>2. s \in Slots /\ u.slot[s] = Free
    BY <2>1, FreeSlotIsFree DEF Sound
  <2>3. /\ v \in UserAgent /\ v.slot = [u.slot EXCEPT ![s] = Local]
        /\ v.account = u.account /\ v.local = u.local /\ v.running = u.running
    BY <2>1, AccAddTyped DEF Sound
  <2> HIDE DEF v, s
  <2>4. w \in UserAgent
    BY <2>2, <2>3, ChoiceTyped
  <2>5. w.slot = v.slot /\ w.account = v.account /\ w.local = s /\ w.running = v.running
    BY <2>3, ChoiceFields
  <2>6. PJAccountAddLocal(u, p, ok) = w
    BY <1>2 DEF PJAccountAddLocal, v, s
  <2>7. u.slot \in [Slots -> Profiles \cup {Local, Free}]
    BY DEF Sound, UserAgent
  <2> HIDE DEF w
  <2>8. Sound(w, p)
    BY <1>2, <2>2, <2>3, <2>4, <2>5, <2>7 DEF Sound, Valid, Local, Free, None, Slots
  <2> QED
    BY <2>6, <2>8
<1> QED
  BY <1>1, <1>2

LEMMA DeleteLocalSound ==
  ASSUME NEW u, NEW p, Sound(u, p)
  PROVE  LET w == PJAccountDeleteLocal(u) IN Sound(w, p) /\ ~Valid(w, w.local)
<1>1. CASE ~Valid(u, u.local)
  BY <1>1 DEF PJAccountDeleteLocal
<1>2. CASE Valid(u, u.local)
  <2> DEFINE s == u.local
             v == AccDel(u, s)
             w == [v EXCEPT !.local = None]
  <2>1. s \in Slots /\ u \in UserAgent
    BY <1>2 DEF Sound, Valid, UserAgent
  <2>2. /\ v \in UserAgent /\ v.slot = [u.slot EXCEPT ![s] = Free]
        /\ v.account = u.account /\ v.local = u.local /\ v.running = u.running
    BY <2>1, AccDelTyped
  <2> HIDE DEF v
  <2>3. w \in UserAgent
    BY <2>2, ChoiceTyped
  <2>4. w.slot = v.slot /\ w.account = v.account /\ w.local = None /\ w.running = v.running
    BY <2>2, ChoiceFields
  <2>5. PJAccountDeleteLocal(u) = w
    BY <1>2 DEF PJAccountDeleteLocal, v
  <2>6. u.slot \in [Slots -> Profiles \cup {Local, Free}]
    BY DEF Sound, UserAgent
  <2>7. u.account # s
    BY <1>2 DEF Sound
  <2> HIDE DEF w
  <2>8. Sound(w, p) /\ ~Valid(w, w.local)
    BY <1>2, <2>1, <2>2, <2>3, <2>4, <2>6, <2>7 DEF Sound, Valid, Local, Free, None, Slots
  <2> QED
    BY <2>5, <2>8
<1> QED
  BY <1>1, <1>2

LEMMA AddSound ==
  ASSUME NEW u, NEW p \in Selection, Sound(u, p), NEW ok \in BOOLEAN
  PROVE  Sound(PJAccountAdd(u, p, ok), p)
<1>1. CASE ~u.running \/ Valid(u, u.account) \/ p.id = 0 \/ ~ok
  BY <1>1 DEF PJAccountAdd
<1>2. CASE ~(~u.running \/ Valid(u, u.account) \/ p.id = 0 \/ ~ok)
  <2> DEFINE s == FreeSlot(u)
             v == AccAdd(u, p.account)
             w == [v EXCEPT !.account = s]
  <2>0. p.account \in Profiles
    BY <1>2, SelectionTyped
  <2>1. PICK r \in Slots : u.slot[r] = Free
    BY <1>2, SlotLeft
  <2>2. s \in Slots /\ u.slot[s] = Free
    BY <2>1, FreeSlotIsFree DEF Sound
  <2>3. /\ v \in UserAgent /\ v.slot = [u.slot EXCEPT ![s] = p.account]
        /\ v.account = u.account /\ v.local = u.local /\ v.running = u.running
    BY <2>0, <2>1, AccAddTyped DEF Sound
  <2> HIDE DEF v, s
  <2>4. w \in UserAgent
    BY <2>2, <2>3, ChoiceTyped
  <2>5. w.slot = v.slot /\ w.account = s /\ w.local = v.local /\ w.running = v.running
    BY <2>3, ChoiceFields
  <2>6. PJAccountAdd(u, p, ok) = IF p.account \in Servers THEN w ELSE Subscribe(w)
    BY <1>2 DEF PJAccountAdd, v, s
  <2>7. u.slot \in [Slots -> Profiles \cup {Local, Free}]
    BY DEF Sound, UserAgent
  <2>8. p.account # Free /\ p.account # Local
    BY <2>0, AccountAssumption DEF Free, Local
  <2> HIDE DEF w
  <2>9. Sound(w, p)
    BY <1>2, <2>2, <2>3, <2>4, <2>5, <2>7, <2>8 DEF Sound, Valid, None, Slots
  <2> QED
    BY <2>6, <2>9, SubscribeSound
<1> QED
  BY <1>1, <1>2

LEMMA DeleteSound ==
  ASSUME NEW u, NEW p, Sound(u, p), NEW q
  PROVE  LET w == PJAccountDelete(u) IN Sound(w, q) /\ ~Valid(w, w.account)
<1> DEFINE x == Unsubscribe(u)
           s == x.account
           v == AccDel(x, s)
           w == [v EXCEPT !.account = None]
<1>1. Sound(x, p)
  BY SubscribeSound
<1>2. PJAccountDelete(u) = IF Valid(x, s) THEN w ELSE x
  BY DEF PJAccountDelete
<1> HIDE DEF x
<1>3. CASE ~Valid(x, s)
  BY <1>1, <1>2, <1>3, AnySelection
<1>4. CASE Valid(x, s)
  <2>1. s \in Slots /\ x \in UserAgent
    BY <1>1, <1>4 DEF Sound, Valid, UserAgent
  <2>2. /\ v \in UserAgent /\ v.slot = [x.slot EXCEPT ![s] = Free]
        /\ v.account = x.account /\ v.local = x.local /\ v.running = x.running
    BY <2>1, AccDelTyped
  <2> HIDE DEF v
  <2>3. w \in UserAgent
    BY <2>2, ChoiceTyped
  <2>4. w.slot = v.slot /\ w.account = None /\ w.local = v.local /\ w.running = v.running
    BY <2>2, ChoiceFields
  <2>5. x.slot \in [Slots -> Profiles \cup {Local, Free}]
    BY <1>1 DEF Sound, UserAgent
  <2>6. x.local # s
    BY <1>1, <1>4 DEF Sound
  <2> HIDE DEF w
  <2>7. Sound(w, q) /\ ~Valid(w, w.account)
    BY <1>1, <1>4, <2>1, <2>2, <2>3, <2>4, <2>5, <2>6 DEF Sound, Valid, Local, Free, None, Slots
  <2> QED
    BY <1>2, <1>4, <2>7
<1> QED
  BY <1>3, <1>4

LEMMA ChangeSound ==
  ASSUME NEW u, NEW p, Sound(u, p), NEW q \in Selection, NEW ok \in BOOLEAN
  PROVE  Sound(AccountChange(u, q, p, ok), q)
<1>1. CASE p.id # 0
  BY <1>1, DeleteSound, AddSound DEF AccountChange
<1>2. CASE p.id = 0
  <2>1. ~Valid(u, u.account)
    BY <1>2 DEF Sound
  <2> QED
    BY <1>2, <2>1, AnySelection, AddSound DEF AccountChange
<1> QED
  BY <1>1, <1>2

LEMMA CreateSound ==
  ASSUME NEW u, NEW p, Sound(u, p), NEW ok \in BOOLEAN, NEW local \in BOOLEAN
  PROVE  Sound(PJCreate(u, p, ok, local), p)
<1>1. CASE u.running \/ ~ok
  BY <1>1 DEF PJCreate
<1>2. CASE ~u.running /\ ok
  <2> DEFINE v == [u EXCEPT !.running = TRUE, !.account = None, !.local = None, !.subscribed = FALSE]
  <2>1. PJCreate(u, p, ok, local) = PJAccountAddLocal(v, p, local)
    BY <1>2 DEF PJCreate
  <2>2. v \in UserAgent
    BY DEF Sound, UserAgent
  <2>3. v.slot = u.slot /\ v.account = None /\ v.local = None /\ v.running = TRUE
    BY DEF Sound, UserAgent
  <2> HIDE DEF v
  <2>4. Sound(v, p) /\ ~Valid(v, v.local)
    BY <1>2, <2>2, <2>3 DEF Sound, Valid
  <2> QED
    BY <2>1, <2>4, AddLocalSound
<1> QED
  BY <1>1, <1>2 DEF Sound, UserAgent

LEMMA DestroySound ==
  ASSUME NEW u, NEW p, Sound(u, p)
  PROVE  Sound(PJDestroy(u, p), p)
<1>1. CASE ~u.running
  BY <1>1 DEF PJDestroy
<1>2. CASE u.running
  <2> DEFINE v == IF p.id # 0 THEN PJAccountDelete(Unsubscribe(u)) ELSE Unsubscribe(u)
             w == [v EXCEPT !.running = FALSE, !.slot = [s \in Slots |-> Free],
                            !.code = [s \in Slots |-> 0], !.regc = {}, !.registered = {}]
  <2>1. Sound(v, p)
    BY SubscribeSound, DeleteSound
  <2>2. PJDestroy(u, p) = w
    BY <1>2 DEF PJDestroy
  <2> HIDE DEF v
  <2>3. w \in UserAgent
    BY <2>1 DEF Sound, UserAgent
  <2>4. w.slot = [s \in Slots |-> Free] /\ w.running = FALSE
    BY <2>1 DEF Sound, UserAgent
  <2>5. w.account \in Slots \cup {None} /\ w.local \in Slots \cup {None}
    BY <2>3 DEF UserAgent
  <2> HIDE DEF w
  <2>6. Sound(w, p)
    BY <2>3, <2>4, <2>5 DEF Sound, Valid
  <2> QED
    BY <2>2, <2>6
<1> QED
  BY <1>1, <1>2 DEF Sound, UserAgent
-----------------------------------------------------------------------------
(* Dialling.                                                               *)

LEMMA Outcomes == \A what : MaySucceed(what) \subseteq BOOLEAN
  BY DEF MaySucceed

\* What DialNumber does when it is called for n.
Dialled(n, from) ==
  /\ Possible(profile') /\ Sound(ua', profile')
  /\ call' \in {"none", "up", "over"} /\ boxes' \in Seq({"delayed", "direct"})
  /\ tried' = tried \cup {n}
  /\ delayed' = delayed \/ (from = "delayed" /\ delayed' = NoNumber)
  /\ \/ made' = made
     \/ made' = [made EXCEPT ![n] = @ + 1] /\ (from = "delayed" => delayed' = NoNumber)

LEMMA DialEffect ==
  ASSUME TypeOK, NEW n \in Numbers, NEW from \in {"delayed", "direct"},
         NEW u, NEW p, Possible(p), Sound(u, p), NEW c \in {"none", "up", "over"},
         DialNumber(n, from, u, p, c)
  PROVE  Dialled(n, from)
<1>1. LeftWaiting(from) = delayed \/ (from = "delayed" /\ LeftWaiting(from) = NoNumber)
  BY DEF LeftWaiting
<1>2. from = "delayed" => LeftWaiting(from) = NoNumber
  BY DEF LeftWaiting
<1>3. boxes \in Seq({"delayed", "direct"}) /\ Append(boxes, from) \in Seq({"delayed", "direct"})
  BY AppendProperties DEF TypeOK
<1>4. CASE u.single /\ c # "none"
  <2>1. /\ tried' = tried \cup {n} /\ ua' = u /\ profile' = p /\ call' = c
        /\ delayed' = LeftWaiting(from) /\ UNCHANGED <<boxes, made>>
    BY <1>4 DEF DialNumber
  <2> QED
    BY <2>1, <1>1, <1>3 DEF Dialled
<1>5. CASE ~(u.single /\ c # "none")
  <2> DEFINE selects == NeedsAccount(u) /\ stored # <<>>
             q == IF selects THEN Toggled(p, 1) ELSE p
             w(ok) == IF selects THEN AccountChange(u, q, p, ok) ELSE u
             fails(ok) == CallFails(w(ok)) \/ (NeedsAccount(u) /\ stored = <<>>)
  <2>1. q \in Selection /\ Possible(q)
    <3>1. stored # <<>> => 1 \in DOMAIN stored
      BY EmptySeq, LenProperties DEF TypeOK
    <3>2. Possible(q)
      BY <3>1, ToggledPossible
    <3> HIDE DEF q
    <3> QED
      BY <3>2, PossibleTyped
  <2>2. ASSUME NEW ok \in BOOLEAN PROVE Sound(w(ok), q)
    BY <2>1, ChangeSound
  <2>3. PICK ok \in MaySucceed("add") :
          /\ ua' = w(ok) /\ profile' = q
          /\ \/ /\ ~fails(ok)
                /\ call' = "up" /\ made' = [made EXCEPT ![n] = @ + 1]
                /\ delayed' = LeftWaiting(from)
                /\ UNCHANGED boxes
             \/ /\ boxes' = Append(boxes, from) /\ call' = c
                /\ UNCHANGED <<delayed, made>>
    BY <1>5 DEF DialNumber
  <2>4. tried' = tried \cup {n}
    BY DEF DialNumber
  <2>5. Sound(ua', profile') /\ Possible(profile')
    BY <2>1, <2>2, <2>3, Outcomes
  <2> HIDE DEF q, w
  <2> QED
    BY <1>1, <1>2, <1>3, <2>3, <2>4, <2>5 DEF Dialled
<1> QED
  BY <1>4, <1>5

LEMMA WindowEffect ==
  ASSUME TypeOK, NEW u, Sound(u, profile), NEW always \in BOOLEAN,
         NEW c \in {"none", "up", "over"}, UpdateWindowText(u, always, c)
  PROVE  \/ delayed \in Numbers /\ Dialled(delayed, "delayed")
         \/ /\ ua' = u /\ call' = c
            /\ UNCHANGED <<profile, delayed, boxes, tried, made>>
<1>1. CASE delayed # NoNumber /\ StatusOK(u) /\ (always \/ c = "none")
  <2>1. delayed \in Numbers /\ Possible(profile)
    BY <1>1 DEF TypeOK, Possible
  <2>2. DialNumber(delayed, "delayed", u, profile, c)
    BY <1>1 DEF UpdateWindowText
  <2> QED
    BY <2>1, <2>2, DialEffect
<1>2. CASE ~(delayed # NoNumber /\ StatusOK(u) /\ (always \/ c = "none"))
  BY <1>2 DEF UpdateWindowText
<1> QED
  BY <1>1, <1>2

LEMMA CommandLineEffect ==
  ASSUME TypeOK, Sound(ua, profile), NEW n \in Numbers, NEW p \in {0} \cup DOMAIN stored,
         CommandLine(n, p)
  PROVE  \/ Dialled(n, "direct")
         \/ /\ Possible(profile') /\ Sound(ua', profile')
            /\ delayed' = n \/ delayed' = delayed
            /\ UNCHANGED <<call, boxes, tried, made>>
<1> DEFINE q == IF p \in {0, profile.id} THEN profile ELSE Selected(stored, p)
           u(ok) == IF q = profile THEN ua ELSE AccountChange(ua, q, profile, ok)
<1>1. Possible(q) /\ call \in {"none", "up", "over"}
  BY DEF TypeOK, Possible
<1>2. ASSUME NEW ok \in BOOLEAN PROVE Sound(u(ok), q)
  <2>1. q \in Selection
    <3> HIDE DEF q
    <3> QED
      BY <1>1, PossibleTyped
  <2> QED
    BY <2>1, ChangeSound
<1>3. PICK ok \in MaySucceed("add") :
        \/ DialNumber(n, "direct", u(ok), q, call)
        \/ /\ Waits(n, u(ok), q) /\ ua' = u(ok) /\ profile' = q
           /\ UNCHANGED <<call, boxes, tried, made>>
  BY DEF CommandLine
<1>4. Sound(u(ok), q)
  BY <1>2, <1>3, Outcomes
<1> HIDE DEF q, u
<1> QED
  BY <1>1, <1>3, <1>4, DialEffect DEF Waits
-----------------------------------------------------------------------------
(* What an action does to the accounts and to the numbers.                 *)

Edits == AccountDlgOpen \/ AccountDlgClose \/ AccountDlgOk \/ AccountDlgDelete

\* Nothing is dialled.
Quiet ==
  /\ Possible(profile') \/ (Edits /\ profile' \in Selection)
  /\ Sound(ua', profile') /\ call' \in {"none", "up", "over"}
  /\ UNCHANGED <<delayed, boxes, tried, made>>

\* The number n is taken from a command line, just handed over or queued.
Taken(n) ==
  \/ n \notin given /\ given' = given \cup {n} /\ queue' = queue
  \/ queue # <<>> /\ IsFor(Head(queue), n) /\ queue' = Tail(queue) /\ given' = given

\* It is dialled, has to wait, or is emptied, as is then the one that waits.
Obeyed(n) ==
  \/ Dialled(n, "direct")
  \/ /\ Possible(profile') /\ Sound(ua', profile')
     /\ \/ delayed' = n \/ delayed' = delayed
        \/ delayed' = NoNumber /\ (delayed # NoNumber => Misdirected)
     /\ UNCHANGED <<call, boxes, tried, made>>

Posted(n) ==
  /\ n \notin given /\ given' = given \cup {n}
  /\ \E p \in Nat :
       queue' = Append(queue, [type |-> "commandLine", number |-> n, profile |-> p])

Effect ==
  \/ Quiet /\ given' = given
  \/ delayed \in Numbers /\ Dialled(delayed, "delayed") /\ given' = given
  \/ \E n \in Numbers : Taken(n) /\ Obeyed(n)
  \/ \E n \in Numbers : Posted(n) /\ Quiet
  \/ CloseBox

LEMMA CommandEffect ==
  ASSUME TypeOK, Sound(ua, profile), NEW n \in Numbers, NEW p \in Nat, Command(n, p),
         p \notin {0} \cup DOMAIN stored => Misdirected
  PROVE  Obeyed(n)
<1>1. CASE p \in {0} \cup DOMAIN stored /\ CommandLine(n, p)
  BY <1>1, CommandLineEffect DEF Obeyed
<1>2. CASE p \notin {0} \cup DOMAIN stored /\ Emptied
  BY <1>2 DEF Emptied, Waits, Possible, Obeyed
<1> QED
  BY <1>1, <1>2 DEF Command

LEMMA HeadTyped ==
  ASSUME TypeOK, queue # <<>>
  PROVE  Head(queue) \in Messages
  BY HeadTailProperties DEF TypeOK

LEMMA WorkerEffect ==
  ASSUME TypeOK, Sound(ua, profile), Worker
  PROVE  Effect
<1>1. Possible(profile) /\ ua \in UserAgent
  BY DEF TypeOK, Possible
<1>2. ASSUME NEW s \in Slots, NEW code \in {200, 403}, RegisterAnswered(s, code)
      PROVE  Effect
  <2> DEFINE R == IF code = 200 THEN ua.registered \cup {s} ELSE ua.registered \ {s}
             v == [ua EXCEPT !.code[s] = code, !.regc = @ \ {s}, !.registered = R]
  <2>1. ua' = v
    BY <1>2 DEF RegisterAnswered
  <2>2. ua.registered \in SUBSET Slots
    BY <1>1 DEF UserAgent
  <2>3. R \in SUBSET Slots
    BY <2>2
  <2> HIDE DEF R
  <2>4. v \in UserAgent
    BY <1>1, <2>3 DEF UserAgent
  <2>5. v.slot = ua.slot /\ v.account = ua.account /\ v.local = ua.local /\ v.running = ua.running
    BY <1>1 DEF UserAgent
  <2> HIDE DEF v
  <2>6. Sound(v, profile)
    BY <2>4, <2>5, SameAccounts
  <2> QED
    BY <1>1, <1>2, <2>1, <2>6 DEF Effect, Quiet, RegisterAnswered, NoDialling, TypeOK
<1>3. ASSUME NEW s \in Slots, Reregister(s)
      PROVE  Effect
  <2> DEFINE v == [ua EXCEPT !.regc = @ \cup {s}]
  <2>1. ua' = v
    BY <1>3 DEF Reregister
  <2>2. v \in UserAgent
    BY <1>1 DEF UserAgent
  <2>3. v.slot = ua.slot /\ v.account = ua.account /\ v.local = ua.local /\ v.running = ua.running
    BY <1>1 DEF UserAgent
  <2> HIDE DEF v
  <2>4. Sound(v, profile)
    BY <2>2, <2>3, SameAccounts
  <2> QED
    BY <1>1, <1>3, <2>1, <2>4 DEF Effect, Quiet, Reregister, NoDialling, TypeOK
<1>4. CASE CallOver
  BY <1>1, <1>4 DEF Effect, Quiet, CallOver, NoDialling
<1> QED
  BY <1>2, <1>3, <1>4 DEF Worker

LEMMA CreatedSound ==
  ASSUME NEW u, profile \in Selection, Sound(u, profile), Created(u)
  PROVE  Sound(ua', profile)
  BY Outcomes, CreateSound, AddSound DEF Created

\* The account in use makes way for a profile of the settings, or for none.
LEMMA ReplaceSound ==
  ASSUME Sound(ua, profile), NEW p \in Selection, Replace(p)
  PROVE  profile' \in Selection /\ Sound(ua', profile')
<1>1. PICK ok \in MaySucceed("add") : ua' = PJAccountAdd(PJAccountDelete(ua), p, ok)
  BY DEF Replace
<1>2. ok \in BOOLEAN /\ profile' = p
  BY <1>1, Outcomes DEF Replace
<1> QED
  BY <1>1, <1>2, DeleteSound, AddSound

\* What the profiles are after one was entered or deleted.
LEMMA AppendTyped ==
  ASSUME NEW s \in Seq(Profiles), NEW p \in Profiles
  PROVE  Append(s, p) \in Seq(Profiles) /\ Len(s) + 1 \in DOMAIN Append(s, p)
<1> DEFINE r == Append(s, p)
<1>1. r \in Seq(Profiles) /\ Len(r) = Len(s) + 1 /\ Len(s) \in Nat /\ DOMAIN r = 1..Len(r)
  BY AppendProperties, LenProperties
<1> HIDE DEF r
<1>2. Len(s) + 1 \in DOMAIN r
  BY <1>1
<1> QED
  BY <1>1, <1>2 DEF r

LEMMA WithoutTyped ==
  ASSUME NEW s \in Seq(Profiles), NEW d \in DOMAIN s
  PROVE  LET r == Without(s, d) IN
         /\ r \in Seq(Profiles)
         /\ \A i \in DOMAIN s : i < d => i \in DOMAIN r /\ r[i] = s[i]
         /\ \A i \in DOMAIN s : i > d => i - 1 \in DOMAIN r /\ r[i - 1] = s[i]
<1> DEFINE n == Len(s) - 1
           r == Without(s, d)
<1>1. Len(s) \in Nat /\ DOMAIN s = 1..Len(s) /\ d \in 1..Len(s) /\ n \in Nat
  BY LenProperties
<1>2. r = [i \in 1..n |-> IF i < d THEN s[i] ELSE s[i + 1]]
  BY DEF Without
<1>3. \A i \in 1..n : i \in 1..Len(s) /\ i + 1 \in 1..Len(s)
  BY <1>1
<1>4. \A i \in 1..n : (IF i < d THEN s[i] ELSE s[i + 1]) \in Profiles
  BY <1>1, <1>3
<1> HIDE DEF n
<1>5. r \in [1..n -> Profiles]
  BY <1>2, <1>4
<1>6. r \in Seq(Profiles) /\ DOMAIN r = 1..n
  BY <1>1, <1>5, SeqDef
<1>7. ASSUME NEW i \in DOMAIN s, i < d PROVE i \in DOMAIN r /\ r[i] = s[i]
  <2>1. i \in 1..n
    BY <1>1, <1>7 DEF n
  <2> QED
    BY <1>2, <1>6, <1>7, <2>1
<1>8. ASSUME NEW i \in DOMAIN s, i > d PROVE i - 1 \in DOMAIN r /\ r[i - 1] = s[i]
  <2>1. i - 1 \in 1..n /\ ~(i - 1 < d) /\ (i - 1) + 1 = i
    BY <1>1, <1>8 DEF n
  <2> QED
    BY <1>2, <1>6, <2>1
<1> QED
  BY <1>6, <1>7, <1>8

LEMMA ShiftTyped ==
  ASSUME NEW p \in Selection, NEW d \in Nat \ {0}, NEW q,
         q = [p EXCEPT !.shifted = @ \/ d < p.id]
  PROVE  /\ q \in Selection /\ q.id = p.id /\ q.account = p.account /\ p.id \in Nat
         /\ q.shifted = (p.shifted \/ d < p.id)
<1>1. CASE p = Nobody
  <2>1. ~(d < 0)
    OBVIOUS
  <2>2. q = Nobody
    BY <1>1, <2>1 DEF Nobody
  <2> QED
    BY <1>1, <2>1, <2>2, SelectionTyped DEF Nobody
<1>2. CASE p \in [id : Nat \ {0}, account : Profiles, shifted : BOOLEAN]
  BY <1>2 DEF Selection
<1> QED
  BY <1>1, <1>2 DEF Selection

LEMMA EditsEffect ==
  ASSUME TypeOK, Sound(ua, profile), Edits
  PROVE  Quiet /\ given' = given
<1>1. /\ profile \in Selection /\ call \in {"none", "up", "over"}
      /\ stored \in Seq(Profiles)
  BY DEF TypeOK
<1>2. OnlyAccounts
  BY DEF Edits, AccountDlgOpen, AccountDlgClose, AccountDlgOk, AccountDlgDelete
<1>3. SUFFICES profile' \in Selection /\ Sound(ua', profile')
  BY <1>1, <1>2 DEF Quiet, OnlyAccounts, NoDialling
<1>4. CASE AccountDlgOpen \/ AccountDlgClose
  BY <1>1, <1>4 DEF AccountDlgOpen, AccountDlgClose
<1>5. CASE AccountDlgOk
  <2>1. CASE dialog \in DOMAIN stored /\ Replace(Selected(stored, dialog))
    BY <1>1, <2>1, SelectedTyped, ReplaceSound
  <2>2. ASSUME NEW p \in Profiles, stored' = Append(stored, p),
               Replace(Selected(stored', Len(stored) + 1))
        PROVE  profile' \in Selection /\ Sound(ua', profile')
    <3>1. stored' \in Seq(Profiles) /\ Len(stored) + 1 \in DOMAIN stored'
      BY <1>1, <2>2, AppendTyped
    <3>2. Selected(stored', Len(stored) + 1) \in Selection
      BY <3>1, SelectedTyped
    <3> QED
      BY <2>2, <3>2, ReplaceSound
  <2>3. ASSUME NEW ok \in MaySucceed("add"), profile' = profile,
               ua' = PJAccountAddLocal(PJAccountDeleteLocal(ua), profile, ok)
        PROVE  profile' \in Selection /\ Sound(ua', profile')
    <3>1. ok \in BOOLEAN
      BY Outcomes
    <3> QED
      BY <1>1, <2>3, <3>1, DeleteLocalSound, AddLocalSound
  <2> QED
    BY <1>5, <2>1, <2>2, <2>3 DEF AccountDlgOk
<1>6. CASE AccountDlgDelete
  <2>1. stored' \in Seq(Profiles)
    BY <1>1, <1>6, WithoutTyped DEF AccountDlgDelete
  <2>2. CASE Replace(IF stored' = <<>> THEN Nobody ELSE Selected(stored', 1))
    <3>1. stored' # <<>> => 1 \in DOMAIN stored'
      BY <2>1, EmptySeq, LenProperties
    <3>2. (IF stored' = <<>> THEN Nobody ELSE Selected(stored', 1)) \in Selection
      BY <2>1, <3>1, SelectionTyped, SelectedTyped
    <3> QED
      BY <2>2, <3>2, ReplaceSound
  <2>3. CASE /\ ua' = ua
             /\ profile' = [profile EXCEPT !.shifted = @ \/ dialog < profile.id]
    <3>1. dialog \in Nat \ {0}
      BY <1>1, <1>6 DEF AccountDlgDelete
    <3>2. /\ profile' \in Selection /\ profile'.id = profile.id
          /\ profile'.account = profile.account
      BY <1>1, <2>3, <3>1, ShiftTyped
    <3> QED
      BY <2>3, <3>2 DEF Sound
  <2> QED
    BY <1>6, <2>2, <2>3 DEF AccountDlgDelete
<1> QED
  BY <1>4, <1>5, <1>6 DEF Edits

LEMMA AccountsEffect ==
  ASSUME TypeOK, Sound(ua, profile), Accounts
  PROVE  Quiet /\ given' = given
<1>1. profile \in Selection /\ Possible(profile) /\ call \in {"none", "up", "over"}
  BY DEF TypeOK, Possible
<1>2. ASSUME Destroyed PROVE Quiet /\ given' = given
  <2>1. Sound(ua', profile)
    BY <1>2, DestroySound DEF Destroyed
  <2> QED
    BY <1>1, <1>2, <2>1 DEF Destroyed, Quiet, NoDialling
<1>3. CASE Suspend \/ SettingsOk
  BY <1>2, <1>3 DEF Suspend, SettingsOk
<1>4. CASE Resume
  <2>1. Sound(ua', profile)
    BY <1>1, <1>4, CreatedSound DEF Resume
  <2> QED
    BY <1>1, <1>4, <2>1 DEF Resume, OnlyAccounts, NoDialling, Quiet
<1>5. ASSUME NEW i \in DOMAIN stored, MenuAccountChange(i)
      PROVE  Quiet /\ given' = given
  <2> DEFINE q == Toggled(profile, i)
  <2>1. Possible(q)
    BY ToggledPossible
  <2>2. PICK ok \in MaySucceed("add") : ua' = AccountChange(ua, q, profile, ok)
    BY <1>5 DEF MenuAccountChange
  <2>3. profile' = q /\ OnlyAccounts
    BY <1>5 DEF MenuAccountChange
  <2> HIDE DEF q
  <2>4. ok \in BOOLEAN /\ q \in Selection
    BY <2>1, <2>2, Outcomes, PossibleTyped
  <2>5. Sound(ua', q)
    BY <2>2, <2>4, ChangeSound
  <2> QED
    BY <1>1, <2>1, <2>3, <2>5 DEF OnlyAccounts, NoDialling, Quiet
<1> QED
  BY <1>3, <1>4, <1>5, EditsEffect DEF Accounts, Edits

LEMMA MessageEffect ==
  ASSUME TypeOK, Sound(ua, profile),
         OnRegState \/ OnCallEnd \/ OnCommandLine \/ OnSettings \/ Refresh \/ HangUp
  PROVE  Effect
<1>1. /\ profile \in Selection /\ Possible(profile)
      /\ call \in {"none", "up", "over"} /\ ua \in UserAgent
  BY DEF TypeOK, Possible
<1>2. ASSUME NEW u, Sound(u, profile), NEW always \in BOOLEAN,
             NEW c \in {"none", "up", "over"}, UpdateWindowText(u, always, c), given' = given
      PROVE  Effect
  BY <1>1, <1>2, WindowEffect DEF Effect, Quiet
<1>3. CASE OnRegState
  <2>1. given' = given /\ Sound(Subscribe(ua), profile)
    BY <1>3, SubscribeSound DEF OnRegState, Handle
  <2>2. CASE UpdateWindowText(Subscribe(ua), FALSE, call)
    BY <1>1, <1>2, <2>1, <2>2
  <2>3. CASE UpdateWindowText(ua, FALSE, call)
    BY <1>1, <1>2, <2>1, <2>3
  <2>4. CASE NoDialling /\ UNCHANGED <<ua, profile, call>>
    BY <1>1, <2>1, <2>4 DEF Effect, Quiet, NoDialling
  <2> QED
    BY <1>3, <2>2, <2>3, <2>4 DEF OnRegState
<1>4. CASE OnCallEnd
  <2>1. given' = given /\ UpdateWindowText(ua, TRUE, IF call = "over" THEN "none" ELSE call)
    BY <1>4 DEF OnCallEnd, Handle
  <2> QED
    BY <1>1, <1>2, <2>1
<1>5. CASE Refresh
  BY <1>1, <1>2, <1>5 DEF Refresh
<1>6. CASE HangUp
  <2>1. PICK left \in {"none", "up"} : UpdateWindowText(ua, TRUE, left)
    BY <1>6 DEF HangUp
  <2>2. given' = given
    BY <1>6 DEF HangUp
  <2> QED
    BY <1>2, <2>1, <2>2
<1>7. CASE OnSettings
  <2>1. PICK choice \in LocalChoices : Created([ua EXCEPT !.enabled = choice])
    BY <1>7 DEF OnSettings
  <2> DEFINE v == [ua EXCEPT !.enabled = choice]
  <2>2. choice \in BOOLEAN
    BY AccountAssumption
  <2>3. v \in UserAgent
    BY <1>1, <2>2 DEF UserAgent
  <2>4. v.slot = ua.slot /\ v.account = ua.account /\ v.local = ua.local /\ v.running = ua.running
    BY <1>1 DEF UserAgent
  <2>5. Created(v)
    BY <2>1
  <2> HIDE DEF v
  <2>6. Sound(ua', profile)
    BY <1>1, <2>3, <2>4, <2>5, SameAccounts, CreatedSound
  <2> QED
    BY <1>1, <1>7, <2>6 DEF OnSettings, Handle, NoDialling, Effect, Quiet
<1>8. CASE OnCommandLine
  <2> DEFINE n == Head(queue).number
             p == Head(queue).profile
  <2>1. /\ queue # <<>> /\ Head(queue).type = "commandLine" /\ queue' = Tail(queue)
        /\ given' = given /\ Command(n, p)
    BY <1>8 DEF OnCommandLine, Handle
  <2>2. n \in Numbers /\ p \in Nat
    BY <2>1, HeadTyped DEF Messages
  <2>3. Taken(n)
    BY <2>1 DEF Taken, IsFor
  <2>4. Obeyed(n)
    BY <1>8, <2>1, <2>2, CommandEffect DEF Misdirected
  <2> QED
    BY <2>2, <2>3, <2>4 DEF Effect
<1> QED
  BY <1>3, <1>4, <1>5, <1>6, <1>7, <1>8

LEMMA NextEffect ==
  ASSUME TypeOK, Sound(ua, profile), Next
  PROVE  Effect
<1>1. ASSUME NEW n \in Numbers, NEW p \in CommandProfiles, CopyData(n, p)
      PROVE  Effect
  <2>1. n \notin given /\ given' = given \cup {n} /\ p \in Nat
    BY <1>1, AccountAssumption DEF CopyData
  <2>2. CASE Command(n, p) /\ UNCHANGED queue
    <3>1. Taken(n) /\ Obeyed(n)
      BY <1>1, <2>1, <2>2, CommandEffect DEF Taken, Misdirected
    <3> QED
      BY <3>1 DEF Effect
  <2>3. CASE /\ Post([type |-> "commandLine", number |-> n, profile |-> p])
             /\ UNCHANGED <<ua, profile, call>> /\ NoDialling
    <3>1. Posted(n)
      BY <2>1, <2>3 DEF Posted, Post
    <3>2. Quiet
      BY <2>3 DEF Quiet, NoDialling, TypeOK, Possible
    <3> QED
      BY <3>1, <3>2 DEF Effect
  <2> QED
    BY <1>1, <2>2, <2>3 DEF CopyData
<1>2. CASE CallUp
  BY <1>2 DEF CallUp, NoDialling, Effect, Quiet, TypeOK, Possible
<1> QED
  BY <1>1, <1>2, WorkerEffect, AccountsEffect, MessageEffect DEF Next, Effect
-----------------------------------------------------------------------------
(* The queue.                                                              *)

\* No number comes into the queue.
Shrinks(q, r) ==
  \A n \in Numbers : /\ Unique(q, n) => Unique(r, n)
                     /\ Holds(r, n) => Holds(q, n)

LEMMA QueueTail ==
  ASSUME NEW q \in Seq(Messages), q # <<>>
  PROVE  /\ Tail(q) \in Seq(Messages) /\ Shrinks(q, Tail(q))
         /\ \A n \in Numbers : IsFor(Head(q), n) =>
              /\ Holds(q, n)
              /\ Unique(q, n) => ~Holds(Tail(q), n)
<1>1. /\ Tail(q) \in Seq(Messages) /\ Len(Tail(q)) = Len(q) - 1 /\ Len(q) \in Nat \ {0}
      /\ \A i \in 1..Len(Tail(q)) : Tail(q)[i] = q[i + 1]
      /\ Head(q) = q[1]
  BY HeadTailProperties, LenProperties, EmptySeq
<1>2. \A i \in 1..Len(Tail(q)) : i + 1 \in 1..Len(q) /\ i + 1 # 1 /\ Tail(q)[i] = q[i + 1]
  BY <1>1
<1>3. Shrinks(q, Tail(q))
  <2> SUFFICES ASSUME NEW n \in Numbers
               PROVE  /\ Unique(q, n) => Unique(Tail(q), n)
                      /\ Holds(Tail(q), n) => Holds(q, n)
    BY DEF Shrinks
  <2>1. Holds(Tail(q), n) => Holds(q, n)
    BY <1>2 DEF Holds
  <2>2. ASSUME Unique(q, n), NEW i \in 1..Len(Tail(q)), NEW j \in 1..Len(Tail(q)),
               IsFor(Tail(q)[i], n), IsFor(Tail(q)[j], n)
        PROVE  i = j
    <3>1. i + 1 = j + 1
      BY <1>2, <2>2 DEF Unique
    <3> QED
      BY <3>1
  <2> QED
    BY <2>1, <2>2 DEF Unique
<1>4. ASSUME NEW n \in Numbers, IsFor(Head(q), n)
      PROVE  Holds(q, n) /\ (Unique(q, n) => ~Holds(Tail(q), n))
  <2>1. 1 \in 1..Len(q) /\ IsFor(q[1], n)
    BY <1>1, <1>4
  <2> QED
    BY <1>2, <2>1 DEF Holds, Unique
<1> QED
  BY <1>1, <1>3, <1>4

LEMMA QueueAppend ==
  ASSUME NEW q \in Seq(Messages), NEW m \in Messages
  PROVE  /\ Append(q, m) \in Seq(Messages)
         /\ \A n \in Numbers :
              /\ Holds(Append(q, m), n) => Holds(q, n) \/ IsFor(m, n)
              /\ Unique(q, n) /\ (IsFor(m, n) => ~Holds(q, n)) => Unique(Append(q, m), n)
<1> DEFINE r == Append(q, m)
<1>1. /\ r \in Seq(Messages) /\ Len(r) = Len(q) + 1 /\ Len(q) \in Nat
      /\ \A i \in 1..Len(q) : r[i] = q[i]
      /\ r[Len(q) + 1] = m
  BY AppendProperties, LenProperties
<1>2. \A i \in 1..Len(r) : (i \in 1..Len(q) /\ r[i] = q[i]) \/ (i = Len(r) /\ r[i] = m)
  BY <1>1
<1> HIDE DEF r
<1>3. ASSUME NEW n \in Numbers, Holds(r, n)
      PROVE  Holds(q, n) \/ IsFor(m, n)
  BY <1>2, <1>3 DEF Holds
<1>4. ASSUME NEW n \in Numbers, Unique(q, n), IsFor(m, n) => ~Holds(q, n)
      PROVE  Unique(r, n)
  BY <1>2, <1>4 DEF Unique, Holds
<1> QED
  BY <1>1, <1>3, <1>4 DEF r

LEMMA ShrinksAppend ==
  ASSUME NEW q \in Seq(Messages), NEW m \in Messages, m.type # "commandLine"
  PROVE  Append(q, m) \in Seq(Messages) /\ Shrinks(q, Append(q, m))
  BY QueueAppend DEF Shrinks, IsFor

LEMMA ShrinksTwice ==
  ASSUME NEW q, NEW r, NEW s, Shrinks(q, r), Shrinks(r, s)
  PROVE  Shrinks(q, s)
  BY DEF Shrinks

LEMMA QueueStep ==
  ASSUME TypeOK, Next
  PROVE  /\ queue' \in Seq(Messages)
         /\ given' \in SUBSET Numbers /\ ops' \in 0..MaxOps /\ answers' \in 0..MaxAnswers
         /\ Shrinks(queue, queue') \/ \E n \in Numbers : Posted(n)
<1> DEFINE Goal ==
      /\ queue' \in Seq(Messages)
      /\ given' \in SUBSET Numbers /\ ops' \in 0..MaxOps /\ answers' \in 0..MaxAnswers
      /\ Shrinks(queue, queue') \/ \E n \in Numbers : Posted(n)
<1>1. /\ queue \in Seq(Messages) /\ given \in SUBSET Numbers
      /\ ops \in 0..MaxOps /\ answers \in 0..MaxAnswers
      /\ MaxOps \in Nat /\ MaxAnswers \in Nat
  BY AccountAssumption DEF TypeOK
<1>2. Shrinks(queue, queue)
  BY DEF Shrinks
<1>3. Operate => ops' \in 0..MaxOps /\ answers' \in 0..MaxAnswers
  BY <1>1 DEF Operate, Operates
<1>4. [type |-> "callEnd"] \in Messages /\ [type |-> "settings"] \in Messages
      /\ \A code \in {200, 403} : [type |-> "regState", code |-> code] \in Messages
  BY DEF Messages
<1>5. \A n \in Numbers, p \in Nat :
        [type |-> "commandLine", number |-> n, profile |-> p] \in Messages
  BY DEF Messages
<1>6. ASSUME NEW type, Handle(type) PROVE Goal
  BY <1>1, <1>6, QueueTail DEF Handle
<1>7. ASSUME NEW q, q = queue \o CallEnds
      PROVE  q \in Seq(Messages) /\ Shrinks(queue, q)
  <2>1. q = queue \/ q = Append(queue, [type |-> "callEnd"])
    <3>1. CallEnds = <<>> \/ CallEnds = <<[type |-> "callEnd"]>>
      BY DEF CallEnds
    <3>2. queue \o <<>> = queue /\ queue \o <<[type |-> "callEnd"]>> = Append(queue, [type |-> "callEnd"])
      BY <1>1, <1>4
    <3> QED
      BY <1>7, <3>1, <3>2
  <2> QED
    BY <1>1, <1>2, <1>4, <2>1, ShrinksAppend
<1>8. ASSUME NEW n \in Numbers, NEW p \in CommandProfiles, CopyData(n, p)
      PROVE  Goal
  <2>1. n \notin given /\ given' = given \cup {n} /\ p \in Nat /\ Operate
    BY <1>8, AccountAssumption DEF CopyData
  <2>2. CASE queue' = queue
    BY <1>1, <1>2, <1>3, <2>1, <2>2
  <2>3. CASE queue' = Append(queue, [type |-> "commandLine", number |-> n, profile |-> p])
    <3>1. Posted(n)
      BY <2>1, <2>3 DEF Posted
    <3> QED
      BY <1>1, <1>3, <1>5, <2>1, <2>3, <3>1, QueueAppend
  <2> QED
    BY <1>8, <2>2, <2>3 DEF CopyData, Post
<1>9. CASE Suspend
  BY <1>1, <1>3, <1>7, <1>9 DEF Suspend, Destroyed
<1>10. CASE SettingsOk
  <2> DEFINE q == queue \o CallEnds
  <2>1. queue' = q \o <<[type |-> "settings"]>> /\ Operate /\ given' = given
    BY <1>10 DEF SettingsOk, Input, Destroyed
  <2>2. q \in Seq(Messages) /\ Shrinks(queue, q)
    BY <1>7
  <2> HIDE DEF q
  <2>3. queue' = Append(q, [type |-> "settings"])
    BY <1>4, <2>1, <2>2
  <2>4. queue' \in Seq(Messages) /\ Shrinks(q, queue')
    BY <1>4, <2>2, <2>3, ShrinksAppend
  <2> QED
    BY <1>1, <1>3, <2>1, <2>2, <2>4, ShrinksTwice
<1>11. ASSUME Operates, queue' = queue, given' = given PROVE Goal
  BY <1>1, <1>2, <1>11 DEF Operates
<1>12. CASE Resume \/ (\E i \in DOMAIN stored : MenuAccountChange(i)) \/ Edits
  BY <1>11, <1>12 DEF Resume, MenuAccountChange, Edits, AccountDlgOpen, AccountDlgClose,
                     AccountDlgOk, AccountDlgDelete, OnlyAccounts, Input, Operate
<1>13. CASE Refresh \/ CallUp \/ HangUp
  BY <1>11, <1>13 DEF Refresh, CallUp, HangUp, Input, Operate
<1>14. CASE OnRegState \/ OnCallEnd \/ OnCommandLine \/ OnSettings
  BY <1>6, <1>14 DEF OnRegState, OnCallEnd, OnCommandLine, OnSettings
<1>15. CASE CloseBox \/ \E s \in Slots : Reregister(s)
  BY <1>1, <1>2, <1>15 DEF CloseBox, Reregister
<1>16. ASSUME NEW s \in Slots, NEW code \in {200, 403}, RegisterAnswered(s, code)
       PROVE  Goal
  <2>1. /\ queue' = Append(queue, [type |-> "regState", code |-> code])
        /\ UNCHANGED <<given, ops>> /\ answers < MaxAnswers /\ answers' = answers + 1
    BY <1>16 DEF RegisterAnswered, Post
  <2> QED
    BY <1>1, <1>4, <2>1, ShrinksAppend
<1>17. CASE CallOver
  <2>1. queue' = Append(queue, [type |-> "callEnd"]) /\ UNCHANGED <<given, ops, answers>>
    BY <1>17 DEF CallOver, Post
  <2> QED
    BY <1>1, <1>4, <2>1, ShrinksAppend
<1> QED
  BY <1>8, <1>9, <1>10, <1>12, <1>13, <1>14, <1>15, <1>16, <1>17
     DEF Next, Accounts, Edits, Worker
-----------------------------------------------------------------------------
(* The invariant.                                                          *)

LEMMA CloseBoxEffect ==
  ASSUME TypeOK, CloseBox
  PROVE  /\ boxes' \in Seq({"delayed", "direct"}) /\ delayed' \in {delayed, NoNumber}
         /\ UNCHANGED <<ua, profile, call, queue, given, tried, made>>
<1>1. boxes \in Seq({"delayed", "direct"}) /\ boxes # <<>>
  BY DEF TypeOK, CloseBox
<1>2. boxes' \in Seq({"delayed", "direct"})
  BY <1>1 DEF CloseBox
<1> QED
  BY <1>2 DEF CloseBox, LeftWaiting

\* The selected profile stays where Lists says, whatever the dialog does.
LEMMA EditsLists ==
  ASSUME TypeOK, Lists(profile, stored, dialog), Edits
  PROVE  /\ stored' \in Seq(Profiles) /\ dialog' \in {Closed, New, Local} \cup DOMAIN stored'
         /\ Lists(profile', stored', dialog')
<1> DEFINE Goal ==
      /\ stored' \in Seq(Profiles) /\ dialog' \in {Closed, New, Local} \cup DOMAIN stored'
      /\ Lists(profile', stored', dialog')
<1>1. /\ profile \in Selection /\ stored \in Seq(Profiles)
      /\ dialog \in {Closed, New, Local} \cup DOMAIN stored
  BY DEF TypeOK
<1>2. ASSUME NEW p, Replace(p), dialog' = Closed, stored' \in Seq(Profiles),
             p = Nobody \/ \E i \in DOMAIN stored' : p = Selected(stored', i)
      PROVE  Goal
  <2>1. profile' = p
    BY <1>2 DEF Replace
  <2>2. CASE p = Nobody
    BY <1>2, <2>1, <2>2, SelectionTyped DEF Lists
  <2>3. ASSUME NEW i \in DOMAIN stored', p = Selected(stored', i) PROVE Goal
    BY <1>2, <2>1, <2>3, SelectedTyped DEF Lists
  <2> QED
    BY <1>2, <2>2, <2>3
<1>3. CASE AccountDlgOpen
  <2>1. stored' = stored /\ profile' = profile
    BY <1>3 DEF AccountDlgOpen
  <2>2. \/ dialog' \in {New, Local}
        \/ profile.id # 0 /\ dialog' = profile.id /\ profile.id \in DOMAIN stored
        \/ profile.id = 0 /\ dialog' \in DOMAIN stored
    BY <1>3 DEF AccountDlgOpen, Load
  <2> QED
    BY <1>1, <2>1, <2>2 DEF Lists
<1>4. CASE AccountDlgClose
  BY <1>1, <1>4 DEF AccountDlgClose, Lists
<1>5. CASE AccountDlgOk
  <2>1. dialog' = Closed
    BY <1>5 DEF AccountDlgOk
  <2>2. CASE /\ dialog \in DOMAIN stored /\ stored' = stored
             /\ Replace(Selected(stored, dialog))
    BY <1>1, <1>2, <2>1, <2>2
  <2>3. ASSUME NEW p \in Profiles, stored' = Append(stored, p),
               Replace(Selected(stored', Len(stored) + 1))
        PROVE  Goal
    <3>1. stored' \in Seq(Profiles) /\ Len(stored) + 1 \in DOMAIN stored'
      BY <1>1, <2>3, AppendTyped
    <3> QED
      BY <1>2, <2>1, <2>3, <3>1
  <2>4. CASE stored' = stored /\ profile' = profile
    BY <1>1, <2>1, <2>4 DEF Lists
  <2> QED
    BY <1>5, <2>2, <2>3, <2>4 DEF AccountDlgOk
<1>6. CASE AccountDlgDelete
  <2>1. /\ dialog \in DOMAIN stored /\ dialog' = Closed
        /\ stored' = Without(stored, dialog)
    BY <1>6 DEF AccountDlgDelete
  <2>2. /\ stored' \in Seq(Profiles)
        /\ \A i \in DOMAIN stored : i < dialog => i \in DOMAIN stored' /\ stored'[i] = stored[i]
        /\ \A i \in DOMAIN stored :
             i > dialog => i - 1 \in DOMAIN stored' /\ stored'[i - 1] = stored[i]
    BY <1>1, <2>1, WithoutTyped
  <2>3. CASE Replace(IF stored' = <<>> THEN Nobody ELSE Selected(stored', 1))
    <3> DEFINE p == IF stored' = <<>> THEN Nobody ELSE Selected(stored', 1)
    <3>1. p = Nobody \/ \E i \in DOMAIN stored' : p = Selected(stored', i)
      BY <2>2, EmptySeq, LenProperties
    <3>2. Replace(p)
      BY <2>3
    <3> HIDE DEF p
    <3> QED
      BY <1>2, <2>1, <2>2, <3>1, <3>2
  <2>4. CASE /\ dialog # profile.id
             /\ profile' = [profile EXCEPT !.shifted = @ \/ dialog < profile.id]
    <3>1. /\ profile'.id = profile.id /\ profile'.account = profile.account
          /\ profile'.shifted = (profile.shifted \/ dialog < profile.id)
          /\ profile.id \in Nat
      BY <1>1, <2>1, <2>4, ShiftTyped
    <3>2. \A i \in DOMAIN stored : i \in Nat \ {0}
      BY <1>1
    <3>3. dialog \notin {Closed, New, Local}
      BY <2>1, <3>2 DEF Closed, New, Local
    <3>4. CASE profile.id # 0
      <4>1. ~profile.shifted
        BY <2>4, <3>3, <3>4 DEF Lists
      <4>2. profile.id \in DOMAIN stored /\ stored[profile.id] = profile.account
        BY <3>4, <4>1 DEF Lists
      <4>3. CASE dialog < profile.id
        <5>1. profile.id - 1 \in DOMAIN stored' /\ stored'[profile.id - 1] = profile.account
          BY <2>2, <3>1, <3>2, <2>1, <4>2, <4>3
        <5>2. profile.id - 1 < profile.id
          BY <3>1
        <5>3. profile'.shifted /\ \E j \in DOMAIN stored' :
                j < profile'.id /\ stored'[j] = profile'.account
          BY <3>1, <4>3, <5>1, <5>2
        <5>4. Lists(profile', stored', dialog')
          BY <2>1, <5>3 DEF Lists
        <5> QED
          BY <2>1, <2>2, <5>4
      <4>4. CASE ~(dialog < profile.id)
        <5>1. profile.id < dialog
          BY <2>1, <2>4, <3>1, <3>2, <4>4
        <5>2. profile.id \in DOMAIN stored' /\ stored'[profile.id] = profile.account
          BY <2>2, <4>2, <5>1
        <5> QED
          BY <2>1, <2>2, <3>1, <4>1, <4>4, <5>2 DEF Lists
      <4> QED
        BY <4>3, <4>4
    <3>5. CASE profile.id = 0
      BY <2>1, <2>2, <3>1, <3>5 DEF Lists
    <3> QED
      BY <3>4, <3>5
  <2> QED
    BY <1>6, <2>3, <2>4 DEF AccountDlgDelete
<1> QED
  BY <1>3, <1>4, <1>5, <1>6 DEF Edits

\* Every other action leaves the settings alone.
LEMMA SettingsKept ==
  ASSUME Next
  PROVE  Edits \/ UNCHANGED settings
<1>1. CASE \E n \in Numbers, p \in CommandProfiles : CopyData(n, p)
  BY <1>1 DEF CopyData, Operate
<1>2. CASE Accounts
  BY <1>2 DEF Accounts, Edits, Suspend, Resume, SettingsOk, MenuAccountChange, Input, Operate
<1>3. CASE Refresh \/ CallUp \/ HangUp
  BY <1>3 DEF Refresh, CallUp, HangUp, Input, Operate
<1>4. CASE OnRegState \/ OnCallEnd \/ OnCommandLine \/ OnSettings \/ CloseBox
  BY <1>4 DEF OnRegState, OnCallEnd, OnCommandLine, OnSettings, CloseBox, Handle
<1>5. CASE Worker
  BY <1>5 DEF Worker, RegisterAnswered, Reregister, CallOver
<1> QED
  BY <1>1, <1>2, <1>3, <1>4, <1>5 DEF Next

LEMMA SettingsStep ==
  ASSUME TypeOK, Sound(ua, profile), Lists(profile, stored, dialog), Next
  PROVE  /\ stored' \in Seq(Profiles) /\ dialog' \in {Closed, New, Local} \cup DOMAIN stored'
         /\ Lists(profile', stored', dialog')
<1>1. CASE Edits
  BY <1>1, EditsLists
<1>2. CASE ~Edits
  <2>1. stored' = stored /\ dialog' = dialog
    BY <1>2, SettingsKept DEF settings
  <2>2. Effect
    BY NextEffect
  <2>3. Possible(profile')
    BY <1>2, <2>2, CloseBoxEffect DEF Effect, Quiet, Dialled, Obeyed, Possible
  <2>4. Lists(profile', stored, dialog)
    BY <2>3, SelectionTyped, SelectedTyped DEF Possible, Lists, TypeOK
  <2> QED
    BY <2>1, <2>4 DEF TypeOK
<1> QED
  BY <1>1, <1>2

LEMMA TypeStep ==
  ASSUME TypeOK, Sound(ua, profile), Lists(profile, stored, dialog), Next
  PROVE  TypeOK' /\ Sound(ua', profile') /\ Lists(profile', stored', dialog')
<1>1. Effect
  BY NextEffect
<1>2. /\ queue' \in Seq(Messages) /\ given' \in SUBSET Numbers
      /\ ops' \in 0..MaxOps /\ answers' \in 0..MaxAnswers
  BY QueueStep
<1> DEFINE Typed ==
      /\ profile' \in Selection /\ Sound(ua', profile')
      /\ delayed' \in Numbers \cup {NoNumber}
      /\ call' \in {"none", "up", "over"} /\ boxes' \in Seq({"delayed", "direct"})
      /\ tried' \in SUBSET Numbers /\ made' \in [Numbers -> Nat]
<1>3. /\ profile \in Selection /\ delayed \in Numbers \cup {NoNumber}
      /\ call \in {"none", "up", "over"} /\ boxes \in Seq({"delayed", "direct"})
      /\ tried \in SUBSET Numbers /\ made \in [Numbers -> Nat]
  BY DEF TypeOK
<1>4. ASSUME NEW n \in Numbers, NEW from, Dialled(n, from) PROVE Typed
  <2>1. made' \in [Numbers -> Nat]
    BY <1>3, <1>4 DEF Dialled
  <2> QED
    BY <1>3, <1>4, <2>1, PossibleTyped DEF Dialled
<1>5. ASSUME NEW n \in Numbers, Obeyed(n) PROVE Typed
  BY <1>3, <1>4, <1>5, PossibleTyped DEF Obeyed
<1>6. ASSUME Quiet PROVE Typed
  BY <1>3, <1>6, PossibleTyped DEF Quiet
<1>7. ASSUME CloseBox PROVE Typed
  BY <1>3, <1>7, CloseBoxEffect
<1>8. Typed
  BY <1>1, <1>4, <1>5, <1>6, <1>7 DEF Effect
<1>9. /\ stored' \in Seq(Profiles) /\ dialog' \in {Closed, New, Local} \cup DOMAIN stored'
      /\ Lists(profile', stored', dialog')
  BY SettingsStep
<1> QED
  BY <1>2, <1>8, <1>9 DEF TypeOK, Sound

\* A number no action speaks of.
LEMMA OnceKept ==
  ASSUME NEW n \in Numbers, Once(n), Unique(queue', n), Holds(queue', n) => Holds(queue, n),
         delayed' = n => delayed = n, made'[n] = made[n], n \in given' <=> n \in given
  PROVE  Once(n)'
  BY DEF Once

LEMMA OnceQuiet ==
  ASSUME \A n \in Numbers : Once(n), Shrinks(queue, queue'), given' = given, made' = made,
         delayed' \in {delayed, NoNumber}
  PROVE  \A n \in Numbers : Once(n)'
<1> SUFFICES ASSUME NEW n \in Numbers PROVE Once(n)'
  OBVIOUS
<1>1. Once(n) /\ n # NoNumber
  BY AccountAssumption
<1>2. Unique(queue', n) /\ (Holds(queue', n) => Holds(queue, n))
  BY <1>1 DEF Shrinks, Once
<1> QED
  BY <1>1, <1>2, OnceKept

LEMMA OnceDialled ==
  ASSUME TypeOK, \A n \in Numbers : Once(n), Shrinks(queue, queue'), given' = given,
         delayed \in Numbers, Dialled(delayed, "delayed")
  PROVE  \A n \in Numbers : Once(n)'
<1>1. CASE made' = made
  BY <1>1, OnceQuiet DEF Dialled
<1>2. CASE made' = [made EXCEPT ![delayed] = @ + 1] /\ delayed' = NoNumber
  <2> SUFFICES ASSUME NEW n \in Numbers PROVE Once(n)'
    OBVIOUS
  <2>1. Once(n) /\ n # NoNumber /\ made \in [Numbers -> Nat]
    BY AccountAssumption DEF TypeOK
  <2>2. Unique(queue', n) /\ (Holds(queue', n) => Holds(queue, n))
    BY <2>1 DEF Shrinks, Once
  <2>3. CASE n # delayed
    BY <1>2, <2>1, <2>2, <2>3, OnceKept
  <2>4. CASE n = delayed
    <3>1. made[n] = 0 /\ n \in given /\ ~Holds(queue', n)
      BY <2>1, <2>2, <2>4 DEF Once
    <3>2. made'[n] = 1
      BY <1>2, <2>1, <2>4, <3>1
    <3> QED
      BY <1>2, <2>1, <2>2, <3>1, <3>2 DEF Once
  <2> QED
    BY <2>3, <2>4
<1> QED
  BY <1>1, <1>2 DEF Dialled

\* A number taken is nowhere any more, and no call was made for it.
LEMMA TakenFacts ==
  ASSUME TypeOK, \A n \in Numbers : Once(n), NEW m \in Numbers, Taken(m)
  PROVE  /\ Shrinks(queue, queue') /\ ~Holds(queue', m) /\ delayed # m /\ made[m] = 0
         /\ given' = given \cup {m}
<1>1. Once(m) /\ queue \in Seq(Messages)
  BY DEF TypeOK
<1>2. CASE m \notin given /\ given' = given \cup {m} /\ queue' = queue
  BY <1>1, <1>2 DEF Once, Shrinks
<1>3. CASE queue # <<>> /\ IsFor(Head(queue), m) /\ queue' = Tail(queue) /\ given' = given
  <2>1. Shrinks(queue, queue') /\ Holds(queue, m) /\ ~Holds(queue', m)
    BY <1>1, <1>3, QueueTail DEF Once
  <2> QED
    BY <1>1, <1>3, <2>1 DEF Once
<1> QED
  BY <1>2, <1>3 DEF Taken

LEMMA OnceCommand ==
  ASSUME TypeOK, \A n \in Numbers : Once(n), NEW m \in Numbers, Taken(m), Obeyed(m)
  PROVE  \A n \in Numbers : Once(n)'
<1> SUFFICES ASSUME NEW n \in Numbers PROVE Once(n)'
  OBVIOUS
<1>1. Once(n) /\ n # NoNumber /\ made \in [Numbers -> Nat]
  BY AccountAssumption DEF TypeOK
<1>2. /\ Shrinks(queue, queue') /\ ~Holds(queue', m) /\ delayed # m /\ made[m] = 0
      /\ given' = given \cup {m}
  BY TakenFacts
<1>3. Unique(queue', n) /\ (Holds(queue', n) => Holds(queue, n))
  BY <1>1, <1>2 DEF Shrinks, Once
<1>4. \/ delayed' = delayed /\ (made' = made \/ made' = [made EXCEPT ![m] = @ + 1])
      \/ delayed' \in {m, delayed, NoNumber} /\ made' = made
  BY DEF Obeyed, Dialled
<1>5. CASE n # m
  BY <1>1, <1>2, <1>3, <1>4, <1>5, OnceKept
<1>6. CASE n = m
  <2>1. made'[n] <= 1 /\ (delayed' = n => made'[n] = 0) /\ n \in given'
    BY <1>1, <1>2, <1>4, <1>6
  <2> QED
    BY <1>2, <1>3, <1>6, <2>1 DEF Once
<1> QED
  BY <1>5, <1>6

LEMMA OncePosted ==
  ASSUME TypeOK, \A n \in Numbers : Once(n), NEW m \in Numbers, Posted(m), Quiet
  PROVE  \A n \in Numbers : Once(n)'
<1> SUFFICES ASSUME NEW n \in Numbers PROVE Once(n)'
  OBVIOUS
<1>1. Once(n) /\ Once(m) /\ queue \in Seq(Messages)
  BY DEF TypeOK
<1>2. /\ m \notin given /\ given' = given \cup {m} /\ UNCHANGED <<delayed, made>>
  BY DEF Posted, Quiet
<1>3. PICK p \in Nat :
        queue' = Append(queue, [type |-> "commandLine", number |-> m, profile |-> p])
  BY DEF Posted
<1> DEFINE c == [type |-> "commandLine", number |-> m, profile |-> p]
<1>4. c \in Messages /\ (IsFor(c, n) <=> n = m)
  BY DEF Messages, IsFor
<1> HIDE DEF c
<1>5. queue' = Append(queue, c)
  BY <1>3 DEF c
<1>6. ~Holds(queue, m) /\ delayed # m /\ made[m] = 0
  BY <1>1, <1>2 DEF Once
<1>7. Unique(queue', n) /\ (Holds(queue', n) => Holds(queue, n) \/ n = m)
  BY <1>1, <1>4, <1>5, <1>6, QueueAppend DEF Once
<1>8. CASE n # m
  BY <1>1, <1>2, <1>7, <1>8, OnceKept
<1>9. CASE n = m
  BY <1>2, <1>6, <1>7, <1>9 DEF Once
<1> QED
  BY <1>8, <1>9

LEMMA OnceStep ==
  ASSUME TypeOK, Sound(ua, profile), \A n \in Numbers : Once(n), Next
  PROVE  \A n \in Numbers : Once(n)'
<1>1. Effect
  BY NextEffect
<1>2. Shrinks(queue, queue') \/ \E n \in Numbers : Posted(n)
  BY QueueStep
<1>3. given' = given => Shrinks(queue, queue')
  BY <1>2 DEF Posted
<1>4. CASE Quiet /\ given' = given
  BY <1>3, <1>4, OnceQuiet DEF Quiet
<1>5. CASE delayed \in Numbers /\ Dialled(delayed, "delayed") /\ given' = given
  BY <1>3, <1>5, OnceDialled
<1>6. CASE \E n \in Numbers : Taken(n) /\ Obeyed(n)
  BY <1>6, OnceCommand
<1>7. CASE \E n \in Numbers : Posted(n) /\ Quiet
  BY <1>7, OncePosted
<1>8. CASE CloseBox
  BY <1>3, <1>8, CloseBoxEffect, OnceQuiet
<1> QED
  BY <1>1, <1>4, <1>5, <1>6, <1>7, <1>8 DEF Effect

LEMMA IInvInit == Init => IInv
<1> SUFFICES ASSUME Init PROVE IInv
  OBVIOUS
<1>1. /\ stored \in Seq(Profiles) /\ dialog = Closed
      /\ profile = Nobody \/ \E i \in DOMAIN stored : profile = Selected(stored, i)
  BY AccountAssumption DEF Init
<1> DEFINE Goal == profile \in Selection /\ Lists(profile, stored, dialog)
<1>0. Goal
  <2>1. CASE profile = Nobody
    BY <2>1, SelectionTyped DEF Lists
  <2>2. ASSUME NEW i \in DOMAIN stored, profile = Selected(stored, i) PROVE Goal
    BY <1>1, <2>2, SelectedTyped DEF Lists
  <2> QED
    BY <1>1, <2>1, <2>2
<1>2. Sound(ua, profile)
  <2>1. PICK init \in MaySucceed("init"), local \in MaySucceed("add"), add \in MaySucceed("add"),
             choice \in LocalChoices, single \in SingleChoices :
          ua = PJAccountAdd(PJCreate([Blank EXCEPT !.enabled = choice, !.single = single],
                                     profile, init, local), profile, add)
    BY DEF Init
  <2> DEFINE u == [Blank EXCEPT !.enabled = choice, !.single = single]
  <2>2. init \in BOOLEAN /\ local \in BOOLEAN /\ add \in BOOLEAN /\ choice \in BOOLEAN /\ single \in BOOLEAN
    BY <2>1, Outcomes, AccountAssumption
  <2>3. u \in UserAgent
    BY <2>2 DEF Blank, UserAgent
  <2>4. u.slot = [s \in Slots |-> Free] /\ u.account = None /\ u.local = None /\ u.running = FALSE
    BY DEF Blank
  <2>5. ua = PJAccountAdd(PJCreate(u, profile, init, local), profile, add)
    BY <2>1
  <2> HIDE DEF u
  <2>6. Sound(u, profile)
    BY <2>3, <2>4 DEF Sound, Valid
  <2> QED
    BY <1>0, <2>2, <2>5, <2>6, CreateSound, AddSound
<1>3. /\ call = "none" /\ boxes = <<>> /\ queue = <<>> /\ tried = {}
      /\ made = [n \in Numbers |-> 0] /\ ops = 0 /\ answers = 0
      /\ \/ delayed = NoNumber /\ given = {}
         \/ delayed \in Numbers /\ given = {delayed}
  BY DEF Init
<1>4. TypeOK
  <2>1. 0 \in 0..MaxOps /\ 0 \in 0..MaxAnswers
    BY AccountAssumption
  <2>2. made \in [Numbers -> Nat] /\ given \in SUBSET Numbers /\ tried \in SUBSET Numbers
    BY <1>3
  <2>3. ua \in UserAgent
    BY <1>2 DEF Sound
  <2> QED
    BY <1>0, <1>1, <1>3, <2>1, <2>2, <2>3 DEF TypeOK
<1>5. ASSUME NEW n \in Numbers PROVE Once(n)
  <2>1. made[n] = 0 /\ ~Holds(queue, n) /\ Unique(queue, n)
    BY <1>3 DEF Holds, Unique
  <2>2. n = delayed => n \in given
    BY <1>3, AccountAssumption
  <2> QED
    BY <2>1, <2>2 DEF Once
<1> QED
  BY <1>0, <1>2, <1>4, <1>5 DEF IInv

LEMMA IInvStep == IInv /\ [Next]_vars => IInv'
<1> SUFFICES ASSUME IInv, [Next]_vars PROVE IInv'
  OBVIOUS
<1>1. CASE Next
  BY <1>1, TypeStep, OnceStep DEF IInv
<1>2. CASE UNCHANGED vars
  BY <1>2 DEF IInv, TypeOK, Sound, Valid, Lists, Once, vars, settings
<1> QED
  BY <1>1, <1>2

-----------------------------------------------------------------------------
(* The theorems.                                                           *)

\* Sound and Once hold in every state the main window, the worker and the
\* other process can reach.
THEOREM Invariance == Spec => []IInv
  BY IInvInit, IInvStep, PTL DEF Spec

\* Every variable keeps its type.
THEOREM TypeCorrect == Spec => []TypeOK
<1>1. IInv => TypeOK
  BY DEF IInv
<1> QED
  BY <1>1, Invariance, PTL

\* Every account in PJSUA is account or account_local of the main window:
\* none is left behind by a menu, a dialog, a restart or a failed addition.
THEOREM NoAccountForgotten == Spec => []NoOrphanAccount
<1>1. IInv => NoOrphanAccount
  BY DEF IInv, Sound, NoOrphanAccount
<1> QED
  BY <1>1, Invariance, PTL

\* The account calls are made with is the profile loaded last, and the settings
\* hold it at its number, or below it once a lower profile was deleted in a
\* dialog opened before; the local account is in the slot account_local names.
THEOREM SelectedAccountInUse == Spec => []AccountIsSelected
<1>1. IInv => AccountIsSelected
  <2> SUFFICES ASSUME IInv, Valid(ua, ua.account)
               PROVE  /\ profile.id # 0 /\ ua.slot[ua.account] = profile.account
                      /\ \E i \in DOMAIN stored :
                           /\ stored[i] = profile.account
                           /\ IF profile.shifted THEN i < profile.id ELSE i = profile.id
    BY DEF IInv, Sound, AccountIsSelected
  <2>1. profile.id # 0 /\ ua.slot[ua.account] = profile.account
    BY DEF IInv, Sound
  <2> QED
    BY <2>1 DEF IInv, Lists
<1> QED
  BY <1>1, Invariance, PTL

\* A number handed over on a command line leads to one call at most, even when
\* the box of a failed call handles the messages that dial it.
THEOREM OneCallPerNumber == Spec => []MadeOnce
<1>1. IInv => MadeOnce
  BY DEF IInv, Once, MadeOnce
<1> QED
  BY <1>1, Invariance, PTL

\* A number in dialNumberDelayed is given up only when it is dialled, when a
\* later one takes its place, when the box of its failed call is closed, or when
\* a command line names a profile that is not stored.
THEOREM NumberIsKept == Spec => NumberKept
<1> DEFINE Kept == delayed' # delayed /\ delayed # NoNumber
                     => \/ delayed \in tried' \/ delayed' # NoNumber
                        \/ CloseBox \/ Misdirected
<1>1. IInv /\ [Next]_vars => [Kept]_vars
  <2> SUFFICES ASSUME IInv, Next PROVE Kept
    BY DEF vars
  <2>1. Effect
    BY NextEffect DEF IInv
  <2>2. Quiet => Kept
    BY DEF Quiet
  <2>3. delayed \in Numbers /\ Dialled(delayed, "delayed") => Kept
    BY DEF Dialled
  <2>4. ASSUME NEW n \in Numbers, Obeyed(n) PROVE Kept
    BY <2>4, AccountAssumption DEF Obeyed, Dialled
  <2> QED
    BY <2>1, <2>2, <2>3, <2>4 DEF Effect
<1> QED
  BY <1>1, Invariance, PTL DEF Spec, NumberKept
=============================================================================
