------------------------ MODULE ConferenceEndProofs ------------------------
(***************************************************************************)
(* Proofs about module Conference, continued: how calls end.               *)
(*                                                                         *)
(* First the two loops that must reach every member although each turn     *)
(* changes who is one (EndReachesAll, SeparatesAll).  Then what the end of *)
(* a call leaves behind: NoLonelyMember, RecorderReleased and              *)
(* TimerInLiveObject.  These three speak of the UI at rest or of user data *)
(* that were deleted, and none is inductive: between the end of a call and *)
(* its message the conference, the recorder and the timer heap still have  *)
(* it.  Owners names the calls that may be members and keep a recorder     *)
(* open in the meantime, and EInv says why each leaves: its message is the *)
(* last of the call, and a tab shows the call then unless it was hung up   *)
(* before.  The latter needs OwnTabs: of two calls of the same party one   *)
(* has no tab, and TLC finds each of the three properties violated then    *)
(* (run auto_hangup does for TimerInLiveObject).                           *)
(***************************************************************************)
EXTENDS ConferenceProofs

-----------------------------------------------------------------------------
(* Who is left in the conference.                                          *)

\* S is what the members T are when c has left: it takes at most one along, and
\* only when no third is left; no call that exists stays behind alone.
Left(S, T, c) ==
  /\ S \subseteq T /\ c \notin S
  /\ \A b, d \in Live \cap T : b # c /\ d # c /\ b # d => b \in S
  /\ \A b \in Live \cap S : c \in T => \E d \in Live \cap S : d # b

LEMMA LeaveConf ==
  ASSUME NEW U \in SUBSET (Calls \ Live), NEW D, NEW w, Sane(w, Live, U, D), NEW c \in Calls, NEW p
  PROVE  Left(Leave(w, c, p, FALSE).conf, w.conf, c)
<1>1. CASE c \notin w.conf
  BY <1>1 DEF Leave, Left
<1>2. CASE c \in w.conf
  <2>. DEFINE w1 == RecordingStop(w, c, FALSE)
              others == Others(w1, c)
              last == IF Cardinality(others) = 1 THEN others ELSE {}
              w2 == Disconnect(w1, Both(p, PortsOf(w1, others)))
              w3 == [w2 EXCEPT !.conf = @ \ (last \cup {c})]
  <2>1. Leave(w, c, p, FALSE) = w3
    BY <1>2 DEF Leave
  <2>2. Sane(w1, Live, U, D) /\ SameCalls(w1, w)
    BY RecordingStopSane
  <2>. HIDE DEF w1
  <2>3. w2 \in Mixer /\ SameCalls(w2, w1)
    <3>1. w1 \in Mixer
      BY <2>2 DEF Sane
    <3>. QED  BY <3>1, DisconnectFields
  <2>4. others = (Live \cap w.conf) \ {c}
    BY <2>2 DEF Others, SameCalls
  <2>5. (Cardinality(others) = 1) <=> \E b : others = {b}
    <3>1. IsFiniteSet(others)
      BY Numbers, LiveCalls, FS_Subset
    <3>. QED  BY <3>1, FS_Singleton
  <2>. HIDE DEF w2, others
  <2>6. w3.conf = w.conf \ (last \cup {c})
    BY <2>2, <2>3 DEF Mixer, SameCalls
  <2>. HIDE DEF w3
  <2>7. \A b, d \in Live \cap w.conf : b # c /\ d # c /\ b # d => b \in w3.conf
    BY <2>4, <2>5, <2>6
  <2>8. \A b \in Live \cap w3.conf : \E d \in Live \cap w3.conf : d # b
    <3>. SUFFICES ASSUME NEW b \in Live \cap w3.conf
                  PROVE  \E d \in Live \cap w3.conf : d # b
      OBVIOUS
    <3>1. b \in others /\ b \notin last
      BY <2>4, <2>6
    <3>2. PICK d \in others : d # b
      BY <2>5, <3>1
    <3>3. d \notin last
      BY <3>1
    <3>. QED  BY <2>4, <2>6, <3>2, <3>3
  <2>. QED  BY <2>1, <2>6, <2>7, <2>8 DEF Left
<1>. QED  BY <1>1, <1>2

\* y is what OnEndCall makes of x for the call c with the port p.
Ended(y, x, c, p) ==
  /\ y.ending = x.ending
  /\ c \notin x.tab => y = x
  /\ c \in x.tab => /\ y.w.conf = Leave(x.w, c, p, FALSE).conf
                    /\ y.w.rec[c] = None
                    /\ y.tab = x.tab \ {c} /\ y.timers = x.timers \ {c}

LEMMA OnEndCallConf ==
  ASSUME NEW U \in SUBSET (Calls \ Live), NEW D, NEW x \in Uis, Sane(x.w, Live, U, D),
         NEW c \in Calls, NEW p, p = x.w.port[c] \/ c \notin Live
  PROVE  Ended(OnEndCall(x, c, p), x, c, p)
<1>. DEFINE l == Leave(x.w, c, p, FALSE)
            v == RecordingStop(l, c, FALSE)
            y == [x EXCEPT !.tab = @ \ {c}, !.timers = @ \ {c}, !.w = v]
<1>1. Sane(l, Live, U, D)
  BY LeaveSane
<1>. HIDE DEF l
<1>2. SameCalls(v, l) /\ v.rec[c] = None
  BY <1>1, RecordingStopSane
<1>. HIDE DEF v
<1>3. y.ending = x.ending /\ y.w = v /\ y.tab = x.tab \ {c} /\ y.timers = x.timers \ {c}
  BY DEF Uis
<1>4. OnEndCall(x, c, p) = IF c \notin x.tab THEN x ELSE y
  BY DEF OnEndCall, v, l
<1>. HIDE DEF y
<1>. QED  BY <1>2, <1>3, <1>4 DEF SameCalls, l, Ended

\* y is what msip_call_hangup_fast makes of x.
HungUp(y, x, c) ==
  /\ y.ending = x.ending \cup {c}
  /\ y.w.conf \subseteq x.w.conf
  /\ \A b, d \in Live \cap x.w.conf : b # c /\ d # c /\ b # d => b \in y.w.conf
  /\ \A b \in Live : y.w.conf = {b} => x.w.conf = {b}
  /\ y.tab \subseteq x.tab /\ x.tab \ {c} \subseteq y.tab /\ y.timers \subseteq x.timers
  /\ x.timers \subseteq x.tab => y.timers \subseteq y.tab

LEMMA HangUpConf ==
  ASSUME NEW U \in SUBSET (Calls \ Live), NEW D, NEW x \in Uis, Sane(x.w, Live, U, D), NEW c \in Calls
  PROVE  HungUp(HangUpFast(x, c), x, c)
<1>. DEFINE p == x.w.port[c]
            W == Both(p, {SoundCard})
            v == Disconnect(x.w, W)
            y == [x EXCEPT !.ending = @ \cup {c}, !.w = Disconnect(@, W)]
            l == Leave(v, c, p, FALSE)
<1>1. Sane(v, Live, U, D)
  BY DisconnectSane
<1>2. SameCalls(v, x.w) /\ v \in Mixer
  BY DisconnectFields DEF Sane
<1>3. y \in Uis /\ y.w = v /\ y.ending = x.ending \cup {c} /\ y.tab = x.tab /\ y.timers = x.timers
  BY <1>2 DEF Uis
<1>. HIDE DEF v, y, W
<1>4. HangUpFast(x, c) = OnEndCall(y, c, p)
  BY DEF HangUpFast, y, W
<1>5. Left(l.conf, v.conf, c)
  BY <1>1, LeaveConf
<1>6. c \notin v.conf => l = v
  BY DEF Leave
<1>. DEFINE z == OnEndCall(y, c, p)
<1>7. /\ z.ending = y.ending
      /\ c \notin y.tab => z = y
      /\ c \in y.tab => /\ z.w.conf = l.conf
                        /\ z.tab = y.tab \ {c} /\ z.timers = y.timers \ {c}
  <2>1. p = y.w.port[c]
    BY <1>2, <1>3 DEF SameCalls
  <2>2. l = Leave(y.w, c, p, FALSE)
    BY <1>3
  <2>. HIDE DEF p, l
  <2>3. Ended(z, y, c, p)
    BY <1>1, <1>3, <2>1, OnEndCallConf
  <2>. HIDE DEF z
  <2>. QED  BY <2>2, <2>3 DEF Ended
<1>. HIDE DEF z, l, p
<1>8. z.w.conf = v.conf \/ z.w.conf = l.conf
  BY <1>3, <1>7
<1>9. v.conf = x.w.conf
  BY <1>2 DEF SameCalls
<1>10. \A b \in Live : z.w.conf = {b} => x.w.conf = {b}
  BY <1>5, <1>6, <1>8, <1>9 DEF Left
<1>11. /\ z.w.conf \subseteq x.w.conf
       /\ \A b, d \in Live \cap x.w.conf : b # c /\ d # c /\ b # d => b \in z.w.conf
  BY <1>5, <1>8, <1>9 DEF Left
<1>12. /\ z.tab \subseteq x.tab /\ x.tab \ {c} \subseteq z.tab /\ z.timers \subseteq x.timers
       /\ x.timers \subseteq x.tab => z.timers \subseteq z.tab
  BY <1>3, <1>7
<1>13. HungUp(z, x, c)
  BY <1>3, <1>7, <1>10, <1>11, <1>12 DEF HungUp
<1>. QED  BY <1>4, <1>13 DEF z

-----------------------------------------------------------------------------
(* The two buttons that end a conference.                                  *)

\* After k turns of the loop of msip_call_end the members up to k have been
\* hung up, and those after k are still members; as long as there are some the
\* call itself is a member too, so that they do not leave with the one before.
LEMMA EndReaches ==
  ASSUME IInv, NEW c \in Live, c \in mix.conf, Confirmed(c)
  PROVE  Live \cap mix.conf \subseteq EndCall(Ui, c).ending
<1>. DEFINE M == (Live \cap mix.conf) \ {c}
            I == {y \in (0..NCalls) \X Uis :
                    /\ Sane(y[2].w, Live, Idle, dropped)
                    /\ y[2].w.conf \subseteq mix.conf
                    /\ \A b \in M : IF b <= y[1] THEN b \in y[2].ending
                                    ELSE {b, c} \subseteq y[2].w.conf}
<1>1. Ui \in Uis /\ Ui.w = mix /\ TypeOK /\ Sane(mix, Live, Idle, dropped)
  BY DEF IInv, Ui, Uis, TypeOK
<1>2. M \subseteq Nat \ {0} /\ M \subseteq 1..NCalls
  <2>1. Calls \subseteq Nat \ {0} /\ Calls = 1..NCalls
    BY ConferenceAssumption DEF Calls
  <2>. QED  BY <2>1, LiveCalls
<1>3. <<0, Ui>> \in I
  <2>1. \A b \in M : ~(b <= 0) /\ {b, c} \subseteq mix.conf
    BY <1>2
  <2>. HIDE DEF M
  <2>. QED  BY <1>1, <2>1, ConferenceAssumption
<1>4. ASSUME NEW k \in Calls, NEW x, <<k - 1, x>> \in I
      PROVE  <<k, IF k \in Live \ {c} THEN EndMember(x, k) ELSE x>> \in I
  <2>. DEFINE y == HangUpFast(x, k)
  <2>1. k \in Nat /\ k \in 0..NCalls
    BY ConferenceAssumption DEF Calls
  <2>2. x \in Uis /\ Sane(x.w, Live, Idle, dropped) /\ x.w.conf \subseteq mix.conf
        /\ \A b \in M : IF b <= k - 1 THEN b \in x.ending ELSE {b, c} \subseteq x.w.conf
    BY <1>4
  <2>. HIDE DEF M
  <2>3. CASE k \in Live \ {c} /\ k \in x.w.conf
    <3>1. y \in Uis /\ Sane(y.w, Live, Idle, dropped)
      BY <2>2, LiveOrIdle, HangUpSane
    <3>2. /\ y.ending = x.ending \cup {k} /\ y.w.conf \subseteq x.w.conf
          /\ \A b, d \in Live \cap x.w.conf : b # k /\ d # k /\ b # d => b \in y.w.conf
      <4>1. HungUp(y, x, k)
        BY <2>2, LiveOrIdle, HangUpConf
      <4>. HIDE DEF y
      <4>. QED  BY <4>1 DEF HungUp
    <3>. HIDE DEF y
    <3>3. ASSUME NEW b \in M
          PROVE  IF b <= k THEN b \in y.ending ELSE {b, c} \subseteq y.w.conf
      <4>1. b \in Nat /\ b \in Live /\ b # c
        BY <1>2 DEF M
      <4>2. CASE b <= k
        <5>1. b = k \/ b <= k - 1
          BY <2>1, <4>1, <4>2
        <5>. QED  BY <2>2, <3>2, <4>2, <5>1
      <4>3. CASE ~(b <= k)
        <5>1. ~(b <= k - 1) /\ b # k
          BY <2>1, <4>1, <4>3
        <5>2. {b, c} \subseteq x.w.conf
          BY <2>2, <5>1
        <5>. QED  BY <2>3, <3>2, <4>1, <4>3, <5>1, <5>2
      <4>. QED  BY <4>2, <4>3
    <3>4. <<k, y>> \in I
      BY <2>1, <2>2, <3>1, <3>2, <3>3
    <3>. QED  BY <2>3, <3>4 DEF EndMember, y
  <2>4. CASE ~(k \in Live \ {c} /\ k \in x.w.conf)
    <3>1. (IF k \in Live \ {c} THEN EndMember(x, k) ELSE x) = x
      BY <2>4 DEF EndMember
    <3>2. ASSUME NEW b \in M
          PROVE  IF b <= k THEN b \in x.ending ELSE {b, c} \subseteq x.w.conf
      <4>1. b \in Nat
        BY <1>2
      <4>2. CASE b = k
        <5>1. k \in Live \ {c} /\ ~(b <= k - 1)
          BY <4>2, <2>1 DEF M
        <5>. QED  BY <2>2, <2>4, <4>2, <5>1
      <4>3. CASE b # k
        BY <2>1, <2>2, <4>1, <4>3
      <4>. QED  BY <4>2, <4>3
    <3>. QED  BY <2>1, <2>2, <3>1, <3>2
  <2>. QED  BY <2>3, <2>4
<1>. DEFINE all == EndEach(Live \ {c}, Ui)
<1>5. <<NCalls, all>> \in I
  <2>. HIDE DEF I
  <2>. QED  BY <1>3, <1>4, EndLoop
<1>6. all \in Uis /\ Sane(all.w, Live, Idle, dropped) /\ M \subseteq all.ending
  BY <1>2, <1>5
<1>7. EndCall(Ui, c) = HangUpFast(all, c)
  BY <1>1 DEF EndCall, EndEach
<1>8. HangUpFast(all, c).ending = all.ending \cup {c}
  <2>. HIDE DEF all
  <2>1. HungUp(HangUpFast(all, c), all, c)
    BY <1>6, LiveOrIdle, HangUpConf
  <2>. QED  BY <2>1 DEF HungUp
<1>. QED  BY <1>6, <1>7, <1>8

\* The same of the loop of OnSeparateAll: the last of the others takes the
\* selected call along.
LEMMA SeparatesEvery ==
  ASSUME IInv, NEW c \in Live, c \in mix.conf, Others(mix, c) # {}
  PROVE  Live \cap SeparateEvery(mix, c).conf = {}
<1>. DEFINE M == Others(mix, c)
            I == {y \in (0..NCalls) \X Mixer :
                    /\ Sane(y[2], Live, Idle, dropped)
                    /\ y[2].conf \subseteq mix.conf
                    /\ \A b \in M : IF b <= y[1] THEN b \notin y[2].conf
                                    ELSE {b, c} \subseteq y[2].conf
                    /\ c \in y[2].conf => \E b \in M : y[1] < b}
            h == Hold(mix, c)
<1>1. TypeOK /\ Sane(mix, Live, Idle, dropped)
  BY DEF IInv
<1>2. M \subseteq Nat \ {0} /\ M \subseteq 1..NCalls /\ M = (Live \cap mix.conf) \ {c}
  <2>1. Calls \subseteq Nat \ {0} /\ Calls = 1..NCalls
    BY ConferenceAssumption DEF Calls
  <2>. QED  BY <2>1, LiveCalls DEF Others
<1>3. Sane(h, Live, Idle, dropped) /\ h.conf = mix.conf /\ h \in Mixer
  <2>1. mix \in Mixer
    BY <1>1 DEF Sane
  <2>. QED  BY <1>1, <2>1, LiveCalls, HoldSane, HoldSame DEF SameBridge
<1>4. <<0, h>> \in I
  <2>1. \A b \in M : ~(b <= 0) /\ 0 < b /\ {b, c} \subseteq mix.conf
    BY <1>2
  <2>. HIDE DEF M, h
  <2>2. \E b \in M : 0 < b
    BY <2>1 DEF M
  <2>. QED  BY <1>3, <2>1, <2>2, ConferenceAssumption
<1>. HIDE DEF h
<1>5. ASSUME NEW k \in Calls, NEW v, <<k - 1, v>> \in I
      PROVE  <<k, IF k \in Live \ {c} THEN Leave(v, k, v.port[k], FALSE) ELSE v>> \in I
  <2>. DEFINE u == Leave(v, k, v.port[k], FALSE)
  <2>1. k \in Nat /\ k \in 0..NCalls
    BY ConferenceAssumption DEF Calls
  <2>2. v \in Mixer /\ Sane(v, Live, Idle, dropped) /\ v.conf \subseteq mix.conf
        /\ (\A b \in M : IF b <= k - 1 THEN b \notin v.conf ELSE {b, c} \subseteq v.conf)
        /\ (c \in v.conf => \E b \in M : k - 1 < b)
    BY <1>5
  <2>. HIDE DEF M
  <2>3. CASE k \in M
    <3>0. k \in Live \ {c} /\ {k, c} \subseteq v.conf
      BY <1>2, <2>1, <2>2, <2>3
    <3>1. Sane(u, Live, Idle, dropped)
      BY <2>2, LiveOrIdle, LeaveSane
    <3>2. Left(u.conf, v.conf, k)
      BY <2>2, LiveOrIdle, LeaveConf
    <3>. HIDE DEF u
    <3>3. ASSUME NEW b \in M
          PROVE  IF b <= k THEN b \notin u.conf ELSE {b, c} \subseteq u.conf
      <4>1. b \in Nat /\ b \in Live /\ b # c
        BY <1>2
      <4>2. CASE b <= k
        <5>1. b = k \/ b <= k - 1
          BY <2>1, <4>1, <4>2
        <5>. QED  BY <2>2, <3>2, <4>2, <5>1 DEF Left
      <4>3. CASE ~(b <= k)
        <5>1. ~(b <= k - 1) /\ b # k
          BY <2>1, <4>1, <4>3
        <5>2. {b, c} \subseteq v.conf
          BY <2>2, <5>1
        <5>. QED  BY <3>0, <3>2, <4>1, <4>3, <5>1, <5>2 DEF Left
      <4>. QED  BY <4>2, <4>3
    <3>4. ASSUME c \in u.conf
          PROVE  \E b \in M : k < b
      <4>1. PICK d \in Live \cap u.conf : d # c
        BY <3>0, <3>2, <3>4 DEF Left
      <4>2. d \in M /\ d \in Nat
        BY <1>2, <2>2, <3>2, <4>1 DEF Left
      <4>3. ~(d <= k)
        BY <3>3, <4>1, <4>2
      <4>. QED  BY <2>1, <4>2, <4>3
    <3>5. <<k, u>> \in I
      BY <2>1, <2>2, <3>1, <3>2, <3>3, <3>4 DEF Sane, Left
    <3>. QED  BY <3>0, <3>5 DEF u
  <2>4. CASE k \notin M
    <3>1. (IF k \in Live \ {c} THEN u ELSE v) = v
      <4>1. k \in Live \ {c} => k \notin v.conf
        BY <1>2, <2>2, <2>4
      <4>. QED  BY <4>1 DEF Leave
    <3>. HIDE DEF u
    <3>2. \A b \in M : (b <= k <=> b <= k - 1) /\ (k - 1 < b => k < b)
      BY <1>2, <2>1, <2>4
    <3>3. /\ \A b \in M : IF b <= k THEN b \notin v.conf ELSE {b, c} \subseteq v.conf
          /\ c \in v.conf => \E b \in M : k < b
      BY <2>2, <3>2
    <3>4. <<k, v>> \in I
      BY <2>1, <2>2, <3>3
    <3>. QED  BY <3>1, <3>4 DEF u
  <2>. QED  BY <2>3, <2>4
<1>. DEFINE v == LeaveEach(Live \ {c}, h)
<1>6. <<NCalls, v>> \in I
  <2>. HIDE DEF I
  <2>. QED  BY <1>4, <1>5, LeaveLoop
<1>7. SeparateEvery(mix, c) = v
  BY DEF SeparateEvery, LeaveEach, h
<1>. HIDE DEF v
<1>8. \A b \in M : b <= NCalls /\ ~(NCalls < b)
  BY <1>2, ConferenceAssumption
<1>9. v.conf \subseteq mix.conf /\ c \notin v.conf /\ \A b \in M : b \notin v.conf
  <2>. HIDE DEF M
  <2>. QED  BY <1>6, <1>8
<1>. QED  BY <1>2, <1>7, <1>9

\* The red button ends the conference: it reaches every member, although each
\* hang-up changes the membership that the loop of msip_call_end reads.
THEOREM EndButtonReachesAll == Spec => EndReachesAll
<1>1. ASSUME IInv, [Next]_vars, NEW c \in Calls, EndButton(c), c \in mix.conf, Confirmed(c)
      PROVE  Live \cap mix.conf \subseteq ending'
  <2>1. c \in Live /\ Becomes(EndCall(Ui, c))
    BY <1>1 DEF EndButton, Selected
  <2>. QED  BY <1>1, <2>1, EndReaches DEF Becomes
<1>2. IInv /\ [Next]_vars =>
        [\A c \in Calls : EndButton(c) /\ c \in mix.conf /\ Confirmed(c)
            => Live \cap mix.conf \subseteq ending']_vars
  BY <1>1
<1>. QED  BY <1>2, Invariant, PTL DEF Spec, EndReachesAll

\* OnSeparateAll leaves no member, in whatever order the members were merged.
THEOREM SeparateAllEmpties == Spec => SeparatesAll
<1>1. ASSUME IInv, [Next]_vars, NEW c \in Calls, SeparateAll(c), Others(mix, c) # {}
      PROVE  Live \cap mix'.conf = {}
  <2>1. c \in Live /\ c \in mix.conf /\ mix' = SeparateEvery(mix, c)
    BY <1>1 DEF SeparateAll, Selected
  <2>. QED  BY <1>1, <2>1, SeparatesEvery
<1>2. IInv /\ [Next]_vars =>
        [\A c \in Calls : SeparateAll(c) /\ Others(mix, c) # {}
            => Live \cap mix'.conf = {}]_vars
  BY <1>1
<1>. QED  BY <1>2, Invariant, PTL DEF Spec, SeparatesAll

-----------------------------------------------------------------------------
(* Who keeps a recorder open, and who is in the conference.                *)

\* O has an owner of every open recorder and every member, and none of L is a
\* member alone unless D has a call.
Settled(w, L, O, D) ==
  /\ \A r \in OpenRecorders(w) : \E c \in O : w.rec[c] = r
  /\ w.conf \subseteq O
  /\ D = {} => \A c \in L : w.conf # {c}

LEMMA SettledSame ==
  ASSUME NEW w, NEW v, NEW L, NEW O, NEW D, Settled(w, L, O, D),
         v.conf = w.conf, v.rec = w.rec, v.rport = w.rport
  PROVE  Settled(v, L, O, D)
  BY DEF Settled, OpenRecorders

LEMMA SettledMore ==
  ASSUME NEW w, NEW L, NEW O, NEW D, Settled(w, L, O, D),
         NEW M \in SUBSET L, NEW P, O \subseteq P, NEW E, D \subseteq E
  PROVE  Settled(w, M, P, E)
  BY DEF Settled

LEMMA RecordingStartSettled ==
  ASSUME NEW U \in SUBSET (Calls \ Live), NEW D, NEW w, Sane(w, Live, U, D), NEW c \in Live,
         NEW O \in SUBSET Calls, Live \subseteq O, NEW E, Settled(w, Live, O, E)
  PROVE  Settled(RecordingStart(w, c), Live, O, E)
<1>. DEFINE u == RecordingStart(w, c)
            s == ShareRecorder(w, c)
            n == NewRecorder(w, c)
<1>1. u.conf = w.conf
  BY RecordingStartSane DEF SameCalls
<1>2. w \in Mixer
  BY DEF Sane
<1>3. CASE u = w
  BY <1>3
<1>4. CASE u = s /\ w.rec[c] = None
  <2>. DEFINE r == w.rec[Min({b \in Others(w, c) : w.rec[b] # None})]
              W == {<<w.port[c], w.rport[r]>>}
              v == Connect(w, W)
  <2>1. v \in Mixer /\ v.rec = w.rec /\ v.rport = w.rport
    BY <1>2, ConnectFields
  <2>2. s = [v EXCEPT !.rec[c] = r]
    BY DEF ShareRecorder
  <2>. HIDE DEF v, r
  <2>3. s.rec = [w.rec EXCEPT ![c] = r] /\ s.rport = w.rport
    BY <2>1, <2>2 DEF Mixer
  <2>4. \A b \in Calls : w.rec[b] # None => s.rec[b] = w.rec[b]
    BY <1>2, <1>4, <2>3 DEF Mixer
  <2>5. \A q \in OpenRecorders(s) : \E b \in O : s.rec[b] = q
    <3>. SUFFICES ASSUME NEW q \in Recorders, s.rport[q] # None
                  PROVE  \E b \in O : s.rec[b] = q
      BY DEF OpenRecorders
    <3>1. PICK b \in O : w.rec[b] = q
      BY <2>3 DEF Settled, OpenRecorders
    <3>2. q # None
      BY Numbers
    <3>3. CASE b = c
      BY <1>4, <3>1, <3>2, <3>3
    <3>4. CASE b # c
      BY <1>2, <2>3, <3>1, <3>4 DEF Mixer
    <3>. QED  BY <3>3, <3>4
  <2>. HIDE DEF s
  <2>. QED  BY <1>1, <1>4, <2>5 DEF Settled
<1>5. CASE u = n /\ w.rec[c] = None /\ ~(Recorders \subseteq OpenRecorders(w))
  <2>. DEFINE r == Min(Recorders \ OpenRecorders(w))
              p == FreePort(w)
              join == IF c \in w.conf
                      THEN {b \in Others(w, c) : w.rec[b] = None /\ w.port[b] # None}
                      ELSE {}
              W == (PortsOf(w, join \cup {c}) \cup {SoundCard}) \X {p}
              v == Connect(w, W)
  <2>1. v \in Mixer /\ v.rec = w.rec /\ v.rport = w.rport
    BY <1>2, ConnectFields
  <2>2. n = [v EXCEPT !.rec = [b \in Calls |-> IF b \in join \cup {c} THEN r ELSE @[b]],
                      !.rport[r] = p]
    BY Zenon DEF NewRecorder
  <2>3. \A b \in join \cup {c} : w.rec[b] = None
    BY <1>5
  <2>. HIDE DEF v, r, p, join
  <2>4. n.rec = [b \in Calls |-> IF b \in join \cup {c} THEN r ELSE w.rec[b]]
        /\ n.rport = [w.rport EXCEPT ![r] = p]
    BY <2>1, <2>2 DEF Mixer
  <2>5. \A q \in OpenRecorders(n) : \E b \in O : n.rec[b] = q
    <3>. SUFFICES ASSUME NEW q \in Recorders, n.rport[q] # None
                  PROVE  \E b \in O : n.rec[b] = q
      BY DEF OpenRecorders
    <3>1. CASE q = r
      BY <2>4, <3>1, LiveCalls
    <3>2. CASE q # r
      <4>1. PICK b \in O : w.rec[b] = q
        BY <1>2, <2>4, <3>2 DEF Settled, OpenRecorders, Mixer
      <4>2. b \notin join \cup {c}
        <5>1. q # None
          BY Numbers
        <5>. QED  BY <2>3, <4>1, <5>1
      <4>3. b \in Calls => n.rec[b] = q
        BY <2>4, <4>1, <4>2
      <4>. QED  BY <4>1, <4>3
    <3>. QED  BY <3>1, <3>2
  <2>. HIDE DEF n
  <2>. QED  BY <1>1, <1>5, <2>5 DEF Settled
<1>. QED  BY <1>3, <1>4, <1>5 DEF RecordingStart

LEMMA RecordingStopSettled ==
  ASSUME NEW U \in SUBSET (Calls \ Live), NEW D, NEW w, Sane(w, Live, U, D), NEW c \in Calls,
         NEW force \in BOOLEAN, NEW O \in SUBSET Calls, Live \subseteq O, NEW E, Settled(w, Live, O, E)
  PROVE  Settled(RecordingStop(w, c, force), Live, O, E)
<1>1. CASE w.rec[c] = None
  BY <1>1 DEF RecordingStop
<1>2. CASE w.rec[c] # None
  <2>. DEFINE r == w.rec[c]
              sharing == {b \in Live \ {c} : w.rec[b] = r}
              clear == IF force THEN sharing \cup {c} ELSE {c}
              W == (PortsOf(w, clear \ {c}) \cup {InfoPort(w, c)}) \X {w.rport[r]}
              w0 == Disconnect(w, W)
              w1 == [w0 EXCEPT !.rec = [b \in Calls |-> IF b \in clear THEN None ELSE @[b]]]
              w2 == RemovePort(w1, w.rport[r])
              w3 == [w2 EXCEPT !.rport[r] = None]
  <2>1. RecordingStop(w, c, force) = IF sharing # {} /\ ~force THEN w1 ELSE w3
    BY <1>2, Zenon DEF RecordingStop
  <2>2. w0 \in Mixer /\ SameCalls(w0, w) /\ w0.rec = w.rec /\ w0.rport = w.rport /\ w \in Mixer
    <3>1. w \in Mixer
      BY DEF Sane
    <3>. QED  BY <3>1, DisconnectFields
  <2>3. \A b \in clear : w.rec[b] = r
    OBVIOUS
  <2>4. r \in Recorders /\ r # None
    BY <1>2, <2>2 DEF Mixer
  <2>5. sharing # {} /\ ~force => \E b \in O \ clear : w.rec[b] = r
    OBVIOUS
  <2>. HIDE DEF w0, sharing, clear, r
  <2>6. /\ w1.rec = [b \in Calls |-> IF b \in clear THEN None ELSE w.rec[b]]
        /\ w1.rport = w.rport /\ w1.conf = w.conf /\ w1 \in Mixer
    BY <2>2 DEF Mixer, SameCalls
  <2>. HIDE DEF w1
  <2>7. w2 \in Mixer /\ w2.rec = w1.rec /\ w2.rport = w1.rport /\ w2.conf = w1.conf
    BY <2>6, RemovePortSane DEF SameCalls
  <2>. HIDE DEF w2
  <2>8. w3.rec = w1.rec /\ w3.rport = [w.rport EXCEPT ![r] = None] /\ w3.conf = w.conf
    BY <2>6, <2>7 DEF Mixer
  <2>. HIDE DEF w3
  <2>9. \A q \in OpenRecorders(w) : q # r => \E b \in O : w1.rec[b] = q
    <3>. SUFFICES ASSUME NEW q \in OpenRecorders(w), q # r
                  PROVE  \E b \in O : w1.rec[b] = q
      OBVIOUS
    <3>1. PICK b \in O : w.rec[b] = q
      BY DEF Settled
    <3>. QED  BY <2>3, <2>6, <3>1
  <2>10. CASE sharing # {} /\ ~force
    <3>1. \E b \in O : w1.rec[b] = r
      BY <2>5, <2>6, <2>10
    <3>2. \A q \in OpenRecorders(w1) : \E b \in O : w1.rec[b] = q
      BY <2>6, <2>9, <3>1 DEF OpenRecorders
    <3>. QED  BY <2>1, <2>6, <2>10, <3>2 DEF Settled
  <2>11. CASE ~(sharing # {} /\ ~force)
    <3>1. \A q \in OpenRecorders(w3) : q # r /\ q \in OpenRecorders(w)
      BY <2>2, <2>4, <2>8 DEF OpenRecorders, Mixer
    <3>2. \A q \in OpenRecorders(w3) : \E b \in O : w3.rec[b] = q
      BY <2>8, <2>9, <3>1
    <3>. QED  BY <2>1, <2>8, <2>11, <3>2 DEF Settled
  <2>. QED  BY <2>10, <2>11
<1>. QED  BY <1>1, <1>2

LEMMA JoinSettled ==
  ASSUME NEW U \in SUBSET (Calls \ Live), NEW D, NEW w, Sane(w, Live, U, D), NEW c \in Live,
         NEW O \in SUBSET Calls, Live \subseteq O, NEW E, Settled(w, Live, O, E)
  PROVE  Settled(Join(w, c), Live, O, E)
<1>1. CASE c \notin w.conf
  BY <1>1 DEF Join
<1>2. CASE c \in w.conf
  <2>. DEFINE with == {b \in Others(w, c) : w.port[b] # None}
              I == {x \in (0..NCalls) \X Mixer :
                      Sane(x[2], Live, U, D) /\ SameCalls(x[2], w) /\ Settled(x[2], Live, O, E)}
  <2>1. <<0, w>> \in I
    BY ConferenceAssumption DEF Sane, SameCalls
  <2>2. ASSUME NEW k \in Calls, NEW v, <<k - 1, v>> \in I
        PROVE  <<k, IF k \in with THEN JoinOne(v, c, k) ELSE v>> \in I
    <3>1. Sane(v, Live, U, D) /\ SameCalls(v, w) /\ Settled(v, Live, O, E) /\ k \in 0..NCalls
      BY <2>2, ConferenceAssumption DEF Calls
    <3>2. CASE k \in with
      <4>. DEFINE z == Connect(v, Both(v.port[c], {v.port[k]}))
      <4>1. k \in Live /\ k \in v.conf /\ c \in v.conf
        BY <1>2, <3>1, <3>2 DEF Others, SameCalls
      <4>2. Sane(z, Live, U, D)
        BY <3>1, <4>1, ConnectMembersSane
      <4>3. Settled(z, Live, O, E)
        <5>1. v \in Mixer
          BY <3>1 DEF Sane
        <5>2. z.rec = v.rec /\ z.rport = v.rport /\ z.conf = v.conf
          BY <5>1, ConnectFields DEF SameCalls
        <5>. HIDE DEF z
        <5>. QED  BY <3>1, <5>2, SettledSame
      <4>. HIDE DEF z
      <4>4. Settled(RecordingStart(z, c), Live, O, E) /\ Settled(RecordingStart(z, k), Live, O, E)
        BY <4>1, <4>2, <4>3, RecordingStartSettled
      <4>5. Settled(JoinOne(v, c, k), Live, O, E)
        BY <4>3, <4>4 DEF JoinOne, z
      <4>6. Sane(JoinOne(v, c, k), Live, U, D) /\ SameCalls(JoinOne(v, c, k), v)
        BY <3>1, <4>1, JoinOneSane
      <4>. QED  BY <3>1, <3>2, <4>5, <4>6 DEF Sane, SameCalls
    <3>3. CASE k \notin with
      BY <3>1, <3>3 DEF Sane
    <3>. QED  BY <3>2, <3>3
  <2>3. <<NCalls, JoinEach(with, w, c)>> \in I
    <3>. HIDE DEF with, I
    <3>. QED  BY <2>1, <2>2, JoinLoop
  <2>4. Join(w, c) = JoinEach(with, w, c)
    BY <1>2 DEF Join, JoinEach
  <2>. QED  BY <2>3, <2>4
<1>. QED  BY <1>1, <1>2

LEMMA LeaveSettled ==
  ASSUME NEW U \in SUBSET (Calls \ Live), NEW D, NEW w, Sane(w, Live, U, D), NEW c \in Calls, NEW p,
         NEW hold \in BOOLEAN, NEW O \in SUBSET Calls, Live \subseteq O, NEW E, Settled(w, Live, O, E)
  PROVE  Settled(Leave(w, c, p, hold), Live, O, E)
<1>1. CASE c \notin w.conf
  BY <1>1 DEF Leave
<1>2. CASE c \in w.conf
  <2>. DEFINE w1 == RecordingStop(w, c, FALSE)
              others == Others(w1, c)
              last == IF Cardinality(others) = 1 THEN others ELSE {}
              w2 == Disconnect(w1, Both(p, PortsOf(w1, others)))
              w3 == [w2 EXCEPT !.conf = @ \ (last \cup {c})]
  <2>1. Leave(w, c, p, hold) = IF hold THEN w2 ELSE w3
    BY <1>2, Zenon DEF Leave
  <2>2. Leave(w, c, p, FALSE) = w3
    BY <1>2 DEF Leave
  <2>3. Settled(w1, Live, O, E)
    BY RecordingStopSettled
  <2>4. w1 \in Mixer
    BY RecordingStopSane DEF Sane
  <2>. HIDE DEF w1
  <2>5. w2 \in Mixer /\ w2.conf = w1.conf /\ w2.rec = w1.rec /\ w2.rport = w1.rport
    BY <2>4, DisconnectFields DEF SameCalls
  <2>. HIDE DEF w2, last
  <2>6. Settled(w2, Live, O, E)
    BY <2>3, <2>5, SettledSame
  <2>7. w3.rec = w1.rec /\ w3.rport = w1.rport /\ w3.conf \subseteq w1.conf
    BY <2>5 DEF Mixer
  <2>8. Left(w3.conf, w.conf, c)
    BY <2>2, LeaveConf
  <2>. HIDE DEF w3
  <2>9. \A b \in Live : w3.conf # {b}
    BY <1>2, <2>8 DEF Left
  <2>10. Settled(w3, Live, O, E)
    BY <2>3, <2>7, <2>9 DEF Settled, OpenRecorders
  <2>. QED  BY <2>1, <2>6, <2>10
<1>. QED  BY <1>1, <1>2

LEMMA HoldSettled ==
  ASSUME NEW w, w \in Mixer, NEW c \in Calls, NEW L, NEW O, NEW E, Settled(w, L, O, E)
  PROVE  Settled(Hold(w, c), L, O, E) /\ Settled(Unhold(w, c), L, O, E)
<1>1. SameBridge(Hold(w, c), w) /\ SameBridge(Unhold(w, c), w)
  BY HoldSame
<1>. QED  BY <1>1, SettledSame DEF SameBridge

\* A call is merged with one that exists, unless E says otherwise.
LEMMA MergeWithSettled ==
  ASSUME NEW U \in SUBSET (Calls \ Live), NEW D, NEW w, Sane(w, Live, U, D),
         NEW s \in Calls, NEW d \in Calls,
         NEW O \in SUBSET Calls, Live \subseteq O, NEW E, Settled(w, Live, O, E), s \in Live \/ E # {}
  PROVE  Settled(MergeWith(w, s, d), Live, O, E)
<1>1. CASE d \in Live \ {s}
  <2>. DEFINE w1 == [w EXCEPT !.conf = @ \cup ({s, d} \cap Live)]
  <2>1. Sane(w1, Live, U, D)
    BY LiveCalls, AddMembers
  <2>2. w1.conf = w.conf \cup ({s, d} \cap Live) /\ w1.rec = w.rec /\ w1.rport = w.rport
    BY DEF Sane, Mixer
  <2>. HIDE DEF w1
  <2>3. Settled(w1, Live, O, E)
    <3>1. s \in Live => \A c : w1.conf # {c}
      BY <1>1, <2>2
    <3>. QED  BY <2>2, <3>1 DEF Settled, OpenRecorders
  <2>4. Settled(Join(w1, d), Live, O, E) /\ Sane(Join(w1, d), Live, U, D)
    BY <1>1, <2>1, <2>3, JoinSettled, JoinSane
  <2>5. Join(w1, d) \in Mixer
    BY <2>4 DEF Sane
  <2>6. Settled(Unhold(Join(w1, d), d), Live, O, E)
    BY <2>4, <2>5, HoldSettled
  <2>. QED  BY <1>1, <2>6 DEF MergeWith, w1
<1>2. CASE d \notin Live \ {s}
  BY <1>2 DEF MergeWith
<1>. QED  BY <1>1, <1>2

LEMMA MergeEverySettled ==
  ASSUME NEW U \in SUBSET (Calls \ Live), NEW D, NEW w, Sane(w, Live, U, D), NEW s \in Calls,
         NEW O \in SUBSET Calls, Live \subseteq O, NEW E, Settled(w, Live, O, E), s \in Live \/ E # {}
  PROVE  Settled(MergeEvery(w, s), Live, O, E)
<1>. DEFINE I == {x \in (0..NCalls) \X Mixer : Sane(x[2], Live, U, D) /\ Settled(x[2], Live, O, E)}
<1>1. <<0, w>> \in I
  BY ConferenceAssumption DEF Sane
<1>2. ASSUME NEW k \in Calls, NEW v, <<k - 1, v>> \in I
      PROVE  <<k, IF k \in Live \ {s} THEN MergeWith(v, s, k) ELSE v>> \in I
  <2>1. Sane(v, Live, U, D) /\ Settled(v, Live, O, E) /\ k \in 0..NCalls
    BY <1>2, ConferenceAssumption DEF Calls
  <2>2. Sane(MergeWith(v, s, k), Live, U, D) /\ Settled(MergeWith(v, s, k), Live, O, E)
    BY <2>1, MergeWithSane, MergeWithSettled
  <2>. QED  BY <2>1, <2>2 DEF Sane
<1>3. <<NCalls, MergeEach(Live \ {s}, w, s)>> \in I
  <2>. HIDE DEF I
  <2>. QED  BY <1>1, <1>2, MergeLoop
<1>4. MergeEvery(w, s) = MergeEach(Live \ {s}, w, s)
  BY DEF MergeEvery, MergeEach
<1>. QED  BY <1>3, <1>4

LEMMA SeparateSettled ==
  ASSUME NEW U \in SUBSET (Calls \ Live), NEW D, NEW w, Sane(w, Live, U, D), NEW c \in Calls,
         NEW O \in SUBSET Calls, Live \subseteq O, NEW E, Settled(w, Live, O, E)
  PROVE  Settled(SeparateOne(w, c), Live, O, E) /\ Settled(SeparateEvery(w, c), Live, O, E)
<1>. DEFINE I == {x \in (0..NCalls) \X Mixer : Sane(x[2], Live, U, D) /\ Settled(x[2], Live, O, E)}
            h == Hold(w, c)
<1>0. w \in Mixer
  BY DEF Sane
<1>1. <<0, h>> \in I
  <2>1. Sane(h, Live, U, D) /\ Settled(h, Live, O, E)
    BY <1>0, HoldSane, HoldSettled
  <2>. QED  BY <2>1, ConferenceAssumption DEF Sane
<1>2. ASSUME NEW k \in Calls, NEW v, <<k - 1, v>> \in I
      PROVE  <<k, IF k \in Live \ {c} THEN Leave(v, k, v.port[k], FALSE) ELSE v>> \in I
  <2>1. Sane(v, Live, U, D) /\ Settled(v, Live, O, E) /\ k \in 0..NCalls
    BY <1>2, ConferenceAssumption DEF Calls
  <2>2. Sane(Leave(v, k, v.port[k], FALSE), Live, U, D)
        /\ Settled(Leave(v, k, v.port[k], FALSE), Live, O, E)
    BY <2>1, LeaveSane, LeaveSettled
  <2>. QED  BY <2>1, <2>2 DEF Sane
<1>3. <<NCalls, LeaveEach(Live \ {c}, h)>> \in I
  <2>. HIDE DEF I, h
  <2>. QED  BY <1>1, <1>2, LeaveLoop
<1>4. SeparateEvery(w, c) = LeaveEach(Live \ {c}, h)
  BY DEF SeparateEvery, LeaveEach
<1>5. Sane(Leave(w, c, w.port[c], FALSE), Live, U, D)
      /\ Settled(Leave(w, c, w.port[c], FALSE), Live, O, E)
  BY LeaveSane, LeaveSettled
<1>6. Leave(w, c, w.port[c], FALSE) \in Mixer
  BY <1>5 DEF Sane
<1>7. Settled(SeparateOne(w, c), Live, O, E)
  BY <1>5, <1>6, HoldSettled DEF SeparateOne
<1>. QED  BY <1>3, <1>4, <1>7

LEMMA NewPortSettled ==
  ASSUME NEW w, NEW L \in SUBSET Calls, NEW U, NEW D, Sane(w, L, U, D), NEW c \in L,
         NEW M, NEW O, NEW E, Settled(w, M, O, E)
  PROVE  Settled(NewPort(w, c), M, O, E)
<1>1. NewPort(w, c).conf = w.conf /\ NewPort(w, c).rec = w.rec /\ NewPort(w, c).rport = w.rport
  BY NewPortSane
<1>. QED  BY <1>1, SettledSame

LEMMA MediaSettled ==
  ASSUME NEW U \in SUBSET (Calls \ Live), NEW D, NEW w, Sane(w, Live, U, D), NEW c \in Live, NEW m,
         NEW O \in SUBSET Calls, Live \subseteq O, NEW E, Settled(w, Live, O, E)
  PROVE  Settled(MediaCallback(w, c, m), Live, O, E)
<1>. DEFINE p == w.port[c]
            j == Join(w, c)
            w1 == Connect(j, Both(p, {SoundCard}))
            w2 == Connect(w1, {<<p, w1.rport[w1.rec[c]]>>})
            l == Leave(w, c, p, TRUE)
            l1 == Disconnect(l, Both(p, {SoundCard}))
<1>1. Settled(j, Live, O, E) /\ j \in Mixer
  BY JoinSettled, JoinSane DEF Sane
<1>2. MediaCallback(w, c, m) \in {w1, w2, l1}
  BY DEF MediaCallback
<1>. HIDE DEF j
<1>3. w1 \in Mixer /\ w1.conf = j.conf /\ w1.rec = j.rec /\ w1.rport = j.rport
  BY <1>1, ConnectFields DEF SameCalls
<1>. HIDE DEF w1
<1>4. w2.conf = w1.conf /\ w2.rec = w1.rec /\ w2.rport = w1.rport
  BY <1>3, ConnectFields DEF SameCalls
<1>5. Settled(l, Live, O, E) /\ l \in Mixer
  <2>1. Sane(l, Live, U, D)
    BY LeaveSane, LiveCalls
  <2>2. Settled(l, Live, O, E)
    BY LeaveSettled, LiveCalls
  <2>. QED  BY <2>1, <2>2 DEF Sane
<1>. HIDE DEF l
<1>6. l1.conf = l.conf /\ l1.rec = l.rec /\ l1.rport = l.rport
  BY <1>5, DisconnectFields DEF SameCalls
<1>. HIDE DEF w2, l1
<1>7. Settled(w1, Live, O, E)
  BY <1>1, <1>3, SettledSame
<1>8. Settled(w2, Live, O, E) /\ Settled(l1, Live, O, E)
  BY <1>4, <1>5, <1>6, <1>7, SettledSame
<1>. QED  BY <1>2, <1>7, <1>8

LEMMA OnEndCallSettled ==
  ASSUME NEW U \in SUBSET (Calls \ Live), NEW D, NEW x \in Uis, Sane(x.w, Live, U, D),
         NEW c \in Calls, NEW p, p = x.w.port[c] \/ c \notin Live,
         NEW O \in SUBSET Calls, Live \subseteq O, NEW E, Settled(x.w, Live, O, E)
  PROVE  Settled(OnEndCall(x, c, p).w, Live, O, E)
<1>. DEFINE l == Leave(x.w, c, p, FALSE)
            v == RecordingStop(l, c, FALSE)
<1>1. Sane(l, Live, U, D) /\ Settled(l, Live, O, E)
  BY LeaveSane, LeaveSettled
<1>. HIDE DEF l
<1>2. Settled(v, Live, O, E)
  BY <1>1, RecordingStopSettled
<1>. HIDE DEF v
<1>3. OnEndCall(x, c, p).w = IF c \notin x.tab THEN x.w ELSE v
  BY DEF OnEndCall, v, l, Uis
<1>. QED  BY <1>2, <1>3

LEMMA HangUpSettled ==
  ASSUME NEW U \in SUBSET (Calls \ Live), NEW D, NEW x \in Uis, Sane(x.w, Live, U, D), NEW c \in Calls,
         NEW O \in SUBSET Calls, Live \subseteq O, NEW E, Settled(x.w, Live, O, E)
  PROVE  Settled(HangUpFast(x, c).w, Live, O, E)
<1>. DEFINE p == x.w.port[c]
            W == Both(p, {SoundCard})
            v == Disconnect(x.w, W)
            y == [x EXCEPT !.ending = @ \cup {c}, !.w = Disconnect(@, W)]
<1>1. Sane(v, Live, U, D)
  BY DisconnectSane
<1>2. v \in Mixer /\ v.port = x.w.port /\ v.conf = x.w.conf /\ v.rec = x.w.rec /\ v.rport = x.w.rport
  <2>1. x.w \in Mixer
    BY DEF Sane
  <2>. QED  BY <2>1, DisconnectFields DEF SameCalls
<1>3. y \in Uis /\ y.w = v
  BY <1>2 DEF Uis
<1>4. HangUpFast(x, c) = OnEndCall(y, c, p)
  BY DEF HangUpFast
<1>. HIDE DEF v, y
<1>5. Settled(v, Live, O, E)
  BY <1>2, SettledSame
<1>. QED  BY <1>1, <1>2, <1>3, <1>4, <1>5, OnEndCallSettled

\* Nothing but hang-ups happens in the loop of msip_call_end: what it does to
\* tabs, timers and flags.
LEMMA EndCallSettled ==
  ASSUME NEW U \in SUBSET (Calls \ Live), NEW D, NEW x \in Uis, Sane(x.w, Live, U, D), NEW c \in Calls,
         NEW O \in SUBSET Calls, Live \subseteq O, NEW E, Settled(x.w, Live, O, E),
         x.timers \subseteq x.tab
  PROVE  LET y == EndCall(x, c)
         IN  /\ Settled(y.w, Live, O, E)
             /\ y.timers \subseteq x.timers /\ y.timers \subseteq y.tab
             /\ x.ending \subseteq y.ending /\ x.tab \subseteq y.tab \cup y.ending
<1>. DEFINE J(y) == /\ y \in Uis /\ Sane(y.w, Live, U, D) /\ Settled(y.w, Live, O, E)
                    /\ y.timers \subseteq x.timers /\ y.timers \subseteq y.tab
                    /\ x.ending \subseteq y.ending /\ x.tab \subseteq y.tab \cup y.ending
            I == {y \in (0..NCalls) \X Uis : J(y[2])}
            all == EndEach(Live \ {c}, x)
<1>1. <<0, x>> \in I /\ J(x)
  BY ConferenceAssumption
<1>2. ASSUME NEW v, J(v), NEW k \in Calls
      PROVE  J(HangUpFast(v, k))
  <2>1. HangUpFast(v, k) \in Uis /\ Sane(HangUpFast(v, k).w, Live, U, D)
        /\ Settled(HangUpFast(v, k).w, Live, O, E)
    BY <1>2, HangUpSane, HangUpSettled
  <2>2. HungUp(HangUpFast(v, k), v, k)
    BY <1>2, HangUpConf
  <2>. QED  BY <1>2, <2>1, <2>2 DEF HungUp
<1>. HIDE DEF J
<1>3. ASSUME NEW k \in Calls, NEW v, <<k - 1, v>> \in I
      PROVE  <<k, IF k \in Live \ {c} THEN EndMember(v, k) ELSE v>> \in I
  <2>1. J(v) /\ v \in Uis /\ k \in 0..NCalls
    BY <1>3, ConferenceAssumption DEF Calls
  <2>2. J(HangUpFast(v, k)) /\ HangUpFast(v, k) \in Uis
    BY <1>2, <2>1 DEF J
  <2>. QED  BY <2>1, <2>2 DEF EndMember
<1>4. <<NCalls, all>> \in I
  <2>. HIDE DEF I
  <2>. QED  BY <1>1, <1>3, EndLoop
<1>5. J(all)
  BY <1>4
<1>6. EndCall(x, c) = HangUpFast(IF c \in x.w.conf /\ Confirmed(c) THEN all ELSE x, c)
  BY DEF EndCall, EndEach
<1>. HIDE DEF all
<1>7. J(EndCall(x, c))
  BY <1>1, <1>2, <1>5, <1>6
<1>. QED  BY <1>7 DEF J

-----------------------------------------------------------------------------
(* The invariant when every call has a tab of its own.                     *)

OwnTabs == SameParty = {}

\* The calls of which a message of this type waits.
Waiting(type) ==
  {c \in Calls : \E i \in 1..Len(queue) : queue[i].type = type /\ queue[i].call = c}

\* The message of its end is the last of a call.
LastWord ==
  \A i, j \in 1..Len(queue) :
    queue[i].type = "disconnected" /\ queue[j].call = queue[i].call => j <= i

\* Only what is over, and of which no message waits, is deleted.
DeletedLast ==
  /\ freed \subseteq {c \in Calls : st[c] = "over"}
  /\ \A i \in 1..Len(queue) : queue[i].call \notin freed

\* A call with a timer is shown by a tab, or will be before its end is handled.
TimersShown == timers \subseteq tab \cup Waiting("confirmed")

\* A call that began and that the user did not hang up is shown by a tab, or
\* will be, until its user data are deleted.
CallsShown ==
  \A c \in Calls \ Idle : c \in tab \cup ending \cup freed \cup Waiting("connecting")

\* The calls that may be members and have a recorder: those that exist, those
\* whose end is not handled yet, and those the user hung up.
Owners == Live \cup ending \cup Waiting("disconnected")

EInv ==
  /\ IInv
  /\ LastWord /\ DeletedLast /\ TimersShown /\ CallsShown /\ TimerInLiveObject
  /\ Settled(mix, Live, Owners, dropped)

LEMMA WaitingPosted ==
  ASSUME TypeOK, NEW type \in {"connecting", "confirmed", "disconnected"}, NEW c \in Calls,
         NEW p \in {None} \cup Ports, Post(type, c, p)
  PROVE  \A t : Waiting(t)' = Waiting(t) \cup (IF t = type THEN {c} ELSE {})
<1>. DEFINE m == [type |-> type, call |-> c, port |-> p]
<1>1. /\ Len(queue') = Len(queue) + 1 /\ Len(queue) \in Nat
      /\ \A i \in 1..Len(queue) : queue'[i] = queue[i]
      /\ queue'[Len(queue) + 1] = m
  BY Posted
<1>2. m.type = type /\ m.call = c
  OBVIOUS
<1>. HIDE DEF m
<1>3. ASSUME NEW t, NEW b \in Calls
      PROVE  (\E i \in 1..Len(queue') : queue'[i].type = t /\ queue'[i].call = b)
               <=> \/ \E i \in 1..Len(queue) : queue[i].type = t /\ queue[i].call = b
                   \/ type = t /\ c = b
  <2>1. ASSUME NEW i \in 1..Len(queue'), queue'[i].type = t, queue'[i].call = b
        PROVE  \/ \E j \in 1..Len(queue) : queue[j].type = t /\ queue[j].call = b
               \/ type = t /\ c = b
    <3>1. CASE i \in 1..Len(queue)
      BY <1>1, <2>1, <3>1
    <3>2. CASE i = Len(queue) + 1
      BY <1>1, <1>2, <2>1, <3>2
    <3>. QED  BY <1>1, <3>1, <3>2
  <2>2. ASSUME NEW i \in 1..Len(queue), queue[i].type = t, queue[i].call = b
        PROVE  \E j \in 1..Len(queue') : queue'[j].type = t /\ queue'[j].call = b
    <3>1. i \in 1..Len(queue')
      BY <1>1
    <3>. QED  BY <1>1, <2>2, <3>1
  <2>3. ASSUME type = t, c = b
        PROVE  \E j \in 1..Len(queue') : queue'[j].type = t /\ queue'[j].call = b
    <3>1. Len(queue) + 1 \in 1..Len(queue')
      BY <1>1
    <3>. QED  BY <1>1, <1>2, <2>3, <3>1
  <2>. QED  BY <2>1, <2>2, <2>3
<1>. QED  BY <1>3 DEF Waiting

LEMMA WaitingHandled ==
  ASSUME TypeOK, queue # <<>>, queue' = Tail(queue)
  PROVE  \A t : /\ Waiting(t)' \subseteq Waiting(t)
                /\ \A c \in Waiting(t) : c \in Waiting(t)' \/ (Head(queue).type = t /\ Head(queue).call = c)
<1>1. /\ Len(queue') = Len(queue) - 1 /\ Len(queue) \in Nat \ {0}
      /\ \A i \in 1..Len(queue') : queue'[i] = queue[i + 1]
      /\ Head(queue) = queue[1]
  BY Handled
<1>2. ASSUME NEW t, NEW c \in Waiting(t)'
      PROVE  c \in Waiting(t)
  <2>1. PICK i \in 1..Len(queue') : queue'[i].type = t /\ queue'[i].call = c
    BY <1>2 DEF Waiting
  <2>2. i + 1 \in 1..Len(queue) /\ queue[i + 1].type = t /\ queue[i + 1].call = c
    BY <1>1, <2>1
  <2>. QED  BY <1>2, <2>2 DEF Waiting
<1>3. ASSUME NEW t, NEW c \in Waiting(t)
      PROVE  c \in Waiting(t)' \/ (Head(queue).type = t /\ Head(queue).call = c)
  <2>1. PICK i \in 1..Len(queue) : queue[i].type = t /\ queue[i].call = c
    BY <1>3 DEF Waiting
  <2>2. CASE i = 1
    BY <1>1, <2>1, <2>2
  <2>3. CASE i # 1
    <3>1. i - 1 \in 1..Len(queue') /\ queue'[i - 1] = queue[i]
      <4>1. i - 1 \in 1..Len(queue') /\ (i - 1) + 1 = i
        BY <1>1, <2>3
      <4>. QED  BY <1>1, <4>1
    <3>. QED  BY <1>3, <2>1, <3>1 DEF Waiting
  <2>. QED  BY <2>2, <2>3
<1>. QED  BY <1>2, <1>3

\* The messages after one is posted: the call still exists or begins.
LEMMA PostedLast ==
  ASSUME EInv, NEW type \in {"connecting", "confirmed", "disconnected"}, NEW c \in Calls,
         NEW p \in {None} \cup Ports, Post(type, c, p), st[c] # "over",
         \A b \in Calls : st[b] = "over" => st'[b] = "over", freed' = freed
  PROVE  LastWord' /\ DeletedLast'
<1>1. TypeOK /\ Reported /\ LastWord /\ DeletedLast
  BY DEF EInv, IInv
<1>2. /\ Len(queue') = Len(queue) + 1 /\ Len(queue) \in Nat
      /\ \A i \in 1..Len(queue) : queue'[i] = queue[i] /\ queue[i] \in Messages
      /\ queue'[Len(queue) + 1] = [type |-> type, call |-> c, port |-> p]
  BY <1>1, Posted
<1>3. c \notin freed
  BY <1>1 DEF DeletedLast
<1>4. ASSUME NEW i \in 1..Len(queue'), NEW j \in 1..Len(queue'),
             queue'[i].type = "disconnected", queue'[j].call = queue'[i].call
      PROVE  j <= i
  <2>1. CASE i = Len(queue) + 1
    BY <1>2, <2>1
  <2>2. CASE i \in 1..Len(queue) /\ j \in 1..Len(queue)
    BY <1>1, <1>2, <1>4, <2>2 DEF LastWord
  <2>3. CASE i \in 1..Len(queue) /\ j = Len(queue) + 1
    <3>1. queue[i].type = "disconnected" /\ queue[i].call = c
      BY <1>2, <1>4, <2>3
    <3>. QED  BY <1>1, <2>3, <3>1 DEF Reported
  <2>. QED  BY <1>2, <2>1, <2>2, <2>3
<1>5. ASSUME NEW i \in 1..Len(queue')
      PROVE  queue'[i].call \notin freed'
  <2>1. CASE i = Len(queue) + 1
    BY <1>2, <1>3, <2>1
  <2>2. CASE i \in 1..Len(queue)
    BY <1>1, <1>2, <2>2 DEF DeletedLast
  <2>. QED  BY <1>2, <2>1, <2>2
<1>6. freed' \subseteq {b \in Calls : st'[b] = "over"}
  BY <1>1 DEF DeletedLast
<1>. QED  BY <1>4, <1>5, <1>6 DEF LastWord, DeletedLast

\* The messages after one is handled, and what it says is deleted, if anything.
LEMMA HandledLast ==
  ASSUME EInv, queue # <<>>, queue' = Tail(queue), st' = st,
         \/ freed' = freed
         \/ Head(queue).type = "disconnected" /\ freed' = freed \cup {Head(queue).call}
  PROVE  /\ LastWord' /\ DeletedLast'
         /\ Head(queue).type = "disconnected" => \A t : Head(queue).call \notin Waiting(t)'
<1>1. TypeOK /\ Reported /\ LastWord /\ DeletedLast
  BY DEF EInv, IInv
<1>2. /\ Len(queue') = Len(queue) - 1 /\ Len(queue) \in Nat \ {0}
      /\ \A i \in 1..Len(queue') : queue'[i] = queue[i + 1]
      /\ \A i \in 1..Len(queue) : queue[i] \in Messages
      /\ Head(queue) = queue[1]
  BY <1>1, Handled
<1>3. 1 \in 1..Len(queue) /\ \A i \in 1..Len(queue') : i + 1 \in 1..Len(queue)
  BY <1>2
<1>4. LastWord'
  <2>. SUFFICES ASSUME NEW i \in 1..Len(queue'), NEW j \in 1..Len(queue'),
                       queue'[i].type = "disconnected", queue'[j].call = queue'[i].call
                PROVE  j <= i
    BY DEF LastWord
  <2>1. j + 1 <= i + 1
    BY <1>1, <1>2, <1>3 DEF LastWord
  <2>. QED  BY <2>1, <1>2
<1>5. ASSUME Head(queue).type = "disconnected", NEW i \in 1..Len(queue')
      PROVE  queue'[i].call # Head(queue).call
  <2>1. queue[i + 1].call # queue[1].call
    <3>1. ~(i + 1 <= 1)
      BY <1>2
    <3>. QED  BY <1>1, <1>2, <1>3, <1>5, <3>1 DEF LastWord
  <2>. QED  BY <1>2, <2>1
<1>6. \A i \in 1..Len(queue') : queue'[i].call \notin freed'
  BY <1>1, <1>2, <1>3, <1>5 DEF DeletedLast
<1>7. Head(queue).type = "disconnected" => st[Head(queue).call] = "over" /\ Head(queue).call \in Calls
  BY <1>1, <1>2, <1>3 DEF Reported, Messages
<1>8. freed' \subseteq {b \in Calls : st'[b] = "over"}
  BY <1>1, <1>7 DEF DeletedLast
<1>9. Head(queue).type = "disconnected" => \A t : Head(queue).call \notin Waiting(t)'
  BY <1>5 DEF Waiting
<1>. QED  BY <1>4, <1>6, <1>8, <1>9 DEF DeletedLast

-----------------------------------------------------------------------------
(* The steps.                                                              *)

LEMMA OwnersFacts ==
  ASSUME IInv
  PROVE  Owners \in SUBSET Calls /\ Live \subseteq Owners /\ Idle \in SUBSET (Calls \ Live)
         /\ Sane(mix, Live, Idle, dropped) /\ mix \in Mixer /\ TypeOK
  BY LiveOrIdle DEF Owners, Waiting, IInv, TypeOK, Sane

\* A step without messages and new calls.
LEMMA QuietStep ==
  ASSUME EInv, IInv', UNCHANGED <<st, queue, freed>>,
         ending \subseteq ending', dropped \subseteq dropped',
         tab \subseteq tab' \cup ending',
         timers' \subseteq timers, timers' \subseteq tab' \cup Waiting("confirmed"),
         Settled(mix', Live, Owners, dropped)
  PROVE  EInv'
<1>1. \A t : Waiting(t)' = Waiting(t)
  BY DEF Waiting
<1>2. Live' = Live /\ Idle' = Idle
  BY LiveOrIdle
<1>3. LastWord' /\ DeletedLast'
  BY DEF EInv, LastWord, DeletedLast
<1>4. TimersShown' /\ TimerInLiveObject'
  BY <1>1 DEF EInv, TimersShown, TimerInLiveObject
<1>5. CallsShown'
  BY <1>1, <1>2 DEF EInv, CallsShown
<1>6. Owners \subseteq Owners'
  BY <1>1, <1>2 DEF Owners
<1>7. Settled(mix', Live', Owners', dropped')
  BY <1>2, <1>6, SettledMore
<1>. QED  BY <1>3, <1>4, <1>5, <1>7 DEF EInv

LEMMA MenuEnds ==
  ASSUME EInv, IInv', AC' = AC, NEW c \in Calls,
         MergeAll(c) \/ Separate(c) \/ SeparateAll(c) \/ HoldButton(c) \/ RecButton(c)
           \/ \E d \in Calls : Merge(c, d)
  PROVE  EInv'
<1>1. /\ Owners \in SUBSET Calls /\ Live \subseteq Owners /\ Idle \in SUBSET (Calls \ Live)
      /\ Sane(mix, Live, Idle, dropped) /\ mix \in Mixer /\ Settled(mix, Live, Owners, dropped)
  BY OwnersFacts DEF EInv
<1>2. Settled(mix', Live, Owners, dropped)
  <2>1. CASE MergeAll(c)
    BY <1>1, <2>1, MergeEverySettled DEF MergeAll, Selected
  <2>2. CASE Separate(c)
    BY <1>1, <2>2, SeparateSettled DEF Separate
  <2>3. CASE SeparateAll(c)
    BY <1>1, <2>3, SeparateSettled DEF SeparateAll
  <2>4. CASE HoldButton(c)
    BY <1>1, <2>4, HoldSettled DEF HoldButton
  <2>5. CASE RecButton(c)
    <3>1. c \in Live
      BY <2>5 DEF RecButton, Selected
    <3>2. Settled(RecordingStart(mix, c), Live, Owners, dropped)
      BY <1>1, <3>1, RecordingStartSettled
    <3>3. Settled(RecordingStop(mix, c, TRUE), Live, Owners, dropped)
      BY <1>1, RecordingStopSettled
    <3>. QED  BY <2>5, <3>2, <3>3 DEF RecButton
  <2>6. CASE \E d \in Calls : Merge(c, d)
    BY <1>1, <2>6, MergeWithSettled DEF Merge, Selected
  <2>. QED  BY <2>1, <2>2, <2>3, <2>4, <2>5, <2>6
<1>3. OnlyMix
  BY DEF MergeAll, Separate, SeparateAll, HoldButton, RecButton, Merge
<1>4. timers \subseteq tab \cup Waiting("confirmed")
  BY DEF EInv, TimersShown
<1>. QED  BY <1>2, <1>3, <1>4, QuietStep DEF OnlyMix

\* The user hangs up when no message waits: every call with a timer is shown.
LEMMA EndEnds ==
  ASSUME EInv, IInv', AC' = AC, NEW c \in Calls, EndButton(c) \/ HangUp(c), queue = <<>>
  PROVE  EInv'
<1>1. /\ Owners \in SUBSET Calls /\ Live \subseteq Owners /\ Idle \in SUBSET (Calls \ Live)
      /\ Sane(mix, Live, Idle, dropped) /\ mix \in Mixer /\ Settled(mix, Live, Owners, dropped)
      /\ TypeOK
  BY OwnersFacts DEF EInv
<1>2. /\ Ui \in Uis /\ Ui.w = mix /\ Ui.tab = tab /\ Ui.timers = timers /\ Ui.ending = ending
  BY <1>1 DEF Ui, Uis, TypeOK
<1>3. \A t : Waiting(t) = {}
  BY DEF Waiting
<1>4. timers \subseteq tab
  BY <1>3 DEF EInv, TimersShown
<1>. HIDE DEF Ui
<1>5. CASE EndButton(c)
  <2>. DEFINE y == EndCall(Ui, c)
  <2>1. Becomes(y) /\ UNCHANGED <<st, freed, dropped, queue>>
    BY <1>5 DEF EndButton
  <2>2. /\ Settled(y.w, Live, Owners, dropped)
        /\ y.timers \subseteq timers /\ y.timers \subseteq y.tab
        /\ ending \subseteq y.ending /\ tab \subseteq y.tab \cup y.ending
    BY <1>1, <1>2, <1>4, EndCallSettled
  <2>. HIDE DEF y
  <2>. QED  BY <2>1, <2>2, QuietStep DEF Becomes
<1>6. CASE HangUp(c)
  <2>. DEFINE y == HangUpFast(Ui, c)
  <2>1. Becomes(y) /\ UNCHANGED <<st, freed, dropped, queue>>
    BY <1>6 DEF HangUp
  <2>2. Settled(y.w, Live, Owners, dropped)
    BY <1>1, <1>2, HangUpSettled
  <2>3. HungUp(y, Ui, c)
    BY <1>1, <1>2, HangUpConf
  <2>. HIDE DEF y
  <2>4. /\ y.timers \subseteq timers /\ y.timers \subseteq y.tab
        /\ ending \subseteq y.ending /\ tab \subseteq y.tab \cup y.ending
    BY <1>2, <1>4, <2>3 DEF HungUp
  <2>. QED  BY <2>1, <2>2, <2>4, QuietStep DEF Becomes
<1>. QED  BY <1>5, <1>6

\* A new call that the user dials: a tab shows it at once.
LEMMA DialledStep ==
  ASSUME EInv, IInv', NEW c \in Calls, NewCall(c), tab' = tab \cup {c},
         UNCHANGED <<queue, freed, timers, ending>>, dropped' = dropped,
         Settled(mix', Live', Owners \cup {c}, dropped')
  PROVE  EInv'
<1>1. \A t : Waiting(t)' = Waiting(t)
  BY DEF Waiting
<1>2. Live' = Live \cup {c} /\ Idle' = Idle \ {c} /\ \A b \in Calls : st[b] = "over" => st'[b] = "over"
  BY NewCallLive DEF EInv, IInv
<1>3. LastWord' /\ DeletedLast'
  BY <1>2 DEF EInv, LastWord, DeletedLast
<1>4. TimersShown' /\ TimerInLiveObject'
  BY <1>1 DEF EInv, TimersShown, TimerInLiveObject
<1>5. CallsShown'
  BY <1>1, <1>2 DEF EInv, CallsShown
<1>6. Owners' = Owners \cup {c}
  BY <1>1, <1>2 DEF Owners
<1>. QED  BY <1>3, <1>4, <1>5, <1>6 DEF EInv

\* A call that begins is no member, so nobody is alone because of it.
LEMMA BeginsSettled ==
  ASSUME IInv, NEW c \in Idle, NEW w, Settled(w, Live, Owners, dropped), c \notin w.conf
  PROVE  Settled(w, Live \cup {c}, Owners \cup {c}, dropped)
  BY DEF Settled

LEMMA DialEnds ==
  ASSUME EInv, IInv', AC' = AC, NEW c \in Calls, Dial(c)
  PROVE  EInv'
<1>1. /\ Sane(mix, Live, Idle, dropped) /\ mix \in Mixer /\ Settled(mix, Live, Owners, dropped)
      /\ TypeOK /\ IInv
  BY OwnersFacts DEF EInv
<1>2. NewCall(c) /\ mix' = Unhold(mix, c) /\ tab' = tab \cup {c}
      /\ UNCHANGED <<queue, freed, timers, ending, dropped>>
  BY DEF Dial
<1>3. c \in Idle /\ Live' = Live \cup {c}
  BY <1>1, <1>2, NewCallLive
<1>4. Settled(mix', Live, Owners, dropped) /\ c \notin mix'.conf
  <2>1. mix'.conf = mix.conf
    BY <1>1, <1>2, HoldSame DEF SameBridge
  <2>2. c \notin mix.conf
    BY <1>1, <1>3 DEF Sane
  <2>. QED  BY <1>1, <1>2, <2>1, <2>2, HoldSettled
<1>5. Settled(mix', Live', Owners \cup {c}, dropped')
  BY <1>1, <1>2, <1>3, <1>4, BeginsSettled
<1>. QED  BY <1>2, <1>5, DialledStep

LEMMA InviteEnds ==
  ASSUME EInv, IInv', AC' = AC, NEW s \in Calls, NEW c \in Calls, Invite(s, c)
  PROVE  EInv'
<1>. DEFINE w == Unhold(mix, s)
            w1 == [w EXCEPT !.conf = @ \cup {s, c}]
<1>1. /\ Sane(mix, Live, Idle, dropped) /\ mix \in Mixer /\ Settled(mix, Live, Owners, dropped)
      /\ TypeOK /\ IInv /\ Owners \in SUBSET Calls /\ Live \subseteq Owners
  BY OwnersFacts DEF EInv
<1>2. w \in Mixer /\ Settled(w, Live, Owners, dropped)
  BY <1>1, HoldSame, HoldSettled
<1>3. s \in Live /\ UNCHANGED <<queue, freed, timers, ending>>
  BY DEF Invite, Selected
<1>4. CASE NewCall(c) /\ tab' = tab \cup {c} /\ dropped' = dropped /\ mix' = Unhold(w1, c)
  <2>1. c \in Idle /\ c \notin Live /\ Live' = Live \cup {c}
    BY <1>1, <1>4, NewCallLive
  <2>. HIDE DEF w
  <2>2. w1 \in Mixer /\ w1.conf = w.conf \cup {s, c} /\ w1.rec = w.rec /\ w1.rport = w.rport
    BY <1>2 DEF Mixer
  <2>. HIDE DEF w1
  <2>3. Settled(w1, Live', Owners \cup {c}, dropped')
    <3>1. \A b : w1.conf # {b}
      BY <1>3, <2>1, <2>2
    <3>2. w1.conf \subseteq Owners \cup {c}
      BY <1>1, <1>2, <1>3, <2>2 DEF Settled
    <3>3. \A r \in OpenRecorders(w1) : \E b \in Owners \cup {c} : w1.rec[b] = r
      BY <1>2, <2>2 DEF Settled, OpenRecorders
    <3>. QED  BY <3>1, <3>2, <3>3 DEF Settled
  <2>4. Settled(mix', Live', Owners \cup {c}, dropped')
    BY <1>4, <2>2, <2>3, HoldSettled
  <2>. QED  BY <1>3, <1>4, <2>4, DialledStep
<1>5. CASE mix' = [w EXCEPT !.conf = @ \ {s}] /\ dropped' = dropped \cup {s} /\ UNCHANGED <<st, tab>>
  <2>. HIDE DEF w
  <2>1. mix'.conf = w.conf \ {s} /\ mix'.rec = w.rec /\ mix'.rport = w.rport
    BY <1>2, <1>5 DEF Mixer
  <2>2. Settled(mix', Live, Owners, dropped')
    BY <1>2, <1>5, <2>1 DEF Settled, OpenRecorders
  <2>3. \A t : Waiting(t)' = Waiting(t)
    BY <1>3 DEF Waiting
  <2>4. Live' = Live /\ Idle' = Idle /\ Owners' = Owners
    BY <1>3, <1>5, <2>3, LiveOrIdle DEF Owners
  <2>5. LastWord' /\ DeletedLast' /\ TimersShown' /\ TimerInLiveObject' /\ CallsShown'
    BY <1>3, <1>5, <2>3, <2>4
       DEF EInv, LastWord, DeletedLast, TimersShown, TimerInLiveObject, CallsShown
  <2>. QED  BY <2>2, <2>4, <2>5 DEF EInv
<1>. QED  BY <1>4, <1>5 DEF Invite

LEMMA AnswerEnds ==
  ASSUME EInv, IInv', AC' = AC, NEW c \in Calls, Answer(c)
  PROVE  EInv'
<1>. DEFINE w == NewPort(mix, c)
            p == w.port[c]
            w1 == Connect(w, Both(p, {SoundCard}))
<1>1. /\ Sane(mix, Live, Idle, dropped) /\ mix \in Mixer /\ Settled(mix, Live, Owners, dropped)
      /\ TypeOK /\ IInv
  BY OwnersFacts DEF EInv
<1>2. /\ NewCall(c) /\ mix' = Unhold(MediaCallback(w, c, "active"), c)
      /\ Post("connecting", c, None)
      /\ UNCHANGED <<ending, timers, freed, dropped, tab>>
  BY DEF Answer
<1>3. /\ c \in Idle /\ c \notin Live /\ Live' = Live \cup {c} /\ Idle' = Idle \ {c}
      /\ st[c] # "over" /\ \A b \in Calls : st[b] = "over" => st'[b] = "over"
  BY <1>1, <1>2, NewCallLive DEF Idle
<1>4. mix.rec[c] = None /\ c \notin mix.conf
  BY <1>1, <1>3 DEF Sane
<1>5. Sane(mix, Live', Idle', dropped')
  BY <1>1, <1>2, <1>3, <1>4, LiveOrIdle, SaneMore
<1>6. /\ w.conf = mix.conf /\ w.rec = mix.rec /\ w.rport = mix.rport /\ w \in Mixer
  <2>1. c \in Live' /\ Live' \in SUBSET Calls
    BY <1>3, LiveOrIdle
  <2>2. Sane(w, Live', Idle', dropped')
    BY <1>5, <2>1, NewPortSane
  <2>. QED  BY <1>5, <2>1, <2>2, NewPortSane DEF Sane
<1>. HIDE DEF w
<1>7. w1 \in Mixer /\ w1.conf = w.conf /\ w1.rec = w.rec /\ w1.rport = w.rport
  BY <1>6, ConnectFields DEF SameCalls
<1>8. MediaCallback(w, c, "active") = w1
  <2>1. Join(w, c) = w
    BY <1>4, <1>6 DEF Join
  <2>2. w1.rec[c] = None
    BY <1>4, <1>6, <1>7
  <2>. QED  BY <2>1, <2>2 DEF MediaCallback
<1>. HIDE DEF w1
<1>9. Settled(w1, Live, Owners, dropped)
  BY <1>1, <1>6, <1>7, SettledSame
<1>10. Settled(mix', Live, Owners, dropped) /\ mix'.conf = mix.conf
  <2>1. SameBridge(mix', w1)
    BY <1>2, <1>7, <1>8, HoldSame
  <2>. QED  BY <1>2, <1>6, <1>7, <1>8, <1>9, <2>1, HoldSettled DEF SameBridge
<1>11. \A t : Waiting(t)' = Waiting(t) \cup (IF t = "connecting" THEN {c} ELSE {})
  BY <1>1, <1>2, WaitingPosted
<1>12. Settled(mix', Live', Owners', dropped')
  <2>1. Settled(mix', Live', Owners \cup {c}, dropped')
    BY <1>1, <1>2, <1>3, <1>4, <1>10, BeginsSettled
  <2>2. Owners' = Owners \cup {c}
    <3>1. Waiting("disconnected")' = Waiting("disconnected")
      BY <1>11
    <3>. QED  BY <1>2, <1>3, <3>1 DEF Owners
  <2>. QED  BY <2>1, <2>2
<1>13. LastWord' /\ DeletedLast'
  BY <1>1, <1>2, <1>3, PostedLast
<1>14. TimersShown' /\ TimerInLiveObject'
  <2>1. Waiting("confirmed")' = Waiting("confirmed")
    BY <1>11
  <2>. QED  BY <1>2, <2>1 DEF EInv, TimersShown, TimerInLiveObject
<1>15. CallsShown'
  <2>1. Waiting("connecting")' = Waiting("connecting") \cup {c}
    BY <1>11
  <2>. QED  BY <1>2, <1>3, <2>1 DEF EInv, CallsShown
<1>. QED  BY <1>12, <1>13, <1>14, <1>15 DEF EInv

LEMMA MediaEnds ==
  ASSUME EInv, IInv', AC' = AC, NEW c \in Calls,
         FirstMedia(c) \/ ReinviteAccepted(c) \/ RemoteReinvite(c)
  PROVE  EInv'
<1>1. /\ Owners \in SUBSET Calls /\ Live \subseteq Owners /\ Idle \in SUBSET (Calls \ Live)
      /\ Sane(mix, Live, Idle, dropped) /\ mix \in Mixer /\ Settled(mix, Live, Owners, dropped)
      /\ Live \in SUBSET Calls
  BY OwnersFacts, LiveOrIdle DEF EInv
<1>2. PICK w \in Mixer, m \in {"none", "active", "hold", "remoteHold"} :
        /\ Sane(w, Live, Idle, dropped) /\ MediaUpdate(w, c, m)
        /\ w.conf = mix.conf /\ w.rec = mix.rec /\ w.rport = mix.rport
  <2>1. CASE FirstMedia(c)
    BY <1>1, <2>1 DEF FirstMedia
  <2>2. CASE ReinviteAccepted(c)
    <3>. DEFINE v == [mix EXCEPT !.reinv = @ \ {c}]
    <3>1. v \in Mixer /\ SameBridge(v, mix)
      BY <1>1 DEF Mixer, SameBridge
    <3>2. Sane(v, Live, Idle, dropped)
      BY <1>1, <3>1, SameBridgeSane
    <3>3. MediaUpdate(v, c, IF c \in mix.held THEN "hold" ELSE "active")
      BY <2>2 DEF ReinviteAccepted
    <3>. HIDE DEF v
    <3>. QED  BY <3>1, <3>2, <3>3 DEF SameBridge
  <2>3. CASE RemoteReinvite(c)
    BY <1>1, <2>3 DEF RemoteReinvite
  <2>. QED  BY <2>1, <2>2, <2>3
<1>3. c \in Live
  BY DEF FirstMedia, ReinviteAccepted, RemoteReinvite, Confirmed, Live
<1>4. Settled(w, Live, Owners, dropped)
  BY <1>1, <1>2, SettledSame
<1>5. Settled(NewPort(w, c), Live, Owners, dropped) /\ Sane(NewPort(w, c), Live, Idle, dropped)
  BY <1>1, <1>2, <1>3, <1>4, NewPortSettled, NewPortSane
<1>6. Settled(MediaCallback(NewPort(w, c), c, m), Live, Owners, dropped)
  BY <1>1, <1>3, <1>5, MediaSettled
<1>7. Settled(mix', Live, Owners, dropped)
  BY <1>2, <1>4, <1>6 DEF MediaUpdate
<1>8. UNCHANGED <<st, ending, timers, freed, dropped, tab, queue>>
  BY DEF FirstMedia, ReinviteAccepted, RemoteReinvite
<1>9. timers \subseteq tab \cup Waiting("confirmed")
  BY DEF EInv, TimersShown
<1>. QED  BY <1>7, <1>8, <1>9, QuietStep

\* The timer of a call is set when its CONFIRMED message is posted.
LEMMA ConfirmEnds ==
  ASSUME EInv, IInv', AC' = AC, NEW c \in Calls, Confirm(c)
  PROVE  EInv'
<1>. DEFINE w == IF c \in Outgoing THEN Unhold(mix, c) ELSE mix
<1>1. /\ Owners \in SUBSET Calls /\ Live \subseteq Owners /\ Idle \in SUBSET (Calls \ Live)
      /\ Sane(mix, Live, Idle, dropped) /\ mix \in Mixer /\ Settled(mix, Live, Owners, dropped)
      /\ TypeOK
  BY OwnersFacts DEF EInv
<1>2. /\ st[c] = "setup" /\ st' = [st EXCEPT ![c] = "confirmed"]
      /\ mix' = (IF AutoRecording THEN RecordingStart(w, c) ELSE w)
      /\ timers' \subseteq timers \cup {c}
      /\ Post("confirmed", c, None)
      /\ UNCHANGED <<media, ending, freed, dropped, tab, ops, reinvs>>
  BY DEF Confirm
<1>3. c \in Live
  BY <1>2 DEF Live
<1>4. Sane(w, Live, Idle, dropped) /\ Settled(w, Live, Owners, dropped)
  BY <1>1, HoldSane, HoldSettled
<1>. HIDE DEF w
<1>5. Settled(mix', Live, Owners, dropped)
  BY <1>1, <1>2, <1>3, <1>4, RecordingStartSettled
<1>6. Live' = Live /\ Idle' = Idle /\ (\A b \in Calls : st[b] = "over" => st'[b] = "over")
  BY <1>1, <1>2 DEF Live, Idle, TypeOK
<1>7. \A t : Waiting(t)' = Waiting(t) \cup (IF t = "confirmed" THEN {c} ELSE {})
  BY <1>1, <1>2, WaitingPosted
<1>8. LastWord' /\ DeletedLast'
  BY <1>2, <1>6, PostedLast
<1>9. /\ Waiting("confirmed")' = Waiting("confirmed") \cup {c}
      /\ Waiting("connecting")' = Waiting("connecting")
      /\ Waiting("disconnected")' = Waiting("disconnected")
  BY <1>7
<1>10. TimersShown' /\ CallsShown'
  BY <1>2, <1>6, <1>9 DEF EInv, TimersShown, CallsShown
<1>11. TimerInLiveObject'
  BY <1>2 DEF EInv, DeletedLast, TimerInLiveObject
<1>12. Settled(mix', Live', Owners', dropped')
  BY <1>2, <1>5, <1>6, <1>9 DEF Owners
<1>. QED  BY <1>8, <1>10, <1>11, <1>12 DEF EInv

LEMMA SmallEnds ==
  ASSUME EInv, IInv',
         \/ \E c \in Calls : ReinviteRefused(c) \/ TimerFires(c)
         \/ ACButton \/ UNCHANGED vars
  PROVE  EInv'
<1>1. mix \in Mixer /\ Settled(mix, Live, Owners, dropped)
  BY OwnersFacts DEF EInv
<1>2. mix'.conf = mix.conf /\ mix'.rec = mix.rec /\ mix'.rport = mix.rport
  BY <1>1 DEF ReinviteRefused, TimerFires, ACButton, vars, calls, Mixer
<1>3. Settled(mix', Live, Owners, dropped)
  BY <1>1, <1>2, SettledSame
<1>4. timers \subseteq tab \cup Waiting("confirmed")
  BY DEF EInv, TimersShown
<1>5. /\ UNCHANGED <<st, queue, freed, dropped, tab>>
      /\ ending \subseteq ending' /\ timers' \subseteq timers
  BY DEF ReinviteRefused, TimerFires, ACButton, vars, calls
<1>. QED  BY <1>3, <1>4, <1>5, QuietStep

\* A call that ends is still a member and records until its message is handled.
LEMMA DisconnectedEnds ==
  ASSUME EInv, IInv', AC' = AC, NEW c \in Calls, Disconnected(c)
  PROVE  EInv'
<1>. DEFINE p == mix.port[c]
            w == RemovePort(mix, p)
<1>1. /\ Sane(mix, Live, Idle, dropped) /\ mix \in Mixer /\ Settled(mix, Live, Owners, dropped)
      /\ TypeOK
  BY OwnersFacts DEF EInv
<1>2. /\ c \in Live /\ st' = [st EXCEPT ![c] = "over"]
      /\ mix' = [w EXCEPT !.port[c] = None, !.held = @ \ {c}, !.reinv = @ \ {c}]
      /\ Post("disconnected", c, p)
      /\ UNCHANGED <<ending, timers, freed, dropped, tab, ops, reinvs>>
  BY DEF Disconnected
<1>3. w \in Mixer /\ SameCalls(w, mix) /\ w.rec = mix.rec /\ w.rport = mix.rport
  BY <1>1, RemovePortSane
<1>4. p \in {None} \cup Ports
  BY <1>1 DEF Mixer
<1>. HIDE DEF w, p
<1>5. mix'.rec = mix.rec /\ mix'.rport = mix.rport /\ mix'.conf = mix.conf
  BY <1>2, <1>3 DEF Mixer, SameCalls
<1>6. Live' = Live \ {c} /\ Idle' = Idle /\ (\A b \in Calls : st[b] = "over" => st'[b] = "over")
      /\ st[c] # "over"
  BY <1>1, <1>2 DEF Live, Idle, TypeOK
<1>7. \A t : Waiting(t)' = Waiting(t) \cup (IF t = "disconnected" THEN {c} ELSE {})
  BY <1>1, <1>2, <1>4, WaitingPosted
<1>8. /\ Waiting("confirmed")' = Waiting("confirmed")
      /\ Waiting("connecting")' = Waiting("connecting")
      /\ Waiting("disconnected")' = Waiting("disconnected") \cup {c}
  BY <1>7
<1>9. LastWord' /\ DeletedLast'
  BY <1>2, <1>4, <1>6, PostedLast
<1>10. TimersShown' /\ CallsShown' /\ TimerInLiveObject'
  BY <1>2, <1>6, <1>8 DEF EInv, TimersShown, CallsShown, TimerInLiveObject
<1>11. Owners \subseteq Owners'
  BY <1>2, <1>6, <1>8 DEF Owners
<1>12. Settled(mix, Live', Owners', dropped')
  BY <1>1, <1>2, <1>6, <1>11, SettledMore
<1>13. Settled(mix', Live', Owners', dropped')
  BY <1>5, <1>12, SettledSame
<1>. QED  BY <1>9, <1>10, <1>13 DEF EInv

\* The tab of a call that was established shows it, for no other call has that
\* tab; with AC it is merged with every other call.
LEMMA EstablishedEnds ==
  ASSUME EInv, IInv', AC' = AC, OwnTabs, OnEstablished
  PROVE  EInv'
<1>. DEFINE c == Head(queue).call
            type == Head(queue).type
<1>1. /\ Owners \in SUBSET Calls /\ Live \subseteq Owners /\ Idle \in SUBSET (Calls \ Live)
      /\ Sane(mix, Live, Idle, dropped) /\ mix \in Mixer /\ Settled(mix, Live, Owners, dropped)
      /\ TypeOK
  BY OwnersFacts DEF EInv
<1>2. queue # <<>> /\ queue' = Tail(queue) /\ type \in {"connecting", "confirmed"}
      /\ UNCHANGED <<st, media, ending, timers, freed, ops, reinvs>>
  BY DEF OnEstablished
<1>3. c \in Calls
  BY <1>1, <1>2, Handled DEF Messages
<1>4. tab' = tab \cup {c}
  BY DEF OnEstablished, OwnTabs, TabFree
<1>5. \/ UNCHANGED <<mix, dropped>>
      \/ mix' = MergeEvery(mix, c) /\ dropped' = dropped \cup ({c} \ Live)
  BY <1>4 DEF OnEstablished
<1>6. LastWord' /\ DeletedLast'
  BY <1>2, HandledLast
<1>7. \A t : /\ Waiting(t)' \subseteq Waiting(t)
             /\ \A b \in Waiting(t) : b \in Waiting(t)' \/ (type = t /\ c = b)
  BY <1>1, <1>2, WaitingHandled
<1>. HIDE DEF c, type
<1>8. /\ Waiting("disconnected")' = Waiting("disconnected")
      /\ Waiting("connecting") \subseteq Waiting("connecting")' \cup {c}
      /\ Waiting("confirmed") \subseteq Waiting("confirmed")' \cup {c}
  <2>1. ASSUME NEW b \in Waiting("disconnected") PROVE b \in Waiting("disconnected")'
    BY <1>2, <1>7, "disconnected" \notin {"connecting", "confirmed"}
  <2>2. Waiting("disconnected")' \subseteq Waiting("disconnected")
    BY <1>7
  <2>3. \A b \in Waiting("connecting") : b \in Waiting("connecting")' \/ c = b
    BY <1>7
  <2>4. \A b \in Waiting("confirmed") : b \in Waiting("confirmed")' \/ c = b
    BY <1>7
  <2>. QED  BY <2>1, <2>2, <2>3, <2>4
<1>9. Live' = Live /\ Idle' = Idle
  BY <1>2, LiveOrIdle
<1>10. Owners' = Owners
  BY <1>2, <1>8, <1>9 DEF Owners
<1>11. Settled(mix', Live, Owners, dropped')
  <2>1. CASE UNCHANGED <<mix, dropped>>
    BY <1>1, <2>1
  <2>2. CASE mix' = MergeEvery(mix, c) /\ dropped' = dropped \cup ({c} \ Live)
    <3>1. Settled(mix, Live, Owners, dropped')
      BY <1>1, <2>2, SettledMore
    <3>2. c \in Live \/ dropped' # {}
      BY <2>2
    <3>. QED  BY <1>1, <1>3, <2>2, <3>1, <3>2, MergeEverySettled
  <2>. QED  BY <1>5, <2>1, <2>2
<1>12. Settled(mix', Live', Owners', dropped')
  BY <1>9, <1>10, <1>11
<1>13. TimersShown' /\ CallsShown' /\ TimerInLiveObject'
  BY <1>2, <1>4, <1>8, <1>9 DEF EInv, TimersShown, CallsShown, TimerInLiveObject
<1>. QED  BY <1>6, <1>12, <1>13 DEF EInv

\* OnEndCall is the last to look at a call before its user data are deleted: if
\* a tab shows the call it takes it out of the conference, the recorder and the
\* timer heap; otherwise the user hung it up and this was done then.
LEMMA MessageEnds ==
  ASSUME EInv, IInv', AC' = AC, OnDisconnected
  PROVE  EInv'
<1>. DEFINE c == Head(queue).call
            p == Head(queue).port
            y == OnEndCall(Ui, c, p)
<1>1. /\ Owners \in SUBSET Calls /\ Live \subseteq Owners /\ Idle \in SUBSET (Calls \ Live)
      /\ Sane(mix, Live, Idle, dropped) /\ mix \in Mixer /\ Settled(mix, Live, Owners, dropped)
      /\ TypeOK /\ Reported
  BY OwnersFacts DEF EInv, IInv
<1>2. /\ queue # <<>> /\ Head(queue).type = "disconnected"
      /\ queue' = Tail(queue) /\ UNCHANGED <<st, media, dropped, ops, reinvs>>
      /\ Becomes(y) /\ freed' = freed \cup {c}
  BY DEF OnDisconnected
<1>3. c \in Calls /\ Head(queue) = queue[1] /\ 1 \in 1..Len(queue)
  BY <1>1, <1>2, Handled DEF Messages
<1>4. c \notin Live /\ c \notin Idle /\ c \notin freed
  BY <1>1, <1>2, <1>3 DEF EInv, Reported, DeletedLast, Live, Idle
<1>5. /\ LastWord' /\ DeletedLast'
      /\ \A t : c \notin Waiting(t)'
  BY <1>2, HandledLast
<1>6. \A t : /\ Waiting(t)' \subseteq Waiting(t)
             /\ \A b \in Waiting(t) : b \in Waiting(t)' \/ (Head(queue).type = t /\ c = b)
  BY <1>1, <1>2, WaitingHandled
<1>. HIDE DEF c, p, y
<1>7. /\ Waiting("connecting")' = Waiting("connecting") /\ c \notin Waiting("connecting")
      /\ Waiting("confirmed")' = Waiting("confirmed") /\ c \notin Waiting("confirmed")
      /\ Waiting("disconnected") \subseteq Waiting("disconnected")' \cup {c}
  <2>1. ASSUME NEW t, t # "disconnected"
        PROVE  Waiting(t)' = Waiting(t) /\ c \notin Waiting(t)
    <3>1. \A b \in Waiting(t) : b \in Waiting(t)'
      BY <1>2, <1>6, <2>1
    <3>2. Waiting(t)' \subseteq Waiting(t) /\ c \notin Waiting(t)'
      BY <1>5, <1>6
    <3>. QED  BY <3>1, <3>2
  <2>2. \A b \in Waiting("disconnected") : b \in Waiting("disconnected")' \/ c = b
    BY <1>6
  <2>. QED  BY <2>1, <2>2
<1>8. Ui \in Uis /\ Ui.w = mix /\ Ui.tab = tab /\ Ui.timers = timers /\ Ui.ending = ending
  BY <1>1 DEF Ui, Uis, TypeOK
<1>9. Ended(y, Ui, c, p) /\ Settled(y.w, Live, Owners, dropped)
  <2>. HIDE DEF Ui
  <2>. QED  BY <1>1, <1>3, <1>4, <1>8, OnEndCallConf, OnEndCallSettled DEF y
<1>10. mix' = y.w /\ tab' = y.tab /\ timers' = y.timers /\ ending' = y.ending
  BY <1>2 DEF Becomes
<1>11. Live' = Live /\ Idle' = Idle
  BY <1>2, LiveOrIdle
<1>12. ending' = ending /\ tab' = tab \ {c} /\ timers' = timers \ {c}
  <2>1. c \notin tab => c \notin timers
    BY <1>7 DEF EInv, TimersShown
  <2>. HIDE DEF Ui
  <2>. QED  BY <1>8, <1>9, <1>10, <2>1 DEF Ended
<1>13. Settled(mix', Live', Owners', dropped')
  <2>1. Owners \ {c} \subseteq Owners'
    BY <1>7, <1>11, <1>12 DEF Owners
  <2>2. CASE c \notin tab
    <3>1. c \in ending
      BY <1>3, <1>4, <1>7, <2>2 DEF EInv, CallsShown
    <3>2. Owners \subseteq Owners'
      BY <1>12, <2>1, <3>1 DEF Owners
    <3>. QED  BY <1>2, <1>9, <1>10, <1>11, <3>2, SettledMore
  <2>3. CASE c \in tab
    <3>1. y.w.rec[c] = None /\ y.w.conf = Leave(mix, c, p, FALSE).conf
      BY <1>8, <1>9, <2>3 DEF Ended
    <3>2. c \notin y.w.conf
      BY <1>1, <1>3, <3>1, LeaveConf DEF Left
    <3>3. Settled(y.w, Live, Owners \ {c}, dropped)
      <4>1. \A r \in OpenRecorders(y.w) : r # None
        BY Numbers DEF OpenRecorders
      <4>. QED  BY <1>9, <3>1, <3>2, <4>1 DEF Settled
    <3>. QED  BY <1>2, <1>10, <1>11, <2>1, <3>3, SettledMore
  <2>. QED  BY <2>2, <2>3
<1>14. TimersShown' /\ CallsShown' /\ TimerInLiveObject'
  BY <1>2, <1>7, <1>11, <1>12 DEF EInv, TimersShown, CallsShown, TimerInLiveObject
<1>. QED  BY <1>5, <1>13, <1>14 DEF EInv

LEMMA InitEnds == Init => EInv
<1>. SUFFICES ASSUME Init PROVE EInv
  OBVIOUS
<1>1. IInv
  BY InitInv
<1>2. /\ mix.conf = {} /\ mix.rport = [r \in Recorders |-> None] /\ queue = <<>>
      /\ timers = {} /\ freed = {} /\ \A c \in Calls : st[c] = "unused"
  BY DEF Init
<1>3. Settled(mix, Live, Owners, dropped)
  BY <1>2 DEF Settled, OpenRecorders
<1>4. LastWord /\ DeletedLast /\ TimersShown /\ CallsShown /\ TimerInLiveObject
  BY <1>2 DEF LastWord, DeletedLast, TimersShown, CallsShown, TimerInLiveObject, Idle
<1>. QED  BY <1>1, <1>3, <1>4 DEF EInv

LEMMA NextEnds == OwnTabs /\ EInv /\ [Next]_vars => EInv'
<1>. SUFFICES ASSUME OwnTabs, EInv, [Next]_vars PROVE EInv'
  OBVIOUS
<1>1. IInv'
  BY NextInv DEF EInv
<1>2. CASE AC' = AC /\ UserStep
  <2>1. PICK c \in Calls : \/ Dial(c) \/ Answer(c) \/ MergeAll(c) \/ Separate(c)
                           \/ SeparateAll(c) \/ HoldButton(c) \/ RecButton(c)
                           \/ EndButton(c) \/ HangUp(c)
                           \/ \E d \in Calls : Invite(c, d) \/ Merge(c, d)
    BY <1>2 DEF UserStep
  <2>2. queue = <<>>
    BY <1>2 DEF UserStep
  <2>. QED  BY <1>1, <1>2, <2>1, <2>2, DialEnds, AnswerEnds, MenuEnds, EndEnds, InviteEnds
<1>3. CASE AC' = AC /\ WorkerStep
  <2>1. PICK c \in Calls : \/ FirstMedia(c) \/ Confirm(c) \/ ReinviteAccepted(c)
                           \/ ReinviteRefused(c) \/ RemoteReinvite(c)
                           \/ Disconnected(c) \/ TimerFires(c)
    BY <1>3 DEF WorkerStep
  <2>. QED  BY <1>1, <1>3, <2>1, MediaEnds, ConfirmEnds, SmallEnds, DisconnectedEnds
<1>4. CASE AC' = AC /\ OnEstablished
  BY <1>1, <1>4, EstablishedEnds
<1>5. CASE AC' = AC /\ OnDisconnected
  BY <1>1, <1>5, MessageEnds
<1>6. CASE ACButton \/ UNCHANGED vars
  BY <1>1, <1>6, SmallEnds
<1>. QED  BY <1>2, <1>3, <1>4, <1>5, <1>6 DEF Next

LEMMA EndInvariant == OwnTabs /\ Spec => []EInv
<1>1. OwnTabs => []OwnTabs
  <2>1. OwnTabs => OwnTabs'
    BY DEF OwnTabs
  <2>. QED  BY <2>1, PTL
<1>. QED  BY <1>1, InitEnds, NextEnds, PTL DEF Spec

-----------------------------------------------------------------------------
(* The results.                                                            *)

\* With a tab for every call no conference of one is left when the UI is at
\* rest, whoever hung up, left or lost the connection, and in whatever order
\* the messages of it came: the last but one to leave takes the last with it.
\* OwnTabs is needed: a call whose tab shows another call is never looked after.
THEOREM NobodyLeftAlone == OwnTabs /\ Spec => []NoLonelyMember
<1>1. EInv => NoLonelyMember
  <2>. SUFFICES ASSUME EInv, queue = <<>>, Cardinality(Live \cap mix.conf) = 1, dropped = {}
                PROVE  MergedTooLate
    BY DEF NoLonelyMember
  <2>1. PICK c : Live \cap mix.conf = {c}
    <3>1. IsFiniteSet(Live \cap mix.conf)
      BY Numbers, LiveCalls, FS_Subset
    <3>. QED  BY <3>1, FS_Singleton
  <2>2. mix.conf # {c} /\ mix.conf \subseteq Owners
    BY <2>1 DEF EInv, Settled
  <2>3. PICK b \in mix.conf : b \notin Live
    BY <2>1, <2>2
  <2>4. b \in ending
    BY <2>2, <2>3 DEF Owners, Waiting
  <2>. QED  BY <2>3, <2>4 DEF MergedTooLate
<1>. QED  BY <1>1, EndInvariant, PTL

\* With a tab for every call each open recorder belongs, when the UI is at rest,
\* to a call that exists or that the user hung up: no other end of a call,
\* however late its message, leaves one that records the microphone.
THEOREM RecordersAreReleased == OwnTabs /\ Spec => []RecorderReleased
<1>1. EInv => RecorderReleased
  BY DEF EInv, Settled, RecorderReleased, Owners, Waiting
<1>. QED  BY <1>1, EndInvariant, PTL

\* With a tab for every call the user data of a call are deleted only when its
\* timer entry has left the timer heap: it was cancelled with the tab, or fired.
THEOREM TimersAreCancelled == OwnTabs /\ Spec => []TimerInLiveObject
<1>1. EInv => TimerInLiveObject
  BY DEF EInv
<1>. QED  BY <1>1, EndInvariant, PTL
=============================================================================
