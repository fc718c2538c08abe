----------------------------- MODULE Conference -----------------------------
(***************************************************************************)
(* Conferences, hold, call recording and the automatic hang-up of NanoSIP: *)
(* what msip_conference_*, msip_call_hold, msip_call_unhold and            *)
(* msip_call_recording_* of global.cpp do to the conference bridge of      *)
(* PJSUA, called by the UI thread (buttons and menus of the messages       *)
(* window, end of a call) and by the PJSIP worker (state and media         *)
(* callbacks).                                                             *)
(*                                                                         *)
(* The bridge knows ports, small numbers that are free for the next user   *)
(* as soon as a call or a recorder gives one up; port 0 is the sound card. *)
(* Each of these functions holds the critical section of its call from its *)
(* first read to its last write and takes that of every other call it      *)
(* looks at, so one call of it is one step here; what the locks themselves *)
(* may do to each other is the subject of module LockOrder.  An ended call *)
(* reaches the UI thread later, as a message with a copy of its port.      *)
(*                                                                         *)
(* Ringing is the subject of CallLifecycle: a call appears here when it is *)
(* dialled or answered.  This is several-calls mode (singleMode off).      *)
(***************************************************************************)
EXTENDS Integers, Sequences, FiniteSets, FiniteSetsExt

CONSTANTS
  NCalls,         \* bound: calls of this run, each in a PJSUA slot of its own
  Outgoing,       \* those that are dialled; the others come in
  SameParty,      \* pairs of calls with the same remote party (one tab)
  MaxRec,         \* PJSUA_MAX_RECORDERS
  ACChoices,      \* accountSettings.AC may be one of these at first
  AutoRecording,  \* accountSettings.autoRecording
  AutoHangUp,     \* accountSettings.autoHangUpTime > 0
  Events,         \* bound: the optional events of this instance
  MaxOps,         \* bound: operations of the user and timers that fire
  MaxReinvite,    \* bound: re-INVITEs that complete
  MaxQueue        \* bound: messages queued at a time

Calls == 1..NCalls
SoundCard == 0
Ports == SoundCard..(NCalls + MaxRec)   \* no more are ever in use
Recorders == 1..MaxRec
None == -1                              \* PJSUA_INVALID_ID

ASSUME ConferenceAssumption ==
  /\ NCalls \in Nat /\ MaxRec \in Nat \ {0}
  /\ Outgoing \subseteq Calls /\ SameParty \subseteq Calls \X Calls
  /\ {AutoRecording, AutoHangUp} \cup ACChoices \subseteq BOOLEAN
  /\ Events \subseteq 
       {"inviteFails", "remoteHold", "reinviteFails", "mergeAll", "AC"}
  /\ {MaxOps, MaxReinvite, MaxQueue} \subseteq Nat

VARIABLES
  \* PJSUA
  st,       \* st[c]: "unused", "setup" (dialled or answered), "confirmed",
            \* "over" (slot reset)
  media,    \* media[c]: media_status: "none", "active", "hold", "remoteHold"
  ending,   \* calls with the flag hanging_up
  timers,   \* calls whose auto_hangup_timer is in the timer heap
  \* call_user_data and the bridge
  mix,      \* the state these functions share, see Mixer
  freed,    \* calls whose user data were deleted
  dropped,  \* history: calls that a failed invitation took out of mix.conf, or
            \* that were over when they were merged
  \* the UI thread
  AC,       \* accountSettings.AC: merge every established call
  tab,      \* calls that are the callId of their tab
  queue,    \* its messages
  ops,      \* bound: those so far
  reinvs    \* bound: re-INVITEs completed so far

calls == <<st, media, ending, timers, mix, freed, dropped, tab, queue, reinvs>>
vars == <<calls, ops, AC>>

Mixer ==
  [conf  : SUBSET Calls,                     \* inConference
   rec   : [Calls -> {None} \cup Recorders], \* recorder_id
   port  : [Calls -> {None} \cup Ports],     \* conf_slot
   rport : [Recorders -> {None} \cup Ports], \* port of an open recorder
   wire  : SUBSET (Ports \X Ports),          \* connections of the bridge
   held  : SUBSET Calls,                     \* local_hold
   reinv : SUBSET Calls]                     \* a re-INVITE of ours is unanswered

\* A message of on_call_state: the call and the port it had then.  Those of
\* the other states and those of the media find the tab as it should be, for
\* the user acts only when they have been handled.
Messages ==
  [type : {"connecting", "confirmed", "disconnected"}, call : Calls,
   port : {None} \cup Ports]

TypeOK ==
  /\ st \in [Calls -> {"unused", "setup", "confirmed", "over"}]
  /\ media \in [Calls -> {"none", "active", "hold", "remoteHold"}]
  /\ {ending, timers, freed, dropped, tab} \subseteq SUBSET Calls
  /\ mix \in Mixer
  /\ queue \in Seq(Messages)
  /\ AC \in BOOLEAN /\ ops \in 0..MaxOps /\ reinvs \in 0..MaxReinvite

-----------------------------------------------------------------------------
(* The bridge.                                                             *)

\* The calls that pjsua_enum_calls returns and that have user data.
Live == {c \in Calls : st[c] \in {"setup", "confirmed"}}

\* Audible media: the callback connects the call.
Audible(c) == media[c] \in {"active", "remoteHold"}

Confirmed(c) == st[c] = "confirmed"
OnHold(c) == media[c] \in {"hold", "none"}

\* The members of the conference other than c.
Others(w, c) == (Live \cap w.conf) \ {c}

\* Mutant: ports are never given out again.
MFreePort(w) ==
  1 + Max({SoundCard} \cup {w.port[c] : c \in Calls} \cup {w.rport[r] : r \in Recorders})

\* pjmedia_conf_add_port: the lowest free port.
FreePort(w) ==
  Min(Ports \ ({SoundCard} \cup {w.port[c] : c \in Calls}
                           \cup {w.rport[r] : r \in Recorders}))

\* The connections of port p with the ports P, in both directions.
Both(p, P) == ({p} \X P) \cup (P \X {p})

Connect(w, W)    == [w EXCEPT !.wire = @ \cup (W \cap (Ports \X Ports))]
Disconnect(w, W) == [w EXCEPT !.wire = @ \ W]
RemovePort(w, p) == [w EXCEPT !.wire = @ \ Both(p, Ports)]

PortsOf(w, S) == {w.port[c] : c \in S}

OpenRecorders(w) == {r \in Recorders : w.rport[r] # None}

-----------------------------------------------------------------------------
(* msip_call_recording_start and msip_call_recording_stop.                 *)

\* A member joins the recorder of the first other member that records.
ShareRecorder(w, c) ==
  LET sharing == {b \in Others(w, c) : w.rec[b] # None}
      r == w.rec[Min(sharing)]
  IN  [Connect(w, {<<w.port[c], w.rport[r]>>}) EXCEPT !.rec[c] = r]

\* pjsua_recorder_create: the lowest free identifier and port.  The recorder
\* hears the call, the microphone and every member that has none yet.
NewRecorder(w, c) ==
  LET r == Min(Recorders \ OpenRecorders(w))
      p == FreePort(w)
      join == IF c \in w.conf
              THEN {b \in Others(w, c) : w.rec[b] = None /\ w.port[b] # None}
              ELSE {}
  IN  [Connect(w, (PortsOf(w, join \cup {c}) \cup {SoundCard}) \X {p}) EXCEPT
         !.rec = [b \in Calls |-> IF b \in join \cup {c} THEN r ELSE @[b]],
         !.rport[r] = p]

RecordingStart(w, c) ==
  IF w.rec[c] # None \/ w.port[c] = None THEN w
  ELSE IF c \in w.conf /\ \E b \in Others(w, c) : w.rec[b] # None
  THEN ShareRecorder(w, c)
  ELSE IF Recorders \subseteq OpenRecorders(w) THEN w
  ELSE NewRecorder(w, c)

\* What pjsua_call_get_info says of the port of a call.  For a call that is
\* over it fails after zeroing its result, and the caller goes on with port 0.
InfoPort(w, c)  == IF c \in Live THEN w.port[c] ELSE SoundCard

\* force stops the recorder for every call that shares it; otherwise it lives
\* on while one does.
\* Mutant: the recorder is closed although others share it.
MRecordingStop(w, c, force) ==
  IF w.rec[c] = None THEN w
  ELSE [RemovePort(w, w.rport[w.rec[c]]) EXCEPT
          !.rec[c] = None, !.rport[w.rec[c]] = None]

RecordingStop(w, c, force) ==
  IF w.rec[c] = None THEN w
  ELSE LET r == w.rec[c]
           sharing == {b \in Live \ {c} : w.rec[b] = r}
           clear == IF force THEN sharing \cup {c} ELSE {c}
           w1 == [Disconnect(w, ((PortsOf(w, clear \ {c}) \cup {InfoPort(w, c)})
                                   \X {w.rport[r]}))
                    EXCEPT !.rec = [b \in Calls |->
                                      IF b \in clear THEN None ELSE @[b]]]
       IN  IF sharing # {} /\ ~force THEN w1
           ELSE [RemovePort(w1, w.rport[r]) EXCEPT !.rport[r] = None]

-----------------------------------------------------------------------------
(* msip_conference_join and msip_conference_leave.                         *)

\* A loop over the calls of S that pjsua_enum_calls returned, in its order:
\* each turn finds x as the one before it left it.
InOrder(S, turn(_, _), x) ==
  LET after[k \in 0..NCalls] == IF k = 0 THEN x
                               ELSE IF k \in S THEN turn(after[k - 1], k)
                               ELSE after[k - 1]
  IN  after[NCalls]

\* What join does for one other member b.  Which of the two records is read
\* before the ports are connected.
JoinOne(w, c, b) ==
  LET w1 == Connect(w, Both(w.port[c], {w.port[b]}))
  IN  IF w.rec[b] # None THEN RecordingStart(w1, c)
      ELSE IF w.rec[c] # None THEN RecordingStart(w1, b) ELSE w1

\* The other members are taken in the order of their identifiers; those
\* without media are left out.
Join(w, c) ==
  LET with == {b \in Others(w, c) : w.port[b] # None}
  IN  IF c \notin w.conf THEN w
      ELSE InOrder(with, LAMBDA v, b : JoinOne(v, c, b), w)

\* p is the port of c in the call info that the caller has, which may be old.
\* With hold, c stays a member and only loses its connections; otherwise the
\* last but one to leave takes the last with it.
\* Mutant: the last member stays in a conference of one.
MLeave(w, c, p, hold) ==
  IF c \notin w.conf THEN w
  ELSE LET w1 == RecordingStop(w, c, FALSE)
           w2 == Disconnect(w1, Both(p, PortsOf(w1, Others(w1, c))))
       IN  IF hold THEN w2 ELSE [w2 EXCEPT !.conf = @ \ {c}]

Leave(w, c, p, hold) ==
  IF c \notin w.conf THEN w
  ELSE LET w1 == RecordingStop(w, c, FALSE)
           others == Others(w1, c)
           last == IF Cardinality(others) = 1 THEN others ELSE {}
           w2 == Disconnect(w1, Both(p, PortsOf(w1, others)))
       IN  IF hold THEN w2 ELSE [w2 EXCEPT !.conf = @ \ (last \cup {c})]

-----------------------------------------------------------------------------
(* msip_call_hold and msip_call_unhold.                                    *)

\* pjsua_call_set_hold(H) and pjsua_call_reinvite(U) do nothing while an
\* earlier re-INVITE is unanswered.
Reinvite(w, H, U) ==
  LET can(S) == {c \in S : Confirmed(c) /\ c \notin w.reinv}
  IN  [w EXCEPT !.held = (@ \cup can(H)) \ can(U),
                !.reinv = @ \cup can(H) \cup can(U)]

\* A call and, when it is a member, the rest of the conference.
Conversation(w, c) == {c} \cup (IF c \in w.conf THEN Others(w, c) ELSE {})

Hold(w, c) == Reinvite(w, {b \in Conversation(w, c) : ~OnHold(b)}, {})

\* The conversation of c goes on, every other one stops, unless established
\* calls are merged anyway.
Unhold(w, c) ==
  LET conv == Conversation(w, c)
  IN  Reinvite(w, {b \in Live \ conv : ~AC /\ ~OnHold(b)},
                  {b \in conv : OnHold(b)})

-----------------------------------------------------------------------------
(* The menus of the messages window.                                       *)

\* MessagesDlg::Merge: s is the call of the selected tab, d another one.
MergeWith(w, s, d) ==
  LET w1 == [w EXCEPT !.conf = @ \cup ({s, d} \cap Live)]
  IN  IF d \in Live \ {s} THEN Unhold(Join(w1, d), d) ELSE w

MergeEvery(w, s) ==
  InOrder(Live \ {s}, LAMBDA v, d : MergeWith(v, s, d), w)

\* OnBnClickedActions: what the menu offers.  There is one conference: a call
\* outside it can only be merged with its first member.
Members(w) == {b \in Live \cap w.conf : Confirmed(b)}
Offered(w, s, d) ==
  /\ Confirmed(s) /\ Confirmed(d) /\ d # s
  /\ IF s \in w.conf THEN d \notin w.conf
     ELSE \A b \in Members(w) : d \in Members(w) /\ d <= b

\* Mutant: the flag is cleared and the ports stay connected.
MSeparateOne(w, c) == Unhold([w EXCEPT !.conf = @ \ {c}], c)

\* MessagesDlg::Separate.
SeparateOne(w, c) == Unhold(Leave(w, c, w.port[c], FALSE), c)

\* Mutant: the calls leave as they do when they are put on hold.
MSeparateEvery(w, s) ==
  InOrder(Live \ {s}, LAMBDA v, b : Leave(v, b, v.port[b], TRUE), Hold(w, s))

\* MessagesDlg::OnSeparateAll.
SeparateEvery(w, s) ==
  InOrder(Live \ {s}, LAMBDA v, b : Leave(v, b, v.port[b], FALSE), Hold(w, s))

-----------------------------------------------------------------------------
(* The media of a call change.                                             *)

\* pjsua_aud_channel_update: the stream and its port are made anew.
NewPort(w, c) ==
  LET w1 == [RemovePort(w, w.port[c]) EXCEPT !.port[c] = None]
  IN  [w1 EXCEPT !.port[c] = FreePort(w1)]

\* on_call_media_state.
MediaCallback(w, c, m) ==
  LET p == w.port[c]
      w1 == Connect(Join(w, c), Both(p, {SoundCard}))
  IN  IF m \in {"active", "remoteHold"}
      THEN IF w1.rec[c] = None THEN w1
           ELSE Connect(w1, {<<p, w1.rport[w1.rec[c]]>>})
      ELSE Disconnect(Leave(w, c, p, TRUE), Both(p, {SoundCard}))

-----------------------------------------------------------------------------
(* OnEndCall and the hang-up helpers.  They change the mixer, the tabs, the *)
(* timers and the flags hanging_up: x is a record of the four.             *)

Ui == [w |-> mix, tab |-> tab, timers |-> timers, ending |-> ending]

Becomes(x) ==
  mix' = x.w /\ tab' = x.tab /\ timers' = x.timers /\ ending' = x.ending

\* p is the port in the call info.  A call that no tab shows is forgotten
\* before its conference, its recorder and its timer are looked after.
\* Mutant: only leaving the conference stops the recorder.
MRecOnEndCall(x, c, p) ==
  IF c \notin x.tab THEN x
  ELSE [x EXCEPT !.tab = @ \ {c}, !.timers = @ \ {c}, !.w = Leave(x.w, c, p, FALSE)]

\* Mutant: the timer is not cancelled.
MOnEndCall(x, c, p) ==
  IF c \notin x.tab THEN x
  ELSE [x EXCEPT !.tab = @ \ {c},
                 !.w = RecordingStop(Leave(x.w, c, p, FALSE), c, FALSE)]

OnEndCall(x, c, p) ==
  IF c \notin x.tab THEN x
  ELSE [x EXCEPT !.tab = @ \ {c}, !.timers = @ \ {c},
                 !.w = RecordingStop(Leave(x.w, c, p, FALSE), c, FALSE)]

\* msip_call_hangup_fast.
HangUpFast(x, c) ==
  LET p == x.w.port[c]
  IN  OnEndCall([x EXCEPT !.ending = @ \cup {c},
                          !.w = Disconnect(@, Both(p, {SoundCard}))], c, p)

\* msip_call_end: with a member of the conference, every other member goes.
\* Membership is read anew for each, after the ones before it left.
EndMember(x, b) == IF b \in x.w.conf THEN HangUpFast(x, b) ELSE x

\* Mutant: the loop stops at the call itself instead of leaving it out.
MEndCall(x, c) ==
  LET all == IF c \in x.w.conf /\ Confirmed(c)
             THEN InOrder({b \in Live : b < c}, EndMember, x) ELSE x
  IN  HangUpFast(all, c)

EndCall(x, c) ==
  LET all == IF c \in x.w.conf /\ Confirmed(c)
             THEN InOrder(Live \ {c}, EndMember, x) ELSE x
  IN  HangUpFast(all, c)

-----------------------------------------------------------------------------
(* The UI thread: operations of the user.  Windows delivers mouse and       *)
(* keyboard input only when no posted message waits.                       *)

Selected(c) == c \in tab /\ c \in Live
Operate == ops < MaxOps /\ ops' = ops + 1

OnlyMix == UNCHANGED <<st, media, ending, timers, freed, dropped, tab, queue, reinvs>>

Post(type, c, p) ==
  /\ Len(queue) < MaxQueue
  /\ queue' = Append(queue, [type |-> type, call |-> c, port |-> p])

\* A tab takes one call; SameParty calls share it.
TabFree(c) == \A b \in tab : <<b, c>> \notin SameParty /\ <<c, b>> \notin SameParty

\* alloc_call_id hands the slots out in ascending order.
NextSlot(c) == st[c] = "unused" /\ \A b \in 1..(c - 1) : st[b] # "unused"
NewCall(c) == NextSlot(c) /\ st' = [st EXCEPT ![c] = "setup"]

\* CallMake and the CALLING callback.
Dial(c) ==
  /\ c \in Outgoing /\ NewCall(c) /\ TabFree(c)
  /\ tab' = tab \cup {c}
  /\ mix' = Unhold(mix, c)
  /\ UNCHANGED <<media, ending, timers, freed, dropped, queue, ops, reinvs>>

\* CallAction(MSIP_ACTION_INVITE): a number joins the conversation of s.  If
\* the call cannot be made s is no longer a member, whether or not it was one.
Invite(s, c) ==
  /\ Operate /\ c \in Outgoing /\ Selected(s) /\ Confirmed(s) /\ TabFree(c)
  /\ s \in mix.conf \/ Members(mix) = {}
  /\ LET w == Unhold(mix, s)
     IN  \/ /\ NewCall(c)
            /\ tab' = tab \cup {c}
            /\ mix' = Unhold([w EXCEPT !.conf = @ \cup {s, c}], c)
            /\ UNCHANGED dropped
         \/ /\ "inviteFails" \in Events /\ NextSlot(c)
            /\ mix' = [w EXCEPT !.conf = @ \ {s}]
            /\ dropped' = dropped \cup {s}
            /\ UNCHANGED <<st, tab>>
  /\ UNCHANGED <<media, ending, timers, freed, queue, reinvs>>

\* The user answers: the media of the call, then the CONNECTING callback.
Answer(c) ==
  /\ c \notin Outgoing /\ NewCall(c)
  /\ media' = [media EXCEPT ![c] = "active"]
  /\ mix' = Unhold(MediaCallback(NewPort(mix, c), c, "active"), c)
  /\ Post("connecting", c, None)
  /\ UNCHANGED <<ending, timers, freed, dropped, tab, ops, reinvs>>

Merge(s, d) ==
  /\ Operate /\ Selected(s) /\ d \in Live /\ Offered(mix, s, d)
  /\ mix' = MergeWith(mix, s, d) /\ OnlyMix

MergeAll(s) ==
  /\ "mergeAll" \in Events /\ Operate /\ Selected(s)
  /\ \E d \in Live : Offered(mix, s, d)
  /\ mix' = MergeEvery(mix, s) /\ OnlyMix

Separate(c) ==
  /\ Operate /\ Selected(c) /\ c \in mix.conf
  /\ mix' = SeparateOne(mix, c) /\ OnlyMix

SeparateAll(c) ==
  /\ Operate /\ Selected(c) /\ c \in mix.conf
  /\ mix' = SeparateEvery(mix, c) /\ OnlyMix

HoldButton(c) ==
  /\ Operate /\ Selected(c) /\ Confirmed(c)
  /\ mix' = (IF OnHold(c) THEN Unhold(mix, c) ELSE Hold(mix, c)) /\ OnlyMix

RecButton(c) ==
  /\ Operate /\ Selected(c)
  /\ mix' = (IF mix.rec[c] = None THEN RecordingStart(mix, c)
             ELSE RecordingStop(mix, c, TRUE)) /\ OnlyMix

\* Dialer::OnBnClickedAC.
ACButton ==
  "AC" \in Events /\ Operate /\ AC' = ~AC /\ UNCHANGED calls

\* The red button, and OnDisconnect or the closing of the tab.
EndButton(c) ==
  /\ Operate /\ Selected(c)
  /\ Becomes(EndCall(Ui, c)) /\ UNCHANGED <<st, media, freed, dropped, queue, reinvs>>

HangUp(c) ==
  /\ Operate /\ Selected(c)
  /\ Becomes(HangUpFast(Ui, c)) /\ UNCHANGED <<st, media, freed, dropped, queue, reinvs>>

-----------------------------------------------------------------------------
(* The UI thread: messages of the worker.                                  *)

\* onCallState of CONNECTING and CONFIRMED: AddTab gives the call the tab of
\* its number, unless that shows another call.  With AC every call is merged
\* with the one of the selected tab, which may be over by now.
OnEstablished ==
  /\ queue # <<>> /\ Head(queue).type \in {"connecting", "confirmed"}
  /\ LET c == Head(queue).call
     IN  /\ tab' = IF TabFree(c) THEN tab \cup {c} ELSE tab
         /\ IF AC /\ Head(queue).type = "confirmed"
            THEN \E s \in (IF c \in tab' THEN {c} ELSE tab) :
                   /\ mix' = MergeEvery(mix, s)
                   /\ dropped' = dropped \cup ({s} \ Live)
            ELSE UNCHANGED <<mix, dropped>>
  /\ queue' = Tail(queue)
  /\ UNCHANGED <<st, media, ending, timers, freed, ops, reinvs>>

\* onCallState of DISCONNECTED deletes the user data at its end.
OnDisconnected ==
  /\ queue # <<>> /\ Head(queue).type = "disconnected"
  /\ LET m == Head(queue)
     IN  /\ Becomes(OnEndCall(Ui, m.call, m.port))
         /\ freed' = freed \cup {m.call}
  /\ queue' = Tail(queue)
  /\ UNCHANGED <<dropped, st, media, ops, reinvs>>

-----------------------------------------------------------------------------
(* The PJSIP worker.                                                       *)

\* The media of c change to m; not when the call is being hung up.
MediaUpdate(w, c, m) ==
  IF c \in ending THEN mix' = w /\ UNCHANGED media
  ELSE /\ media' = [media EXCEPT ![c] = m]
       /\ mix' = MediaCallback(NewPort(w, c), c, m)

\* Early media of a dialled call, or those of the 200 response.
FirstMedia(c) ==
  /\ c \in Live \ ending /\ c \in Outgoing /\ media[c] = "none"
  /\ MediaUpdate(mix, c, "active")
  /\ UNCHANGED <<st, ending, timers, freed, dropped, tab, queue, ops, reinvs>>

\* The CONNECTING callback of a dialled call, and the CONFIRMED callback.
Confirm(c) ==
  /\ st[c] = "setup" /\ (media[c] # "none" \/ c \in ending)
  /\ st' = [st EXCEPT ![c] = "confirmed"]
  /\ LET w == IF c \in Outgoing THEN Unhold(mix, c) ELSE mix
     IN  mix' = IF AutoRecording THEN RecordingStart(w, c) ELSE w
  /\ timers' = IF AutoHangUp THEN timers \cup {c} ELSE timers
  /\ Post("confirmed", c, None)
  /\ UNCHANGED <<media, ending, freed, dropped, tab, ops, reinvs>>

Reinvited == reinvs < MaxReinvite /\ reinvs' = reinvs + 1

\* The other side accepts a re-INVITE, or refuses it: pjsua then takes back
\* what it did to local_hold.
ReinviteAccepted(c) ==
  /\ c \in Live /\ c \in mix.reinv /\ Reinvited
  /\ MediaUpdate([mix EXCEPT !.reinv = @ \ {c}], c,
                 IF c \in mix.held THEN "hold" ELSE "active")
  /\ UNCHANGED <<st, ending, timers, freed, dropped, tab, queue, ops>>

ReinviteRefused(c) ==
  /\ "reinviteFails" \in Events /\ c \in Live /\ c \in mix.reinv /\ Operate
  /\ mix' = [mix EXCEPT !.reinv = @ \ {c},
                        !.held = SymDiff(@, {c})]
  /\ UNCHANGED <<st, media, ending, timers, freed, dropped, tab, queue, reinvs>>

\* A re-INVITE of the other side: it holds the call or goes on.
RemoteReinvite(c) ==
  /\ "remoteHold" \in Events /\ Confirmed(c) /\ c \notin mix.reinv /\ Operate
  /\ Audible(c)
  /\ MediaUpdate(mix, c, IF media[c] = "active" THEN "remoteHold" ELSE "active")
  /\ UNCHANGED <<st, ending, timers, freed, dropped, tab, queue, reinvs>>

\* The DISCONNECTED callback, then the end of the media, then reset_call.
Disconnected(c) ==
  /\ c \in Live
  /\ st' = [st EXCEPT ![c] = "over"] /\ media' = [media EXCEPT ![c] = "none"]
  /\ mix' = [RemovePort(mix, mix.port[c]) EXCEPT
               !.port[c] = None, !.held = @ \ {c}, !.reinv = @ \ {c}]
  /\ Post("disconnected", c, mix.port[c])
  /\ UNCHANGED <<ending, timers, freed, dropped, tab, ops, reinvs>>

\* call_timeout_callback.
TimerFires(c) ==
  /\ Operate /\ c \in timers /\ timers' = timers \ {c}
  /\ ending' = IF c \in Live THEN ending \cup {c} ELSE ending
  /\ UNCHANGED <<st, media, mix, freed, dropped, tab, queue, reinvs>>

-----------------------------------------------------------------------------
Init ==
  /\ st = [c \in Calls |-> "unused"] /\ media = [c \in Calls |-> "none"]
  /\ mix = [conf |-> {}, rec |-> [c \in Calls |-> None],
            port |-> [c \in Calls |-> None],
            rport |-> [r \in Recorders |-> None],
            wire |-> {}, held |-> {}, reinv |-> {}]
  /\ ending = {} /\ timers = {} /\ freed = {} /\ dropped = {} /\ tab = {} /\ queue = <<>>
  /\ ops = 0 /\ reinvs = 0 /\ AC \in ACChoices

UserStep ==
  /\ queue = <<>>
  /\ \/ \E c \in Calls : \/ Dial(c) \/ Answer(c) \/ MergeAll(c) \/ Separate(c)
                         \/ SeparateAll(c) \/ HoldButton(c) \/ RecButton(c)
                         \/ EndButton(c) \/ HangUp(c)
     \/ \E c, d \in Calls : Invite(c, d) \/ Merge(c, d)

WorkerStep ==
  \E c \in Calls : \/ FirstMedia(c) \/ Confirm(c) \/ ReinviteAccepted(c)
                   \/ ReinviteRefused(c) \/ RemoteReinvite(c)
                   \/ Disconnected(c) \/ TimerFires(c)

Next ==
  \/ UNCHANGED AC /\ (UserStep \/ OnEstablished \/ OnDisconnected \/ WorkerStep)
  \/ queue = <<>> /\ ACButton

Spec == Init /\ [][Next]_vars

-----------------------------------------------------------------------------
(* Properties.                                                             *)

\* A call merged while it was being hung up: no tab shows it, so OnEndCall
\* reaches neither its conference nor its recorder.
MergedTooLate == (mix.conf \ Live) \cap ending # {}

\* Nobody hears a call that is not in the conference with him: the ports of
\* two calls are connected only while both are members, unless one was until
\* an invitation failed (CallAction clears inConference and leaves the ports).
ConversationsApart ==
  \A c, d \in Live :
    (c # d /\ <<mix.port[c], mix.port[d]>> \in mix.wire)
      => {c, d} \subseteq mix.conf \/ {c, d} \cap dropped # {}

\* When the UI is at rest there is no conference of one.
NoLonelyMember ==
  queue = <<>> /\ Cardinality(Live \cap mix.conf) = 1 => MergedTooLate \/ dropped # {}

\* The recorder a call refers to is open: none is destroyed while a call that
\* still exists shares it.
RecorderOpen == \A c \in Live : mix.rec[c] # None => mix.rport[mix.rec[c]] # None

\* When the UI is at rest every open recorder belongs to a call, or to one that
\* began to record after the user had hung it up: no other goes on recording
\* the microphone after its last call.
RecorderReleased ==
  queue = <<>> =>
    \A r \in OpenRecorders(mix) : \E c \in Live \cup ending : mix.rec[c] = r

\* The red button ends the conference: it reaches every member, although each
\* hang-up changes the membership that the loop reads.
EndReachesAll ==
  [][\A c \in Calls : EndButton(c) /\ c \in mix.conf /\ Confirmed(c)
       => Live \cap mix.conf \subseteq ending']_vars

\* OnSeparateAll leaves no member: the last call to leave takes the selected
\* one with it.
SeparatesAll ==
  [][\A c \in Calls : SeparateAll(c) /\ Others(mix, c) # {}
       => Live \cap mix'.conf = {}]_vars

\* A timer entry in the timer heap of PJSIP lies in user data that exist.
TimerInLiveObject == timers \cap freed = {}
=============================================================================
