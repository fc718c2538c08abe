--------------------------- MODULE CallLifecycle ---------------------------
(***************************************************************************)
(* The life of a call in NanoSIP, from the SIP event to the last widget.   *)
(*                                                                         *)
(* Two threads share the state.  The PJSIP worker runs the callbacks       *)
(* on_incoming_call, on_call_state, on_call_media_state and               *)
(* on_call_transfer_*; it owns the call slots and attaches a heap object, *)
(* call_user_data, to each of them.  The UI thread runs the MFC message    *)
(* loop: it owns the tabs of MessagesDlg, the ringing windows, the call    *)
(* log and the sound player, and learns of a call only through the        *)
(* messages that the worker posts, each of which carries a raw pointer to  *)
(* the call_user_data.  The UI thread deletes that object when it          *)
(* processes the message of the DISCONNECTED state.                        *)
(*                                                                         *)
(* A callback runs in the thread that caused it: an UAS call that the user *)
(* declines is disconnected inside the UI thread, and between the callback *)
(* and reset_call() the slot is visible, DISCONNECTED and without user     *)
(* data, to the worker.  Those two halves are separate actions here.       *)
(*                                                                         *)
(* A call identifier stands for one use of a PJSUA slot: slots are         *)
(* allocated round robin over PJSUA_MAX_CALLS = 32, so within the few      *)
(* calls of a run none is used twice.                                      *)
(***************************************************************************)
EXTENDS Naturals, Sequences, FiniteSets

CONSTANTS
  Incoming,       \* calls that may arrive (PJSIP_ROLE_UAS)
  Outgoing,       \* calls that may be made (PJSIP_ROLE_UAC)
  Numbers,        \* remote parties
  None,           \* NULL, PJSUA_INVALID_ID
  NoTab, NoCall,  \* the number has no tab; its tab has callId = -1
  Forwarding,     \* "off", "now" (forwardingDelay = 0) or "delay"
  SingleMode,     \* accountSettings.singleMode
  CallWaiting,    \* accountSettings.callWaiting
  MaxConcurrent,  \* accountSettings.maxConcurrentCalls, 0 for no limit
  LocalDTMF,      \* accountSettings.localDTMF: beeps and hang-up sound
  Events,         \* bound: the optional events of this instance
  MaxQueue,       \* bound: they are posted while the queue is shorter
  Backlog         \* bound: the worker waits while the queue is this long

Calls == Incoming \cup Outgoing

ASSUME CallsAssumption ==
  /\ Incoming \cap Outgoing = {}
  /\ IsFiniteSet(Calls)
  /\ None \notin Calls /\ None \notin Numbers
  /\ NoTab \notin Calls /\ NoCall \notin Calls /\ NoTab # NoCall

ASSUME SettingsAssumption ==
  /\ Forwarding \in {"off", "now", "delay"}
  /\ {SingleMode, CallWaiting, LocalDTMF} \subseteq BOOLEAN
  /\ MaxConcurrent \in Nat /\ {MaxQueue, Backlog} \subseteq Nat
  /\ Events \subseteq {"media", "xfer", "command", "soundEnd"}

VARIABLES
  \* PJSUA, shared by both threads
  inv,      \* inv[c]: state of the invite session of slot c
  num,      \* num[c]: remote party of c
  conn,     \* calls that reached CONFIRMED (connect_duration is not zero)
  ending,   \* calls for which a CANCEL or a BYE was sent
  data,     \* data[c]: the user_data pointer of slot c
  \* heap objects, named after the call they were created for
  heap,     \* heap[u]: "none" (not created yet), "live" or "freed"
  hidden,   \* objects whose flag hidden is set
  hung,     \* objects whose flag hangup is set
  \* the UI thread
  queue,    \* its posted messages, oldest first
  tabs,     \* tabs[n]: NoTab, NoCall or the callId of the tab of number n
  dlg,      \* dlg[c]: ringing window of c: "none", "open" or "closed"
  sound,    \* "none", "ring" (looped), "short" or "ended" (short, at EOF)
  tones,    \* toneCalls: outgoing calls that hear a local ringback tone
  fwdCall,  \* forwardingTimerCallId
  fwdTimer, \* IDT_TIMER_FORWARDING is set
  log,      \* log[c]: the entry of c in the call log: "none", "in", "out" or
            \* "miss" (MSIP_CALL_MISS and MSIP_CALL_ELSE)
  \* the program counters of the two threads
  uiCall,   \* call that the UI thread has disconnected and not yet reset
  uiThen,   \* what the UI thread does once the slot is reset
  wkCall,   \* call that the worker has disconnected and not yet reset
  \* what the program lost
  lost,     \* calls whose end was not reported to the UI (status 481)
  crashed   \* the process dereferenced NULL

pjsuaVars == <<inv, num, conn, ending, data>>
heapVars  == <<heap, hidden, hung>>
uiVars    == <<tabs, dlg, sound, tones, fwdCall, fwdTimer, log>>
pcVars    == <<uiCall, uiThen, wkCall>>
vars      == <<pjsuaVars, heapVars, queue, uiVars, pcVars, lost, crashed>>

-----------------------------------------------------------------------------
(* States of an invite session; "unused" and "reset" are an empty slot     *)
(* before and after the call.                                              *)

States  == {"unused", "calling", "incoming", "early", "connecting",
            "confirmed", "disconnected", "reset"}
Active  == {"calling", "incoming", "early", "connecting", "confirmed"}
InPjsua == Active \cup {"disconnected"}      \* pjsua_call_get_info succeeds

Codes == {"-", "180", "183", "200", "481", "486", "other"}

\* UM_ON_INCOMING_CALL, UM_ON_CALL_STATE, UM_ON_CALL_MEDIA_STATE and
\* UM_ON_CALL_TRANSFER_STATUS carry a copy of the call info and the user data;
\* UM_CREATE_RINGING and UM_CALL_ANSWER only a call identifier.
WithData == {"incoming", "state", "media", "xfer"}
Messages ==
  [type : WithData, call : Calls, data : Calls, st : States, code : Codes] \cup
  [type : {"ringing", "answer"}, call : Calls, data : {None}, st : {"unused"},
   code : Codes] \cup
  [type : {"playerStop"}, call : {None}, data : {None}, st : {"unused"},
   code : {"-"}]

Msg(type, c, u, st, code) ==
  [type |-> type, call |-> c, data |-> u, st |-> st, code |-> code]

PlayerStopMsg == Msg("playerStop", None, None, "unused", "-")

\* A call that waits for the user: UAS, not answered.
Waiting(c) == c \in Incoming /\ inv[c] \in {"incoming", "early"}

\* The calls pjsua_enum_calls returns.
Enumerated == {c \in Calls : inv[c] \in InPjsua}

\* Bounds: the events that may repeat without end.
MayPost(event) == event \in Events /\ Len(queue) < MaxQueue

UiIdle == uiCall = None /\ ~crashed
WkIdle == wkCall = None /\ ~crashed /\ Len(queue) < Backlog

-----------------------------------------------------------------------------
(* on_call_state(c), in whatever thread: u is the user_data of the slot.   *)

\* Mutant: the user data inherited from a transferred call is kept.
MCell(c, u) == IF u = None THEN c ELSE u

\* The object that the posted message will carry: the one of the slot,
\* unless there is none or it belongs to another call (call transfer).
Cell(c, u) == IF u = None \/ u # c THEN c ELSE u

\* Mutant: every failed call is treated like one that vanished with 481.
MNotReported(st, code) == st = "disconnected" /\ code # "200"

\* The early return of a call that disappeared with status 481.
NotReported(st, code) == st = "disconnected" /\ code = "481"

\* A call that was rejected in on_incoming_call is not shown.
IsHidden(c, u) == u = c /\ u \in hidden

StateMsgs(c, u, st, code) ==
  IF NotReported(st, code) \/ IsHidden(c, u)
    THEN <<>>
    ELSE <<Msg("state", c, Cell(c, u), st, code)>>

\* Mutant: the slot keeps its pointer after the call is disconnected.
MSlotData(c, u, st, code) == IF NotReported(st, code) THEN u ELSE Cell(c, u)

SlotData(c, u, st, code) ==
  IF NotReported(st, code) THEN u
  ELSE IF st = "disconnected" THEN None ELSE Cell(c, u)

HeapAfter(c, u, st, code) ==
  IF NotReported(st, code) THEN heap
  ELSE IF IsHidden(c, u)
         THEN IF st = "disconnected" THEN [heap EXCEPT ![u] = "freed"]
                                     ELSE heap
         ELSE [heap EXCEPT ![Cell(c, u)] = "live"]

\* The session of c enters st and the callback runs; the thread posts
\* "first" before it and drops the messages before "rest".
EnterState(c, st, code, rest, first) ==
  /\ inv' = [inv EXCEPT ![c] = st]
  /\ data' = [data EXCEPT ![c] = SlotData(c, data[c], st, code)]
  /\ heap' = HeapAfter(c, data[c], st, code)
  /\ queue' = rest \o first \o StateMsgs(c, data[c], st, code)

-----------------------------------------------------------------------------
(* The user interface.                                                     *)

OpenDlgs == {c \in Calls : dlg[c] = "open"}

\* MessagesDlg::GetCallsCount() is not zero: a tab has a call that is not
\* waiting.
UiHasCalls == \E n \in Numbers : /\ tabs[n] \in Enumerated
                                 /\ ~Waiting(tabs[n])

\* AddTab returns NULL: the tab of this number belongs to another call.
TabBusy(c) == tabs[num[c]] \in Calls \ {c}

\* Mutant: AddTab is called with ifExists for every state.
MShowTab(c) == IF tabs[num[c]] = NoTab \/ TabBusy(c)
                 THEN tabs ELSE [tabs EXCEPT ![num[c]] = c]

\* AddTab gives the tab of its number to call c; with ifExists only a tab
\* that exists.
ShowTab(c) == IF TabBusy(c) THEN tabs ELSE [tabs EXCEPT ![num[c]] = c]
LinkTab(c) == IF tabs[num[c]] = NoTab \/ TabBusy(c)
                THEN tabs ELSE [tabs EXCEPT ![num[c]] = c]

\* AddTab refuses a second incoming call of a number that has one.
RefuseMsgs(c, st) ==
  IF TabBusy(c) /\ c \in Incoming /\ st \in {"incoming", "early"}
    THEN <<Msg("answer", c, None, "unused", "486")>>
    ELSE <<>>

\* Mutants: OnEndCall does not clear callId; it stores the wrong sentinel; the
\* test of connect_duration is missing.
MEndTabs(t, S) == t
MEndTabsNone(t, S) == [n \in Numbers |-> IF t[n] \in S THEN None ELSE t[n]]
MEndLog(S, hid) ==
  [c \in Calls |-> IF c \in (S \cap Incoming) \ hid THEN "miss" ELSE log[c]]

\* MessagesDlg::OnEndCall for the calls S, of which those in hid have hidden
\* user data, in the order of its effects; t are the tabs it finds.
HasTab(t, S)  == \E n \in Numbers : t[n] \in S
EndTabs(t, S) == [n \in Numbers |-> IF t[n] \in S THEN NoCall ELSE t[n]]
EndLog(S, hid) ==
  [c \in Calls |-> IF c \in (S \cap Incoming) \ (conn \cup hid)
                     THEN "miss" ELSE log[c]]
EndSound(t, S, audible) ==
  IF HasTab(t, S) /\ audible /\ LocalDTMF THEN "short" ELSE sound

OnEndCall(S, hid, audible) ==
  /\ tabs' = EndTabs(tabs, S)
  /\ log' = EndLog(S, hid)
  /\ fwdCall' = IF HasTab(tabs, S) THEN None ELSE fwdCall
  /\ sound' = EndSound(tabs, S, audible)

\* The calls call_hangup_all_noincoming can hang up; for all of them
\* msip_call_hangup_fast sends a CANCEL or a BYE and returns.
NotIncoming == {c \in Calls : inv[c] \in Active /\ ~Waiting(c)}
HiddenData  == {c \in Calls : data[c] \in hidden}

\* Mutants: all windows are closed; the ringtone stops one window too late.
MCloseDlg(c) == dlg' = [x \in Calls |-> IF dlg[x] = "open" THEN "closed" ELSE dlg[x]]
MCloseSound(c, s) == IF OpenDlgs = {} THEN "none" ELSE s

\* RinginDlg::Close, and its copy in onCallState: the window of c goes, and
\* the ringtone with the last window.
CloseDlg(c) == dlg' = [dlg EXCEPT ![c] = IF @ = "open" THEN "closed" ELSE @]
CloseSound(c, s) == IF OpenDlgs = {c} THEN "none" ELSE s

-----------------------------------------------------------------------------
(* The UI thread: posted messages.                                         *)

Current == Head(queue)
Rest    == Tail(queue)

UiTakes(type) == UiIdle /\ queue # <<>> /\ Current.type = type

\* Mutant: the call stays in toneCalls until it is answered.
MTonesAfter(c, code) ==
  IF c \in Outgoing /\ code = "180" THEN tones \cup {c}
  ELSE IF code = "200" THEN tones \ {c} ELSE tones

\* Ringback: an outgoing call that rings without early media is in toneCalls;
\* when the last one leaves, UM_ON_PLAYER_STOP is posted.
TonesAfter(c, code) ==
  IF c \in Outgoing /\ code = "180" THEN tones \cup {c} ELSE tones \ {c}
ToneMsgs(c, code) ==
  IF tones # {} /\ TonesAfter(c, code) = {} THEN <<PlayerStopMsg>> ELSE <<>>

\* Mutant: the timer is killed but its call is not forgotten.
MFwdAfterState(answered) == fwdCall

\* A call that is answered, whichever it is, cancels the delayed forwarding.
FwdAfterState(answered) == IF answered THEN None ELSE fwdCall

\* Mutant: the test of user_data is missing.
MCanShowDlg(c) == c \in Enumerated

\* onCreateRingingDlg finds the call and its user data.
CanShowDlg(c) == c \in Enumerated /\ data[c] # None

\* A final answer in the UI thread disconnects an unanswered call at once.
UiDisconnects(c, code, rest, then) ==
  /\ EnterState(c, "disconnected", code, rest, <<>>)
  /\ uiCall' = c
  /\ uiThen' = then

\* onIncomingCall, when forwarding is immediate and the 302 is sent.
UiForwardNow ==
  /\ UiTakes("incoming")
  /\ Forwarding = "now"
  /\ Waiting(Current.call)
  /\ UiDisconnects(Current.call, "other", Rest, "none")
  /\ UNCHANGED <<num, conn, ending, hidden, hung, uiVars, wkCall, lost, crashed>>

\* onIncomingCall: ask for the ringing window, answer 180, ring or beep.  The
\* answer fails when the call is over or its dialog stays locked.
UiRing ==
  /\ UiTakes("incoming")
  /\ LET c == Current.call
         ask == <<Msg("ringing", c, None, "unused", "-")>>
     IN  \/ Waiting(c) /\ EnterState(c, "early", "180", Rest, ask)
         \/ queue' = Rest \o ask /\ UNCHANGED <<inv, data, heap>>
  /\ sound' = IF ~UiHasCalls THEN "ring" ELSE IF LocalDTMF THEN "short" ELSE sound
  /\ UNCHANGED <<num, conn, ending, hidden, hung, tabs, dlg, tones, fwdCall,
                 fwdTimer, log, pcVars, lost, crashed>>

\* onCallState, the state of a call that goes on.
UiCallState ==
  /\ UiTakes("state")
  /\ Current.st # "disconnected"
  /\ LET c        == Current.call
         st       == Current.st
         answered == st \in {"connecting", "confirmed"}
     IN  /\ tones' = TonesAfter(c, Current.code)
         /\ queue' = Rest \o ToneMsgs(c, Current.code) \o RefuseMsgs(c, st)
         /\ tabs' = ShowTab(c)
         /\ log' = IF TabBusy(c) THEN log
                   ELSE [log EXCEPT ![c] = IF c \in Incoming THEN "in" ELSE "out"]
         /\ fwdCall' = FwdAfterState(answered)
         /\ fwdTimer' = (fwdTimer /\ ~(answered /\ fwdCall # None))
         /\ IF c \in Incoming /\ answered
              THEN /\ CloseDlg(c)
                   /\ sound' = IF OpenDlgs = {} THEN "none" ELSE CloseSound(c, sound)
              ELSE UNCHANGED <<dlg, sound>>
  /\ UNCHANGED <<pjsuaVars, heapVars, pcVars, lost, crashed>>

\* onCallState of a DISCONNECTED call: OnEndCall, the ringing window, and the
\* end of the user data.
UiCallEnd ==
  /\ UiTakes("state")
  /\ Current.st = "disconnected"
  /\ LET c      == Current.call
         u      == Current.data
         busyHere == c \in Incoming /\ Current.code = "486" /\ ~TabBusy(c)
         s1     == EndSound(tabs, {c}, Current.code = "200")
     IN  /\ tones' = TonesAfter(c, Current.code)
         /\ queue' = Rest \o ToneMsgs(c, Current.code)
         /\ tabs' = EndTabs(tabs, {c})
         /\ log' = IF busyHere THEN [log EXCEPT ![c] = "miss"]
                   ELSE EndLog({c}, IF u \in hidden THEN {c} ELSE {})
         /\ fwdCall' = IF HasTab(tabs, {c}) THEN None ELSE fwdCall
         /\ IF c \in Incoming
              THEN /\ CloseDlg(c)
                   /\ sound' = IF OpenDlgs = {} /\ c \notin conn
                                 THEN "none" ELSE CloseSound(c, s1)
              ELSE UNCHANGED dlg /\ sound' = s1
         /\ heap' = [heap EXCEPT ![u] = "freed"]
  /\ UNCHANGED <<pjsuaVars, hidden, hung, fwdTimer, pcVars, lost, crashed>>

\* onCallMediaState.
UiMedia ==
  /\ UiTakes("media")
  /\ tabs' = LinkTab(Current.call)
  /\ queue' = Rest \o RefuseMsgs(Current.call, Current.st)
  /\ UNCHANGED <<pjsuaVars, heapVars, dlg, sound, tones, fwdCall, fwdTimer, log,
                 pcVars, lost, crashed>>

\* onCallTransferStatus: a successful transfer hangs the call up.
UiTransferStatus ==
  /\ UiTakes("xfer")
  /\ queue' = Rest \o RefuseMsgs(Current.call, Current.st)
  /\ LET c == Current.call
         t == LinkTab(c)
     IN  IF Current.code = "200" /\ c \in NotIncoming
           THEN /\ ending' = ending \cup {c}
                /\ tabs' = EndTabs(t, {c})
                /\ log' = EndLog({c}, HiddenData)
                /\ fwdCall' = IF HasTab(t, {c}) THEN None ELSE fwdCall
                /\ sound' = EndSound(t, {c}, TRUE)
           ELSE /\ tabs' = t
                /\ UNCHANGED <<ending, log, fwdCall, sound>>
  /\ UNCHANGED <<inv, num, conn, data, heapVars, dlg, tones, fwdTimer, pcVars,
                 lost, crashed>>

\* onCreateRingingDlg: the call may have ended meanwhile.
UiCreateRingingDlg ==
  /\ UiTakes("ringing")
  /\ queue' = Rest
  /\ LET c == Current.call
     IN  /\ dlg' = IF CanShowDlg(c)
                     THEN [dlg EXCEPT ![c] = "open"] ELSE dlg
         /\ sound' = IF c \notin Enumerated /\ OpenDlgs = {} THEN "none" ELSE sound
  /\ UNCHANGED <<pjsuaVars, heapVars, tabs, tones, fwdCall, fwdTimer, log, pcVars,
                 lost, crashed>>

\* onPlayerStop.
UiPlayerStop ==
  /\ UiTakes("playerStop")
  /\ queue' = Rest
  /\ sound' = "none"
  /\ UNCHANGED <<pjsuaVars, heapVars, tabs, dlg, tones, fwdCall, fwdTimer, log,
                 pcVars, lost, crashed>>

\* onCallAnswer(c, 0), the queue being rest: in single call mode the other
\* calls are hung up first.  The answer fails when the dialog of c stays
\* locked (acquire_call).
Answer(c, rest) ==
  LET S == IF SingleMode THEN NotIncoming ELSE {}
  IN  /\ \/ EnterState(c, "connecting", "200", rest, <<>>)
         \/ queue' = rest /\ UNCHANGED <<inv, data, heap>>
      /\ ending' = ending \cup S
      /\ tabs' = EndTabs(tabs, S)
      /\ log' = EndLog(S, HiddenData)
      /\ fwdCall' = IF HasTab(tabs, S) THEN None ELSE fwdCall
      /\ sound' = "none"
      /\ UNCHANGED <<num, conn, hidden, hung, dlg, tones, fwdTimer, pcVars, lost,
                     crashed>>

\* UM_CALL_ANSWER, posted by the command line or by AddTab (-486).
UiAnswer ==
  /\ UiTakes("answer")
  /\ Waiting(Current.call)
  /\ Current.code = "200"
  /\ Answer(Current.call, Rest)

UiRefuse ==
  /\ UiTakes("answer")
  /\ Waiting(Current.call)
  /\ Current.code = "486"
  /\ UiDisconnects(Current.call, "486", Rest, "none")
  /\ UNCHANGED <<num, conn, ending, hidden, hung, uiVars, wkCall, lost, crashed>>

\* The call does not wait any more, or its dialog stays locked.
UiAnswerTooLate ==
  /\ UiTakes("answer")
  /\ Waiting(Current.call) => Current.code = "486"
  /\ queue' = Rest
  /\ UNCHANGED <<pjsuaVars, heapVars, uiVars, pcVars, lost, crashed>>

-----------------------------------------------------------------------------
(* The UI thread: the user, the command line, the timers.                  *)

\* MakeCall, CallStart, CallMake and pjsua_call_make_call.  The call is sent
\* from the UI thread, so its CALLING state is reported there.
MakeCall(c, n) ==
  /\ UiIdle
  /\ c \in Outgoing /\ inv[c] = "unused"
  /\ tabs[n] \notin Calls
  /\ ~(SingleMode /\ UiHasCalls)
  /\ LET S == IF SingleMode THEN NotIncoming ELSE {}
         t == EndTabs(tabs, S)
     IN  /\ ending' = ending \cup S
         /\ tabs' = [t EXCEPT ![n] = c]
         /\ log' = [EndLog(S, HiddenData) EXCEPT ![c] = "out"]
         /\ fwdCall' = IF HasTab(tabs, S) THEN None ELSE fwdCall
         /\ sound' = EndSound(tabs, S, TRUE)
  /\ num' = [num EXCEPT ![c] = n]
  /\ inv' = [inv EXCEPT ![c] = "calling"]
  /\ data' = [data EXCEPT ![c] = c]
  /\ heap' = [heap EXCEPT ![c] = "live"]
  /\ queue' = queue \o StateMsgs(c, c, "calling", "-")
  /\ UNCHANGED <<conn, hidden, hung, dlg, tones, fwdTimer, pcVars, lost, crashed>>

\* msip_call_answer: the command line answers the waiting call c.
CommandAnswer(c) ==
  /\ UiIdle
  /\ Waiting(c) /\ MayPost("command")
  /\ queue' = Append(queue, Msg("answer", c, None, "unused", "200"))
  /\ UNCHANGED <<pjsuaVars, heapVars, uiVars, pcVars, lost, crashed>>

\* The button Answer of the ringing window, or a media key.
DlgAnswer(c) ==
  /\ UiIdle
  /\ dlg[c] = "open"
  /\ Waiting(c)
  /\ Answer(c, queue)

\* Bound: whether a hang-up sets the flag hangup is left open only where the
\* calls without it are counted.
CallsCounted == ~CallWaiting \/ MaxConcurrent > 0

\* msip_call_end (mark: the flag hangup is set) and msip_call_hangup_fast of
\* a call that is not waiting: CANCEL or BYE, and OnEndCall at once.
HangUp(c, mark) ==
  /\ UiIdle
  /\ c \in NotIncoming
  /\ ending' = ending \cup {c}
  /\ hung' = IF mark /\ data[c] # None THEN hung \cup {data[c]} ELSE hung
  /\ OnEndCall({c}, HiddenData, TRUE)
  /\ UNCHANGED <<inv, num, conn, data, heap, hidden, queue, dlg, tones, fwdTimer,
                 pcVars, lost, crashed>>

\* The same for a waiting call (603): it is disconnected at once, and
\* OnEndCall follows the reset of the slot.
HangUpWaiting(c, mark) ==
  /\ UiIdle
  /\ Waiting(c)
  /\ hung' = IF mark /\ data[c] # None THEN hung \cup {data[c]} ELSE hung
  /\ UiDisconnects(c, "other", queue, "endCall")
  /\ UNCHANGED <<num, conn, ending, hidden, uiVars, wkCall, lost, crashed>>

\* msip_call_end of a call that is ending, or whose dialog stays locked: only
\* the flag remains.
HangUpFails(c) ==
  /\ UiIdle
  /\ CallsCounted
  /\ c \in Enumerated /\ data[c] # None
  /\ hung' = hung \cup {data[c]}
  /\ UNCHANGED <<pjsuaVars, heap, hidden, queue, uiVars, pcVars, lost, crashed>>

\* RinginDlg::OnBnClickedDecline (486).
DlgDecline(c) ==
  /\ UiIdle
  /\ dlg[c] = "open"
  /\ Waiting(c)
  /\ hung' = IF data[c] # None THEN hung \cup {data[c]} ELSE hung
  /\ UiDisconnects(c, "486", queue, "closeDlg")
  /\ UNCHANGED <<num, conn, ending, hidden, uiVars, wkCall, lost, crashed>>

\* Decline when the call is already answered (BYE), gone, or its dialog stays
\* locked (nothing is sent): the window is closed all the same.
DlgDeclineLate(c) ==
  /\ UiIdle
  /\ dlg[c] = "open"
  /\ hung' = IF data[c] # None THEN hung \cup {data[c]} ELSE hung
  /\ ending' = IF c \in NotIncoming THEN ending \cup {c} ELSE ending
  /\ CloseDlg(c)
  /\ sound' = CloseSound(c, sound)
  /\ UNCHANGED <<inv, num, conn, data, heap, hidden, queue, tabs, tones, fwdCall,
                 fwdTimer, log, pcVars, lost, crashed>>

\* RinginDlg::Close: the user ignores the call.
DlgIgnore(c) ==
  /\ UiIdle
  /\ dlg[c] = "open"
  /\ CloseDlg(c)
  /\ sound' = CloseSound(c, sound)
  /\ UNCHANGED <<pjsuaVars, heapVars, queue, tabs, tones, fwdCall, fwdTimer, log,
                 pcVars, lost, crashed>>

\* pjsua_call_on_state_changed, second half, in the UI thread: reset_call;
\* then the caller of the final answer goes on.
UiResetCall ==
  /\ uiCall # None /\ ~crashed
  /\ inv' = [inv EXCEPT ![uiCall] = "reset"]
  /\ data' = [data EXCEPT ![uiCall] = None]
  /\ uiCall' = None
  /\ uiThen' = "none"
  /\ CASE uiThen = "endCall"  -> OnEndCall({uiCall}, {}, TRUE) /\ UNCHANGED dlg
       [] uiThen = "closeDlg" -> /\ CloseDlg(uiCall)
                                 /\ sound' = CloseSound(uiCall, sound)
                                 /\ UNCHANGED <<tabs, log, fwdCall>>
       [] uiThen = "fwdTimer" -> fwdCall' = None /\ UNCHANGED <<tabs, log, dlg, sound>>
       [] uiThen = "none"     -> UNCHANGED <<tabs, log, dlg, sound, fwdCall>>
  /\ UNCHANGED <<num, conn, ending, heapVars, queue, tones, fwdTimer, wkCall, lost,
                 crashed>>

\* OnTimer(IDT_TIMER_FORWARDING): WM_TIMER comes after all posted messages.
TimerForward ==
  /\ UiIdle
  /\ fwdTimer /\ queue = <<>>
  /\ fwdTimer' = FALSE
  /\ \/ /\ fwdCall # None /\ Waiting(fwdCall)
        /\ UiDisconnects(fwdCall, "other", queue, "fwdTimer")
        /\ UNCHANGED fwdCall
     \/ /\ fwdCall' = None
        /\ UNCHANGED <<inv, data, heap, queue, uiCall, uiThen>>
  /\ UNCHANGED <<num, conn, ending, hidden, hung, tabs, dlg, sound, tones, log,
                 wkCall, lost, crashed>>

\* OnTimer(IDT_TIMER_TONE): one more period of the ringback tone.
TimerTone ==
  /\ UiIdle
  /\ tones # {}
  /\ sound' = "short"
  /\ UNCHANGED <<pjsuaVars, heapVars, queue, tabs, dlg, tones, fwdCall, fwdTimer,
                 log, pcVars, lost, crashed>>

-----------------------------------------------------------------------------
(* The audio thread: a sound that does not loop reaches its end.           *)

SoundEnds ==
  /\ ~crashed
  /\ sound = "short" /\ MayPost("soundEnd")
  /\ sound' = "ended"
  /\ queue' = Append(queue, PlayerStopMsg)
  /\ UNCHANGED <<pjsuaVars, heapVars, tabs, dlg, tones, fwdCall, fwdTimer, log,
                 pcVars, lost, crashed>>

-----------------------------------------------------------------------------
(* The PJSIP worker.                                                       *)

\* on_incoming_call counts the calls that were not hung up by the user.
Counted == {x \in Enumerated : inv[x] # "disconnected" /\ data[x] \notin hung}

\* Mutant: the call that arrives is not counted.
MOverLimit(c) ==
  LET count == Cardinality(Counted \ {c})
  IN  \/ ~CallWaiting /\ count > 1
      \/ MaxConcurrent > 0 /\ count > MaxConcurrent

OverLimit(c) ==
  LET count == Cardinality(Counted \cup {c})
  IN  \/ ~CallWaiting /\ count > 1
      \/ MaxConcurrent > 0 /\ count > MaxConcurrent

\* The number is that of another call of PJSUA.
Duplicate(n) == \E x \in Enumerated : num[x] = n

\* The loop over the calls reads the hangup flag through the user_data of each
\* call that is not a duplicate.
ReadsNull(n) == \E x \in Enumerated : data[x] = None /\ num[x] # n

ArrivesAt(c, n) ==
  /\ WkIdle
  /\ c \in Incoming /\ inv[c] = "unused"
  /\ num' = [num EXCEPT ![c] = n]

\* on_incoming_call of a call that is shown to the user.
IncomingOffered(c, n) ==
  /\ ArrivesAt(c, n)
  /\ ~Duplicate(n) /\ ~ReadsNull(n) /\ ~OverLimit(c)
  /\ inv' = [inv EXCEPT ![c] = "incoming"]
  /\ data' = [data EXCEPT ![c] = c]
  /\ heap' = [heap EXCEPT ![c] = "live"]
  /\ queue' = Append(queue, Msg("incoming", c, c, "incoming", "-"))
  /\ IF Forwarding = "delay" /\ fwdCall = None
       THEN fwdCall' = c /\ fwdTimer' = TRUE
       ELSE UNCHANGED <<fwdCall, fwdTimer>>
  /\ UNCHANGED <<conn, ending, hidden, hung, tabs, dlg, sound, tones, log, pcVars,
                 lost, crashed>>

\* on_incoming_call of a call that is refused: a duplicate, over the limit,
\* denied by the settings, or the branch of a call already handled (487).
\* The worker holds the locks of PJSUA and of the dialog, so the final answer
\* disconnects the call inside msip_call_busy; DISCONNECTED is therefore
\* reported to the UI before the flag hidden is set.
IncomingRefused(c, n) ==
  /\ ArrivesAt(c, n)
  /\ ReadsNull(n) => Duplicate(n)
  /\ inv' = [inv EXCEPT ![c] = "reset"]
  /\ heap' = [heap EXCEPT ![c] = "live"]
  /\ hidden' = hidden \cup {c}
  /\ \E code \in {"486", "other"} :
       /\ Duplicate(n) \/ OverLimit(c) => code = "486"
       /\ queue' = queue \o StateMsgs(c, c, "disconnected", code)
  /\ UNCHANGED <<conn, ending, data, hung, uiVars, pcVars, lost, crashed>>

\* on_incoming_call reads the flag of a call that lost its user data.
IncomingCrash(c, n) ==
  /\ ArrivesAt(c, n)
  /\ ReadsNull(n)
  /\ crashed' = TRUE
  /\ UNCHANGED <<inv, conn, ending, data, heapVars, queue, uiVars, pcVars, lost>>

\* on_call_state for what the peer answers, or for its ACK.
Progress == [calling |-> {"early", "connecting"},
             early   |-> {"connecting"},
             connecting |-> {"confirmed"}]

CallProgress(c, st, code) ==
  /\ WkIdle
  /\ inv[c] \in DOMAIN Progress /\ st \in Progress[inv[c]]
  /\ c \in Incoming => st = "confirmed"
  /\ code \in IF st = "early" THEN {"180", "183"} ELSE {"200"}
  /\ EnterState(c, st, code, queue, <<>>)
  /\ conn' = IF st = "confirmed" THEN conn \cup {c} ELSE conn
  /\ UNCHANGED <<num, ending, hidden, hung, uiVars, pcVars, lost, crashed>>

\* on_call_state(DISCONNECTED) in the worker: the peer cancels, rejects or
\* hangs up, a request is not answered, or the peer answers 481.
CallEnds(c, code) ==
  /\ WkIdle
  /\ inv[c] \in Active
  /\ code \in IF Waiting(c) THEN {"other"} ELSE {"200", "other", "481"}
  /\ EnterState(c, "disconnected", code, queue, <<>>)
  /\ wkCall' = c
  /\ lost' = IF code = "481" THEN lost \cup {c} ELSE lost
  /\ UNCHANGED <<num, conn, ending, hidden, hung, uiVars, uiCall, uiThen, crashed>>

\* pjsua_call_on_state_changed, second half, in the worker.
WkResetCall ==
  /\ wkCall # None /\ ~crashed
  /\ inv' = [inv EXCEPT ![wkCall] = "reset"]
  /\ data' = [data EXCEPT ![wkCall] = None]
  /\ wkCall' = None
  /\ UNCHANGED <<num, conn, ending, heapVars, queue, uiVars, uiCall, uiThen, lost,
                 crashed>>

\* on_call_media_state and on_call_transfer_status.
PostWithData(c, type, code) ==
  /\ WkIdle /\ MayPost(type)
  /\ LET u == IF data[c] = None THEN c ELSE data[c]
     IN  /\ data' = [data EXCEPT ![c] = u]
         /\ heap' = [heap EXCEPT ![u] = "live"]
         /\ queue' = Append(queue, Msg(type, c, u, inv[c], code))
  /\ UNCHANGED <<inv, num, conn, ending, hidden, hung, uiVars, pcVars, lost, crashed>>

MediaState(c) ==
  /\ inv[c] \in {"early", "connecting", "confirmed"}
  /\ PostWithData(c, "media", "-")

TransferStatus(c, code) ==
  /\ inv[c] = "confirmed"
  /\ PostWithData(c, "xfer", code)

\* A REFER on call c: on_call_transfer_request2, then pjsua_call_make_call of
\* d with the user data of c, and its CALLING state in the worker.
Transferred(c, d, n) ==
  /\ WkIdle
  /\ inv[c] = "confirmed"
  /\ d \in Outgoing /\ inv[d] = "unused"
  /\ ~Duplicate(n)
  /\ num' = [num EXCEPT ![d] = n]
  /\ inv' = [inv EXCEPT ![d] = "calling"]
  /\ data' = [data EXCEPT ![d] = SlotData(d, data[c], "calling", "-")]
  /\ heap' = HeapAfter(d, data[c], "calling", "-")
  /\ queue' = queue \o <<Msg("xfer", c, data[c], "confirmed", "other")>>
                    \o StateMsgs(d, data[c], "calling", "-")
  /\ UNCHANGED <<conn, ending, hidden, hung, uiVars, pcVars, lost, crashed>>

-----------------------------------------------------------------------------
Init ==
  /\ inv = [c \in Calls |-> "unused"]
  /\ num = [c \in Calls |-> None]
  /\ data = [c \in Calls |-> None]
  /\ heap = [c \in Calls |-> "none"]
  /\ conn = {} /\ ending = {} /\ hidden = {} /\ hung = {}
  /\ queue = <<>>
  /\ tabs = [n \in Numbers |-> NoTab]
  /\ dlg = [c \in Calls |-> "none"]
  /\ sound = "none"
  /\ tones = {}
  /\ fwdCall = None /\ fwdTimer = FALSE
  /\ log = [c \in Calls |-> "none"]
  /\ uiCall = None /\ uiThen = "none" /\ wkCall = None
  /\ lost = {} /\ crashed = FALSE

Marks == IF CallsCounted THEN BOOLEAN ELSE {TRUE}

UiMessage ==
  \/ UiForwardNow \/ UiRing \/ UiCallState \/ UiCallEnd \/ UiMedia
  \/ UiTransferStatus \/ UiCreateRingingDlg \/ UiPlayerStop
  \/ UiAnswer \/ UiRefuse \/ UiAnswerTooLate

User ==
  \/ \E c \in Outgoing, n \in Numbers : MakeCall(c, n)
  \/ \E c \in Calls : \/ CommandAnswer(c) \/ DlgAnswer(c) \/ DlgDecline(c)
                      \/ DlgDeclineLate(c) \/ DlgIgnore(c) \/ HangUpFails(c)
  \/ \E c \in Calls, mark \in Marks : HangUp(c, mark) \/ HangUpWaiting(c, mark)

Worker ==
  \/ \E c \in Incoming, n \in Numbers :
       IncomingOffered(c, n) \/ IncomingRefused(c, n) \/ IncomingCrash(c, n)
  \/ \E c \in Calls, st \in States, code \in Codes : CallProgress(c, st, code)
  \/ \E c \in Calls, code \in Codes : CallEnds(c, code)
  \/ \E c \in Calls : MediaState(c)
  \/ \E c \in Calls, code \in {"200", "other"} : TransferStatus(c, code)
  \/ \E c \in Calls, d \in Outgoing, n \in Numbers : Transferred(c, d, n)
  \/ WkResetCall

Next == \/ UiMessage \/ User \/ UiResetCall \/ TimerForward \/ TimerTone
        \/ SoundEnds \/ Worker

\* The UI thread keeps taking messages off its queue and neither thread stays
\* inside a callback; nobody is obliged to call, to answer or to hang up.
Fairness == WF_vars(UiMessage) /\ WF_vars(UiResetCall) /\ WF_vars(WkResetCall)

Spec == Init /\ [][Next]_vars /\ Fairness

-----------------------------------------------------------------------------
(* Types, and the bookkeeping of the user data.                            *)

\* The queue, the slots, the widgets and the program counters have values the
\* code can give them.
TypeOK ==
  /\ inv \in [Calls -> States]
  /\ num \in [Calls -> Numbers \cup {None}]
  /\ data \in [Calls -> Calls \cup {None}]
  /\ heap \in [Calls -> {"none", "live", "freed"}]
  /\ conn \subseteq Calls /\ ending \subseteq Calls
  /\ hidden \subseteq Calls /\ hung \subseteq Calls
  /\ queue \in Seq(Messages)
  /\ tabs \in [Numbers -> Calls \cup {NoTab, NoCall}]
  /\ dlg \in [Calls -> {"none", "open", "closed"}]
  /\ sound \in {"none", "ring", "short", "ended"}
  /\ tones \subseteq Calls
  /\ fwdCall \in Calls \cup {None} /\ fwdTimer \in BOOLEAN
  /\ log \in [Calls -> {"none", "in", "out", "miss"}]
  /\ uiCall \in Calls \cup {None} /\ wkCall \in Calls \cup {None}
  /\ uiThen \in {"none", "endCall", "closeDlg", "fwdTimer"}
  /\ lost \subseteq Calls /\ crashed \in BOOLEAN

\* A message whose handler dereferences the pointer it carries.
Carries(m, u) == m.type \in WithData /\ m.data = u

\* The message that makes the UI thread delete the object it carries.
IsFinal(m) == m.type = "state" /\ m.st = "disconnected"

\* No pointer to a deleted or never created call_user_data exists anywhere it
\* could be followed: not in a slot, which both threads read, and not in a
\* message that the UI thread still has to process (onIncomingCall,
\* onCallState, onCallMediaState and onCallTransferStatus use it unchecked).
NoDanglingUserData ==
  /\ \A c \in Calls : data[c] # None => heap[data[c]] = "live"
  /\ \A i \in 1..Len(queue), u \in Calls : Carries(queue[i], u) => heap[u] = "live"

\* The message of DISCONNECTED is the last reference: when it is in the queue
\* no slot has the object and no later message carries it, so the delete in
\* onCallState can neither be repeated nor be overtaken by a use.
FinalMessageIsLast ==
  \A i \in 1..Len(queue), u \in Calls :
    (IsFinal(queue[i]) /\ queue[i].data = u) =>
      /\ \A c \in Calls : data[c] # u
      /\ \A j \in (i + 1)..Len(queue) : ~Carries(queue[j], u)

\* A call that was started while another was transferred does not keep the
\* user data of the other call.
NoSharedUserData ==
  \A c, d \in Calls : (data[c] = data[d] /\ c # d) => data[c] = None

-----------------------------------------------------------------------------
(* What the user sees.                                                     *)

\* The UI has seen everything that happened.
AtRest == queue = <<>> /\ uiCall = None /\ wkCall = None /\ ~crashed

EndQueued(c) == \E i \in 1..Len(queue) : IsFinal(queue[i]) /\ queue[i].call = c

\* The call of a tab (MessagesContact::callId, which the buttons Hang up,
\* Hold and Transfer act on) exists in PJSUA, or its end is on the way to the
\* UI, unless the program swallowed that end; and no two tabs share a call.
TabAgreement ==
  /\ \A n \in Numbers : tabs[n] \in Calls =>
       /\ num[tabs[n]] = n
       /\ inv[tabs[n]] \in Active \/ EndQueued(tabs[n]) \/ tabs[n] \in lost
  /\ \A n, k \in Numbers : (tabs[n] = tabs[k] /\ n # k) => tabs[n] \notin Calls

\* When the UI is at rest a ringing window is open exactly for the calls that
\* wait for an answer, except those the user ignored: none outlives its
\* call, none is missing.
RingingWindows ==
  AtRest => \A c \in Incoming :
    /\ dlg[c] = "open" => Waiting(c)
    /\ Waiting(c) => dlg[c] # "none"

\* When the UI is at rest the looped ringtone plays only while a call waits.
RingtoneForSomebody ==
  AtRest /\ sound = "ring" => \E c \in Incoming : Waiting(c)

\* When the UI is at rest an established call that nobody is hanging up can
\* be reached: the tab of its number shows it, unless there was another call
\* of that number (AddTab never gives a tab to a second call, so a call that
\* crosses one to the same party can be left without).
EstablishedCallReachable ==
  AtRest => \A c \in Calls :
    inv[c] = "confirmed" /\ c \notin ending =>
      tabs[num[c]] = c \/ \E d \in Calls \ {c} : num[d] = num[c]

\* When the UI is at rest the log tells what became of every call that is over
\* and whose end was reported: missed exactly if it came in and was never
\* connected.  A call whose tab another call occupied may be missing, and one
\* that the user hung up may have been logged before its ACK arrived.
LogTellsOutcome ==
  AtRest => \A c \in Calls \ lost :
    inv[c] = "reset" =>
      IF c \in Outgoing THEN log[c] \in {"out", "none"}
      ELSE IF c \in conn THEN log[c] \in {"in", "none"} \/ c \in ending
      ELSE IF c \in hidden THEN log[c] \in {"miss", "none"} ELSE log[c] = "miss"

\* forwardingTimerCallId never survives its timer.  A stale id would disable
\* delayed forwarding for good: on_incoming_call starts the timer only when
\* the id is invalid.
ForwardingNotStuck == fwdCall # None => fwdTimer \/ uiThen = "fwdTimer"

\* The ringing window of a call that still waits goes only when the user
\* closes it: no message about another call removes it.
WindowKeptWhileWaiting ==
  [][\A c \in Calls : dlg[c] = "open" /\ dlg'[c] # "open" =>
       ~Waiting(c) \/ DlgIgnore(c) \/ DlgDeclineLate(c)]_vars

\* A call that is over and was reported leaves nothing behind: eventually its
\* user data is deleted and no tab, window or ringback tone refers to it.
Forgotten(c) ==
  /\ heap[c] # "live" /\ dlg[c] # "open" /\ c \notin tones
  /\ \A n \in Numbers : tabs[n] # c

EndedCallsForgotten ==
  \A c \in Calls : (inv[c] = "reset" /\ c \notin lost) ~> (Forgotten(c) \/ crashed)

\* The user data obey their abstract specification.  An object is announced
\* when no slot has it and its final message is in the queue.
Owner(u) ==
  IF heap[u] = "none" THEN "nobody"
  ELSE IF heap[u] = "freed" THEN "freed"
  ELSE IF \E c \in Calls : data[c] = u THEN "slot"
  ELSE IF u \in lost THEN "leaked" ELSE "announced"

Lifetime == INSTANCE UserDataLifetime WITH own <- [u \in Calls |-> Owner(u)]

\* The user data obey UserDataLifetime: created once, announced once, deleted
\* once, and what was announced to the UI thread is deleted.
ImplementsLifetime == Lifetime!Spec

\* Without call waiting, a second call is not offered to the user while one
\* waits, unless the user already declined that one.
OneOfferAtATime ==
  ~CallWaiting => \A c, d \in Incoming :
    Waiting(c) /\ Waiting(d) /\ c # d => {data[c], data[d]} \cap hung # {}

\* No arrival of a call makes on_incoming_call follow a NULL pointer.
NoNullDereference == ~crashed
=============================================================================
