-------------------------------- MODULE Tones --------------------------------
(***************************************************************************)
(* In-band DTMF: the tone generators of the calls and the local one, the   *)
(* microphone that is muted while they play, the timers that release both, *)
(* and the digits that follow a number (commands): global.cpp.             *)
(*                                                                         *)
(* The UI thread plays digits for a call or for the user; the worker plays *)
(* those the peer sends to the user (on_dtmf_digit) and destroys the       *)
(* generator of a call put on hold (on_call_media_state).  Both do it in   *)
(* several steps.  A generator is a port of the conference bridge, which   *)
(* asks it for a frame only while somebody listens to it.                  *)
(***************************************************************************)
EXTENDS Integers, FiniteSets

CONSTANTS
  Calls,
  MaxDigits,     \* bound: digits pressed, sent to the window or received
  MaxCommands,   \* bound: digits that follow the number of a call
  MaxMedia,      \* bound: media updates of all calls
  MaxRestarts    \* bound: restarts of PJSUA

ASSUME TonesAssumption ==
  /\ IsFiniteSet(Calls) /\ Calls \cap {"local", "done", "stop"} = {}
  /\ {MaxDigits, MaxCommands, MaxMedia, MaxRestarts} \subseteq Nat

Local == "local"   \* call id -1: the generator tone_gen
NoPort == 0
Threads == {"ui", "wk"}
\* No play makes more than one generator.
Ports == 1 .. (MaxDigits + MaxCommands * Cardinality(Calls))

VARIABLES
  running,     \* is_pjsua_running
  call,        \* "new", "up" (CONFIRMED), "ending" (hung up) or "over"
  media,       \* media_status: "none", "active", "remoteHold" or "held"
  gen,         \* user_data->tonegen_data of each call, tone_gen
  made,        \* ports made so far: numbered in that order
  alive,       \* ports not yet destroyed
  heard,       \* ports somebody in the bridge listens to
  busy,        \* ports with tones left to play
  listed,      \* DTMFTonegens
  muted,       \* the microphone's level in the bridge is 0
  busyTimer,   \* tonegenBusyTimer runs
  timer,       \* destroyDTMFPlayerTimer: "none", or the thread that set it
  orphan,      \* a timer of the UI thread whose id was overwritten
  commands,    \* user_data->commands: digits left to send
  queueTimer,  \* calls with a DTMFQueueTimer
  confirmed,   \* calls whose message of CONFIRMED is queued
  refreshes,   \* messages queued that end in onRefreshLevels
  op,          \* the next step of each thread
  of,          \* the call it serves, or Local
  port,        \* the generator it has in hand
  next,        \* what it does then: a call, whose critical section it holds
               \* and whose queue goes on; "stop": PJSUA is destroyed; "done"
  torn,        \* history: ports listed while or after they are destroyed, or
               \* whose pointer was overwritten by another thread
  digits, updates, restarts   \* bounds: those so far

hardware == <<running, call, media>>
generators == <<gen, made, alive, heard, busy, torn>>
microphone == <<listed, muted, busyTimer, refreshes>>
timers == <<timer, orphan>>
queued == <<commands, queueTimer, confirmed>>
act == <<op, of, port, next>>
bounds == <<digits, updates, restarts>>
vars == <<hardware, generators, microphone, timers, queued, act, bounds>>

\* on_call_state clears the user data of a call that ends.
HasData(c) == c \in {Local} \cup {d \in Calls : call[d] \in {"up", "ending"}}
Cd(c) == IF HasData(c) THEN gen[c] ELSE NoPort
NoMessages == confirmed = {} /\ refreshes = 0

Does(t, o, c, p, n) ==
  /\ op' = [op EXCEPT ![t] = o] /\ of' = [of EXCEPT ![t] = c]
  /\ port' = [port EXCEPT ![t] = p] /\ next' = [next EXCEPT ![t] = n]
Goto(t, o, p) == Does(t, o, of[t], p, next[t])

\* The timer of the digits left.
MRearmed(c) == IF commands[c] > 1 THEN queueTimer \cup {c} ELSE queueTimer
Rearmed(c) == IF commands[c] > 0 THEN queueTimer \cup {c} ELSE queueTimer
Finish(t) ==
  LET c == next[t] IN
  /\ Does(t, IF c = "stop" THEN "off" ELSE "idle", Local, NoPort, "done")
  /\ queueTimer' = IF c \in Calls THEN Rearmed(c) ELSE queueTimer
  /\ UNCHANGED <<commands, confirmed>>

-----------------------------------------------------------------------------
(* call_play_digit, one step for what another thread may come between.     *)

Find(t) ==
  LET c == of[t] IN
  /\ op[t] = "find"
  /\ Goto(t, IF Cd(c) = NoPort THEN "make" ELSE IF c = Local THEN "found" ELSE "playToCall", Cd(c))
  /\ UNCHANGED <<hardware, generators, microphone, timers, queued, bounds>>

\* The pointer is stored again also when it was found.
Keep(c, p) ==
  /\ gen' = [gen EXCEPT ![c] = p] /\ torn' = torn \cup ({gen[c]} \ {p, NoPort})
Play(c) == IF c = Local THEN "playLocally" ELSE "playToCall"

Found(t) ==
  /\ op[t] = "found" /\ Keep(Local, port[t]) /\ Goto(t, "playLocally", port[t])
  /\ UNCHANGED <<hardware, made, alive, heard, busy, microphone, timers, queued, bounds>>

\* call_init_tonegen; msip_call_dial_dtmf plays to the user what it cannot
\* play to the call.
Make(t) ==
  LET c == of[t]
      possible == running /\ c \in {Local} \cup {d \in Calls : media[d] = "active"}
  IN  /\ op[t] = "make" /\ UNCHANGED <<hardware, microphone, timers, bounds, busy>>
      /\ \/ /\ possible
            /\ made' = made + 1 /\ alive' = alive \cup {made'} /\ heard' = heard \cup {made'}
            /\ Keep(c, made') /\ Goto(t, Play(c), made') /\ UNCHANGED queued
         \/ /\ ~possible /\ c # Local
            /\ Does(t, "find", Local, NoPort, next[t])
            /\ UNCHANGED <<gen, torn, made, alive, heard, queued>>
         \/ /\ ~possible /\ c = Local /\ Finish(t)
            /\ UNCHANGED <<gen, torn, made, alive, heard>>

\* The microphone is muted, the port entered in DTMFTonegens and played on;
\* what a destroyed port does is undefined: no more than the tone is lost.
PlayToCall ==
  LET p == port["ui"]
      destroyed == p \notin alive \/ port["wk"] = p
  IN  /\ op["ui"] = "playToCall" /\ Finish("ui")
      /\ muted' = TRUE /\ listed' = listed \cup {p} /\ busyTimer' = TRUE
      /\ busy' = busy \cup ({p} \cap alive)
      /\ torn' = IF destroyed THEN torn \cup {p} ELSE torn
      /\ UNCHANGED <<hardware, gen, made, alive, heard, refreshes, timers, bounds>>

\* KillTimer does not reach the timer of another thread, and a timer of the
\* worker, which has no message loop, never fires.
MArm(t) == timer' = timer /\ orphan' = orphan
Arm(t) == timer' = t /\ orphan' = (orphan \/ (t = "wk" /\ timer = "ui"))
PlayLocally(t) ==
  /\ op[t] = "playLocally" /\ Finish(t)
  /\ busy' = busy \cup ({port[t]} \cap alive)
  /\ Arm(t)
  /\ UNCHANGED <<hardware, gen, made, alive, heard, torn, microphone, bounds>>

-----------------------------------------------------------------------------
(* call_deinit_tonegen.                                                    *)

\* The critical section of the call is free for the thread.
MayEnter(t, c) == t = "wk" => next["ui"] # c

MUnlist(c, p) == listed' = listed
Unlist(c, p) == listed' = IF c = Local THEN listed ELSE listed \ {p}

Drop(t) ==
  LET c == of[t]
      p == IF running \/ c = Local THEN Cd(c) ELSE NoPort
  IN  /\ op[t] = "drop" /\ MayEnter(t, c)
      /\ Unlist(c, p)
      /\ IF p = NoPort THEN Finish(t) ELSE Goto(t, "destroy", p) /\ UNCHANGED queued
      /\ UNCHANGED <<hardware, generators, muted, busyTimer, refreshes, timers, bounds>>

MStillBusy(p) == alive' = alive \ {p} /\ heard' = heard \ {p} /\ UNCHANGED busy
MRemoved(p) == heard' = heard \ {p} /\ UNCHANGED <<alive, busy>>
Removed(p) == alive' = alive \ {p} /\ heard' = heard \ {p} /\ busy' = busy \ {p}

Destroy(t) ==
  LET p == port[t] IN
  /\ op[t] = "destroy" /\ Goto(t, "forget", p)
  /\ IF running THEN Removed(p) ELSE UNCHANGED <<alive, heard, busy>>
  /\ UNCHANGED <<hardware, gen, made, torn, microphone, timers, queued, bounds>>

Forget(t) ==
  LET c == of[t] IN
  /\ op[t] = "forget" /\ MayEnter(t, c)
  /\ gen' = [gen EXCEPT ![c] = NoPort] /\ torn' = torn \cup ({gen[c]} \ {port[t], NoPort})
  /\ Finish(t) /\ UNCHANGED <<hardware, made, alive, heard, busy, microphone, timers, bounds>>

Step(t) == Find(t) \/ Make(t) \/ Found(t) \/ PlayLocally(t) \/ Drop(t) \/ Destroy(t) \/ Forget(t)

-----------------------------------------------------------------------------
(* The UI thread: digits, timers and messages.                             *)

Ui(o, c, n) == op["ui"] = "idle" /\ Does("ui", o, c, NoPort, n)
UiWaits == op["ui"] = "idle" /\ UNCHANGED act

\* msip_call_dial_dtmf: only a call whose media is active plays.
Target(c) == IF c # Local /\ media[c] = "active" THEN c ELSE Local

\* Dialer::DTMF, for a button or the "/dtmf:" of a command line: the call of
\* the tab, or none.
Dial(c) ==
  /\ digits < MaxDigits /\ running /\ c \in {Local} \cup {d \in Calls : call[d] = "up"}
  /\ Ui("find", Target(c), "done") /\ digits' = digits + 1
  /\ UNCHANGED <<hardware, generators, microphone, timers, queued, updates, restarts>>

\* DTMFQueueTimerHandler, which holds the critical section of the call.
QueueTick(c) ==
  LET sends == running /\ HasData(c) /\ commands[c] > 0 IN
  /\ NoMessages /\ c \in queueTimer /\ queueTimer' = queueTimer \ {c}
  /\ \/ /\ sends /\ Ui("find", Target(c), c)
        /\ commands' = [commands EXCEPT ![c] = @ - 1]
     \/ ~sends /\ UiWaits /\ UNCHANGED commands
  /\ UNCHANGED <<hardware, generators, microphone, timers, confirmed, bounds>>

\* The timer runs until no port is left; the last tick posts the message.
MTickKills(left) == busyTimer' = FALSE /\ refreshes' = IF left = {} THEN refreshes + 1 ELSE refreshes
MAfterTick(left) == busyTimer' = (left # {}) /\ UNCHANGED refreshes
AfterTick(left) ==
  busyTimer' = (left # {}) /\ refreshes' = IF left = {} THEN refreshes + 1 ELSE refreshes

\* tonegenBusyHandler; what a destroyed port answers is undefined.
BusyTick ==
  /\ NoMessages /\ UiWaits /\ busyTimer
  /\ \E freed \in SUBSET (listed \ alive) :
       listed' = IF running THEN (listed \cap busy) \cup freed ELSE {}
  /\ AfterTick(listed')
  /\ UNCHANGED <<hardware, generators, muted, timers, queued, bounds>>

\* destroyDTMFPlayerTimerHandler, for the timer or for the orphan.
LocalTick ==
  /\ NoMessages /\ (timer = "ui" \/ orphan)
  /\ gen[Local] \in busy => ~running
  /\ timer' = "none" /\ UNCHANGED orphan
  /\ IF gen[Local] = NoPort THEN UiWaits ELSE Ui("drop", Local, "done")
  /\ UNCHANGED <<hardware, generators, microphone, queued, bounds>>

\* CmainDlg::onRefreshLevels, onCallMediaState: Dialer::OnHScroll.
RefreshLevels ==
  /\ UiWaits /\ refreshes > 0 /\ refreshes' = refreshes - 1
  /\ muted' = IF running THEN FALSE ELSE muted
  /\ UNCHANGED <<hardware, generators, listed, busyTimer, timers, queued, bounds>>

\* onCallState of CONFIRMED.
OnConfirmed(c) ==
  /\ UiWaits /\ c \in confirmed /\ confirmed' = confirmed \ {c}
  /\ queueTimer' = Rearmed(c)
  /\ UNCHANGED <<hardware, generators, microphone, timers, commands, bounds>>

\* msip_call_hangup_fast: OnEndCall comes before the DISCONNECTED callback.
HangUp(c) ==
  /\ running /\ call[c] = "up" /\ Ui("drop", c, "done")
  /\ call' = [call EXCEPT ![c] = "ending"]
  /\ UNCHANGED <<running, media, generators, microphone, timers, queued, bounds>>

\* PJDestroy: the local generator, the flag, then pjsua_destroy, which waits
\* for the worker, ends the calls and frees the ports.
Stop ==
  /\ restarts < MaxRestarts /\ running /\ Ui("drop", Local, "stop")
  /\ restarts' = restarts + 1
  /\ UNCHANGED <<hardware, generators, microphone, timers, queued, digits, updates>>

Off ==
  /\ op["ui"] = "off" /\ Goto("ui", "join", NoPort) /\ running' = FALSE
  /\ UNCHANGED <<call, media, generators, microphone, timers, queued, bounds>>

Join ==
  /\ op["ui"] = "join" /\ op["wk"] = "idle" /\ Goto("ui", "idle", NoPort)
  /\ call' = [c \in Calls |-> IF call[c] = "new" THEN "new" ELSE "over"]
  /\ media' = [c \in Calls |-> "none"]
  /\ alive' = {} /\ heard' = {} /\ busy' = {} /\ torn' = torn \cup alive /\ muted' = FALSE
  /\ UNCHANGED <<running, gen, made, listed, busyTimer, refreshes, timers, queued, bounds>>

PJCreate ==
  /\ ~running /\ UiWaits /\ running' = TRUE
  /\ UNCHANGED <<call, media, generators, microphone, timers, queued, bounds>>

-----------------------------------------------------------------------------
(* The worker: callbacks of PJSUA, and the tones as they are played.       *)

Wk(o, c) == running /\ op["wk"] = "idle" /\ Does("wk", o, c, NoPort, "done")
WkWaits == running /\ op["wk"] = "idle" /\ UNCHANGED act

\* on_call_state of CONFIRMED.
Confirmed(c) ==
  /\ WkWaits /\ call[c] = "new" /\ call' = [call EXCEPT ![c] = "up"]
  /\ confirmed' = confirmed \cup {c}
  /\ UNCHANGED <<running, media, generators, microphone, timers, commands, queueTimer, bounds>>

\* A stream whose parameters change (is_media_changed: its direction does on
\* hold) is removed from the bridge, and with it the connection to it.
Updates(c, m, changed) ==
  /\ updates < MaxMedia /\ call[c] = "up" /\ (m # media[c] => changed)
  /\ media' = [media EXCEPT ![c] = m] /\ updates' = updates + 1
  /\ heard' = IF changed THEN heard \ {gen[c]} ELSE heard
  /\ UNCHANGED <<running, call, gen, made, alive, busy, torn, listed, muted, busyTimer, timers,
                 queued, digits, restarts>>

MediaActive(c) ==
  /\ WkWaits /\ refreshes' = refreshes + 1
  /\ \E m \in {"active", "remoteHold"}, changed \in BOOLEAN : Updates(c, m, changed)

MediaHeld(c) ==
  /\ media[c] # "none" /\ Updates(c, "held", TRUE) /\ Wk("drop", c) /\ UNCHANGED refreshes

\* The DISCONNECTED callback; OnEndCall finds no user data any more.
Ends(c) ==
  /\ WkWaits /\ call[c] \in {"up", "ending"} /\ call' = [call EXCEPT ![c] = "over"]
  /\ media' = [media EXCEPT ![c] = "none"] /\ heard' = heard \ {gen[c]}
  /\ UNCHANGED <<running, gen, made, alive, busy, torn, microphone, timers, queued, bounds>>

OnDtmfDigit ==
  /\ digits < MaxDigits /\ \E c \in Calls : media[c] \in {"active", "remoteHold"}
  /\ Wk("find", Local) /\ digits' = digits + 1
  /\ UNCHANGED <<hardware, generators, microphone, timers, queued, updates, restarts>>

TonesEnd(p) ==
  /\ p \in busy \cap heard /\ busy' = busy \ {p}
  /\ UNCHANGED <<hardware, gen, made, alive, heard, torn, microphone, timers, queued, act, bounds>>

-----------------------------------------------------------------------------
Init ==
  /\ running = TRUE
  /\ call = [c \in Calls |-> "new"] /\ media = [c \in Calls |-> "none"]
  /\ gen = [c \in Calls \cup {Local} |-> NoPort]
  /\ made = 0 /\ alive = {} /\ heard = {} /\ busy = {} /\ listed = {} /\ torn = {}
  /\ muted = FALSE /\ busyTimer = FALSE /\ timer = "none" /\ orphan = FALSE
  /\ commands \in [Calls -> 0 .. MaxCommands]
  /\ queueTimer = {} /\ confirmed = {} /\ refreshes = 0
  /\ op = [t \in Threads |-> "idle"] /\ of = [t \in Threads |-> Local]
  /\ port = [t \in Threads |-> NoPort] /\ next = [t \in Threads |-> "done"]
  /\ digits = 0 /\ updates = 0 /\ restarts = 0

UiSteps == Step("ui") \/ PlayToCall \/ Off \/ Join
Next ==
  \/ UiSteps \/ Step("wk")
  \/ \E c \in Calls \cup {Local} : Dial(c)
  \/ \E c \in Calls : QueueTick(c) \/ OnConfirmed(c) \/ HangUp(c)
  \/ BusyTick \/ LocalTick \/ RefreshLevels \/ Stop \/ PJCreate
  \/ \E c \in Calls : Confirmed(c) \/ MediaActive(c) \/ MediaHeld(c) \/ Ends(c)
  \/ OnDtmfDigit
  \/ \E p \in Ports : TonesEnd(p)

\* Both threads go on, messages are handled, timers fire and the sound
\* device asks the bridge for frames.
Fairness ==
  /\ WF_vars(UiSteps) /\ WF_vars(Step("wk"))
  /\ WF_vars(BusyTick) /\ WF_vars(LocalTick) /\ WF_vars(RefreshLevels)
  /\ \A c \in Calls : WF_vars(QueueTick(c)) /\ WF_vars(OnConfirmed(c))
  /\ \A p \in Ports : WF_vars(TonesEnd(p))

Spec == Init /\ [][Next]_vars /\ Fairness

-----------------------------------------------------------------------------
(* Properties.                                                             *)

Ops == {"idle", "find", "make", "found", "playToCall", "playLocally",
        "drop", "destroy", "forget", "off", "join"}

TypeOK ==
  /\ running \in BOOLEAN /\ muted \in BOOLEAN /\ busyTimer \in BOOLEAN /\ orphan \in BOOLEAN
  /\ call \in [Calls -> {"new", "up", "ending", "over"}]
  /\ media \in [Calls -> {"none", "active", "remoteHold", "held"}]
  /\ made \in Nat /\ gen \in [Calls \cup {Local} -> 0 .. made]
  /\ alive \subseteq 1 .. made /\ heard \subseteq alive /\ busy \subseteq alive
  /\ listed \subseteq 1 .. made /\ torn \subseteq 1 .. made
  /\ timer \in {"none", "ui", "wk"}
  /\ commands \in [Calls -> 0 .. MaxCommands]
  /\ queueTimer \subseteq Calls /\ confirmed \subseteq Calls /\ refreshes \in Nat
  /\ op \in [Threads -> Ops] /\ of \in [Threads -> Calls \cup {Local}]
  /\ port \in [Threads -> 0 .. made] /\ next \in [Threads -> Calls \cup {"done", "stop"}]
  /\ digits \in Nat /\ updates \in Nat /\ restarts \in Nat

\* A muted microphone has somebody who will turn it on again: the timer of
\* the tones, or a message that refreshes the levels.
MutedHasTimer == running /\ muted => busyTimer \/ refreshes > 0

\* tonegenBusyHandler asks only ports that exist, but for one destroyed
\* while it was in the hands of a thread or by a restart of PJSUA.
ListedExist == listed \subseteq alive \cup torn

\* A port that exists can be reached by who is to destroy it.  What is lost
\* is the generator of a call the peer ended, whose user data is gone when
\* OnEndCall looks for it, or one of two made at once.
NoLostPort ==
  running => \A p \in alive \ torn :
    \/ \E c \in Calls \cup {Local} : gen[c] = p
    \/ \E t \in Threads : port[t] = p

\* Every digit that follows a number is taken from the queue when the call
\* is confirmed, or the call ends.
DigitsTaken ==
  \A c \in Calls : (call[c] = "up" /\ commands[c] > 0) ~> (commands[c] = 0 \/ call[c] = "over")

\* The local generator, and with it the sound device, is released, unless
\* the last one to play was the worker.
LocalReleased == (gen[Local] # NoPort) ~> (gen[Local] = NoPort \/ timer = "wk")

\* The microphone comes back unless a port is waited for that is destroyed,
\* or that has tones to play and no listener.
Stuck(p) == p \notin alive \/ (p \in busy /\ p \notin heard)
MicrophoneReturns == (running /\ muted) ~> (~muted \/ ~running \/ \E p \in listed : Stuck(p))

\* "mute microphone before play in-band tones": for the time of the tones,
\* not for the rest of the call.
InCall == running /\ \E c \in Calls : call[c] = "up" /\ media[c] = "active"
MicrophoneRestored == (InCall /\ muted) ~> (~muted \/ ~InCall)
=============================================================================
