# NanoSIP: verification project

NanoSIP is a Windows softphone (MFC user interface, PJSIP/PJSUA underneath), a
trimmed fork of MicroSIP.  Two threads carry its logic: the PJSIP **worker**,
which runs the callbacks `on_*` of `mainDlg.cpp`, and the **UI thread**, which
runs the message loop.  They share the slots of PJSUA and one heap object per
call, `call_user_data`, whose raw pointer travels from one to the other in
posted messages.  That protocol is the core of the program and of this project; around
it stand the conference bridge, the tones, the accounts and the locks.

Paths below are relative to `src/NanoSIP/`.

## 1. Inventory

| Component | State it keeps | Operations | Interacts through |
|---|---|---|---|
| PJSIP callbacks (`mainDlg.cpp:173-243, 611-661, 742-922, 1130-1240`) | none of its own | `on_incoming_call`, `on_call_state`, `on_call_media_state`, `on_call_transfer_*` | slot user data, `PostMessage` |
| `call_user_data` (`global.h:316-354`) | flags `hidden`, `hangup`, `forwarding`, `inConference`, recorder, timers, lock `CS` | create, attach, hand over, delete | pointer in the slot and in messages |
| PJSUA slots (`pjproject/.../pjsua_call.c`, vendored) | invite state, remote party, user data | make, answer, hangup, enumerate, reset | callbacks, dialog lock, PJSUA lock |
| Main window handlers (`mainDlg.cpp:245-609, 663-703, 924-979, 1168-1190, 2309-2383, 4230-4266`) | `forwardingTimerCallId`, `toneCalls`, `ringinDlgs` | one handler per message, `OnTimer` | messages, direct calls |
| Messages window (`MessagesDlg.cpp`) | tabs: number, `callId`, last call | `AddTab`, `CallMake`, `OnEndCall`, `CloseTab`, `CallAction`, merge, transfer | called by handlers and by the user |
| Ringing windows (`RinginDlg.cpp`) | one window per waiting call, `answered` | answer, decline, close | `ringinDlgs`, player |
| Player and ringback (`mainDlg.cpp:4021-4151, 441-462`) | player id, end-of-file flag | play, stop, EOF callback (audio thread) | `UM_ON_PLAYER_STOP`, timer |
| Forwarding (`mainDlg.cpp:899-916, 279-285, 2589-2595`) | one timer, one call id | start, cancel, fire | `CallAction` (302) |
| Call log (`Calls.cpp`) | one entry per Call-ID | `Add`, `SetDuration`, `SetInfo` | called by handlers and `OnEndCall` |
| Conference, recording, hold (`global.cpp:1182-1660`, `MessagesDlg.cpp:1431-1500, 1568-1619, 1799-1876`) | `inConference`, recorder ids, bridge connections, automatic hang-up timer | merge, separate, join, leave, hold, start, stop | nested critical sections, the bridge |
| PJSUA/account life cycle (`mainDlg.cpp:2040-2098, 2672-3310, 3371-3470, 3701-3890`, `AccountDlg.cpp`) | `account`, `account_local`, `accountId`, the profiles and their numbers, the modeless dialog, `dialNumberDelayed` | create, destroy, restart, suspend, add and delete an account or a profile, dial | `UM_ON_REG_STATE2`, `WM_COPYDATA`, message boxes |
| Presence (`mainDlg.cpp:4564-4607`) | buddies shared by numbers | subscribe, unsubscribe | PJSUA buddies |
| Settings (`settings.cpp`) | settings, pending-save timer | load, save, debounce | ini file |
| Dialer, tones (`global.cpp:330-678`, `Dialer.cpp`) | generators, `DTMFTonegens`, digits left, three timers, microphone level | play, queue, destroy | timers, bridge, both threads |
| Numbers and addresses (`global.cpp`, `lib/MSIP.cpp`) | none | format, parse | pure functions |
| Headset (`lib/Hid.cpp`), devices (`MMNotificationClient.h`), widgets, jump list, translations, theme, crypto, CSV | local | presentation and I/O | Windows API |

What is hard here: a callback runs in the thread that caused it, so the UI
thread also runs `on_call_state`; between the callback of DISCONNECTED and
`reset_call()` the slot is visible to the other thread; a queued message can
outlive its call; the user, the peer and the timers act on the same call at
once; one of several steps may fail because the dialog lock is not free;
several calls share one timer, one player, one recorder and one log; PJSUA is
destroyed and created under calls, messages and timers that know nothing of it;
a message box handles messages inside the call that shows it; and both threads
nest the critical sections of calls and the lock of PJSUA.  `PROJECT.json` lists
the hazards line by line.

What makes the components correct:

- user data: never used after its deletion, deleted once, never shared;
- tabs: the `callId` names a call that exists or whose end is on its way;
- ringing windows: open exactly for the waiting calls the user did not ignore;
- player: the looped ringtone plays only while a call waits;
- forwarding: its call id cannot outlive its timer;
- call log: it tells what became of the call;
- limits: without call waiting only one call is offered at a time;
- conference: only members hear each other, nobody is a member alone, a shared
  recorder is open while one of its calls lives and not after the last;
- timers: an entry of PJSIP's timer heap lies in an object that exists;
- tones: the generator of a call is not lost and not asked after its
  destruction, a muted microphone comes back, digits are sent;
- accounts: PJSUA holds the profile that was selected last and no other, the
  settings know its number, a number handed over is dialled once and not lost;
- locks: the two threads never wait for each other.

## 2. Plan

Done, in this order: `CallLifecycle` with `UserDataLifetime`; `Conference`;
`LockOrder`; `AccountLifecycle`; `Tones`; the proofs `CallLifecycleProofs`,
`TonesProofs`, `AccountLifecycleProofs`, `CallWidgetsProofs`, `UserDataProofs`,
`AccountRegistrationProofs`, `ConferenceProofs` and `ConferenceEndProofs`.

What could follow: slots used again and again (`UM_CREATE_RINGING`,
`UM_CALL_ANSWER`, `forwardingTimerCallId` carry only an id); the player with its
id, port and EOF callback, refining `sound` of `CallLifecycle`; the call log keyed
by Call-ID, with forked calls; `CloseTab` and attended transfer; number formats as
operators.  Every safety property of the passing runs is a theorem; what is left to
prove is what new modules bring.

## 3. Modules

| Module | What it is |
|---|---|
| `CallLifecycle` | the specification of the core, with its properties |
| `UserDataLifetime` | the abstract specification of a `call_user_data` |
| `MCCallLifecycle` | the symmetry set for TLC |
| `CallLifecycleProofs` | theorems about `CallLifecycle`: types, user data, forwarding |
| `CallWidgetsProofs` | theorems about `CallLifecycle`: tabs, windows, ringtone, log, offers |
| `UserDataProofs` | `CallLifecycle` implements the steps of `UserDataLifetime` |
| `Conference` | merge, separate, hold, recording, automatic hang-up over the bridge |
| `ConferenceProofs` | theorems about `Conference`: ports, connections, recorders |
| `ConferenceEndProofs` | theorems about `Conference`: what the end of a call leaves behind |
| `LockOrder` | the lock operations of both threads' handlers |
| `AccountLifecycle` | PJSUA, its accounts, presence and the number that waits |
| `AccountLifecycleProofs` | theorems about `AccountLifecycle`: accounts and numbers |
| `AccountRegistrationProofs` | theorems about `AccountLifecycle`: what a registration sets off |
| `Tones` | in-band digits, generators, their timers and the microphone |
| `TonesProofs` | theorems about `Tones` |
| `MCConference`, `MCLockOrder`, `MCAccountLifecycle`, `MCTones` | instances |

The modules meet in what they share: a call that `CallLifecycle` follows from
INVITE to deletion appears in `Conference` once it is dialled or answered, in
`Tones` once it is confirmed, and in `AccountLifecycle` only as being there or
not.  Their product is far beyond TLC; each keeps of the others what its own
code reads.

### CallLifecycle: state

`inv, num, conn, ending, data` are the slots of PJSUA; `heap, hidden, hung` the
user data objects and their two flags; `queue` the messages posted to the UI
thread; `tabs, dlg, sound, tones, fwdCall, fwdTimer, log` the widgets of the UI
thread; `uiCall, uiThen, wkCall` the place of each thread between the
DISCONNECTED callback and `reset_call()`; `lost` the calls whose end was
swallowed (`mainDlg.cpp:183`); `crashed` that NULL was dereferenced.

A call identifier is one use of a slot: PJSUA allocates them round robin over 32
slots, so none is used twice within a run.  An object is named after the call it
was created for; `data[c] = d` with `c # d` is the pointer inherited by a
transfer.

### CallLifecycle: actions

| Actions | Code |
|---|---|
| `IncomingOffered`, `IncomingRefused`, `IncomingCrash` | `on_incoming_call` after `pjsua_call_on_incoming` |
| `CallProgress`, `CallEnds`, `WkResetCall` | `on_call_state` in the worker, `pjsua_call_on_state_changed`, `reset_call` |
| `MediaState`, `TransferStatus`, `Transferred` | `on_call_media_state`, `on_call_transfer_status`, a REFER (`on_call_transferred`, `on_call_transfer_request2`) |
| `UiForwardNow`, `UiRing` | `onIncomingCall` |
| `UiCallState`, `UiCallEnd`, `UiMedia`, `UiTransferStatus` | `onCallState`, `onCallMediaState`, `onCallTransferStatus` |
| `UiCreateRingingDlg`, `UiPlayerStop`, `UiAnswer`, `UiRefuse`, `UiAnswerTooLate` | `onCreateRingingDlg`, `onPlayerStop`, `onCallAnswer` |
| `MakeCall`, `HangUp`, `HangUpWaiting`, `HangUpFails` | `CallStart`/`CallMake`, `msip_call_end`, `msip_call_hangup_fast` |
| `CommandAnswer`, `DlgAnswer`, `DlgDecline`, `DlgDeclineLate`, `DlgIgnore` | the command line and `RinginDlg` |
| `UiResetCall` | the rest of a disconnection that the UI thread started, and what its caller does next |
| `TimerForward`, `TimerTone`, `SoundEnds` | `OnTimer`, the EOF callback of the player |

Atomicity follows the locks.  `on_incoming_call` runs with the locks of PJSUA
and of the dialog.  The other callbacks hold the dialog lock, which answering
and hanging up need too.  Where the callback creates the object before anyone
else may see it, the object's `CS` is held to the end, so that the delete in
`onCallState` waits.  What is *not* covered by a lock, the time between
the DISCONNECTED callback and `reset_call()`, is a state of its own
(`uiCall`, `wkCall`), because `pjsua_enum_calls` and `pjsua_call_get_user_data`
take no dialog lock.

A final answer fails when the dialog lock is not free (`acquire_call`); every
answer and refusal of the user has that outcome as well (`Answer`, `UiRing`,
`UiAnswerTooLate`, `DlgDeclineLate`, `TimerForward`, `HangUpFails`).  In single
mode the hang-up of the other calls is assumed to succeed.  The refusal inside
`on_incoming_call` always succeeds, since that thread already holds the locks;
the branch that deletes a hidden object in the worker (`mainDlg.cpp:197-204`)
is therefore never taken in the runs, and it is in the model all the same.

A timer message is delivered only when no posted message waits (`TimerForward`
needs an empty queue).  Actions of the user may come at any time: media keys and
`WM_COPYDATA` do not wait for the queue.

Abstractions: in the log `"miss"` stands for `MSIP_CALL_MISS` and
`MSIP_CALL_ELSE`; status codes are `180 183 200 481 486` and `other`; a number
is a model value; refusal by the deny settings or for an ignored Call-ID is a
nondeterministic choice in `IncomingRefused`; an outgoing call that hears 180
has no early media, one that hears 183 has.

### Conference

`mix` is the record the helper functions work on: members (`conf`), recorders and
their ports, the port of each call, the connections (`wire`), `local_hold`
(`held`) and unanswered re-INVITEs (`reinv`).  Each of `msip_conference_join`,
`msip_conference_leave`, `msip_call_hold`, `msip_call_unhold`,
`msip_call_recording_start` and `_stop` is an operator from one such record to the
next; a loop over `pjsua_enum_calls` is `InOrder`, a recursive function of the slot,
since each turn finds what the one before it left.  Ports are numbers that are handed out again, so a
DISCONNECTED message may carry one that belongs to another call by then.

| Actions | Code |
|---|---|
| `Dial`, `Answer`, `Invite` | `CallStart`/`CallMake`, `onCallAnswer`, `CallAction(MSIP_ACTION_INVITE)`, which may fail |
| `Merge`, `MergeAll`, `Separate`, `SeparateAll` | the menu of the messages window |
| `HoldButton`, `RecButton`, `ACButton`, `EndButton`, `HangUp` | `OnBnClickedHold`, `OnBnClickedRec`, `OnBnClickedAC`, `msip_call_end`, `msip_call_hangup_fast` |
| `OnEstablished`, `OnDisconnected` | `onCallState` with `AddTab`, `OnMergeAll` and `OnEndCall` |
| `FirstMedia`, `Confirm`, `Disconnected`, `TimerFires` | `on_call_media_state`, `on_call_state`, `call_timeout_callback` |
| `ReinviteAccepted`, `ReinviteRefused`, `RemoteReinvite` | re-INVITEs of ours and of the peer |

### LockOrder

A handler is the sequence of its lock operations on the critical sections of the
calls and on `PJSUA_LOCK`, computed when it starts from the calls and members
there are.  `Network` starts the callbacks of the worker, `Window` and `Merge` the
handlers and menus of the UI thread, `Step` takes or leaves the next lock.  Locks
are recursive.  Functions that go through `acquire_call` give up after two seconds
and so are no steps.  `msip_conference_join` leaves a section once too often
(`global.cpp:1268`): that is undefined on Windows, so either nothing happens or
nobody enters the section again.

### AccountLifecycle

`ua` holds PJSUA (slots of accounts, the last answer of the registrar, pending
registrations) and what the main window believes of it (`account`,
`account_local`, `isSubscribed`); `stored` are the profiles of the ini file by their
number; `profile` is what the program has in memory of the selected one, its number
`accountId` and the account itself; `dialog` is the profile the account dialog was
opened for, which is modeless, so that everything else goes on under it; `delayed` is
`dialNumberDelayed`; `boxes` are the message boxes of calls that could not be
made, inside which messages are handled.  The history field `shifted` of `profile`
records that a lower number was deleted since the profile was selected.  The operators carry the names of the
functions (`PJCreate`, `PJDestroy`, `PJAccountAdd`, `DialNumber`,
`UpdateWindowText`, ...), and an action is one event:

| Actions | Code |
|---|---|
| `CopyData`, `OnCommandLine` | `onCopyData`, `onCommandLine`, `DialNumberFromCommandLine` |
| `Suspend`, `Resume`, `SettingsOk`, `OnSettings` | `OnPowerBroadcast`, `SettingsDlg` |
| `MenuAccountChange` | `OnMenuAccountChange` |
| `AccountDlgOpen`, `AccountDlgClose`, `AccountDlgOk`, `AccountDlgDelete` | the account dialog, for a new profile, a stored one or the local account: `Load`, `OnClose`, `OnBnClickedOk`, `OnNMClickSyslinkDelete` |
| `Refresh`, `CallUp`, `HangUp`, `OnCallEnd`, `CallOver` | what ends in `UpdateWindowText`, and the calls it counts |
| `RegisterAnswered`, `Reregister`, `OnRegState` | `regc_cb`, `onRegState2` |
| `CloseBox` | the return from the message box of `CallStart` |

A command line that names a profile selects it; one that names a profile which is not
stored empties the number and goes on with what is left (`Emptied`).  Deleting a
profile moves those above it down by one; only if it is the selected one is another
selected.  A sent message (`WM_COPYDATA`, `WM_POWERBROADCAST`) may come while posted ones
wait; input may not.  Creation of PJSUA, the addition of an account and a call may
each fail.  The local account is not added to a PJSUA that is not running, where
`pjsua_acc_add` fails and its result is ignored (`mainDlg.cpp:3271`).

### Tones

A generator is a numbered port: `alive` in the bridge, `heard` by somebody, `busy`
with tones; `gen` says who keeps a pointer to it, `listed` is `DTMFTonegens`.
`call_play_digit` and `call_deinit_tonegen` are split where another thread may come
between (`Find`, `Make`, `Found`, `PlayToCall`, `PlayLocally`; `Drop`, `Destroy`,
`Forget`), with what each thread has in hand in `op`, `of`, `port`, `next`.

| Actions | Code |
|---|---|
| `Dial`, `OnDtmfDigit`, `QueueTick`, `OnConfirmed` | `Dialer::DTMF`, `on_dtmf_digit`, `DTMFQueueTimerHandler`, `onCallState` |
| `BusyTick`, `LocalTick`, `RefreshLevels` | `tonegenBusyHandler`, `destroyDTMFPlayerTimerHandler`, `onRefreshLevels` |
| `Confirmed`, `MediaActive`, `MediaHeld`, `Ends`, `HangUp` | state and media callbacks, `msip_call_hangup_fast` |
| `Stop`, `Off`, `Join`, `PJCreate` | `PJDestroy` step by step, `PJCreate` |
| `TonesEnd` | the bridge has played the tones of a port that is heard |

`timer` and `orphan` are the timer of the local generator: `KillTimer` does not
reach a timer of another thread, and the worker has no message loop.  Using a
destroyed port is undefined; the model lets the tone be lost, and marks the port
(`torn`).

## 4. Runs

| Run | Instance | Checks |
|---|---|---|
| `incoming` | two incoming calls, delayed forwarding, command line | `RingingWindows`, `LogTellsOutcome`, `ForwardingNotStuck`, `WindowKeptWhileWaiting` |
| `mixed` | one incoming, one outgoing, single mode, media and sounds | `RingtoneForSomebody`, `TabAgreement`, `EstablishedCallReachable` |
| `transfer` | two outgoing calls, the second made by hand or by a REFER | `TypeOK`, `NoDanglingUserData`, `FinalMessageIsLast`, `NoSharedUserData` |
| `lifetime` | one incoming, one outgoing, with fairness | `EndedCallsForgotten`, `ImplementsLifetime` |
| `limits` | two incoming calls, no call waiting, immediate forwarding | `OneOfferAtATime` |
| `null_deref` | two incoming calls | `NoNullDereference`, **violated** |
| `conference` | one incoming and two dialled calls, two recorders | `ConversationsApart`, `NoLonelyMember`, `RecorderOpen`, `RecorderReleased`, `TimerInLiveObject`, `EndReachesAll`, `SeparatesAll`, `TypeOK` |
| `auto_hangup` | two calls of the same party | `TimerInLiveObject`, **violated** |
| `lock_order` | two calls, both threads | `NoDeadlock`, **violated** |
| `account` | two profiles, one with a server, two numbers | `NoOrphanAccount`, `AccountIsSelected`, `MadeOnce`, `NoNumberLeftWaiting`, `NumberKept`, `PresenceAgrees`, `TypeOK` |
| `tones` | one call, digits of all kinds, a restart, with fairness | `MutedHasTimer`, `ListedExist`, `NoLostPort`, `DigitsTaken`, `LocalReleased`, `MicrophoneReturns`, `TypeOK` |
| `microphone` | one call, two digits | `MicrophoneRestored`, **violated** |

Explored: 0.87 million distinct states (`incoming`), 1.7 million (`mixed`), 0.37
million (`transfer`), 0.21 million (`lifetime`), 0.17 million (`limits`).

### What they show

- Whatever order the peer, the user, the timers and the queue act in, a pointer
  that is still in a slot or in a message points to a live object, the message
  of DISCONNECTED is its last holder, and every object whose end was announced
  is deleted.  `UserDataLifetime` states that promise, `ImplementsLifetime` says
  the code keeps it.
- When the UI has caught up, ringing windows, ringtone, tabs and log agree with
  the calls.  The exceptions are written into the properties: a call swallowed
  with status 481 keeps its tab (`lost`); a call whose tab belongs to another
  call of the same number may have no tab and no entry; a call that the user
  hung up before its ACK may be logged as missed; a call the user already
  declined, but which is not over, may be followed by another one.
- Forwarding cannot be disabled by a stale id, although `OnEndCall` kills the
  timer on the wrong window (`MessagesDlg.cpp:948`).
- **Finding.** `null_deref`: a call is offered, the user declines it, and another
  call arrives before `reset_call()`.  `on_incoming_call` enumerates the declined
  call, whose user data is already NULL, tests `user_data` of the *new* call and
  dereferences `user_data_curr` (`mainDlg.cpp:820-822`).  Only a disconnection in
  the UI thread opens the window: the worker is a single thread and resets the
  slot before it takes another event.

- Conference: in every order of merging, separating, holding, recording and
  ending, calls are connected only while both are members, the conference
  dissolves with its last but one member, and a shared recorder is closed by its
  last call and not before.  Exceptions, written into the properties: a failed
  invitation takes the selected call out of the conference and leaves it
  connected, and an automatic merge with a call that is already over leaves the
  others in a conference with nobody (both in `dropped`); a call merged or recorded after the user hung it up has
  no tab, so nobody looks after it.
- **Finding.** `auto_hangup`: a call without a tab ends, `OnEndCall` returns
  before it cancels the timer (`MessagesDlg.cpp:943`), and the timer entry is
  deleted with its user data while PJSIP still has it.
- **Finding.** `lock_order`: `onCallState` of CONFIRMED holds the section of its
  call and asks PJSUA for the media (`mainDlg.cpp:312`); `on_incoming_call`, under
  the lock of PJSUA, compares its call with that one and waits for the section.
- Accounts: PJSUA never holds an account the program forgot, the one in use is the
  profile selected last, which is stored at the number `accountId`, a deleted profile is
  never in use, a number is dialled once, and it is dialled when the account is
  registered even if a call was up then.  Exceptions: after
  a dialog that was opened before has deleted a lower profile, the profile in use is
  stored below `accountId`, which names another profile or none
  (`AccountDlg.cpp:514`; `AccountIsSelected` excepts it by `shifted`); a number that comes while
  the box of a failed call is open is wiped when the box closes, and a number that
  waits is wiped by a command line with an unknown profile (`NumberKept`
  names `CloseBox` and `Misdirected`); a late 200 of a deleted account uses up the subscription when
  no account is left, so that the next one gets none (`PresenceAgrees` excepts
  exactly that: the history field `missed` records a subscription without account).
- Tones: `DTMFTonegens`, the generators of calls that `tonegenBusyHandler` asks, has no
  destroyed port, no generator is forgotten, the queue of digits
  drains and the microphone comes back, except for the ports two threads or a
  restart tear (`torn`), the timer the worker sets, and the case of the next item.
  The generator of a call the peer ended stays in the bridge; the model still has it
  in `gen`, so `NoLostPort` does not count it.  Nothing is said of a second destruction,
  nor of the local generator being played after its own: `Found` may store a port
  that the worker destroyed meanwhile, without marking it `torn`.
- **Finding.** `microphone`: a re-INVITE that changes the stream takes the only
  listener from the call's generator; the next digit mutes the microphone and is
  never played, so that `tonegenBusyHandler` waits for ever.

### Bounds

`Calls` has two members per run: each hazard above concerns one call or a pair.
`Numbers` has two, so that two calls may have the same party or different ones.
`Backlog` stops the worker while so many messages are queued: three or four
leave all messages of one call queued at once; `lifetime` uses two because
liveness is costly.  `Events` chooses which of the repeatable events an
instance has, and `MaxQueue` limits how long the queue may be when one is
posted.  `CallsCounted` leaves the flag `hangup` open only where calls are
counted (`limits`); elsewhere nothing reads it.  `SYMMETRY` is used
in the safety runs only; calls of a direction and numbers are interchangeable.

`conference` has three calls, the fewest for which a conference outlives a
departure and a recorder is shared by some members only; `MaxOps` (two operations
of the user, timers and refusals) and `MaxReinvite` (one) suffice for merge and
separate, merge and record, record and hold.  `Events` are the optional ones.  A
dialled call enters the conference by a merge or by an invitation, so two
operations reach all three members; the automatic conference (`AC`), switched on
by its button, reaches them with one.  `MaxQueue` keeps two messages waiting at
most, those of two calls or the end of a call behind its beginning.
`account`: two profiles, stored in the order 2, 1 or to be entered, so that a number is
not the name of a profile, and command lines with the numbers 1, 2 or none (2 is not
always stored); to open a dialog, select another profile and delete are three
operations.  `MaxOps` four operations allow a change of account, a restart, a call
and a number in any order; `MaxAnswers` three, `MaxQueue` three and `MaxBoxes` two
let two answers wait behind each other while a second box is open.  `tones`:
`MaxCommands` two, so that the timer is set again after a digit (`global.cpp:423-425`);
`MaxDigits` one of the user or the peer, whose generator meets that of the queue: a queued digit
is played to the user while the call is held, when the worker may play one it received.
`microphone` has two digits of the user and no queue.
`MaxMedia` two is a hold and a resumption, or two changes of the stream;
`MaxRestarts` one.  `lock_order` needs two calls for two locks besides PJSUA's.

`CHECK_DEADLOCK FALSE` in all runs: when all calls of the instance are over and
all windows are closed nothing is left to do.

### Fairness

`WF(UiMessage)`: the message loop takes every posted message;
`WF(UiResetCall)` and `WF(WkResetCall)`: a thread that is inside a disconnection
finishes it.  `Tones` assumes that each thread goes on (`WF(UiSteps)`,
`WF(Step("wk"))`), that the three timers fire and messages are handled, and that the
sound device asks the bridge for frames (`WF(TonesEnd(p))`, enabled only while
somebody listens).  No fairness is assumed of the user, of the peer, of any other
timer or of the network.

## 5. Proofs

`CallLifecycleProofs` proves, for every set of calls and numbers and every
setting that `CallsAssumption` and `SettingsAssumption` allow:

| Theorem | Statement |
|---|---|
| `Inductive` | `Spec => []IInv` |
| `TypeCorrect` | `Spec => []TypeOK` |
| `UserDataAlive` | `Spec => []NoDanglingUserData` |
| `DeleteIsLastUse` | `Spec => []FinalMessageIsLast` |
| `UserDataNotShared` | `Spec => []NoSharedUserData` |
| `ForwardingRecovers` | `Spec => []ForwardingNotStuck` |

`NoDanglingUserData` is not inductive: a freed object could be named by a later
message, or by a slot whose call the invariant says nothing about.  The
inductive invariant `IInv` adds the ownership the protocol relies on:
`SlotOwn` (a slot holds its own object, which is live), `ActiveOwns` (a
call that goes on has its object), `UnusedFresh` (the object of a call that does
not exist yet does not exist), `HiddenIsOver` (only refused calls are hidden),
and, on the queue, `QLive` (a carried object is live) and `QFinal` (no slot and
no later message refers to an object once its final message is queued).  The
parts about the queue are operators of queue, slots and heap, so that the lemmas
`QTail`, `QConcat`, `QPlain`, `QAdd` and `QMono` speak of taking a message,
appending one without and one with a pointer, and changing the heap; the lemma
`EnterStateInv` covers every call of `on_call_state`, in whichever thread.  Each
group of actions (`UiMessageInv`, `UserInv`, `UiRestInv`, `WorkerInv`) then
preserves the invariant.  TLC checked `IInv` as an invariant of the same
instances before the proof was written.

`ForwardingRecovers` uses `FwdInv`, which adds what the UI thread is in the
middle of (`UiThenInv`) to the property.

`CallWidgetsProofs` proves, under the same assumptions:

| Theorem | Statement |
|---|---|
| `WidgetsFollow` | `Spec => []WidgetsInv` |
| `TabsAgree` | `Spec => []TabAgreement` |
| `WindowsMatchCalls` | `Spec => []RingingWindows` |
| `RingtoneStops` | `Spec => []RingtoneForSomebody` |
| `CallsReachable` | `Spec => []EstablishedCallReachable` |
| `LogIsRight` | `Spec => []LogTellsOutcome` |
| `OneCallOffered` | `Spec => []OneOfferAtATime` |
| `WindowsStay` | `Spec => WindowKeptWhileWaiting` |

These properties speak of the UI at rest, so none of them says anything while a
message is queued.  `WidgetsInv` says it: a widget is as it should be, or the
message that will put it right is on its way.  `QueueInv` is about the messages
themselves: what a message says of its call is still true when it is taken
(`Faithful`), the DISCONNECTED message of a call comes after all others that carry
its data (`Going`), the message that asks for a ringing window comes before those
that close it (`Asking`), and the offer comes first (`IncomingFirst`).
`SlotsInv` says what the slots of PJSUA and the two interrupted callbacks can be.
`TabsInv`, `DlgsInv`, `RingtoneInv`, `ReachInv`, `LogInv` and `OfferInv` are the
properties with the queue in them.  The proof does not go through the some thirty
actions for each: `Effect` names the ways in which any action changes slots
and queue (a call begins, advances, ends, vanishes, is refused, is reset, or none
does), `Widgets` those in which it changes the widgets, one lemma per group of actions
shows that there are no others, and `Past` draws from `Effect` what every step
leaves of a call.  The lemmas of the six parts then use only these.

`UserDataProofs` proves the refinement of `UserDataLifetime`, fairness apart:

| Theorem | Statement |
|---|---|
| `LifetimeKept` | `Spec => Lifetime!Safety` |

`HeapGrows` says of every action but `UiCallEnd` that it allocates exactly the
object of a call it begins (the callback of an active call finds its object in the
slot, so the allocation in `on_call_state` never happens for one); with `Effect`,
which says who leaves a slot and who is reported, each kind of step is one abstract
step or none (`EffectOwner`).  `UiCallEnd` deletes an object that `Faithful` and `QFinal`
show to be announced (`EndOwner`).  The step `DeleteHidden` is never needed: a call
is hidden only when it is over.

`TonesProofs` proves, for every finite set of calls and every bound that
`TonesAssumption` allows:

| Theorem | Statement |
|---|---|
| `Invariance` | `Spec => []IInv` |
| `TypeCorrect` | `Spec => []TypeOK` |
| `MuteHasAnEnd` | `Spec => []MutedHasTimer` |
| `OnlyPortsThatExist` | `Spec => []ListedExist` |
| `NoPortForgotten` | `Spec => []NoLostPort` |

None of the four is inductive: a step uses the port the thread looked up some steps
before.  `IInv` says what that port may be.  `Hands` ties what a thread has in
hand to its step (only the UI thread plays to a call or stops PJSUA; a thread that
makes or destroys has a port that was made); `Down` says what a stopped PJSUA leaves (no
mute, the worker idle); `Apart` that the generator of the user and those of calls are
never the same port; `Leaving` that a port about to be destroyed is no longer
listed or is torn; `Stored` that a port about to be played is still the one its
owner keeps.  `Apart` and `Leaving` give `ListedExist`, `Stored` and `Leaving` give
`NoLostPort`.  One lemma per part (`HandsStep`, `DownStep`, `ApartStep`,
`LeavingStep`, `StoredStep`, `MutedStep`, `ListedStep`, `LostStep`, and the typing
lemmas) splits on the actions; `OtherActions` gathers those that touch neither
thread nor ports.  TLC checked `IInv` on the instance of `tones` first.

`AccountLifecycleProofs` proves, for every set of profiles, servers and numbers,
every choice of settings and failures and every bound that `AccountAssumption`
allows:

| Theorem | Statement |
|---|---|
| `Invariance` | `Spec => []IInv` |
| `TypeCorrect` | `Spec => []TypeOK` |
| `NoAccountForgotten` | `Spec => []NoOrphanAccount` |
| `SelectedAccountInUse` | `Spec => []AccountIsSelected` |
| `OneCallPerNumber` | `Spec => []MadeOnce` |
| `NumberIsKept` | `Spec => NumberKept` |

`IInv` has three parts beside the types.  `Sound`, of PJSUA and the selected profile,
joins the first two properties with what they need: a stopped PJSUA has no account,
a running one has every account the window names, and the account in use is not the
local one; then there is a free slot whenever an account is added.  It is shown for
every procedure (`AddSound`, `DeleteSound`, `ChangeSound`, `CreateSound`,
`DestroySound` and the two of the local account), so that an action keeps it by the
procedures it calls.  `Lists` says at which number the settings hold the selected profile, `accountId` or, once
`shifted`, a lower one, and that the dialog is then open for no other stored profile,
so that a second deletion needs no case; `Edits` are the four actions of the dialog
(`EditsEffect`, `EditsLists`), all others leave the settings alone (`SettingsKept`).
`Once` says where a number is: in the queue or in
`dialNumberDelayed`, not in both nor twice in one, and until it leaves no call was made for
it.  `NextEffect` sums up an action by what it does to the numbers (nothing, dial
the one that waits, take one from a command line, which may empty it, queue one, close a box) and
`QueueStep` what it does to the queue; `OnceStep` follows from the two, and so
does `NumberKept`.

`AccountRegistrationProofs` proves, under the same assumptions:

| Theorem | Statement |
|---|---|
| `PromisesHold` | `Spec => []Promises` |
| `NumberIsServed` | `Spec => []NoNumberLeftWaiting` |
| `BuddiesWatched` | `Spec => []PresenceAgrees` |

`Promises` says what is under way when the UI is not at rest.  `Fresh`: what PJSUA
remembers of its slots (accepted, being registered) is about accounts that are in
them.  `Pending`: when the account in use has been accepted, the buddies are
subscribed and no number waits, or there is something that will see to it: the
message of the registration, a call whose end looks again, or an open message box
with that number.  `Later` and `Change` say, procedure by procedure, what may become of the
accounts, so that an action keeps `Promises` by the procedures it calls
(`PromisesKept`); `WindowServed` and `CommandServed` are about the two places that
dial.

The proof found a mistake in the model's property: `PresenceAgrees` used to ask only for a
local account.  A late 200 that arrives while there is none sets `isSubscribed`, and
an account added afterwards, next to a local one, gets no buddies; it takes
seven operations, more than the bound of `account`.  The property now excepts this
case by its cause.

`ConferenceProofs` proves, for every number of calls and recorders, every relation of
calls to parties, every setting and every bound that `ConferenceAssumption` allows:

| Theorem | Statement |
|---|---|
| `TypeCorrect` | `Spec => []TypeOK` |
| `CallsStayApart` | `Spec => []ConversationsApart` |
| `RecorderStaysOpen` | `Spec => []RecorderOpen` |
| `PortsAreClean` | `Spec => [](Distinct(mix) /\ Wired(mix))` |

Whose port a number is changes all the time, so neither property of the bridge
is inductive: a call could inherit connections with its port, and a message could
take those of another call away.  `Sane`, a predicate of the mixer, the calls that
exist and those yet to come, says that the ports in use are distinct (`Distinct`),
that both ends of every connection are in use (`Wired`), that two connected calls are
members or one was dropped (`Apart`), that only calls that exist have a port, that
their recorders are open, and that calls yet to come are neither members nor recorded.
`Reported` adds that a DISCONNECTED message is about a call that is over, so that its
old port is the port of nobody or of somebody else.  Each helper of `global.cpp` keeps `Sane`
(`RecordingStartSane`, `RecordingStopSane`, `JoinSane`, `LeaveSane`, `NewPortSane`,
`OnEndCallSane`, ...), and a step keeps it by the helpers it calls.  That there
is always a free port is counted: `NCalls + MaxRec` ports beside the sound card.

The loops are shown by induction on their turns.  The provers cannot instantiate
an induction principle that takes a predicate, so `Turns` takes a *set* of pairs (turns
done, result) and concludes from the least turn outside of it; nor can they
instantiate a lemma about any loop body, so there is one such lemma for each of
the four bodies (`JoinLoop`, `MergeLoop`, `LeaveLoop`, `EndLoop`).

`ConferenceEndProofs` proves, of the first two under the same assumptions:

| Theorem | Statement |
|---|---|
| `EndButtonReachesAll` | `Spec => EndReachesAll` |
| `SeparateAllEmpties` | `Spec => SeparatesAll` |
| `NobodyLeftAlone` | `OwnTabs /\ Spec => []NoLonelyMember` |
| `RecordersAreReleased` | `OwnTabs /\ Spec => []RecorderReleased` |
| `TimersAreCancelled` | `OwnTabs /\ Spec => []TimerInLiveObject` |

The two loops change the membership that they read.  They reach everybody because a
call that leaves takes another along only when no third member is left (`Left`); while a
member is still to come, it and the selected call are both members, so nobody else
is taken along.

`OwnTabs` is `SameParty = {}`: no two calls are with the same party, as in run
`conference`.  It cannot be dropped: with a shared tab TLC finds all three violated
(`auto_hangup` is that run for `TimerInLiveObject`, the code's own fault), because
`OnEndCall` does nothing for a call that no tab shows.  `EInv` says why calls leave
in time.  `Settled`: members and those who keep a recorder open are `Owners`, calls that
exist, that were hung up, or whose DISCONNECTED message waits, and no call is
the only member.  `LastWord` and `DeletedLast`: that message is the last of
its call, and only then the user data go.  `CallsShown` and `TimersShown`: a call
that was not hung up has its tab, or the message that brings it waits.
So the last message finds the tab, and `OnEndCall` takes the call out of the conference,
the recorder and the timer heap, or finds no tab and the call was hung up before.
TLC checked `Sane`, `Reported` and all of `EInv` on the instance of `conference` first.

Only model-checked: all liveness (`EndedCallsForgotten`, the fairness of
`ImplementsLifetime`, `DigitsTaken`, `LocalReleased`, `MicrophoneReturns`), which is beyond
the prover.  `LockOrder` is there for its finding.

## 6. Not modelled

- Reuse of a slot: a message would have to wait while 32 calls begin.
- `CloseTab`, forked calls, the ignored Call-ID, attended transfer: the code
  around them is in `CallLifecycle` as far as it concerns one call.
- The network change and its timer (a registration anew here), transports, the
  failure of a save.
- Command lines with `/account:` and no number or with `/password:`, passwords that are
  not remembered, and `OnAccount` loading the dialog anew while its question whether
  to delete is open.
- RFC 2833 and SIP INFO digits: they leave no state in the program.
- One buddy shared by two numbers: the function that gives one up is never called.
- Chat, headset, devices, jump list, translations, passwords, CSV: input and
  output, or a text handed on.
- Numbers and addresses: string functions.
- PJSIP, PJMEDIA and jsoncpp are third-party libraries and make up most of the lines
  under `src/`; they appear as far as the program depends on them (slots, locks,
  bridge, accounts).

Each has its row in `PROJECT.json`.
