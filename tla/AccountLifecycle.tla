--------------------------- MODULE AccountLifecycle ---------------------------
(***************************************************************************)
(* Creation and destruction of PJSUA, the SIP accounts in it, presence     *)
(* subscriptions, and the numbers handed over on the command line, which   *)
(* wait in dialNumberDelayed until the account is registered: mainDlg.cpp, *)
(* AccountDlg.cpp, SettingsDlg.cpp, with pjsua_acc.c underneath.           *)
(*                                                                         *)
(* PJSUA keeps accounts in slots.  The settings keep profiles, numbered    *)
(* from 1 in their order; accountId is the number of the selected one,     *)
(* which is loaded into memory when it is selected and not when the        *)
(* numbers change.  The local account needs no registrar.  The account     *)
(* dialog is modeless: profiles are selected while it is open.  The worker *)
(* reports answers of the registrar by a posted message; WM_POWERBROADCAST *)
(* and WM_COPYDATA are sent messages, which overtake the posted ones;      *)
(* input comes when none is left.  A call that cannot be made shows a      *)
(* message box, whose loop handles messages while DialNumber has not       *)
(* returned.                                                               *)
(***************************************************************************)
EXTENDS Integers, Sequences, FiniteSets

CONSTANTS
  Profiles,     \* bound: the profiles the user may ever enter
  InitialProfiles, \* bound: what the settings may hold at the start, in order
  Servers,      \* those that register with a server
  LocalChoices, \* accountSettings.enableLocalAccount may be one of these
  SingleChoices,\* accountSettings.singleMode may be one of these
  Numbers,      \* bound: the numbers handed over, each once
  NoNumber,     \* an empty dialNumberDelayed
  Failures,     \* what may fail: "init" of PJSUA, "add" of an account, a "call"
  CommandProfiles, \* bound: the profiles a command line may name, 0 for none
  MaxOps,       \* bound: operations of the user and of the system
  MaxAnswers,   \* bound: answers of the registrar
  MaxQueue,     \* bound: messages queued when the worker posts one
  MaxBoxes      \* bound: message boxes on top of each other

Local == 0
New == -1               \* the dialog is for a profile not yet stored
Closed == -2            \* there is no dialog
Free == -1
None == -1              \* PJSUA_INVALID_ID
Slots == {0, 1}         \* the local account and the other: no more are in use

ASSUME AccountAssumption ==
  /\ Profiles \subseteq Nat \ {Local} /\ InitialProfiles \subseteq Seq(Profiles)
  /\ Servers \subseteq Profiles
  /\ {LocalChoices, SingleChoices} \subseteq (SUBSET BOOLEAN) \ {{}}
  /\ NoNumber \notin Numbers /\ CommandProfiles \subseteq Nat
  /\ Failures \subseteq {"init", "add", "call"}
  /\ {MaxOps, MaxAnswers, MaxQueue, MaxBoxes} \subseteq Nat

VARIABLES
  ua,        \* PJSUA and what the main window keeps of it, see UserAgent
  profile,   \* the selected profile, see Selection
  stored,    \* the profiles of the settings file, by their number
  dialog,    \* AccountDlg::accountId, Closed without a dialog
  delayed,   \* dialNumberDelayed
  call,      \* GetCallsCount: "none", "up", or "over" (its end is queued)
  boxes,     \* message boxes of calls that could not be made, topmost last:
             \* was the number "delayed" or dialled "direct"?
  queue,     \* messages posted to the UI thread
  given,     \* numbers handed over so far
  tried,     \* history: numbers DialNumber was called with
  made,      \* history: how many calls each number led to
  ops, answers   \* bounds: those so far

settings == <<stored, dialog>>
vars == <<ua, profile, settings, delayed, call, boxes, queue, given, tried,
          made, ops, answers>>

UserAgent ==
  [running    : BOOLEAN,                       \* is_pjsua_running
   slot       : [Slots -> Profiles \cup {Local, Free}],
   code       : [Slots -> {0, 200, 403}],      \* reg_last_code
   regc       : SUBSET Slots,                  \* a REGISTER is unanswered
   registered : SUBSET Slots,                  \* history: answered with 200
   account    : Slots \cup {None},
   local      : Slots \cup {None},             \* account_local
   subscribed : BOOLEAN,                       \* isSubscribed
   buddies    : BOOLEAN,                       \* PJSUA has those of the shortcuts
   missed     : BOOLEAN,                       \* history: subscribed with no account
   enabled    : BOOLEAN,                       \* enableLocalAccount
   single     : BOOLEAN]                       \* singleMode, which does not change

Nobody == [id |-> 0, account |-> Free, shifted |-> FALSE]
Selection ==
  {Nobody} \cup
  [id      : Nat \ {0},     \* accountSettings.accountId
   account : Profiles,      \* accountSettings.account
   shifted : BOOLEAN]       \* history: a lower number was deleted since

Messages ==
  [type : {"regState"}, code : {200, 403}]
    \cup [type : {"callEnd", "settings"}]
    \cup [type : {"commandLine"}, number : Numbers, profile : Nat]

TypeOK ==
  /\ ua \in UserAgent
  /\ profile \in Selection /\ stored \in Seq(Profiles)
  /\ dialog \in {Closed, New, Local} \cup DOMAIN stored
  /\ delayed \in Numbers \cup {NoNumber}
  /\ call \in {"none", "up", "over"}
  /\ boxes \in Seq({"delayed", "direct"})
  /\ queue \in Seq(Messages)
  /\ {given, tried} \subseteq SUBSET Numbers
  /\ made \in [Numbers -> Nat]
  /\ ops \in 0..MaxOps /\ answers \in 0..MaxAnswers

-----------------------------------------------------------------------------
(* Accounts and presence.                                                  *)

\* AccountLoad of profile i, of those in seq, into accountSettings.account.
Selected(seq, i) == [id |-> i, account |-> seq[i], shifted |-> FALSE]

\* pjsua_acc_is_valid.
Valid(u, id) == id # None /\ u.slot[id] # Free

FreeSlot(u) == CHOOSE s \in Slots : u.slot[s] = Free /\ \A t \in 0..(s - 1) : u.slot[t] # Free

\* pjsua_acc_add: the lowest free slot.  The last code of the registrar is
\* not reset.
AccAdd(u, p) ==
  LET s == FreeSlot(u)
  IN  [u EXCEPT !.slot[s] = p, !.registered = @ \ {s},
                !.regc = IF p \in Servers THEN @ \cup {s} ELSE @ \ {s}]

\* pjsua_acc_del.
AccDel(u, s) == [u EXCEPT !.slot[s] = Free, !.regc = @ \ {s}, !.registered = @ \ {s}]

\* Subscribe and SubsribeNumber: a buddy needs PJSUA and an account.
Subscribe(u) ==
  LET account == Valid(u, u.account) \/ Valid(u, u.local)
  IN  IF u.subscribed THEN u
      ELSE [u EXCEPT !.subscribed = TRUE, !.buddies = u.running /\ account,
                     !.missed = u.running /\ ~account]

Unsubscribe(u) ==
  IF u.subscribed
  THEN [u EXCEPT !.subscribed = FALSE, !.buddies = FALSE, !.missed = FALSE] ELSE u

\* MACRO_ENABLE_LOCAL_ACCOUNT.
LocalEnabled(u, p) == u.enabled \/ p.id = 0

\* ok: pjsua_acc_add succeeds, which it does not without a transport.
PJAccountAddLocal(u, p, ok) ==
  IF LocalEnabled(u, p) /\ u.running /\ ok
  THEN [AccAdd(u, Local) EXCEPT !.local = FreeSlot(u)] ELSE u

PJAccountDeleteLocal(u) ==
  IF Valid(u, u.local) THEN [AccDel(u, u.local) EXCEPT !.local = None] ELSE u

\* ok: pjsua_acc_add succeeds.  An account without a server is subscribed at
\* once, the others when they are registered.
PJAccountAdd(u, p, ok) ==
  IF ~u.running \/ Valid(u, u.account) \/ p.id = 0 \/ ~ok THEN u
  ELSE LET w == [AccAdd(u, p.account) EXCEPT !.account = FreeSlot(u)]
       IN  IF p.account \in Servers THEN w ELSE Subscribe(w)

\* Mutant: the account stays in PJSUA.
MPJAccountDelete(u) == [Unsubscribe(u) EXCEPT !.account = None]

PJAccountDelete(u) ==
  LET w == Unsubscribe(u)
  IN  IF Valid(w, w.account) THEN [AccDel(w, w.account) EXCEPT !.account = None] ELSE w

\* PJCreate and PJCreateRaw; ok: PJSUA starts, or does when it is tried again;
\* local: the local account is added.
\* Mutant: isSubscribed is not reset.
MPJCreate(u, p, ok, local) ==
  IF u.running \/ ~ok THEN u
  ELSE PJAccountAddLocal([u EXCEPT !.running = TRUE, !.account = None, !.local = None],
                         p, local)

PJCreate(u, p, ok, local) ==
  IF u.running \/ ~ok THEN u
  ELSE PJAccountAddLocal([u EXCEPT !.running = TRUE, !.account = None,
                                   !.local = None, !.subscribed = FALSE], p, local)

\* PJDestroy: pjsua_destroy zeroes everything PJSUA knows.
PJDestroy(u, p) ==
  IF ~u.running THEN u
  ELSE LET w == IF p.id # 0 THEN PJAccountDelete(Unsubscribe(u)) ELSE Unsubscribe(u)
       IN  [w EXCEPT !.running = FALSE, !.slot = [s \in Slots |-> Free],
                     !.code = [s \in Slots |-> 0], !.regc = {}, !.registered = {}]

MaySucceed(what) == IF what \in Failures THEN BOOLEAN ELSE {TRUE}

-----------------------------------------------------------------------------
(* Dialling.                                                               *)

\* info.status = 200 of an account that registers.
StatusOK(u) ==
  /\ Valid(u, u.account) /\ u.slot[u.account] \in Servers /\ u.code[u.account] = 200

\* MakeCall: without an account, and with the local one disabled, the first
\* profile is selected before the call is made, if there is one.
NeedsAccount(u) == ~Valid(u, u.account) /\ ~u.enabled

\* OnMenuAccountChange for profile i: the selected one is deselected.
\* Mutant: it is left with the number of a new profile.
MToggled(old, i) == IF i = old.id THEN [Nobody EXCEPT !.id = New] ELSE Selected(stored, i)
Toggled(old, i) == IF i = old.id THEN Nobody ELSE Selected(stored, i)
AccountChange(u, p, old, ok) ==
  PJAccountAdd(IF old.id # 0 THEN PJAccountDelete(u) ELSE u, p, ok)

\* The account a call is made with: SelectSIPAccount.
CallFails(u) == ~u.running \/ (~Valid(u, u.account) /\ ~Valid(u, u.local))

\* What becomes of dialNumberDelayed when DialNumber returns.
\* Mutants: the number stays; a number dialled at once wipes the one that waits.
MLeftWaiting(from) == delayed
MLeftNone(from) == NoNumber
LeftWaiting(from) == IF from = "delayed" THEN NoNumber ELSE delayed

\* DialNumber and MakeCall, called with PJSUA in state u, profile p and c of
\* the calls (several count as one).
DialNumber(n, from, u, p, c) ==
  /\ tried' = tried \cup {n}
  /\ IF u.single /\ c # "none"
     THEN /\ ua' = u /\ profile' = p /\ call' = c /\ delayed' = LeftWaiting(from)
          /\ UNCHANGED <<boxes, made>>
     ELSE \E ok \in MaySucceed("add") :
          LET selects == NeedsAccount(u) /\ stored # <<>>
              q == IF selects THEN Toggled(p, 1) ELSE p
              w == IF selects THEN AccountChange(u, q, p, ok) ELSE u
              fails == CallFails(w) \/ (NeedsAccount(u) /\ stored = <<>>)
          IN  /\ ua' = w /\ profile' = q
              /\ \/ /\ ~fails
                    /\ call' = "up" /\ made' = [made EXCEPT ![n] = @ + 1]
                    /\ delayed' = LeftWaiting(from)
                    /\ UNCHANGED boxes
                 \/ /\ fails \/ "call" \in Failures
                    /\ Len(boxes) < MaxBoxes
                    /\ boxes' = Append(boxes, from) /\ call' = c
                    /\ UNCHANGED <<delayed, made>>

\* UpdateWindowText with c of the calls left.  The number that waits is dialled
\* when there is none, or always.
\* Mutant: the end of a call does not look at the number that waits.
MUpdateWindowText(u, always, c) ==
  IF delayed # NoNumber /\ StatusOK(u) /\ ~always /\ c = "none"
  THEN DialNumber(delayed, "delayed", u, profile, c)
  ELSE ua' = u /\ call' = c /\ UNCHANGED <<profile, delayed, boxes, tried, made>>

UpdateWindowText(u, always, c) ==
  IF delayed # NoNumber /\ StatusOK(u) /\ (always \/ c = "none")
  THEN DialNumber(delayed, "delayed", u, profile, c)
  ELSE ua' = u /\ call' = c /\ UNCHANGED <<profile, delayed, boxes, tried, made>>

\* DialNumberFromCommandLine, with account u and profile q selected: is the
\* number dialled or does it wait?
Ready(u, q) ==
  IF q.id = 0 THEN Valid(u, u.local)
  ELSE Valid(u, u.account) /\ (q.account \notin Servers \/ StatusOK(u))
Waits(n, u, q) == delayed' = IF q.id # 0 \/ u.enabled THEN n ELSE delayed

\* For number n and /account:p (0: not given).
CommandLine(n, p) ==
  \E ok \in MaySucceed("add") :
    LET q == IF p \in {0, profile.id} THEN profile ELSE Selected(stored, p)
        u == IF q = profile THEN ua ELSE AccountChange(ua, q, profile, ok)
    IN  \/ Ready(u, q) /\ DialNumber(n, "direct", u, q, call)
        \/ /\ ~Ready(u, q) /\ Waits(n, u, q) /\ ua' = u /\ profile' = q
           /\ UNCHANGED <<call, boxes, tried, made>>

\* With a profile that is not stored the number is emptied, and what is left
\* is dialled, which does nothing, or waits.
Emptied ==
  /\ IF Ready(ua, profile) THEN UNCHANGED delayed ELSE Waits(NoNumber, ua, profile)
  /\ UNCHANGED <<ua, profile, call, boxes, tried, made>>

Command(n, p) ==
  \/ p \in {0} \cup DOMAIN stored /\ CommandLine(n, p)
  \/ p \notin {0} \cup DOMAIN stored /\ Emptied

-----------------------------------------------------------------------------
(* The system and the user.                                                *)

Operates == ops < MaxOps /\ ops' = ops + 1 /\ UNCHANGED answers
Operate == Operates /\ UNCHANGED settings
Idle == queue = <<>> /\ boxes = <<>>
Input == Idle /\ Operate
NoDialling == UNCHANGED <<delayed, boxes, tried, made>>
OnlyAccounts == NoDialling /\ UNCHANGED <<call, queue, given>>
Post(m) == queue' = Append(queue, m)

\* WM_COPYDATA of a second instance: handled at once, or posted.
CopyData(n, p) ==
  /\ Operate /\ n \notin given /\ given' = given \cup {n} /\ ua.running
  /\ \/ Command(n, p) /\ UNCHANGED queue
     \/ /\ Post([type |-> "commandLine", number |-> n, profile |-> p])
        /\ UNCHANGED <<ua, profile, call>> /\ NoDialling

\* pjsua_destroy hangs up: the end of a call is posted before it returns.
Destroyed ==
  /\ ua' = PJDestroy(ua, profile)
  /\ call' = IF ua.running /\ call = "up" THEN "over" ELSE call
  /\ UNCHANGED <<profile, given>> /\ NoDialling
CallEnds == IF ua.running /\ call = "up" THEN <<[type |-> "callEnd"]>> ELSE <<>>

\* PJCreate and PJAccountAdd, from state u.
Created(u) ==
  \E init \in MaySucceed("init"), local, add \in MaySucceed("add") :
    ua' = PJAccountAdd(PJCreate(u, profile, init, local), profile, add)

\* OnPowerBroadcast.
Suspend == Operate /\ Destroyed /\ queue' = queue \o CallEnds
Resume == Operate /\ Created(ua) /\ OnlyAccounts /\ UNCHANGED profile

\* SettingsDlg::OnBnClickedOk and OnUpdateSettings.
SettingsOk ==
  Input /\ Destroyed /\ queue' = queue \o CallEnds \o <<[type |-> "settings"]>>

\* OnMenuAccountChange; the menu has an item for every stored profile.
MenuAccountChange(i) ==
  /\ Input /\ i \in DOMAIN stored
  /\ \E ok \in MaySucceed("add") :
       ua' = AccountChange(ua, Toggled(profile, i), profile, ok)
  /\ profile' = Toggled(profile, i)
  /\ OnlyAccounts

\* AccountDlg::Load.  The dialog is opened, or loaded again, for a new profile,
\* for the selected one, for that of the menu when none is selected
\* (OnMenuAccountAdd, OnMenuAccountEdit; OnAccount is one of these), or for the
\* local account (OnMenuAccountLocalEdit).
Load(i) == dialog' = IF i \in DOMAIN stored THEN i ELSE New

AccountDlgOpen ==
  /\ Idle /\ Operates
  /\ \/ Load(New)
     \/ profile.id # 0 /\ Load(profile.id)
     \/ profile.id = 0 /\ \E i \in DOMAIN stored : Load(i)
     \/ LocalEnabled(ua, profile) /\ dialog' = Local
  /\ OnlyAccounts /\ UNCHANGED <<ua, profile, stored>>

AccountDlgClose ==
  /\ Idle /\ Operates /\ dialog # Closed /\ dialog' = Closed
  /\ OnlyAccounts /\ UNCHANGED <<ua, profile, stored>>

\* The account in use makes way for profile p.
Replace(p) ==
  /\ \E ok \in MaySucceed("add") : ua' = PJAccountAdd(PJAccountDelete(ua), p, ok)
  /\ profile' = p

\* AccountDlg::OnBnClickedOk: the profile is saved and selected.
AccountDlgOk ==
  /\ Idle /\ Operates /\ dialog' = Closed /\ OnlyAccounts
  /\ \/ /\ dialog \in DOMAIN stored /\ stored' = stored
        /\ Replace(Selected(stored, dialog))
     \/ /\ dialog = New
        /\ \E p \in Profiles : /\ \A i \in DOMAIN stored : stored[i] # p
                             /\ stored' = Append(stored, p)
        /\ Replace(Selected(stored', Len(stored) + 1))
     \/ /\ dialog = Local /\ stored' = stored /\ profile' = profile
        /\ \E ok \in MaySucceed("add") :
             ua' = PJAccountAddLocal(PJAccountDeleteLocal(ua), profile, ok)

\* OnNMClickSyslinkDelete: the profiles above the one of the dialog move down;
\* only if it is the selected one is another selected, the first of the rest.
\* Mutant: the profile above is deleted instead.
MWithout(seq, d) ==
  [i \in 1 .. (Len(seq) - 1) |-> IF i <= d THEN seq[i] ELSE seq[i + 1]]
Without(seq, d) ==
  [i \in 1 .. (Len(seq) - 1) |-> IF i < d THEN seq[i] ELSE seq[i + 1]]

AccountDlgDelete ==
  /\ Idle /\ Operates /\ dialog \in DOMAIN stored /\ dialog' = Closed
  /\ stored' = Without(stored, dialog) /\ OnlyAccounts
  /\ \/ /\ dialog = profile.id
        /\ Replace(IF stored' = <<>> THEN Nobody ELSE Selected(stored', 1))
     \/ /\ dialog # profile.id /\ ua' = ua
        /\ profile' = [profile EXCEPT !.shifted = @ \/ dialog < profile.id]

\* A button or a tab that updates the status bar.
Refresh == Input /\ UpdateWindowText(ua, FALSE, call) /\ UNCHANGED <<queue, given>>

\* A call comes in and is answered.
CallUp ==
  /\ Operate /\ ua.running /\ call = "none" /\ call' = "up"
  /\ NoDialling /\ UNCHANGED <<ua, profile, queue, given>>

\* msip_call_end: OnEndCall clears the tab, then updates the status bar.
HangUp ==
  /\ Operate /\ call = "up"
  /\ \E left \in IF ua.single THEN {"none"} ELSE {"none", "up"} :
       UpdateWindowText(ua, TRUE, left)
  /\ UNCHANGED <<queue, given>>

-----------------------------------------------------------------------------
(* Messages and the worker.                                                *)

Handle(type) ==
  /\ queue # <<>> /\ Head(queue).type = type /\ queue' = Tail(queue)
  /\ UNCHANGED <<settings, ops, answers, given>>

\* onRegState2: a refusal may come with a text, which is shown instead.
OnRegState ==
  /\ Handle("regState")
  /\ \/ Head(queue).code = 200 /\ UpdateWindowText(Subscribe(ua), FALSE, call)
     \/ Head(queue).code # 200 /\ UpdateWindowText(ua, FALSE, call)
     \/ Head(queue).code # 200 /\ NoDialling /\ UNCHANGED <<ua, profile, call>>

\* onCallState, DISCONNECTED: OnEndCall.
OnCallEnd ==
  /\ Handle("callEnd")
  /\ UpdateWindowText(ua, TRUE, IF call = "over" THEN "none" ELSE call)

OnCommandLine == Handle("commandLine") /\ Command(Head(queue).number, Head(queue).profile)

OnSettings ==
  /\ Handle("settings")
  /\ \E choice \in LocalChoices : Created([ua EXCEPT !.enabled = choice])
  /\ NoDialling /\ UNCHANGED <<profile, call>>

\* The box on top is closed, and DialNumber returns to its caller.
CloseBox ==
  /\ boxes # <<>>
  /\ boxes' = SubSeq(boxes, 1, Len(boxes) - 1)
  /\ delayed' = LeftWaiting(boxes[Len(boxes)])
  /\ UNCHANGED <<ua, profile, settings, call, queue, given, tried, made, ops, answers>>

\* regc_cb and on_reg_state2; code 403 stands for every refusal.
RegisterAnswered(s, code) ==
  /\ s \in ua.regc /\ answers < MaxAnswers /\ Len(queue) < MaxQueue
  /\ ua' = [ua EXCEPT !.code[s] = code, !.regc = @ \ {s},
                      !.registered = IF code = 200 THEN @ \cup {s} ELSE @ \ {s}]
  /\ Post([type |-> "regState", code |-> code])
  /\ answers' = answers + 1
  /\ NoDialling /\ UNCHANGED <<profile, settings, call, given, ops>>

\* A refresh, a retry, or a changed network address.
Reregister(s) ==
  /\ ua.slot[s] \in Servers /\ s \notin ua.regc /\ answers < MaxAnswers
  /\ ua' = [ua EXCEPT !.regc = @ \cup {s}]
  /\ NoDialling /\ UNCHANGED <<profile, settings, call, queue, given, ops, answers>>

\* The remote side hangs up.
CallOver ==
  /\ call = "up" /\ Len(queue) < MaxQueue
  /\ call' = "over" /\ Post([type |-> "callEnd"])
  /\ NoDialling /\ UNCHANGED <<ua, profile, settings, given, ops, answers>>

-----------------------------------------------------------------------------
Blank ==
  [running |-> FALSE, slot |-> [s \in Slots |-> Free], code |-> [s \in Slots |-> 0],
   regc |-> {}, registered |-> {}, account |-> None, local |-> None,
   subscribed |-> FALSE, buddies |-> FALSE, missed |-> FALSE,
   enabled |-> FALSE, single |-> FALSE]

\* OnCreated, after AccountSettings::Init: a profile is selected, if there is
\* one, or the local account is enabled.  A number given at the start precedes
\* PJAccountAdd, and so it waits; with the local account it is dialled, as a
\* CopyData.
Init ==
  /\ stored \in InitialProfiles /\ dialog = Closed
  /\ profile \in {Nobody} \cup {Selected(stored, i) : i \in DOMAIN stored}
  /\ \E init \in MaySucceed("init"), local, add \in MaySucceed("add"),
        choice \in LocalChoices, single \in SingleChoices :
       LET u == [Blank EXCEPT !.enabled = choice, !.single = single]
       IN  /\ ua = PJAccountAdd(PJCreate(u, profile, init, local), profile, add)
           /\ profile = Nobody => choice \/ stored = <<>>
  /\ \/ delayed = NoNumber /\ given = {}
     \/ profile.id # 0 /\ \E n \in Numbers : delayed = n /\ given = {n}
  /\ call = "none" /\ boxes = <<>> /\ queue = <<>>
  /\ tried = {} /\ made = [n \in Numbers |-> 0]
  /\ ops = 0 /\ answers = 0

Worker ==
  \/ \E s \in Slots, code \in {200, 403} : RegisterAnswered(s, code)
  \/ \E s \in Slots : Reregister(s)
  \/ CallOver

Accounts ==
  \/ Suspend \/ Resume \/ SettingsOk
  \/ \E i \in DOMAIN stored : MenuAccountChange(i)
  \/ AccountDlgOpen \/ AccountDlgClose \/ AccountDlgOk \/ AccountDlgDelete

Next ==
  \/ \E n \in Numbers, p \in CommandProfiles : CopyData(n, p)
  \/ Accounts
  \/ Refresh \/ CallUp \/ HangUp
  \/ OnRegState \/ OnCallEnd \/ OnCommandLine \/ OnSettings \/ CloseBox
  \/ Worker

Spec == Init /\ [][Next]_vars

-----------------------------------------------------------------------------
(* Properties.                                                             *)

\* PJSUA holds no account the program has lost track of: every account in it is
\* `account' or `account_local', and those are two slots (PJAccountDelete,
\* PJAccountDeleteLocal, PJCreateRaw).
NoOrphanAccount ==
  \A s \in Slots : ua.slot[s] # Free => s \in {ua.account, ua.local}

\* The account calls are made with is the profile loaded last, and the settings
\* hold it at the number accountId, whichever of menu, dialog, command line and
\* MakeCall changed it.  The exception: a dialog opened before has deleted a
\* lower number since; then it is stored below accountId, which may name another
\* profile or none.  A deleted profile is never in use.
AccountIsSelected ==
  /\ Valid(ua, ua.account) =>
       /\ profile.id # 0 /\ ua.slot[ua.account] = profile.account
       /\ \E i \in DOMAIN stored :
            /\ stored[i] = profile.account
            /\ IF profile.shifted THEN i < profile.id ELSE i = profile.id
  /\ Valid(ua, ua.local) => ua.slot[ua.local] = Local

\* A number handed over leads to one call at most, although a failed call's
\* message box handles messages while the number still waits.
MadeOnce == \A n \in Numbers : made[n] <= 1

\* Once the account is registered and nothing is left to handle, no number
\* waits: a registration that ends during a call is made good by its end.
NoNumberLeftWaiting ==
  queue = <<>> /\ boxes = <<>> /\ call = "none" /\ ua.account \in ua.registered
    => delayed = NoNumber

\* A number that waits is given up only when it is dialled, when a later one
\* replaces it, when the box of a call that failed is closed, or when a command
\* line names a profile that is not stored.
Misdirected ==
  \/ OnCommandLine /\ Head(queue).profile \notin {0} \cup DOMAIN stored
  \/ \E n \in Numbers, p \in CommandProfiles :
       CopyData(n, p) /\ p \notin {0} \cup DOMAIN stored
NumberKept ==
  [][ delayed' # delayed /\ delayed # NoNumber
        => delayed \in tried' \/ delayed' # NoNumber \/ CloseBox \/ Misdirected ]_vars

\* The shortcuts are watched: no buddy outlives PJSUA or the subscription;
\* and the registered account has them, whatever restarts and changes of the
\* account its message crossed, unless the message of a deleted account made
\* the program subscribe when it had none (isSubscribed then stays set).
PresenceAgrees ==
  /\ ua.buddies => ua.running /\ ua.subscribed
  /\ queue = <<>> /\ ua.account \in ua.registered => ua.buddies \/ ua.missed
=============================================================================
