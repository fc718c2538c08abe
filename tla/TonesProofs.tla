----------------------------- MODULE TonesProofs -----------------------------
(***************************************************************************)
(* Theorems about Tones, for any number of calls, digits and restarts: its *)
(* types, that a muted microphone has somebody who turns it on, that the   *)
(* timer of the tones asks no port that is gone, and that no port is lost. *)
(*                                                                         *)
(* None is inductive alone.  A thread has a port in hand between two steps *)
(* of playing or destroying: Hands says when, Apart that the user's        *)
(* generator and those of calls are never the same port (so that only one  *)
(* of the two is ever listed), Leaving and Stored what is known of a port  *)
(* in hand, and Down how little can happen while PJSUA is destroyed.       *)
(***************************************************************************)
EXTENDS Tones, TLAPS

-----------------------------------------------------------------------------
(* The inductive invariant.                                                *)

\* What each step of a thread may have in hand.
Hands ==
  /\ \A t \in Threads :
       /\ op[t] \in {"found", "playToCall", "playLocally", "destroy", "forget"} => port[t] # NoPort
       /\ op[t] \in {"idle", "find", "make", "drop", "off", "join"} => port[t] = NoPort
       /\ op[t] \in {"found", "playLocally"} => of[t] = Local
       /\ op[t] = "playToCall" => of[t] \in Calls
       /\ op[t] \in {"idle", "off", "join"} => next[t] = "done"
  /\ op["wk"] \in {"idle", "find", "make", "found", "playLocally", "drop", "destroy", "forget"}
  /\ op["wk"] \in {"find", "make"} => of["wk"] = Local
  /\ next["wk"] = "done"

\* While PJSUA is down the UI thread can only be on its way out of
\* PJDestroy, or release the local generator; and nothing is left then.
Down ==
  ~running =>
    /\ op["ui"] \in {"idle", "join", "drop", "destroy", "forget"} /\ next["ui"] = "done"
    /\ op["ui"] # "join" => ~muted /\ alive = {}

\* The local generator and those of calls are different ports.
OfUser(p) == gen[Local] = p \/ \E t \in Threads : of[t] = Local /\ port[t] = p
OfCall(p) ==
  p \in listed \/ (\E c \in Calls : gen[c] = p) \/ \E t \in Threads : of[t] \in Calls /\ port[t] = p
Apart == \A p \in 1 .. made : ~(OfUser(p) /\ OfCall(p))

\* A port about to be destroyed is not listed, one destroyed is gone.
Leaving ==
  \A t \in Threads :
    /\ op[t] = "destroy" => port[t] \notin listed \/ port[t] \in torn
    /\ op[t] = "forget" /\ running => port[t] \notin alive

\* A port about to be played on is still the one stored.
Stored ==
  \A t \in Threads :
    op[t] \in {"playToCall", "playLocally"} /\ port[t] \in alive \ torn
      => gen[of[t]] = port[t]

IInv ==
  /\ TypeOK /\ Hands /\ Down /\ Apart /\ Leaving /\ Stored
  /\ MutedHasTimer /\ ListedExist /\ NoLostPort

-----------------------------------------------------------------------------
(* Types.                                                                  *)

\* TypeOK in four parts.
ThreadsTyped ==
  /\ op \in [Threads -> Ops] /\ of \in [Threads -> Calls \cup {Local}]
  /\ port \in [Threads -> 0 .. made] /\ next \in [Threads -> Calls \cup {"done", "stop"}]
PortsTyped ==
  /\ made \in Nat /\ gen \in [Calls \cup {Local} -> 0 .. made]
  /\ alive \subseteq 1 .. made /\ heard \subseteq alive /\ busy \subseteq alive
  /\ listed \subseteq 1 .. made /\ torn \subseteq 1 .. made
QueuesTyped ==
  /\ commands \in [Calls -> 0 .. MaxCommands]
  /\ queueTimer \subseteq Calls /\ confirmed \subseteq Calls
RestTyped ==
  /\ running \in BOOLEAN /\ muted \in BOOLEAN /\ busyTimer \in BOOLEAN /\ orphan \in BOOLEAN
  /\ call \in [Calls -> {"new", "up", "ending", "over"}]
  /\ media \in [Calls -> {"none", "active", "remoteHold", "held"}]
  /\ timer \in {"none", "ui", "wk"} /\ refreshes \in Nat
  /\ digits \in Nat /\ updates \in Nat /\ restarts \in Nat

\* A step of a thread within the types keeps them.
LEMMA DoesTyped ==
  ASSUME ThreadsTyped, NEW t \in Threads, NEW o \in Ops, NEW c \in Calls \cup {Local},
         made \in Nat, made' \in Nat, made <= made',
         NEW p \in 0 .. made', NEW n \in Calls \cup {"done", "stop"}, Does(t, o, c, p, n)
  PROVE  ThreadsTyped'
<1>1. op' \in [Threads -> Ops]
  BY DEF ThreadsTyped, Does
<1>2. of' \in [Threads -> Calls \cup {Local}]
  BY DEF ThreadsTyped, Does
<1>3. port' \in [Threads -> 0 .. made']
  BY DEF ThreadsTyped, Does
<1>4. next' \in [Threads -> Calls \cup {"done", "stop"}]
  BY DEF ThreadsTyped, Does
<1> QED
  BY <1>1, <1>2, <1>3, <1>4 DEF ThreadsTyped

\* So does the last step, with the timer it may set.
LEMMA FinishTyped ==
  ASSUME TypeOK, NEW t \in Threads, made' \in Nat, made <= made', Finish(t)
  PROVE  ThreadsTyped' /\ QueuesTyped'
<1>1. next[t] \in Calls \cup {"done", "stop"} /\ ThreadsTyped
  BY DEF TypeOK, ThreadsTyped
<1>2. ThreadsTyped'
  <2> DEFINE o == IF next[t] = "stop" THEN "off" ELSE "idle"
  <2>1. Does(t, o, Local, NoPort, "done")
    BY DEF Finish
  <2>2. o \in Ops
    BY DEF Ops
  <2>3. NoPort \in 0 .. made' /\ made \in Nat
    BY DEF NoPort, TypeOK
  <2> HIDE DEF o
  <2> QED
    BY <1>1, <2>1, <2>2, <2>3, DoesTyped
<1>3. QueuesTyped'
  BY <1>1 DEF TypeOK, QueuesTyped, Finish, Rearmed
<1> QED
  BY <1>2, <1>3

\* A step of the same call.
LEMMA GotoTyped ==
  ASSUME TypeOK, NEW t \in Threads, NEW o \in Ops, made' \in Nat, made <= made', NEW p \in 0 .. made',
         Goto(t, o, p)
  PROVE  ThreadsTyped'
<1>1. of[t] \in Calls \cup {Local} /\ next[t] \in Calls \cup {"done", "stop"} /\ ThreadsTyped /\ made \in Nat
  BY DEF TypeOK, ThreadsTyped
<1> QED
  BY <1>1, DoesTyped DEF Goto

\* Storing a port keeps the types of the generators.
LEMMA KeepTyped ==
  ASSUME TypeOK, NEW c \in Calls \cup {Local}, made' \in Nat, made <= made', NEW p \in 0 .. made', Keep(c, p)
  PROVE  gen' \in [Calls \cup {Local} -> 0 .. made'] /\ torn' \subseteq 1 .. made'
<1>1. gen \in [Calls \cup {Local} -> 0 .. made] /\ made \in Nat /\ torn \subseteq 1 .. made
  BY DEF TypeOK
<1>2. gen[c] \in 0 .. made
  BY <1>1
<1>3. gen' = [gen EXCEPT ![c] = p] /\ torn' = torn \cup ({gen[c]} \ {p, NoPort})
  BY DEF Keep
<1>4. 0 .. made \subseteq 0 .. made' /\ 1 .. made \subseteq 1 .. made'
  BY <1>1
<1>5. gen' \in [Calls \cup {Local} -> 0 .. made']
  BY <1>1, <1>3, <1>4
<1>6. torn' \subseteq 1 .. made'
  <2>1. gen[c] = NoPort \/ gen[c] \in 1 .. made
    BY <1>1, <1>2 DEF NoPort
  <2> QED
    BY <1>1, <1>3, <1>4, <2>1
<1> QED
  BY <1>5, <1>6

\* A port number is never used again.
LEMMA MadeGrows == ASSUME TypeOK, [Next]_vars PROVE made' \in Nat /\ made <= made'
<1>1. made \in Nat
  BY DEF TypeOK
<1>2. made' = made \/ made' = made + 1
  BY DEF Next, UiSteps, Step, Find, Make, Found, PlayLocally, Drop, Destroy, Forget, PlayToCall, Off, Join,
     Dial, QueueTick, OnConfirmed, HangUp, BusyTick, LocalTick, RefreshLevels, Stop, PJCreate,
     Confirmed, MediaActive, MediaHeld, Ends, Updates, OnDtmfDigit, TonesEnd, vars, generators
<1> QED
  BY <1>1, <1>2

\* Every action keeps the types of the two threads.
LEMMA ThreadsStep == ASSUME TypeOK, [Next]_vars PROVE ThreadsTyped'
<1>0. /\ made \in Nat /\ made' \in Nat /\ made <= made' /\ NoPort \in 0 .. made'
      /\ 0 .. made \subseteq 0 .. made'
      /\ \A t \in Threads :
           port[t] \in 0 .. made /\ of[t] \in Calls \cup {Local} /\ next[t] \in Calls \cup {"done", "stop"}
      /\ gen \in [Calls \cup {Local} -> 0 .. made] /\ ThreadsTyped
  BY MadeGrows DEF TypeOK, NoPort, ThreadsTyped
<1> USE <1>0
<1>a. ASSUME UNCHANGED act PROVE ThreadsTyped'
  BY <1>a DEF ThreadsTyped, act
<1>b. \A c \in Calls \cup {Local} : Cd(c) \in 0 .. made
  <2>1. NoPort \in 0 .. made
    BY DEF NoPort
  <2>2. \A c \in Calls \cup {Local} : gen[c] \in 0 .. made
    OBVIOUS
  <2> QED
    BY <2>1, <2>2 DEF Cd
<1>1. ASSUME NEW t \in Threads, Find(t) PROVE ThreadsTyped'
  <2> DEFINE o == IF Cd(of[t]) = NoPort THEN "make" ELSE IF of[t] = Local THEN "found" ELSE "playToCall"
  <2>1. Goto(t, o, Cd(of[t]))
    BY <1>1 DEF Find
  <2>2. o \in Ops /\ Cd(of[t]) \in 0 .. made'
    BY <1>b DEF Ops
  <2> HIDE DEF o
  <2> QED
    BY <2>1, <2>2, GotoTyped
<1>2. ASSUME NEW t \in Threads, Make(t) PROVE ThreadsTyped'
  <2>1. CASE made' = made + 1 /\ Goto(t, Play(of[t]), made')
    <3>1. Play(of[t]) \in Ops
      BY DEF Play, Ops
    <3> QED
      BY <2>1, <3>1, GotoTyped
  <2>2. CASE Does(t, "find", Local, NoPort, next[t])
    BY <2>2, DoesTyped DEF Ops
  <2>3. CASE Finish(t)
    BY <2>3, FinishTyped
  <2> QED
    BY <1>2, <2>1, <2>2, <2>3 DEF Make
<1>3. ASSUME NEW t \in Threads, Found(t) PROVE ThreadsTyped'
  BY <1>3, GotoTyped DEF Found, Ops
<1>4. ASSUME NEW t \in Threads, PlayLocally(t) PROVE ThreadsTyped'
  BY <1>4, FinishTyped DEF PlayLocally
<1>5. ASSUME NEW t \in Threads, Drop(t) PROVE ThreadsTyped'
  <2> DEFINE p == IF running \/ of[t] = Local THEN Cd(of[t]) ELSE NoPort
  <2>1. p \in 0 .. made'
    BY <1>b
  <2>2. Finish(t) \/ Goto(t, "destroy", p)
    BY <1>5 DEF Drop
  <2> HIDE DEF p
  <2> QED
    BY <2>1, <2>2, FinishTyped, GotoTyped DEF Ops
<1>6. ASSUME NEW t \in Threads, Destroy(t) PROVE ThreadsTyped'
  BY <1>6, GotoTyped DEF Destroy, Ops
<1>7. ASSUME NEW t \in Threads, Forget(t) PROVE ThreadsTyped'
  BY <1>7, FinishTyped DEF Forget
<1>8. CASE PlayToCall
  BY <1>8, FinishTyped DEF PlayToCall, Threads
<1>9. CASE Off \/ Join
  BY <1>9, GotoTyped DEF Off, Join, Ops, Threads
<1>10. ASSUME NEW c \in Calls \cup {Local}, Dial(c) PROVE ThreadsTyped'
  BY <1>10, DoesTyped DEF Dial, Ui, Target, Ops, Threads
<1>11. ASSUME NEW c \in Calls, QueueTick(c) PROVE ThreadsTyped'
  BY <1>11, <1>a, DoesTyped DEF QueueTick, Ui, UiWaits, Target, Ops, Threads
<1>12. ASSUME NEW c \in Calls, OnConfirmed(c) \/ HangUp(c) PROVE ThreadsTyped'
  BY <1>12, <1>a, DoesTyped DEF OnConfirmed, HangUp, Ui, UiWaits, Ops, Threads
<1>13. CASE BusyTick \/ RefreshLevels \/ PJCreate
  BY <1>13, <1>a DEF BusyTick, RefreshLevels, PJCreate, UiWaits
<1>14. CASE LocalTick \/ Stop
  BY <1>14, <1>a, DoesTyped DEF LocalTick, Stop, Ui, UiWaits, Ops, Threads
<1>15. ASSUME NEW c \in Calls, Confirmed(c) \/ MediaActive(c) \/ Ends(c) PROVE ThreadsTyped'
  BY <1>15, <1>a DEF Confirmed, MediaActive, Ends, WkWaits
<1>16. ASSUME NEW c \in Calls, MediaHeld(c) PROVE ThreadsTyped'
  BY <1>16, DoesTyped DEF MediaHeld, Wk, Ops, Threads
<1>17. CASE OnDtmfDigit
  BY <1>17, DoesTyped DEF OnDtmfDigit, Wk, Ops, Threads
<1>18. ASSUME NEW p \in Ports, TonesEnd(p) PROVE ThreadsTyped'
  BY <1>18, <1>a DEF TonesEnd
<1>19. CASE UNCHANGED vars
  BY <1>19, <1>a DEF vars
<1> QED
  BY <1>1, <1>2, <1>3, <1>4, <1>5, <1>6, <1>7, <1>8, <1>9, <1>10, <1>11, <1>12, <1>13, <1>14, <1>15, <1>16,
     <1>17, <1>18, <1>19 DEF Next, UiSteps, Step, Threads

\* Every action keeps the types of generators and ports.
LEMMA PortsStep == ASSUME TypeOK, Hands, [Next]_vars PROVE PortsTyped'
<1>0. /\ made \in Nat /\ made' \in Nat /\ made <= made' /\ PortsTyped
      /\ \A t \in Threads : port[t] \in 0 .. made /\ of[t] \in Calls \cup {Local}
      /\ gen \in [Calls \cup {Local} -> 0 .. made] /\ Local \in Calls \cup {Local}
  BY MadeGrows DEF TypeOK, PortsTyped
<1> USE <1>0
<1>a. ASSUME UNCHANGED generators, UNCHANGED listed PROVE PortsTyped'
  BY <1>a DEF PortsTyped, generators
<1>1. ASSUME NEW t \in Threads, Make(t) PROVE PortsTyped'
  <2>1. CASE /\ made' = made + 1 /\ alive' = alive \cup {made'} /\ heard' = heard \cup {made'}
             /\ Keep(of[t], made') /\ UNCHANGED <<microphone, busy>>
    <3>1. made' \in 0 .. made'
      OBVIOUS
    <3>2. gen' \in [Calls \cup {Local} -> 0 .. made'] /\ torn' \subseteq 1 .. made'
      BY <2>1, <3>1, KeepTyped
    <3>3. 1 .. made \subseteq 1 .. made' /\ made' \in 1 .. made'
      BY <2>1
    <3>4. listed' = listed /\ busy' = busy
      BY <2>1 DEF microphone
    <3>5. alive \subseteq 1 .. made /\ heard \subseteq alive /\ busy \subseteq alive /\ listed \subseteq 1 .. made
      BY DEF PortsTyped
    <3>6. /\ alive' \subseteq 1 .. made' /\ heard' \subseteq alive' /\ busy' \subseteq alive'
          /\ listed' \subseteq 1 .. made'
      BY <2>1, <3>3, <3>4, <3>5
    <3> QED
      BY <3>2, <3>6 DEF PortsTyped
  <2>2. CASE UNCHANGED <<gen, torn, made, alive, heard, busy, microphone>>
    BY <2>2 DEF PortsTyped, microphone
  <2> QED
    BY <1>1, <2>1, <2>2 DEF Make
<1>2. ASSUME NEW t \in Threads, Found(t) PROVE PortsTyped'
  <2>1. gen' \in [Calls \cup {Local} -> 0 .. made'] /\ torn' \subseteq 1 .. made'
    BY <1>2, KeepTyped DEF Found
  <2> QED
    BY <1>2, <2>1 DEF PortsTyped, Found, microphone
<1>3. ASSUME NEW t \in Threads, PlayLocally(t) PROVE PortsTyped'
  BY <1>3 DEF PlayLocally, PortsTyped, microphone
<1>4. ASSUME NEW t \in Threads, Drop(t) PROVE PortsTyped'
  BY <1>4 DEF Drop, Unlist, PortsTyped, generators
<1>5. ASSUME NEW t \in Threads, Destroy(t) PROVE PortsTyped'
  BY <1>5 DEF Destroy, Removed, PortsTyped, microphone
<1>6. ASSUME NEW t \in Threads, Forget(t) PROVE PortsTyped'
  <2>1. gen' = [gen EXCEPT ![of[t]] = NoPort] /\ torn' = torn \cup ({gen[of[t]]} \ {port[t], NoPort})
    BY <1>6 DEF Forget
  <2>2. gen[of[t]] = NoPort \/ gen[of[t]] \in 1 .. made
    BY DEF NoPort
  <2>3. NoPort \in 0 .. made
    BY DEF NoPort
  <2>4. gen' \in [Calls \cup {Local} -> 0 .. made]
    BY <2>1, <2>3
  <2> QED
    BY <1>6, <2>1, <2>2, <2>4 DEF Forget, PortsTyped, microphone
<1>7. CASE PlayToCall
  <2>1. port["ui"] \in 1 .. made
    BY <1>7 DEF Threads, PlayToCall, Hands, NoPort
  <2> QED
    BY <1>7, <2>1 DEF PlayToCall, PortsTyped
<1>8. CASE Join
  BY <1>8 DEF Join, PortsTyped
<1>9. CASE BusyTick
  BY <1>9 DEF BusyTick, PortsTyped, generators
<1>10. ASSUME NEW c \in Calls, MediaActive(c) \/ MediaHeld(c) PROVE PortsTyped'
  BY <1>10 DEF MediaActive, MediaHeld, Updates, PortsTyped
<1>11. ASSUME NEW c \in Calls, Ends(c) PROVE PortsTyped'
  BY <1>11 DEF Ends, PortsTyped, microphone
<1>12. ASSUME NEW p \in Ports, TonesEnd(p) PROVE PortsTyped'
  BY <1>12 DEF TonesEnd, PortsTyped, microphone
<1>13. ASSUME NEW t \in Threads, Find(t) PROVE PortsTyped'
  BY <1>13, <1>a DEF Find, microphone
<1>14. ASSUME NEW c \in Calls \cup {Local}, Dial(c) PROVE PortsTyped'
  BY <1>14, <1>a DEF Dial, microphone
<1>15. ASSUME NEW c \in Calls, QueueTick(c) \/ OnConfirmed(c) \/ HangUp(c) \/ Confirmed(c) PROVE PortsTyped'
  BY <1>15, <1>a DEF QueueTick, OnConfirmed, HangUp, Confirmed, microphone
<1>16. CASE Off \/ LocalTick \/ RefreshLevels \/ Stop \/ PJCreate \/ OnDtmfDigit \/ UNCHANGED vars
  BY <1>16, <1>a DEF Off, LocalTick, RefreshLevels, Stop, PJCreate, OnDtmfDigit, vars, microphone
<1> QED
  BY <1>1, <1>2, <1>3, <1>4, <1>5, <1>6, <1>7, <1>8, <1>9, <1>10, <1>11, <1>12, <1>13, <1>14, <1>15, <1>16
     DEF Next, UiSteps, Step, Threads

\* Every action keeps the types of the digits left to send.
LEMMA QueuesStep == ASSUME TypeOK, [Next]_vars PROVE QueuesTyped'
<1>0. QueuesTyped /\ made' \in Nat /\ made <= made' /\ \A t \in Threads : next[t] \in Calls \cup {"done", "stop"}
  BY MadeGrows DEF TypeOK, QueuesTyped
<1> USE <1>0
<1>a. ASSUME UNCHANGED queued PROVE QueuesTyped'
  BY <1>a DEF QueuesTyped, queued
<1>1. ASSUME NEW t \in Threads, Step(t) PROVE QueuesTyped'
  BY <1>1, <1>a, FinishTyped DEF Step, Find, Make, Found, PlayLocally, Drop, Destroy, Forget
<1>2. CASE PlayToCall
  BY <1>2, FinishTyped DEF PlayToCall, Threads
<1>3. ASSUME NEW c \in Calls, QueueTick(c) PROVE QueuesTyped'
  <2>1. queueTimer' \subseteq Calls /\ confirmed' \subseteq Calls
    BY <1>3 DEF QueueTick, QueuesTyped
  <2>2. ASSUME commands[c] > 0, commands' = [commands EXCEPT ![c] = @ - 1]
        PROVE  commands' \in [Calls -> 0 .. MaxCommands]
    <3>1. commands[c] \in 0 .. MaxCommands /\ MaxCommands \in Nat
      BY TonesAssumption DEF QueuesTyped
    <3>2. commands[c] - 1 \in 0 .. MaxCommands
      BY <2>2, <3>1
    <3> QED
      BY <2>2, <3>2 DEF QueuesTyped
  <2> QED
    BY <1>3, <2>1, <2>2 DEF QueueTick, QueuesTyped
<1>4. ASSUME NEW c \in Calls, OnConfirmed(c) \/ Confirmed(c) PROVE QueuesTyped'
  BY <1>4 DEF OnConfirmed, Confirmed, Rearmed, QueuesTyped
<1>5. ASSUME NEW c \in Calls, HangUp(c) \/ MediaActive(c) \/ MediaHeld(c) \/ Ends(c) PROVE QueuesTyped'
  BY <1>5, <1>a DEF HangUp, MediaActive, MediaHeld, Ends, Updates, queued
<1>6. ASSUME NEW c \in Calls \cup {Local}, Dial(c) PROVE QueuesTyped'
  BY <1>6, <1>a DEF Dial, queued
<1>7. ASSUME NEW p \in Ports, TonesEnd(p) PROVE QueuesTyped'
  BY <1>7, <1>a DEF TonesEnd, queued
<1>8. CASE BusyTick \/ LocalTick \/ RefreshLevels \/ Stop \/ PJCreate \/ OnDtmfDigit \/ Off \/ Join \/ UNCHANGED vars
  BY <1>8, <1>a DEF BusyTick, LocalTick, RefreshLevels, Stop, PJCreate, OnDtmfDigit, Off, Join, vars, queued
<1> QED
  BY <1>1, <1>2, <1>3, <1>4, <1>5, <1>6, <1>7, <1>8 DEF Next, UiSteps, Threads

\* Every action keeps the other types.
LEMMA RestStep == ASSUME TypeOK, [Next]_vars PROVE RestTyped'
<1>0. RestTyped
  BY DEF TypeOK, RestTyped
<1> USE <1>0
<1>a. ASSUME UNCHANGED <<hardware, muted, busyTimer, refreshes, timers, bounds>> PROVE RestTyped'
  BY <1>a DEF RestTyped, hardware, timers, bounds
<1>1. ASSUME NEW t \in Threads, Find(t) \/ Found(t) \/ Destroy(t) \/ Forget(t) PROVE RestTyped'
  BY <1>1, <1>a DEF Find, Found, Destroy, Forget, microphone
<1>2. ASSUME NEW t \in Threads, Make(t) PROVE RestTyped'
  BY <1>2, <1>a DEF Make, microphone
<1>3. ASSUME NEW t \in Threads, PlayLocally(t) PROVE RestTyped'
  BY <1>3 DEF PlayLocally, Arm, Threads, RestTyped, hardware, microphone, bounds
<1>4. ASSUME NEW t \in Threads, Drop(t) PROVE RestTyped'
  BY <1>4, <1>a DEF Drop
<1>5. CASE PlayToCall
  BY <1>5 DEF PlayToCall, RestTyped, hardware, timers, bounds
<1>6. CASE Off \/ PJCreate
  BY <1>6 DEF Off, PJCreate, RestTyped, microphone, timers, bounds
<1>7. CASE Join
  BY <1>7 DEF Join, RestTyped, timers, bounds
<1>8. ASSUME NEW c \in Calls \cup {Local}, Dial(c) PROVE RestTyped'
  BY <1>8 DEF Dial, RestTyped, hardware, microphone, timers
<1>9. ASSUME NEW c \in Calls, QueueTick(c) \/ OnConfirmed(c) PROVE RestTyped'
  BY <1>9, <1>a DEF QueueTick, OnConfirmed, microphone
<1>10. ASSUME NEW c \in Calls, HangUp(c) \/ Confirmed(c) PROVE RestTyped'
  BY <1>10 DEF HangUp, Confirmed, RestTyped, microphone, timers, bounds
<1>11. CASE BusyTick
  BY <1>11 DEF BusyTick, AfterTick, RestTyped, hardware, timers, bounds
<1>12. CASE LocalTick
  BY <1>12 DEF LocalTick, RestTyped, hardware, microphone, bounds
<1>13. CASE RefreshLevels
  <2>1. muted' \in BOOLEAN
    BY <1>13 DEF RefreshLevels, RestTyped
  <2>2. refreshes' \in Nat
    BY <1>13 DEF RefreshLevels, RestTyped
  <2> QED
    BY <1>13, <2>1, <2>2 DEF RefreshLevels, RestTyped, hardware, timers, bounds
<1>14. CASE Stop \/ OnDtmfDigit
  BY <1>14 DEF Stop, OnDtmfDigit, RestTyped, hardware, microphone, timers
<1>15. ASSUME NEW c \in Calls, MediaActive(c) PROVE RestTyped'
  BY <1>15 DEF MediaActive, Updates, RestTyped, timers
<1>16. ASSUME NEW c \in Calls, MediaHeld(c) PROVE RestTyped'
  BY <1>16 DEF MediaHeld, Updates, RestTyped, timers
<1>17. ASSUME NEW c \in Calls, Ends(c) PROVE RestTyped'
  BY <1>17 DEF Ends, RestTyped, microphone, timers, bounds
<1>18. ASSUME NEW p \in Ports, TonesEnd(p) PROVE RestTyped'
  BY <1>18, <1>a DEF TonesEnd, microphone
<1>19. CASE UNCHANGED vars
  BY <1>19, <1>a DEF vars, microphone
<1> QED
  BY <1>1, <1>2, <1>3, <1>4, <1>5, <1>6, <1>7, <1>8, <1>9, <1>10, <1>11, <1>12, <1>13, <1>14, <1>15, <1>16,
     <1>17, <1>18, <1>19 DEF Next, UiSteps, Step, Threads

\* Every action keeps the types.
LEMMA TypeStep == ASSUME TypeOK, Hands, [Next]_vars PROVE TypeOK'
  BY ThreadsStep, PortsStep, QueuesStep, RestStep DEF ThreadsTyped, PortsTyped, QueuesTyped, RestTyped, TypeOK

\* The initial states have the types.
LEMMA TypeInit == ASSUME Init PROVE TypeOK
<1> USE TonesAssumption DEF Init, NoPort, Threads, Ops
<1>1. ThreadsTyped
  BY DEF ThreadsTyped
<1>2. PortsTyped
  BY DEF PortsTyped
<1>3. QueuesTyped
  BY DEF QueuesTyped
<1>4. RestTyped
  BY DEF RestTyped
<1> QED
  BY <1>1, <1>2, <1>3, <1>4 DEF ThreadsTyped, PortsTyped, QueuesTyped, RestTyped, TypeOK

-----------------------------------------------------------------------------
(* What a step changes, for the lemmas that follow.                        *)

\* A thread that takes a step leaves the other where it is.
LEMMA DoesSets ==
  ASSUME TypeOK, NEW t \in Threads, NEW o, NEW c, NEW p, NEW n, Does(t, o, c, p, n)
  PROVE  /\ op'[t] = o /\ of'[t] = c /\ port'[t] = p /\ next'[t] = n
         /\ \A u \in Threads \ {t} :
              op'[u] = op[u] /\ of'[u] = of[u] /\ port'[u] = port[u] /\ next'[u] = next[u]
<1>1. op \in [Threads -> Ops] /\ of \in [Threads -> Calls \cup {Local}]
  BY DEF TypeOK
<1>2. port \in [Threads -> 0 .. made] /\ next \in [Threads -> Calls \cup {"done", "stop"}]
  BY DEF TypeOK
<1>3. op'[t] = o /\ \A u \in Threads \ {t} : op'[u] = op[u]
  BY <1>1 DEF Does
<1>4. of'[t] = c /\ \A u \in Threads \ {t} : of'[u] = of[u]
  BY <1>1 DEF Does
<1>5. port'[t] = p /\ \A u \in Threads \ {t} : port'[u] = port[u]
  BY <1>2 DEF Does
<1>6. next'[t] = n /\ \A u \in Threads \ {t} : next'[u] = next[u]
  BY <1>2 DEF Does
<1> QED
  BY <1>3, <1>4, <1>5, <1>6

\* The other thread does not move.
Others(t) ==
  \A u \in Threads \ {t} :
    op'[u] = op[u] /\ of'[u] = of[u] /\ port'[u] = port[u] /\ next'[u] = next[u]

\* The same for a step that goes on with the same call.
LEMMA GotoSets ==
  ASSUME TypeOK, NEW t \in Threads, NEW o, NEW p, Goto(t, o, p)
  PROVE  op'[t] = o /\ of'[t] = of[t] /\ port'[t] = p /\ next'[t] = next[t] /\ Others(t)
  BY DoesSets DEF Goto, Others

\* The same for the last step.
LEMMA FinishSets ==
  ASSUME TypeOK, Hands, NEW t \in Threads, Finish(t)
  PROVE  /\ op'[t] = "idle" \/ (op'[t] = "off" /\ t = "ui" /\ next[t] = "stop")
         /\ of'[t] = Local /\ port'[t] = NoPort /\ next'[t] = "done" /\ Others(t)
<1>1. Does(t, IF next[t] = "stop" THEN "off" ELSE "idle", Local, NoPort, "done")
  BY DEF Finish
<1>2. next["wk"] = "done"
  BY DEF Hands
<1> QED
  BY <1>1, <1>2, DoesSets DEF Others, Threads

\* A thread begins to play or to destroy.
Starts(t) ==
  /\ op[t] = "idle"
  /\ op'[t] \in {"find", "drop"} /\ of'[t] \in Calls \cup {Local}
  /\ port'[t] = NoPort /\ next'[t] \in Calls \cup {"done", "stop"} /\ Others(t)
  /\ t = "wk" => running /\ next'[t] = "done" /\ (op'[t] = "find" => of'[t] = Local)
  /\ ~running => op'[t] = "drop" /\ next'[t] = "done"
  /\ UNCHANGED <<running, gen, made, alive, listed, torn, muted>>

\* Neither thread moves and no port appears or goes.
Watches ==
  /\ UNCHANGED <<act, gen, made, alive, torn>> /\ listed' \subseteq listed
  /\ running' = running \/ (op["ui"] = "idle" /\ running')
  /\ muted' = muted \/ ~muted'

\* Every action that is not a step of playing or destroying is one of these.
LEMMA OtherActions ==
  ASSUME TypeOK, Hands, [Next]_vars
  PROVE  \/ \E t \in Threads : Step(t) \/ Starts(t)
         \/ PlayToCall \/ Off \/ Join \/ Watches
<1>1. ASSUME NEW c \in Calls \cup {Local}, Dial(c) PROVE Starts("ui")
  <2>1. Target(c) \in Calls \cup {Local}
    BY DEF Target
  <2> QED
    BY <1>1, <2>1, DoesSets DEF Dial, Ui, Starts, Others, Threads, hardware, generators, microphone
<1>2. ASSUME NEW c \in Calls, QueueTick(c) PROVE Starts("ui") \/ Watches
  <2>1. Target(c) \in Calls \cup {Local}
    BY DEF Target
  <2>2. CASE running /\ Ui("find", Target(c), c)
    BY <1>2, <2>1, <2>2, DoesSets DEF QueueTick, Ui, Starts, Others, Threads, hardware, generators, microphone
  <2>3. CASE UiWaits
    BY <1>2, <2>3 DEF QueueTick, UiWaits, Watches, hardware, generators, microphone
  <2> QED
    BY <1>2, <2>2, <2>3 DEF QueueTick
<1>3. ASSUME NEW c \in Calls, HangUp(c) PROVE Starts("ui")
  BY <1>3, DoesSets DEF HangUp, Ui, Starts, Others, Threads, generators, microphone
<1>4. CASE LocalTick
  <2>1. CASE Ui("drop", Local, "done")
    BY <1>4, <2>1, DoesSets DEF LocalTick, Ui, Starts, Others, Threads, hardware, generators, microphone
  <2>2. CASE UiWaits
    BY <1>4, <2>2 DEF LocalTick, UiWaits, Watches, hardware, generators, microphone
  <2> QED
    BY <1>4, <2>1, <2>2 DEF LocalTick, Threads
<1>5. CASE Stop
  BY <1>5, DoesSets DEF Stop, Ui, Starts, Others, Threads, hardware, generators, microphone
<1>6. ASSUME NEW c \in Calls, MediaHeld(c) PROVE Starts("wk")
  BY <1>6, DoesSets DEF MediaHeld, Updates, Wk, Starts, Others, Threads
<1>7. CASE OnDtmfDigit
  BY <1>7, DoesSets DEF OnDtmfDigit, Wk, Starts, Others, Threads, hardware, generators, microphone
<1>8. ASSUME NEW c \in Calls, OnConfirmed(c) \/ Confirmed(c) PROVE Watches
  BY <1>8 DEF OnConfirmed, Confirmed, UiWaits, WkWaits, Watches, hardware, generators, microphone
<1>9. ASSUME NEW c \in Calls, MediaActive(c) \/ Ends(c) PROVE Watches
  BY <1>9 DEF MediaActive, Ends, Updates, WkWaits, Watches, microphone
<1>10. CASE BusyTick
  <2>1. listed' \subseteq listed
    BY <1>10 DEF BusyTick
  <2> QED
    BY <1>10, <2>1 DEF BusyTick, UiWaits, Watches, hardware, generators
<1>11. CASE RefreshLevels
  BY <1>11 DEF RefreshLevels, UiWaits, Watches, hardware, generators
<1>12. CASE PJCreate
  BY <1>12 DEF PJCreate, UiWaits, Watches, generators, microphone
<1>13. ASSUME NEW p \in Ports, TonesEnd(p) PROVE Watches
  BY <1>13 DEF TonesEnd, Watches, hardware, microphone
<1>14. CASE UNCHANGED vars
  BY <1>14 DEF vars, Watches, hardware, generators, microphone
<1> QED
  BY <1>1, <1>2, <1>3, <1>4, <1>5, <1>6, <1>7, <1>8, <1>9, <1>10, <1>11, <1>12, <1>13, <1>14
     DEF Next, UiSteps, Threads

-----------------------------------------------------------------------------
(* One lemma for each conjunct.                                            *)

\* A thread has a port in hand exactly from finding to finishing.
LEMMA HandsStep == ASSUME TypeOK, Hands, [Next]_vars PROVE Hands'
<1> DEFINE Hand(t) ==
       /\ op[t] \in {"idle", "find", "make", "drop", "off", "join"} => port[t] = NoPort
       /\ op[t] \in {"found", "playToCall", "playLocally", "destroy", "forget"} => port[t] # NoPort
       /\ op[t] \in {"found", "playLocally"} => of[t] = Local
       /\ op[t] = "playToCall" => of[t] \in Calls
       /\ op[t] \in {"idle", "off", "join"} => next[t] = "done"
       /\ t = "wk" =>
            /\ op[t] \in {"idle", "find", "make", "found", "playLocally", "drop", "destroy", "forget"}
            /\ op[t] \in {"find", "make"} => of[t] = Local
            /\ next[t] = "done"
<1>1. ASSUME NEW t \in Threads PROVE Hand(t)
  BY DEF Hands, Threads
<1>2. SUFFICES \A t \in Threads : Hand(t)'
  BY DEF Hands, Threads
<1>3. ASSUME NEW t \in Threads, Others(t), Hand(t)' PROVE \A u \in Threads : Hand(u)'
  BY <1>1, <1>3 DEF Others
<1>4. ASSUME NEW t \in Threads, Finish(t) PROVE Hand(t)' /\ Others(t)
  BY <1>4, FinishSets
<1>5. \A t \in Threads : of[t] \in Calls \cup {Local}
  BY DEF TypeOK
<1>6. ASSUME NEW t \in Threads, Find(t) PROVE Hand(t)' /\ Others(t)
  <2>1. Goto(t, IF Cd(of[t]) = NoPort THEN "make" ELSE IF of[t] = Local THEN "found" ELSE "playToCall",
             Cd(of[t])) /\ op[t] = "find"
    BY <1>6 DEF Find
  <2> QED
    BY <1>1, <1>5, <2>1, GotoSets
<1>7. ASSUME NEW t \in Threads, Make(t) PROVE Hand(t)' /\ Others(t)
  <2>1. CASE made' = made + 1 /\ Goto(t, Play(of[t]), made') /\ op[t] = "make"
    <3>1. made' # NoPort
      BY <2>1 DEF TypeOK, NoPort
    <3> QED
      BY <1>1, <1>5, <2>1, <3>1, GotoSets DEF Play
  <2>2. CASE Does(t, "find", Local, NoPort, next[t])
    BY <1>1, <2>2, DoesSets DEF Others
  <2> QED
    BY <1>4, <1>7, <2>1, <2>2 DEF Make
<1>8. ASSUME NEW t \in Threads, Found(t) PROVE Hand(t)' /\ Others(t)
  BY <1>1, <1>8, GotoSets DEF Found
<1>9. ASSUME NEW t \in Threads, Drop(t) PROVE Hand(t)' /\ Others(t)
  <2> DEFINE p == IF running \/ of[t] = Local THEN Cd(of[t]) ELSE NoPort
  <2>1. Finish(t) \/ (p # NoPort /\ Goto(t, "destroy", p))
    BY <1>9 DEF Drop
  <2> HIDE DEF p
  <2> QED
    BY <1>1, <1>4, <2>1, GotoSets
<1>10. ASSUME NEW t \in Threads, Destroy(t) PROVE Hand(t)' /\ Others(t)
  BY <1>1, <1>10, GotoSets DEF Destroy
<1>11. ASSUME NEW t \in Threads, PlayLocally(t) \/ Forget(t) PROVE Hand(t)' /\ Others(t)
  BY <1>4, <1>11 DEF PlayLocally, Forget
<1>12. CASE PlayToCall
  BY <1>3, <1>4, <1>12 DEF PlayToCall, Threads
<1>13. CASE Off
  BY <1>1, <1>3, <1>13, GotoSets DEF Off, Threads
<1>14. CASE Join
  BY <1>1, <1>3, <1>14, GotoSets DEF Join, Threads
<1>15. ASSUME NEW t \in Threads, Starts(t) PROVE Hand(t)' /\ Others(t)
  BY <1>15 DEF Starts
<1>16. CASE Watches
  BY <1>1, <1>16 DEF Watches, act
<1> QED
  BY <1>3, <1>6, <1>7, <1>8, <1>9, <1>10, <1>11, <1>12, <1>13, <1>14, <1>15, <1>16, OtherActions DEF Step

\* Only the way out of PJDestroy or the user's timer runs while PJSUA is down.
LEMMA DownStep == ASSUME TypeOK, Hands, Down, [Next]_vars PROVE Down'
<1>1. next["ui"] \in Calls \cup {"done", "stop"} /\ \A t \in Threads : of[t] \in Calls \cup {Local}
  BY DEF TypeOK, Threads
<1>2. ASSUME NEW t \in Threads, Step(t) PROVE Down'
  <2> SUFFICES ASSUME ~running' PROVE Down'
    BY DEF Down
  <2>1. UNCHANGED <<running, muted>>
    BY <1>2 DEF Step, Find, Make, Found, PlayLocally, Drop, Destroy, Forget, hardware, microphone
  <2>2. ~running /\ op["ui"] \in {"idle", "join", "drop", "destroy", "forget"} /\ next["ui"] = "done"
    BY <2>1 DEF Down
  <2>3. alive' = alive
    BY <1>2, <2>2 DEF Step, Find, Make, Found, PlayLocally, Drop, Destroy, Forget, generators
  <2>4. CASE t = "wk"
    <3>1. Others("wk")
      BY <1>2, <2>4, GotoSets, FinishSets, DoesSets
         DEF Step, Find, Make, Found, PlayLocally, Drop, Destroy, Forget, Others
    <3> QED
      BY <2>1, <2>2, <2>3, <3>1 DEF Down, Others, Threads
  <2>5. CASE t = "ui"
    <3>1. Drop("ui") \/ Destroy("ui") \/ Forget("ui")
      BY <1>2, <2>2, <2>5 DEF Step, Find, Make, Found, PlayLocally
    <3>2. op'["ui"] \in {"idle", "destroy", "forget"} /\ next'["ui"] = "done"
      BY <2>2, <3>1, GotoSets, FinishSets DEF Drop, Destroy, Forget, Threads
    <3>3. op["ui"] # "join"
      BY <3>1 DEF Drop, Destroy, Forget
    <3> QED
      BY <2>1, <2>2, <2>3, <3>2, <3>3 DEF Down
  <2> QED
    BY <2>4, <2>5 DEF Threads
<1>3. CASE PlayToCall
  BY <1>3 DEF Down, PlayToCall, hardware
<1>4. CASE Off
  <2>1. op'["ui"] = "join" /\ next'["ui"] = "done"
    BY <1>4, GotoSets DEF Off, Hands, Threads
  <2> QED
    BY <2>1 DEF Down
<1>5. CASE Join
  <2>1. op'["ui"] = "idle" /\ next'["ui"] = "done" /\ ~muted' /\ alive' = {}
    BY <1>5, GotoSets DEF Join, Hands, Threads
  <2> QED
    BY <2>1 DEF Down
<1>6. CASE Starts("ui")
  BY <1>6 DEF Starts, Down
<1>7. CASE Starts("wk")
  BY <1>7 DEF Starts, Down
<1>8. CASE Watches
  BY <1>8 DEF Watches, Down, act
<1> QED
  BY <1>2, <1>3, <1>4, <1>5, <1>6, <1>7, <1>8, OtherActions DEF Threads

\* The timer of the tones stops only with a message that unmutes.
LEMMA MutedStep == ASSUME TypeOK, Hands, Down, MutedHasTimer, [Next]_vars PROVE MutedHasTimer'
<1>1. refreshes \in Nat
  BY DEF TypeOK
<1>2. ASSUME NEW t \in Threads, Step(t) PROVE MutedHasTimer'
  BY <1>2 DEF MutedHasTimer, Step, Find, Make, Found, PlayLocally, Drop, Destroy, Forget, hardware, microphone
<1>3. CASE PlayToCall
  BY <1>3 DEF MutedHasTimer, PlayToCall
<1>4. CASE Off \/ Join
  BY <1>4 DEF MutedHasTimer, Off, Join
<1>5. ASSUME NEW c \in Calls \cup {Local}, Dial(c) PROVE MutedHasTimer'
  BY <1>5 DEF MutedHasTimer, Dial, hardware, microphone
<1>6. ASSUME NEW c \in Calls, QueueTick(c) \/ OnConfirmed(c) \/ HangUp(c) \/ Confirmed(c) \/ Ends(c)
      PROVE  MutedHasTimer'
  BY <1>6 DEF MutedHasTimer, QueueTick, OnConfirmed, HangUp, Confirmed, Ends, hardware, microphone
<1>7. ASSUME NEW c \in Calls, MediaActive(c) \/ MediaHeld(c) PROVE MutedHasTimer'
  <2>1. refreshes' = refreshes + 1 \/ refreshes' = refreshes
    BY <1>7 DEF MediaActive, MediaHeld
  <2>2. UNCHANGED <<running, muted, busyTimer>>
    BY <1>7 DEF MediaActive, MediaHeld, Updates
  <2> QED
    BY <1>1, <2>1, <2>2 DEF MutedHasTimer
<1>8. CASE BusyTick
  <2>1. busyTimer' \/ refreshes' = refreshes + 1
    BY <1>8 DEF BusyTick, AfterTick
  <2> QED
    BY <1>1, <2>1 DEF MutedHasTimer
<1>9. CASE LocalTick \/ Stop \/ OnDtmfDigit
  BY <1>9 DEF MutedHasTimer, LocalTick, Stop, OnDtmfDigit, hardware, microphone
<1>10. CASE RefreshLevels
  BY <1>10 DEF MutedHasTimer, RefreshLevels, hardware
<1>11. CASE PJCreate
  BY <1>11 DEF MutedHasTimer, Down, PJCreate, UiWaits, microphone
<1>12. ASSUME NEW p \in Ports, TonesEnd(p) PROVE MutedHasTimer'
  BY <1>12 DEF MutedHasTimer, TonesEnd, hardware, microphone
<1>13. CASE UNCHANGED vars
  BY <1>13 DEF MutedHasTimer, vars, hardware, microphone
<1> QED
  BY <1>2, <1>3, <1>4, <1>5, <1>6, <1>7, <1>8, <1>9, <1>10, <1>11, <1>12, <1>13 DEF Next, UiSteps, Threads

\* The types of ports, taken apart.
LEMMA Typed ==
  ASSUME TypeOK
  PROVE  /\ made \in Nat /\ gen \in [Calls \cup {Local} -> 0 .. made]
         /\ \A c \in Calls \cup {Local} : gen[c] \in 0 .. made
         /\ \A t \in Threads : port[t] \in 0 .. made /\ of[t] \in Calls \cup {Local}
         /\ alive \subseteq 1 .. made /\ listed \subseteq 1 .. made /\ torn \subseteq 1 .. made
  BY DEF TypeOK

\* call_deinit_tonegen takes the port from the list before it destroys it.
LEMMA LeavingStep == ASSUME TypeOK, Hands, Down, Apart, Leaving, [Next]_vars PROVE Leaving'
<1> DEFINE Leaves(t) == /\ op[t] = "destroy" => port[t] \notin listed \/ port[t] \in torn
                        /\ op[t] = "forget" /\ running => port[t] \notin alive
<1>1. \A t \in Threads : Leaves(t)
  BY DEF Leaving
<1>2. SUFFICES \A t \in Threads : Leaves(t)'
  BY DEF Leaving
<1>3. ASSUME NEW u \in Threads, UNCHANGED <<op[u], port[u], running>>,
             listed' \subseteq listed, torn \subseteq torn', alive' \subseteq alive
      PROVE  Leaves(u)'
  BY <1>1, <1>3
<1>4. ASSUME NEW t \in Threads, Finish(t) PROVE Leaves(t)' /\ Others(t)
  BY <1>4, FinishSets
<1>5. ASSUME NEW t \in Threads, Find(t) PROVE \A u \in Threads : Leaves(u)'
  <2>1. op'[t] \in {"make", "found", "playToCall"} /\ Others(t)
    BY <1>5, GotoSets DEF Find
  <2>2. UNCHANGED <<running, listed, torn, alive>>
    BY <1>5 DEF Find, hardware, generators, microphone
  <2> QED
    BY <1>3, <2>1, <2>2 DEF Others
<1>6. ASSUME NEW t \in Threads, Make(t) PROVE \A u \in Threads : Leaves(u)'
  <2>1. UNCHANGED <<running, listed>> /\ torn \subseteq torn'
    BY <1>6 DEF Make, Keep, hardware, microphone
  <2>2. op'[t] \notin {"destroy", "forget"} /\ Others(t)
    BY <1>6, GotoSets, FinishSets, DoesSets DEF Make, Play, Others
  <2>3. \A u \in Threads : port[u] \in alive' => port[u] \in alive
    BY <1>6, Typed DEF Make
  <2> QED
    BY <1>1, <2>1, <2>2, <2>3 DEF Others
<1>7. ASSUME NEW t \in Threads, Found(t) \/ PlayLocally(t) PROVE \A u \in Threads : Leaves(u)'
  <2>1. op'[t] \notin {"destroy", "forget"} /\ Others(t)
    BY <1>7, GotoSets, FinishSets DEF Found, PlayLocally
  <2>2. UNCHANGED <<running, listed, alive>> /\ torn \subseteq torn'
    BY <1>7 DEF Found, PlayLocally, Keep, hardware, microphone
  <2> QED
    BY <1>3, <2>1, <2>2 DEF Others
<1>8. ASSUME NEW t \in Threads, Drop(t) PROVE \A u \in Threads : Leaves(u)'
  <2> DEFINE p == IF running \/ of[t] = Local THEN Cd(of[t]) ELSE NoPort
  <2>1. UNCHANGED <<running, alive, torn>> /\ listed' \subseteq listed
    BY <1>8 DEF Drop, Unlist, hardware, generators
  <2>2. CASE Finish(t)
    BY <1>3, <1>4, <2>1, <2>2 DEF Others
  <2>3. CASE p # NoPort /\ Goto(t, "destroy", p)
    <3>1. op'[t] = "destroy" /\ port'[t] = p /\ Others(t)
      BY <2>3, GotoSets
    <3>2. p \notin listed'
      <4>1. CASE of[t] = Local
        <5>1. p = gen[Local]
          BY <2>3, <4>1 DEF Cd, HasData
        <5>2. gen[Local] # NoPort => gen[Local] \notin listed
          BY Typed DEF Apart, OfUser, OfCall, NoPort
        <5> QED
          BY <2>1, <2>3, <5>1, <5>2
      <4>2. CASE of[t] # Local
        <5>1. listed' = listed \ {p}
          BY <1>8, <4>2 DEF Drop, Unlist
        <5> QED
          BY <5>1
      <4> QED
        BY <4>1, <4>2
    <3> QED
      BY <1>3, <2>1, <3>1, <3>2 DEF Others
  <2> QED
    BY <1>8, <2>2, <2>3 DEF Drop
<1>9. ASSUME NEW t \in Threads, Destroy(t) PROVE \A u \in Threads : Leaves(u)'
  <2>1. op'[t] = "forget" /\ port'[t] = port[t] /\ Others(t)
    BY <1>9, GotoSets DEF Destroy
  <2>2. UNCHANGED <<running, listed, torn>> /\ alive' \subseteq alive /\ (running => port[t] \notin alive')
    BY <1>9 DEF Destroy, Removed, hardware, microphone
  <2> QED
    BY <1>3, <2>1, <2>2 DEF Others
<1>10. ASSUME NEW t \in Threads, Forget(t) PROVE \A u \in Threads : Leaves(u)'
  <2>1. UNCHANGED <<running, listed, alive>> /\ torn \subseteq torn'
    BY <1>10 DEF Forget, hardware, microphone
  <2> QED
    BY <1>3, <1>4, <1>10, <2>1 DEF Forget, Others
<1>11. CASE PlayToCall
  <2>1. Leaves("ui")' /\ Others("ui")
    BY <1>4, <1>11 DEF PlayToCall, Threads
  <2>2. UNCHANGED <<running, alive>> /\ listed' = listed \cup {port["ui"]} /\ torn \subseteq torn'
    BY <1>11 DEF PlayToCall, hardware
  <2>3. port["wk"] = port["ui"] => port["wk"] \in torn'
    BY <1>11 DEF PlayToCall
  <2>4. Leaves("wk")'
    BY <1>1, <2>1, <2>2, <2>3 DEF Others, Threads
  <2> QED
    BY <2>1, <2>4 DEF Threads
<1>12. CASE Off \/ Join
  <2>1. op'["ui"] \in {"join", "idle"} /\ Others("ui")
    BY <1>12, GotoSets DEF Off, Join, Threads
  <2>2. UNCHANGED listed /\ torn \subseteq torn' /\ alive' \subseteq alive /\ (running' => running)
    BY <1>12 DEF Off, Join, generators, microphone
  <2> QED
    BY <1>1, <2>1, <2>2 DEF Others, Threads
<1>13. ASSUME NEW t \in Threads, Starts(t) PROVE \A u \in Threads : Leaves(u)'
  BY <1>3, <1>13 DEF Starts, Others
<1>14. CASE Watches
  <2>1. ASSUME ~running, op["ui"] = "idle" PROVE alive' = {}
    BY <1>14, <2>1 DEF Watches, Down
  <2> QED
    BY <1>1, <1>14, <2>1 DEF Watches, act
<1> QED
  BY <1>5, <1>6, <1>7, <1>8, <1>9, <1>10, <1>11, <1>12, <1>13, <1>14, OtherActions DEF Step

\* A generator to be played on can only be lost by being noted as torn.
LEMMA StoredStep == ASSUME TypeOK, Hands, Down, Leaving, Stored, [Next]_vars PROVE Stored'
<1> DEFINE Holds(t) == op[t] \in {"playToCall", "playLocally"} /\ port[t] \in alive \ torn => gen[of[t]] = port[t]
<1>1. \A t \in Threads : Holds(t)
  BY DEF Stored
<1>2. SUFFICES \A t \in Threads : Holds(t)'
  BY DEF Stored
<1>3. ASSUME NEW u \in Threads, UNCHANGED <<op[u], port[u], of[u], gen>>, torn \subseteq torn', alive' \subseteq alive
      PROVE  Holds(u)'
  BY <1>1, <1>3
<1>4. ASSUME NEW t \in Threads, Finish(t) PROVE Holds(t)' /\ Others(t)
  BY <1>4, FinishSets
<1>5. ASSUME NEW t \in Threads, Find(t) PROVE \A u \in Threads : Holds(u)'
  <2>1. op'[t] \in {"make", "found", "playToCall"} /\ of'[t] = of[t] /\ port'[t] = Cd(of[t]) /\ Others(t)
    BY <1>5, GotoSets DEF Find
  <2>2. UNCHANGED <<gen, torn, alive>>
    BY <1>5 DEF Find, generators
  <2>3. Holds(t)'
    <3>1. op'[t] = "playToCall" => Cd(of[t]) # NoPort
      BY <1>5, GotoSets DEF Find
    <3> QED
      BY <2>1, <2>2, <3>1 DEF Cd
  <2> QED
    BY <1>3, <2>1, <2>2, <2>3 DEF Others
<1>6. ASSUME NEW t \in Threads, Keep(of[t], port'[t]), of'[t] = of[t], Others(t),
             \A u \in Threads \ {t} : port[u] \in alive' => port[u] \in alive
      PROVE  \A u \in Threads : Holds(u)'
  <2>1. gen' = [gen EXCEPT ![of[t]] = port'[t]] /\ torn' = torn \cup ({gen[of[t]]} \ {port'[t], NoPort})
    BY <1>6 DEF Keep
  <2>2. gen'[of[t]] = port'[t]
    BY <1>6, <2>1, Typed
  <2>3. ASSUME NEW u \in Threads \ {t} PROVE Holds(u)'
    <3>1. CASE of[u] # of[t]
      BY <1>1, <1>6, <2>1, <2>3, <3>1, Typed DEF Others
    <3>2. CASE of[u] = of[t]
      <4>1. ASSUME op[u] \in {"playToCall", "playLocally"}, port[u] \in alive \ torn, gen[of[t]] # port'[t]
            PROVE  port[u] \in torn'
        BY <1>1, <2>1, <2>3, <3>2, <4>1 DEF Hands
      <4> QED
        BY <1>1, <1>6, <2>1, <2>2, <2>3, <3>2, <4>1 DEF Others
    <3> QED
      BY <3>1, <3>2
  <2> QED
    BY <1>6, <2>2, <2>3
<1>7. ASSUME NEW t \in Threads, Make(t) PROVE \A u \in Threads : Holds(u)'
  <2>1. CASE /\ made' = made + 1 /\ alive' = alive \cup {made'} /\ Keep(of[t], made')
             /\ Goto(t, Play(of[t]), made')
    <3>1. of'[t] = of[t] /\ port'[t] = made' /\ Others(t)
      BY <2>1, GotoSets
    <3>2. \A u \in Threads \ {t} : port[u] \in alive' => port[u] \in alive
      BY <2>1, Typed
    <3> QED
      BY <1>6, <2>1, <3>1, <3>2
  <2>2. CASE Does(t, "find", Local, NoPort, next[t]) /\ UNCHANGED <<gen, torn, alive>>
    <3>1. op'[t] = "find" /\ Others(t)
      BY <2>2, DoesSets DEF Others
    <3> QED
      BY <1>3, <2>2, <3>1 DEF Others
  <2>3. CASE Finish(t) /\ UNCHANGED <<gen, torn, alive>>
    BY <1>3, <1>4, <2>3 DEF Others
  <2> QED
    BY <1>7, <2>1, <2>2, <2>3 DEF Make
<1>8. ASSUME NEW t \in Threads, Found(t) PROVE \A u \in Threads : Holds(u)'
  <2>1. of[t] = Local /\ Keep(of[t], port[t]) /\ alive' = alive
    BY <1>8 DEF Found, Hands
  <2>2. of'[t] = of[t] /\ port'[t] = port[t] /\ Others(t)
    BY <1>8, GotoSets DEF Found
  <2> QED
    BY <1>6, <2>1, <2>2
<1>9. ASSUME NEW t \in Threads, PlayLocally(t) PROVE \A u \in Threads : Holds(u)'
  BY <1>3, <1>4, <1>9 DEF PlayLocally, Others
<1>10. ASSUME NEW t \in Threads, Drop(t) PROVE \A u \in Threads : Holds(u)'
  <2>1. op'[t] \in {"idle", "off", "destroy"} /\ Others(t)
    BY <1>10, FinishSets, GotoSets DEF Drop
  <2>2. UNCHANGED <<gen, torn, alive>>
    BY <1>10 DEF Drop, generators
  <2> QED
    BY <1>3, <2>1, <2>2 DEF Others
<1>11. ASSUME NEW t \in Threads, Destroy(t) PROVE \A u \in Threads : Holds(u)'
  <2>1. op'[t] = "forget" /\ Others(t)
    BY <1>11, GotoSets DEF Destroy
  <2>2. UNCHANGED <<gen, torn>> /\ alive' \subseteq alive
    BY <1>11 DEF Destroy, Removed
  <2> QED
    BY <1>3, <2>1, <2>2 DEF Others
<1>12. ASSUME NEW t \in Threads, Forget(t) PROVE \A u \in Threads : Holds(u)'
  <2>1. gen' = [gen EXCEPT ![of[t]] = NoPort] /\ torn' = torn \cup ({gen[of[t]]} \ {port[t], NoPort})
        /\ alive' = alive /\ Holds(t)' /\ Others(t)
    BY <1>4, <1>12 DEF Forget
  <2>2. ASSUME NEW u \in Threads \ {t}, op[u] \in {"playToCall", "playLocally"} PROVE port[t] \notin alive
    <3>1. CASE running
      BY <1>12, <3>1 DEF Leaving, Forget
    <3>2. CASE ~running
      BY <1>12, <2>2, <3>2 DEF Down, Forget, Threads
    <3> QED
      BY <3>1, <3>2
  <2>3. ASSUME NEW u \in Threads \ {t} PROVE Holds(u)'
    <3>1. CASE of[u] # of[t]
      BY <1>1, <2>1, <3>1, Typed DEF Others
    <3>2. CASE of[u] = of[t]
      <4>1. ASSUME op[u] \in {"playToCall", "playLocally"}, port[u] \in alive \ torn PROVE port[u] \in torn'
        BY <1>1, <2>1, <2>2, <3>2, <4>1, Typed DEF NoPort
      <4> QED
        BY <2>1, <3>2, <4>1 DEF Others
    <3> QED
      BY <3>1, <3>2
  <2> QED
    BY <2>1, <2>3
<1>13. CASE PlayToCall
  <2>1. Holds("ui")' /\ Others("ui")
    BY <1>4, <1>13 DEF PlayToCall, Threads
  <2>2. UNCHANGED <<gen, alive>> /\ torn \subseteq torn'
    BY <1>13 DEF PlayToCall
  <2> QED
    BY <1>3, <2>1, <2>2 DEF Others
<1>14. CASE Off \/ Join
  <2>1. op'["ui"] \in {"join", "idle"} /\ Others("ui")
    BY <1>14, GotoSets DEF Off, Join, Threads
  <2>2. UNCHANGED gen /\ torn \subseteq torn' /\ alive' \subseteq alive
    BY <1>14 DEF Off, Join, generators
  <2> QED
    BY <1>3, <2>1, <2>2 DEF Others
<1>15. ASSUME NEW t \in Threads, Starts(t) PROVE \A u \in Threads : Holds(u)'
  BY <1>3, <1>15 DEF Starts, Others
<1>16. CASE Watches
  BY <1>3, <1>16 DEF Watches, act
<1> QED
  BY <1>5, <1>7, <1>8, <1>9, <1>10, <1>11, <1>12, <1>13, <1>14, <1>15, <1>16, OtherActions DEF Step

\* A port leaves the bridge only when it has left the list.
LEMMA ListedStep == ASSUME TypeOK, Hands, Leaving, ListedExist, [Next]_vars PROVE ListedExist'
<1>1. ASSUME listed' \subseteq listed, alive \subseteq alive', torn \subseteq torn' PROVE ListedExist'
  BY <1>1 DEF ListedExist
<1>2. ASSUME NEW t \in Threads, Step(t), ~Destroy(t) PROVE ListedExist'
  <2>1. listed' \subseteq listed
    BY <1>2 DEF Step, Find, Make, Found, PlayLocally, Drop, Forget, Unlist, microphone
  <2>2. alive \subseteq alive'
    BY <1>2 DEF Step, Find, Make, Found, PlayLocally, Drop, Forget, generators
  <2>3. torn \subseteq torn'
    BY <1>2 DEF Step, Find, Make, Found, PlayLocally, Drop, Forget, Keep, generators
  <2> QED
    BY <1>1, <2>1, <2>2, <2>3
<1>3. ASSUME NEW t \in Threads, Destroy(t) PROVE ListedExist'
  <2>1. port[t] \notin listed \/ port[t] \in torn
    BY <1>3 DEF Leaving, Destroy
  <2> QED
    BY <1>3, <2>1 DEF ListedExist, Destroy, Removed, microphone
<1>4. CASE PlayToCall
  BY <1>4 DEF ListedExist, PlayToCall
<1>5. CASE Off \/ Join
  BY <1>5 DEF ListedExist, Off, Join, generators, microphone
<1>6. ASSUME NEW t \in Threads, Starts(t) PROVE ListedExist'
  BY <1>1, <1>6 DEF Starts
<1>7. CASE Watches
  BY <1>1, <1>7 DEF Watches
<1> QED
  BY <1>2, <1>3, <1>4, <1>5, <1>6, <1>7, OtherActions

\* A port found or made is stored before the thread lets go of it.
LEMMA LostStep == ASSUME TypeOK, Hands, Down, Leaving, Stored, NoLostPort, [Next]_vars PROVE NoLostPort'
<1> DEFINE Reached(p) == (\E c \in Calls \cup {Local} : gen[c] = p) \/ \E t \in Threads : port[t] = p
<1>1. \A p \in alive \ torn : running => p # NoPort /\ Reached(p)
  BY Typed DEF NoLostPort, NoPort
<1>2. SUFFICES ASSUME running', NEW p \in alive' \ torn' PROVE Reached(p)'
  BY DEF NoLostPort
<1>3. \A c \in Calls \cup {Local} : gen[c] \in 0 .. made
  BY Typed
<1>4. ASSUME NEW t \in Threads, Finish(t) PROVE port'[t] = NoPort /\ Others(t)
  BY <1>4, FinishSets
<1>5. ASSUME NEW t \in Threads, Others(t), port[t] = NoPort \/ port'[t] = port[t], running,
             gen' = gen, p \in alive \ torn
      PROVE  Reached(p)'
  BY <1>1, <1>5 DEF Others
<1>6. ASSUME NEW t \in Threads, Find(t) PROVE Reached(p)'
  BY <1>2, <1>5, <1>6, GotoSets DEF Find, Hands, hardware, generators
<1>7. ASSUME NEW t \in Threads, Keep(of[t], port'[t]), of[t] \in Calls \cup {Local}, Others(t),
             p \in alive \/ p = port'[t], port[t] = NoPort \/ port[t] = port'[t], running
      PROVE  Reached(p)'
  <2>1. gen' = [gen EXCEPT ![of[t]] = port'[t]] /\ torn' = torn \cup ({gen[of[t]]} \ {port'[t], NoPort})
    BY <1>7 DEF Keep
  <2>2. CASE p = port'[t]
    BY <2>2
  <2>3. CASE p # port'[t]
    <3>1. p \in alive \ torn /\ p # NoPort
      BY <1>1, <1>2, <1>7, <2>1, <2>3
    <3>2. gen[of[t]] # p
      BY <1>2, <2>1, <2>3, <3>1
    <3>3. CASE \E c \in Calls \cup {Local} : gen[c] = p
      <4>1. PICK c \in Calls \cup {Local} : gen[c] = p
        BY <3>3
      <4>2. gen'[c] = p
        BY <2>1, <3>2, <4>1, Typed
      <4> QED
        BY <4>2
    <3>4. CASE \E u \in Threads : port[u] = p
      BY <1>7, <2>3, <3>1, <3>4 DEF Others
    <3> QED
      BY <1>1, <1>7, <3>1, <3>3, <3>4
  <2> QED
    BY <2>2, <2>3
<1>8. ASSUME NEW t \in Threads, Make(t) PROVE Reached(p)'
  <2>0. port[t] = NoPort /\ of[t] \in Calls \cup {Local} /\ running
    BY <1>2, <1>8, Typed DEF Make, Hands, hardware
  <2>1. CASE alive' = alive \cup {made'} /\ Keep(of[t], made') /\ Goto(t, Play(of[t]), made')
    <3>1. port'[t] = made' /\ Others(t)
      BY <2>1, GotoSets
    <3> QED
      BY <1>2, <1>7, <2>0, <2>1, <3>1
  <2>2. CASE Does(t, "find", Local, NoPort, next[t]) /\ UNCHANGED <<gen, torn, alive>>
    <3>1. port'[t] = NoPort /\ Others(t)
      BY <2>2, DoesSets DEF Others
    <3> QED
      BY <1>2, <1>5, <2>0, <2>2, <3>1
  <2>3. CASE Finish(t) /\ UNCHANGED <<gen, torn, alive>>
    BY <1>2, <1>4, <1>5, <2>0, <2>3
  <2> QED
    BY <1>8, <2>1, <2>2, <2>3 DEF Make
<1>9. ASSUME NEW t \in Threads, Found(t) PROVE Reached(p)'
  <2>1. of[t] = Local /\ Keep(of[t], port[t]) /\ alive' = alive /\ running
    BY <1>2, <1>9 DEF Found, Hands, hardware
  <2>2. port'[t] = port[t] /\ Others(t)
    BY <1>9, GotoSets DEF Found
  <2> QED
    BY <1>2, <1>7, <2>1, <2>2
<1>10. ASSUME NEW t \in Threads, PlayLocally(t) \/ (t = "ui" /\ PlayToCall) PROVE Reached(p)'
  <2>1. UNCHANGED <<gen, alive, running>> /\ torn \subseteq torn'
    BY <1>10 DEF PlayLocally, PlayToCall, hardware
  <2>2. port'[t] = NoPort /\ Others(t) /\ op[t] \in {"playToCall", "playLocally"} /\ of[t] \in Calls \cup {Local}
    BY <1>4, <1>10, Typed DEF PlayLocally, PlayToCall
  <2>3. CASE p = port[t]
    BY <1>2, <2>1, <2>2, <2>3 DEF Stored
  <2>4. CASE p # port[t]
    BY <1>1, <1>2, <2>1, <2>2, <2>4 DEF Others
  <2> QED
    BY <2>3, <2>4
<1>11. ASSUME NEW t \in Threads, Drop(t) PROVE Reached(p)'
  <2>1. port[t] = NoPort /\ Others(t)
    BY <1>11, FinishSets, GotoSets DEF Drop, Hands
  <2>2. UNCHANGED <<running, gen, torn, alive>>
    BY <1>11 DEF Drop, hardware, generators
  <2> QED
    BY <1>2, <1>5, <2>1, <2>2
<1>12. ASSUME NEW t \in Threads, Destroy(t) PROVE Reached(p)'
  <2>1. port'[t] = port[t] /\ Others(t)
    BY <1>12, GotoSets DEF Destroy
  <2>2. UNCHANGED <<running, gen, torn>> /\ alive' \subseteq alive
    BY <1>12 DEF Destroy, Removed, hardware
  <2> QED
    BY <1>2, <1>5, <2>1, <2>2
<1>13. ASSUME NEW t \in Threads, Forget(t) PROVE Reached(p)'
  <2>1. /\ gen' = [gen EXCEPT ![of[t]] = NoPort] /\ torn' = torn \cup ({gen[of[t]]} \ {port[t], NoPort})
        /\ UNCHANGED <<running, alive>> /\ Others(t)
    BY <1>4, <1>13 DEF Forget, hardware
  <2>2. port[t] \notin alive
    BY <1>2, <1>13, <2>1 DEF Forget, Leaving
  <2>3. p \in alive \ torn /\ p # NoPort /\ p # port[t]
    BY <1>1, <1>2, <2>1, <2>2
  <2>4. gen[of[t]] # p
    BY <1>2, <2>1, <2>3
  <2>5. CASE \E c \in Calls \cup {Local} : gen[c] = p
    <3>1. PICK c \in Calls \cup {Local} : gen[c] = p
      BY <2>5
    <3>2. gen'[c] = p
      BY <2>1, <2>4, <3>1, Typed
    <3> QED
      BY <3>2
  <2>6. CASE \E u \in Threads : port[u] = p
    BY <2>1, <2>3, <2>6 DEF Others
  <2> QED
    BY <1>1, <1>2, <2>1, <2>3, <2>5, <2>6
<1>14. CASE Off
  BY <1>2, <1>14 DEF Off
<1>15. CASE Join
  BY <1>2, <1>15 DEF Join
<1>16. ASSUME NEW t \in Threads, Starts(t) PROVE Reached(p)'
  BY <1>2, <1>5, <1>16 DEF Starts, Hands
<1>17. CASE Watches
  <2>1. running
    BY <1>2, <1>17 DEF Watches, Down
  <2> QED
    BY <1>1, <1>2, <1>17, <2>1 DEF Watches, act
<1> QED
  BY <1>6, <1>8, <1>9, <1>10, <1>11, <1>12, <1>13, <1>14, <1>15, <1>16, <1>17, OtherActions DEF Step, Threads

\* The user's generator and those of calls stay apart.
LEMMA ApartStep == ASSUME TypeOK, Hands, Apart, [Next]_vars PROVE Apart'
<1>0. Local \notin Calls /\ \A t \in Threads : of[t] \in Calls \cup {Local}
  BY TonesAssumption, Typed DEF Local
<1>1. \A p \in 1 .. made : ~(OfUser(p) /\ OfCall(p))
  BY DEF Apart
<1>2. ASSUME made' = made, \A p \in 1 .. made : (OfUser(p)' => OfUser(p)) /\ (OfCall(p)' => OfCall(p))
      PROVE  Apart'
  BY <1>1, <1>2 DEF Apart
<1>3. ASSUME NEW t \in Threads, Others(t), made' = made, listed' \subseteq listed, gen' = gen,
             port'[t] = NoPort \/ (of'[t] = of[t] /\ port'[t] \in {port[t], Cd(of[t])})
      PROVE  Apart'
  <2> SUFFICES ASSUME NEW p \in 1 .. made
               PROVE  (OfUser(p)' => OfUser(p)) /\ (OfCall(p)' => OfCall(p))
    BY <1>2, <1>3
  <2>1. p # NoPort
    BY Typed DEF NoPort
  <2>2. port'[t] = p => of'[t] = of[t] /\ (port[t] = p \/ gen[of[t]] = p)
    BY <1>3, <2>1 DEF Cd
  <2>3. OfUser(p)' => OfUser(p)
    BY <1>3, <2>2 DEF OfUser, Others
  <2>4. OfCall(p)' => OfCall(p)
    BY <1>3, <2>2 DEF OfCall, Others
  <2> QED
    BY <2>3, <2>4
<1>4. ASSUME NEW t \in Threads, Find(t) PROVE Apart'
  BY <1>3, <1>4, GotoSets DEF Find, generators, microphone
<1>5. ASSUME NEW t \in Threads, Make(t) PROVE Apart'
  <2>1. CASE made' = made + 1 /\ Keep(of[t], made') /\ Goto(t, Play(of[t]), made') /\ listed' = listed
    <3>1. of'[t] = of[t] /\ port'[t] = made' /\ Others(t)
      BY <2>1, GotoSets
    <3>2. gen' = [gen EXCEPT ![of[t]] = made']
      BY <2>1 DEF Keep
    <3>3. made' \notin 0 .. made /\ \A p \in 1 .. made' : p = made' \/ p \in 1 .. made
      BY <2>1, Typed
    <3>4. ASSUME NEW p \in 1 .. made PROVE (OfUser(p)' => OfUser(p)) /\ (OfCall(p)' => OfCall(p))
      <4>1. p # made'
        BY <3>3
      <4>2. OfUser(p)' => OfUser(p)
        BY <1>0, <3>1, <3>2, <4>1, Typed DEF OfUser, Others
      <4>3. OfCall(p)' => OfCall(p)
        BY <1>0, <2>1, <3>1, <3>2, <4>1, Typed DEF OfCall, Others
      <4> QED
        BY <4>2, <4>3
    <3>5. ASSUME NEW p \in 1 .. made', p = made' PROVE ~(OfUser(p)' /\ OfCall(p)')
      <4>1. \A c \in Calls \cup {Local} : gen'[c] = made' => c = of[t]
        BY <3>2, <3>3, Typed
      <4>2. \A u \in Threads : port'[u] = made' => u = t
        BY <3>1, <3>3, Typed DEF Others
      <4>3. made' \notin listed'
        BY <2>1, <3>3, Typed
      <4>4. OfUser(p)' => of[t] = Local
        BY <3>1, <3>5, <4>1, <4>2 DEF OfUser
      <4>5. OfCall(p)' => of[t] \in Calls
        BY <3>1, <3>5, <4>1, <4>2, <4>3 DEF OfCall
      <4> QED
        BY <1>0, <4>4, <4>5
    <3>6. \A p \in 1 .. made' : ~(OfUser(p) /\ OfCall(p))'
      BY <1>1, <3>3, <3>4, <3>5
    <3> QED
      BY <3>6 DEF Apart
  <2>2. CASE Does(t, "find", Local, NoPort, next[t]) /\ UNCHANGED <<gen, made, listed>>
    <3>1. port'[t] = NoPort /\ Others(t)
      BY <2>2, DoesSets DEF Others
    <3> QED
      BY <1>3, <2>2, <3>1
  <2>3. CASE Finish(t) /\ UNCHANGED <<gen, made, listed>>
    BY <1>3, <2>3, FinishSets
  <2> QED
    BY <1>5, <2>1, <2>2, <2>3 DEF Make, microphone
<1>6. ASSUME NEW t \in Threads, Found(t) PROVE Apart'
  <2>1. of[t] = Local /\ gen' = [gen EXCEPT ![Local] = port[t]] /\ UNCHANGED <<made, listed>>
    BY <1>6 DEF Found, Hands, Keep, microphone
  <2>2. port'[t] = port[t] /\ of'[t] = of[t] /\ Others(t)
    BY <1>6, GotoSets DEF Found
  <2> SUFFICES ASSUME NEW p \in 1 .. made
               PROVE  (OfUser(p)' => OfUser(p)) /\ (OfCall(p)' => OfCall(p))
    BY <1>2, <2>1
  <2>3. OfUser(p)' => OfUser(p)
    BY <2>1, <2>2, Typed DEF OfUser, Others
  <2>4. OfCall(p)' => OfCall(p)
    BY <1>0, <2>1, <2>2, Typed DEF OfCall, Others
  <2> QED
    BY <2>3, <2>4
<1>7. ASSUME NEW t \in Threads, PlayLocally(t) PROVE Apart'
  BY <1>3, <1>7, FinishSets DEF PlayLocally, microphone
<1>8. ASSUME NEW t \in Threads, Drop(t) PROVE Apart'
  <2>1. UNCHANGED <<made, gen>> /\ listed' \subseteq listed
    BY <1>8 DEF Drop, Unlist, generators
  <2>2. CASE Finish(t)
    BY <1>3, <2>1, <2>2, FinishSets
  <2>3. CASE running \/ of[t] = Local
    <3>1. Finish(t) \/ Goto(t, "destroy", Cd(of[t]))
      BY <1>8, <2>3 DEF Drop
    <3> QED
      BY <1>3, <2>1, <2>2, <3>1, GotoSets
  <2> QED
    BY <1>8, <2>2, <2>3 DEF Drop
<1>9. ASSUME NEW t \in Threads, Destroy(t) PROVE Apart'
  BY <1>3, <1>9, GotoSets DEF Destroy, microphone
<1>10. ASSUME NEW t \in Threads, Forget(t) PROVE Apart'
  <2>1. gen' = [gen EXCEPT ![of[t]] = NoPort] /\ UNCHANGED <<made, listed>>
    BY <1>10 DEF Forget, microphone
  <2>2. port'[t] = NoPort /\ Others(t)
    BY <1>10, FinishSets DEF Forget
  <2> SUFFICES ASSUME NEW p \in 1 .. made
               PROVE  (OfUser(p)' => OfUser(p)) /\ (OfCall(p)' => OfCall(p))
    BY <1>2, <2>1
  <2>3. p # NoPort
    BY Typed DEF NoPort
  <2>4. \A c \in Calls \cup {Local} : gen'[c] = p => gen[c] = p
    BY <2>1, <2>3, Typed
  <2>5. OfUser(p)' => OfUser(p)
    BY <2>2, <2>3, <2>4 DEF OfUser, Others
  <2>6. OfCall(p)' => OfCall(p)
    BY <2>1, <2>2, <2>3, <2>4 DEF OfCall, Others
  <2> QED
    BY <2>5, <2>6
<1>11. CASE PlayToCall
  <2>1. of["ui"] \in Calls /\ listed' = listed \cup {port["ui"]} /\ UNCHANGED <<made, gen>>
    BY <1>11 DEF PlayToCall, Hands, Threads
  <2>2. port'["ui"] = NoPort /\ Others("ui")
    BY <1>11, FinishSets DEF PlayToCall, Threads
  <2> SUFFICES ASSUME NEW p \in 1 .. made
               PROVE  (OfUser(p)' => OfUser(p)) /\ (OfCall(p)' => OfCall(p))
    BY <1>2, <2>1
  <2>3. p # NoPort
    BY Typed DEF NoPort
  <2>4. OfUser(p)' => OfUser(p)
    BY <2>1, <2>2, <2>3 DEF OfUser, Others
  <2>5. OfCall(p)' => OfCall(p)
    BY <2>1, <2>2, <2>3 DEF OfCall, Others, Threads
  <2> QED
    BY <2>4, <2>5
<1>12. CASE Off \/ Join
  <2>1. Others("ui") /\ port'["ui"] = NoPort
    BY <1>12, GotoSets DEF Off, Join, Threads
  <2> QED
    BY <1>3, <1>12, <2>1 DEF Off, Join, generators, microphone, Threads
<1>13. ASSUME NEW t \in Threads, Starts(t) PROVE Apart'
  BY <1>3, <1>13 DEF Starts
<1>14. CASE Watches
  BY <1>2, <1>14 DEF Watches, act, OfUser, OfCall
<1> QED
  BY <1>4, <1>5, <1>6, <1>7, <1>8, <1>9, <1>10, <1>11, <1>12, <1>13, <1>14, OtherActions DEF Step

-----------------------------------------------------------------------------
(* The theorems.                                                           *)

\* The invariant holds at the start.
LEMMA IInvInit == ASSUME Init PROVE IInv
<1> USE DEF Init, NoPort, Threads
<1>1. TypeOK
  BY TypeInit
<1>2. Hands
  BY DEF Hands
<1>3. Down /\ MutedHasTimer /\ ListedExist /\ NoLostPort
  BY DEF Down, MutedHasTimer, ListedExist, NoLostPort
<1>4. Apart /\ Leaving /\ Stored
  BY DEF Apart, Leaving, Stored
<1> QED
  BY <1>1, <1>2, <1>3, <1>4 DEF IInv

\* Every action keeps it.
LEMMA IInvStep == ASSUME IInv, [Next]_vars PROVE IInv'
  BY TypeStep, HandsStep, DownStep, ApartStep, LeavingStep, StoredStep, MutedStep, ListedStep, LostStep DEF IInv

\* The strengthened invariant holds in every behaviour.
THEOREM Invariance == Spec => []IInv
  BY IInvInit, IInvStep, PTL DEF Spec

\* Whatever the two threads, the peer and the user do, every variable keeps a
\* value the code can give it; the timer never counts below no digit left.
THEOREM TypeCorrect == Spec => []TypeOK
<1>1. IInv => TypeOK
  BY DEF IInv
<1> QED
  BY <1>1, Invariance, PTL

\* call_play_digit mutes the microphone only with the timer that will unmute it,
\* and tonegenBusyHandler stops that timer only with the message that does.
THEOREM MuteHasAnEnd == Spec => []MutedHasTimer
<1>1. IInv => MutedHasTimer
  BY DEF IInv
<1> QED
  BY <1>1, Invariance, PTL

\* call_deinit_tonegen has taken a port out of DTMFTonegens before it destroys
\* it, so tonegenBusyHandler asks none that is gone but for those noted.
THEOREM OnlyPortsThatExist == Spec => []ListedExist
<1>1. IInv => ListedExist
  BY DEF IInv
<1> QED
  BY <1>1, Invariance, PTL

\* A generator made by call_init_tonegen is stored with its call or in tone_gen
\* before the thread lets go of it, and leaves only when it is destroyed.
THEOREM NoPortForgotten == Spec => []NoLostPort
<1>1. IInv => NoLostPort
  BY DEF IInv
<1> QED
  BY <1>1, Invariance, PTL
=============================================================================
