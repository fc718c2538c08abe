------------------------------ MODULE LockOrder -----------------------------
(***************************************************************************)
(* The critical sections of the calls (call_user_data::CS) and the lock of *)
(* PJSUA (PJSUA_LOCK), in the order the handlers of two threads take them: *)
(* the UI thread and the thread that handles the messages of the network.  *)
(* Both kinds of lock may be taken again by their owner.                   *)
(*                                                                         *)
(* A handler is the sequence of its lock operations, fixed by the calls    *)
(* and members there are when it starts.  acquire_call gives up after two  *)
(* seconds (PJSUA_ACQUIRE_CALL_TIMEOUT), and so the functions that change  *)
(* a call (hold, answer, hang-up) never wait for ever: they are no steps.  *)
(***************************************************************************)
EXTENDS Integers, Sequences, SequencesExt

CONSTANT Calls   \* bound: the calls there may be, by their slot, in Nat

Pjsua == -1               \* PJSUA_LOCK; the lock of a call has its number
Locks == Calls \cup {Pjsua}
Threads == {"ui", "wk"}
Others(t) == Threads \ {t}

VARIABLES
  state,     \* each call is "new", "arriving", "waiting" for the answer,
             \* "connecting", "live" or "ended"
  members,   \* calls with inConference
  owner,     \* the thread that has each lock, "free", or "lost", see Step
  depth,     \* how often it has taken it
  todo       \* each thread: what is left of its handler

vars == <<state, members, owner, depth, todo>>

Present == {c \in Calls : state[c] \notin {"new", "ended"}}

-----------------------------------------------------------------------------
(* Handlers.                                                               *)

Lock(l) == [op |-> "lock", of |-> l]
Unlock(l) == [op |-> "unlock", of |-> l]
Within(l, body) == <<Lock(l)>> \o body \o <<Unlock(l)>>
Touch(l) == Within(l, <<>>)
When(condition, body) == IF condition THEN body ELSE <<>>

\* pjsua_enum_calls lists calls by slot.
ForEach(S, Body(_)) ==
  LET order == SetToSortSeq(S, <) IN FlattenSeq([i \in DOMAIN order |-> Body(order[i])])

\* msip_conference_join: the other member is left once more than entered.
Join(c) ==
  LET With(d) == Touch(d) \o When(d \in members, Touch(Pjsua) \o <<Unlock(d)>>)
  IN  Within(c, When(c \in members, Touch(Pjsua) \o ForEach(Present \ {c}, With)))

Leave(c) ==
  LET From(d) == Touch(d) \o When(d \in members, Touch(Pjsua))
      last == members \ {c}
  IN  Within(c, When(c \in members,
        Touch(Pjsua) \o ForEach(Present \ {c}, From)
          \o When(\E d \in last : last = {d}, ForEach(last, Touch))))

Unhold(c) ==
  LET Other(d) == Touch(Pjsua) \o Touch(d)
  IN  Touch(c) \o Touch(Pjsua) \o ForEach(Present \ {c}, Other)

\* on_incoming_call, called by pjsua_call_on_incoming under PJSUA_LOCK.
IncomingCall(c) ==
  LET Compare(d) == Touch(Pjsua) \o Touch(d) \o Touch(c)
  IN  Within(Pjsua, Within(c, Touch(Pjsua) \o ForEach(Present \cup {c}, Compare)))

\* on_call_state: CALLING and CONNECTING.
CallState(c) == Touch(Pjsua) \o Touch(c) \o Within(c, Unhold(c))

MediaActive(c) == Touch(Pjsua) \o Join(c) \o Touch(Pjsua) \o Within(c, Touch(Pjsua))
MediaHeld(c) == Touch(Pjsua) \o Leave(c) \o Touch(c)

\* onCallState: CONFIRMED reads the media of the call; DISCONNECTED ends it.
OnEstablished(c) == Touch(c) \o Within(c, Touch(Pjsua))
OnEndCall(c) == Touch(c) \o Leave(c) \o Touch(c)
OnDisconnected(c) == Touch(c) \o Within(c, OnEndCall(c))

HangUpFast(c) == Touch(Pjsua) \o OnEndCall(c)
EndCall(c) ==
  LET Other(d) == Touch(d) \o When(d \in members, HangUpFast(d))
  IN  Within(c, When(c \in members, Touch(Pjsua) \o ForEach(Present \ {c}, Other)))
        \o HangUpFast(c)

Hold(c) ==
  LET Other(d) == Touch(d) \o When(d \in members, Touch(Pjsua))
  IN  Within(c, When(c \in members, Touch(Pjsua) \o ForEach(Present \ {c}, Other)))

-----------------------------------------------------------------------------
(* Threads.                                                                *)

Start(t, handler) ==
  /\ todo[t] = <<>> /\ todo' = [todo EXCEPT ![t] = handler]
  /\ UNCHANGED <<owner, depth>>

Ended(S) ==
  /\ state' = [c \in Calls |-> IF c \in S THEN "ended" ELSE state[c]]
  /\ members' = members \ S
Same == UNCHANGED <<state, members>>

Network(c) ==
  \/ /\ state[c] = "new" /\ Start("wk", IncomingCall(c))
     /\ state' = [state EXCEPT ![c] = "arriving"] /\ UNCHANGED members
  \/ /\ state[c] = "waiting" /\ Start("wk", CallState(c))
     /\ state' = [state EXCEPT ![c] = "connecting"] /\ UNCHANGED members
  \/ /\ state[c] = "live" /\ Same
     /\ \E h \in {MediaActive(c), MediaHeld(c)} : Start("wk", h)

\* The messages of a handler are there when it has run.
Announced(c) ==
  /\ todo["wk"] = <<>> /\ state[c] \in {"arriving", "connecting"}
  /\ state' = [state EXCEPT ![c] = IF @ = "arriving" THEN "waiting" ELSE "live"]
  /\ UNCHANGED <<members, owner, depth, todo>>

Window(c) ==
  \/ /\ state[c] = "live" /\ Same
     /\ \E h \in {OnEstablished(c), Hold(c)} : Start("ui", h)
  \/ /\ state[c] \in {"waiting", "live"}
     /\ \/ Start("ui", OnDisconnected(c)) /\ Ended({c})
        \/ Start("ui", EndCall(c)) /\ Ended({c} \cup IF c \in members THEN members ELSE {})

\* MessagesDlg::Merge of two calls.
Merge(c, d) ==
  /\ c # d /\ state[c] = "live" /\ state[d] = "live"
  /\ members' = members \cup {c, d} /\ UNCHANGED state
  /\ Start("ui", Touch(c) \o Touch(d))

\* The next operation of a thread.  Leaving a critical section one does not
\* have is undefined: nothing happens, or nobody enters it any more.
Step(t) ==
  /\ todo[t] # <<>> /\ Same
  /\ todo' = [todo EXCEPT ![t] = Tail(@)]
  /\ LET s == Head(todo[t]) IN
     \/ /\ s.op = "lock" /\ owner[s.of] \in {"free", t}
        /\ owner' = [owner EXCEPT ![s.of] = t]
        /\ depth' = [depth EXCEPT ![s.of] = @ + 1]
     \/ /\ s.op = "unlock" /\ owner[s.of] = t
        /\ owner' = [owner EXCEPT ![s.of] = IF depth[s.of] = 1 THEN "free" ELSE t]
        /\ depth' = [depth EXCEPT ![s.of] = @ - 1]
     \/ /\ s.op = "unlock" /\ owner[s.of] # t /\ UNCHANGED depth
        /\ owner' \in {owner, [owner EXCEPT ![s.of] = "lost"]}

Init ==
  /\ state \in [Calls -> {"new", "waiting"}]
  /\ members = {} /\ owner = [l \in Locks |-> "free"]
  /\ depth = [l \in Locks |-> 0] /\ todo = [t \in Threads |-> <<>>]

Next ==
  \/ \E c \in Calls : Network(c) \/ Announced(c) \/ Window(c)
  \/ \E c, d \in Calls : Merge(c, d)
  \/ \E t \in Threads : Step(t)

Spec == Init /\ [][Next]_vars

-----------------------------------------------------------------------------
\* The two threads never wait for each other: what the comment of
\* pjsua_call_on_state_changed has in mind, "Release locks before calling
\* callbacks, to avoid deadlock", for every callback of the program.
Waits(t) ==
  /\ todo[t] # <<>> /\ Head(todo[t]).op = "lock"
  /\ owner[Head(todo[t]).of] \in Others(t)
NoDeadlock == \E t \in Threads : ~Waits(t)
=============================================================================
