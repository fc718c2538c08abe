-------------------------- MODULE UserDataLifetime --------------------------
(***************************************************************************)
(* What the rest of NanoSIP may rely on about a call_user_data object: it  *)
(* is created once, belongs to the slot of one call, leaves the slot when  *)
(* the call is disconnected and is then deleted exactly once, by the UI    *)
(* thread if the end was announced to it and by the worker if the call was *)
(* never shown.  An object whose end was not announced (a call that        *)
(* vanished with status 481) stays allocated for ever.                     *)
(***************************************************************************)
CONSTANT Calls        \* objects are named after the call they are created for

VARIABLE own          \* own[u]: who answers for object u

vars == <<own>>

Owners == {"nobody", "slot", "announced", "leaked", "freed"}

Init == own = [u \in Calls |-> "nobody"]

Move(u, from, to) == own[u] = from /\ own' = [own EXCEPT ![u] = to]

Create(u)       == Move(u, "nobody", "slot")
CreateFinal(u)  == Move(u, "nobody", "announced")  \* rejected on arrival
Announce(u)     == Move(u, "slot", "announced")
Delete(u)       == Move(u, "announced", "freed")
DeleteHidden(u) == Move(u, "slot", "freed")
Leak(u)         == Move(u, "slot", "leaked")

Next == \E u \in Calls : \/ Create(u) \/ CreateFinal(u) \/ Announce(u)
                         \/ Delete(u) \/ DeleteHidden(u) \/ Leak(u)

\* Nothing else happens to an object, and an announced one is deleted.
Safety == Init /\ [][Next]_own

Spec == Safety /\ \A u \in Calls : WF_own(Delete(u))
=============================================================================
