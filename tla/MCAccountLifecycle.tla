------------------------ MODULE MCAccountLifecycle ------------------------
\* Small instances of AccountLifecycle: two profiles and two numbers.
EXTENDS AccountLifecycle, TLC

MCBoth == {1, 2}
MCFirst == {1}
MCOrders == {<<2, 1>>, <<>>}
MCNamed == 0..2
MCFailures == {"init", "add", "call"}
MCOnOff == BOOLEAN
MCSame == Permutations(Numbers)
=============================================================================
