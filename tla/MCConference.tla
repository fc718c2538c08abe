---------------------------- MODULE MCConference ----------------------------
(* Instances of Conference for TLC.                                        *)
EXTENDS Conference

\* Every call has a party of its own, or the first two have the same.
NoPairs == {}
FirstTwo == {<<1, 2>>}

\* Automatic conference is off at first.
MCOff == {FALSE}
=============================================================================
