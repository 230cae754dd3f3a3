----------------------------- MODULE MCMouseApp -----------------------------
(* Instances of MouseApp: one or two centrals, two or three peer ids.      *)
EXTENDS MouseAppClaims

CONSTANTS d1, d2

TwoIds   == 0..1
ThreeIds == 0..2
Bytes    == Ids \cup {PeerIdByte}

MCSymmetry == Permutations(Devices)

Bonded(devs) == [i \in Ids |-> IF i < Len(devs) THEN devs[i + 1] ELSE NoDev]

EmptyFlash == {[bond |-> Bonded(<<>>), recs |-> <<>>]}
OneBonded ==
    {[bond |-> Bonded(<<d1>>), recs |-> <<OrderSetFirst(CleanOrder, 0)>>]}
TwoBonded ==
    {[bond |-> Bonded(<<d1, d2>>),
      recs |-> <<OrderSetFirst(OrderSetFirst(CleanOrder, 1), 0)>>]}
=============================================================================
