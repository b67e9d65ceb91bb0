---------------------------- MODULE MCAdvertisement ----------------------------
(* Instances of Advertisement: deployments of two systems, one of    *)
(* them without its commit.                                                 *)
EXTENDS Advertisement, TLC

CONSTANTS r1, zero, eos, other, c1, c2, c3

MCIndexOf == zero :> 0 @@ OldFile :> -1
MCNoIndex == -1

D(os, c, t) == [os |-> os, checksum |-> c, timestamp |-> t]
L(list) == [os |-> eos, list |-> list]

MCZero == {L(<<D(eos, c1, 0)>>)}
MCDeployed ==
    {NoSystem, L(<<D(eos, Missing, 0)>>), L(<<D(eos, c2, 2), D(eos, c1, 1)>>),
     L(<<D(other, c3, 3), D(eos, c1, 1), D(eos, Missing, 0), D(eos, c2, 2)>>)} \cup MCZero

MCTimestamps == {-1, 1, 2}

=============================================================================
