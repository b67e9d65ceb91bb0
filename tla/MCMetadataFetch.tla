--------------------------- MODULE MCMetadataFetch ---------------------------
(* Instances of MetadataFetch for TLC: of the commits 2, 3 and 4 of the branch  *)
(* "old" the middle one is booted, 1 and 5 are on "new", before and after them,  *)
(* and 6 is on "newest".                                                    *)
EXTENDS MetadataFetch

MCBranch == <<"new", "old", "old", "old", "new", "newest">>
MCNone == <<"", "", "", "", "", "">>

(* "old" may lead to "new" by a rebase or a checkpoint, and "new" to "newest".   *)
MCWorlds ==
    {[branch |-> MCBranch, booted |-> 3,
      rebase |-> <<"", "", b, c, d, "">>, checkpoint |-> <<"", k, l, "", "", "">>] :
        b \in {"", "new"}, c \in {"", "old", "new"}, d \in {"", "new", "newest"},
        <<k, l>> \in {<<"", "">>, <<"new", "">>, <<"", "new">>}}

(* "new" may lead back to "old".                                            *)
MCLoops == {[branch |-> MCBranch, booted |-> 3, checkpoint |-> MCNone,
             rebase |-> <<"", "", "new", "", "old", "">>]}

MCOrders == {<<"main">>, <<"lan">>, <<"lan", "main">>, <<"volume", "lan">>, <<"main", "main">>,
             <<"lan", "usb">>, <<>>}
=============================================================================
