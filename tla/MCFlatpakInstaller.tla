------------------------- MODULE MCFlatpakInstaller -------------------------
(* Instances of FlatpakInstaller: what distributions put in the files.          *)
EXTENDS FlatpakInstaller

MCOneFile == <<"10.json">>
MCTwoFiles == <<"10.json", "20.json">>
MCUnrelated == [r \in Ref |-> {}]
MCRuntime == [r \in Ref |-> IF r = "app" THEN {"runtime"} ELSE {}]

MCEntry(filters, action, serial, ref) ==
    [object |-> TRUE, filters |-> filters, action |-> action, serial |-> serial, ref |-> ref, complete |-> TRUE]

MCMixed == ("10.json" :> ({MCEntry(<<>>, "install", 1, "app")}
                         \cup {MCEntry(<<>>, t, 2, "app") : t \in {"update", "uninstall"}}))
        @@ ("20.json" :> {MCEntry(<<>>, "install", 1, "tool")})

(* What the disagreements with the documentation need.                       *)
MCConflict == ("10.json" :> {MCEntry(<<>>, "install", 1, "app")})
           @@ ("20.json" :> {MCEntry(<<>>, "uninstall", 1, "app")})
MCInstalls == ("10.json" :> {MCEntry(<<>>, "install", s, "app") : s \in 1 .. 2})
MCUnlessLocale == ("10.json" :> {MCEntry(<<[key |-> "~locale", values |-> <<"id">>]>>, "install", 1, "app")})

MCInstallations == {[r \in Ref |-> IF r = "tool" THEN "old" ELSE "absent"]}
MCSystem == {[arch |-> "x86", locales |-> {}]}
MCLocales == {[arch |-> "x86", locales |-> {}], [arch |-> "x86", locales |-> {"id"}]}

(* The files that are checked are kept with care, as the theorems suppose.      *)
ASSUME MCAssumption == Entries = MCMixed /\ Runtimes = MCRuntime => WellKept
=============================================================================
