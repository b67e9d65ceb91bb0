--------------------------- MODULE MCFlatpakLists ---------------------------
(* Instances of FlatpakLists: entries without filters, to see what becomes of   *)
(* actions, and entries with filters and faults, to see which are read.        *)
EXTENDS FlatpakLists

MCFiles == <<"10.json", "20.json">>
MCOneFile == <<"10.json">>
MCUnrelated == [r \in Ref |-> {}]
MCRuntime == [r \in Ref |-> IF r \in {"app", "game"} THEN {"runtime"} ELSE {}]
MCLocale == [r \in Ref |-> IF r = "app" THEN {"app.Locale"} ELSE {}]

MCEntry(filters, action, serial, ref) ==
    [object |-> TRUE, filters |-> filters, action |-> action, serial |-> serial, ref |-> ref, complete |-> TRUE]

MCActions(refs) == {MCEntry(<<>>, t, s, r) : t \in Type, s \in 1 .. 3, r \in refs}
MCBothSigns == {MCEntry(<<>>, "install", s, r) : s \in Int32, r \in Ref}

MCFilter(k, v) == [key |-> k, values |-> v]
MCFilterLists ==
    {<<>>, <<MCFilter("architecture", <<"arm">>)>>, <<MCFilter("~architecture", <<"arm">>)>>,
     <<MCFilter("locale", <<"id">>)>>, <<MCFilter("~locale", <<"fr", "id">>)>>,
     <<MCFilter("architecture", <<"x86">>), MCFilter("~locale", <<"id">>)>>,
     <<MCFilter("~locale", <<"id">>), MCFilter("architecture", <<"arm">>)>>,
     <<MCFilter("locale", <<"id", NotString>>)>>, <<MCFilter("colour", <<"red">>)>>,
     <<MCFilter("locale", <<"fr">>), MCFilter("colour", <<"red">>)>>,
     <<MCFilter("locale", <<"id">>), MCFilter("~locale", <<"fr">>)>>}
MCReadable ==
    {MCEntry(f, "install", 1, "app") : f \in MCFilterLists}
    \cup {MCEntry(f, "install", 2, "app") : f \in {<<>>, <<MCFilter("locale", <<"id">>)>>}}
    \cup {[MCEntry(<<>>, "install", 1, "app") EXCEPT !.object = FALSE],
          [MCEntry(<<>>, "install", 1, "app") EXCEPT !.complete = FALSE],
          [MCEntry(<<MCFilter("architecture", <<"arm">>)>>, "install", 1, "app") EXCEPT !.complete = FALSE],
          MCEntry(<<>>, "", 1, "app"), MCEntry(<<>>, "rename", 1, "app"),
          MCEntry(<<>>, "install", MAXINT + 1, "app"), MCEntry(<<>>, "install", -MAXINT - 2, "app")}
MCSystems == {[arch |-> "x86", locales |-> {}], [arch |-> "x86", locales |-> {"id"}],
              [arch |-> "arm", locales |-> {"fr"}]}
MCSystem == {[arch |-> "x86", locales |-> {}]}

(* Two applications that share a runtime; two directories to read from.        *)
MCGame == {MCEntry(<<>>, t, s, "game") : t \in {"install", "uninstall"}, s \in {1, 3}}
MCEntries == <<MCActions({"app"}) \cup MCGame, MCReadable>>
MCAnySystem == <<MCSystem, MCSystems>>
MCSizes == <<3, 2>>

(* What is checked has dependencies apart, as the theorem supposes.            *)
ASSUME MCAssumption == Directories = {1, 2} => DependenciesApart

(* What the disagreements with the documentation need.                        *)
MCListedRuntime == <<MCActions({"app", "runtime"})>>
MCFarApart == <<MCBothSigns>>
MCOneSystem == <<MCSystem>>
MCTwoEntries == <<2>>
=============================================================================
