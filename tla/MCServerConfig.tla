---------------------------- MODULE MCServerConfig ----------------------------
(* Instances of ServerConfig: two files above the defaults, three groups of    *)
(* repositories of which two bear the same number and one none.               *)
EXTENDS ServerConfig, TLC

R(g, path, remote) == Path(g) :> path @@ RemoteName(g) :> remote
Whether(v) == Advertise :> v

File(value) == [groups |-> {k[1] : k \in DOMAIN value}, value |-> value]

MCDefault == File(Whether("false"))
MCContents ==
    {MCDefault, File(Whether("true") @@ R("Repository 1", "/p", "eos")),
     File(R("Repository 1", "/q", "eos")),
     File(R("Repository 01", "/r", "eos") @@ R("Repository 2", "/s", "apps")),
     File(Whether("neither") @@ R("Repository x", "/u", "eos")), File(Path("Repository 1") :> "/t")}
MCIndexOf == "Repository 1" :> 1 @@ "Repository 01" :> 1 @@ "Repository 2" :> 2
             @@ "Repository x" :> -1
MCInvalid == -1
MCQueried == {Advertise, Path("Repository 1"), RemoteName("Repository 1")}
MCKeys == {Advertise} \cup UNION {{Path(g), RemoteName(g)} : g \in DOMAIN MCIndexOf}

=============================================================================
