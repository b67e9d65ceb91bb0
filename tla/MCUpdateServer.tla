---------------------------- MODULE MCUpdateServer ----------------------------
(* Instances of UpdateServer: the process with its timeouts, and its      *)
(* repository.                                                             *)
EXTENDS UpdateServer

CONSTANTS c1, c2

Working == [local_port |-> "none", config |-> "enabled", repositories |-> {},
            repositories_open |-> TRUE, timeouts_set_up |-> TRUE, listening |-> TRUE,
            timeout |-> 1, quit_file |-> FALSE]

Path(root, kind, collection, name) ==
    [root |-> root, kind |-> kind, collection |-> collection, name |-> name]

Object == <<"filez", "a">>
MCRemotes == <<"eos", "copy", "apps">>
MCCollectionOf == [r \in {"eos", "copy", "apps"} |-> IF r = "apps" THEN "none" ELSE "os"]

(* Two clients, a streamed and a plain file, and what may end the process.      *)
MCTiming ==
    [paths |-> c1 :> {Path("", "filez", "", "a")} @@ c2 :> {Path("/0", "config", "", "")},
     files |-> {Object},
     setups |-> {Working, [Working EXCEPT !.timeout = 0, !.quit_file = TRUE]}]

(* Two streams at once, and the timeout.                                        *)
MCStreams ==
    [paths |-> [c \in {c1, c2} |-> {Path("", "filez", "", "a")}],
     files |-> {Object}, setups |-> {Working}]

(* One client and a repository with every kind of path.                          *)
MCRepository ==
    [paths |-> c1 :> ({Path("", k, "", "a") : k \in {"as_is", "dots", "other"}}
               \cup {Path("", k, "", "") : k \in {"config", "summary", "heads", "mirrors"}}
               \cup {Path("", "mirrors", "os", n) : n \in {"", "x"}}
               \cup {Path("/1", "heads", "", "x"), Path("", "mirrors", "other", "x")}),
     files |-> {<<"heads", "x">>, <<"mirrors", "os", "x">>,
                <<"remotes", "eos", "x">>, <<"remotes", "copy", "x">>, <<"remotes", "apps", "x">>},
     setups |-> {[Working EXCEPT !.timeout = -1, !.repositories = r] : r \in {{}, {1}, {0, 1}}}]

(* Starts that fail, and one that does not.                                    *)
MCStarts ==
    [paths |-> c1 :> {Path("", "other", "", "")},
     files |-> {},
     setups |-> {Working, [Working EXCEPT !.local_port = "zero"],
                 [Working EXCEPT !.listening = FALSE],
                 [Working EXCEPT !.repositories_open = FALSE],
                 [Working EXCEPT !.timeouts_set_up = FALSE]}
                \cup {[Working EXCEPT !.config = c] : c \in {"unreadable", "disabled"}}]

MCWorlds == {MCTiming, MCStreams, MCRepository, MCStarts}
=============================================================================
