------------------------------ MODULE RepoFiles ------------------------------
(***************************************************************************)
(* How libeos-update-server answers a request for a path, from the files in  *)
(* the OSTree repository: repo.c.  An answer is an HTTP status and what the   *)
(* body is taken from; an operator's value is the set of the answers the code *)
(* may give, since a file may vanish or be unreadable when it is opened.      *)
(*                                                                         *)
(* A request is a record: the prefix it is made under, the kind of its path   *)
(* and the names in it.  A file is <<its directory, names...>>.               *)
(***************************************************************************)
EXTENDS Naturals, Sequences, SequencesExt

CONSTANTS
    Remotes,      \* the repository's remotes, in the order they are listed
    CollectionOf, \* the collection ID each of them is configured with
    ServedRemote  \* EusRepo:served-remote

ASSUME RemotesAssumption == Remotes \in Seq(STRING) /\ DOMAIN CollectionOf = ToSet(Remotes)

Ok == 200
BadRequest == 400
Forbidden == 403
NotFound == 404
InternalServerError == 500
ServiceUnavailable == 503
Statuses == {Ok, BadRequest, Forbidden, NotFound, InternalServerError, ServiceUnavailable}

Nothing == <<>>

Answer(status) == [status |-> status, body |-> Nothing]

-----------------------------------------------------------------------------

(* serve_file_if_exists: what it makes of the message; nothing if it does not *)
(* serve the file.  Loading it may fail although it exists.                  *)
serve_file_if_exists(files, file) ==
    IF file \in files
    THEN {[status |-> Ok, body |-> file], Answer(InternalServerError)}
    ELSE {}

(* The first answer there is of two.                                       *)
OrElse(answers, others) == IF answers # {} THEN answers ELSE others

serve_file(files, file) ==
    OrElse(serve_file_if_exists(files, file), {Answer(NotFound)})

handle_as_is(files, path) == serve_file(files, <<"as_is", path.name>>)

(* The cached configuration: a faked one.                                  *)
handle_config == {[status |-> Ok, body |-> <<"faked config">>]}

Summary == <<"summary">>

(* A summary that does not exist is generated; it stays in the repository.    *)
handle_summary(files) ==
    OrElse(serve_file_if_exists(files, Summary),
           {Answer(NotFound), Answer(InternalServerError), [status |-> Ok, body |-> Summary]})

handle_refs_heads(files, path) ==
    IF path.name = "" THEN {Answer(BadRequest)}
    ELSE OrElse(serve_file_if_exists(files, <<"heads", path.name>>),
                serve_file(files, <<"remotes", ServedRemote, path.name>>))

(* The remotes of a collection, by their places in the list.                *)
RemotesOf(collection) == {i \in DOMAIN Remotes : CollectionOf[Remotes[i]] = collection}

(* The files a mirrored ref may be, in the order they are tried: the mirror's   *)
(* and then those of the remotes.                                           *)
MirrorFile(i, collection, name) ==
    IF i = 0 THEN <<"mirrors", collection, name>> ELSE <<"remotes", Remotes[i], name>>

handle_refs_mirrors(files, path) ==
    IF path.collection = "" \/ path.name = ""
    THEN {Answer(BadRequest)}
    ELSE LET found == {i \in {0} \cup RemotesOf(path.collection) :
                         MirrorFile(i, path.collection, path.name) \in files}
         IN  IF found = {} THEN {Answer(NotFound)}
             ELSE serve_file_if_exists(files, MirrorFile(Min(found), path.collection, path.name))

(* handle_objects_filez: a stream of the object's compressed contents.        *)
handle_objects_filez(files, path) ==
    IF <<"filez", path.name>> \in files
    THEN {[status |-> Ok, body |-> <<"filez", path.name>>], Answer(NotFound)}
    ELSE {Answer(NotFound)}

IsStream(answer) == answer.body # Nothing /\ Head(answer.body) = "filez"

(* handle_path, for a request below the prefix the repository is served at.   *)
handle_path(files, path) ==
    CASE path.kind = "dots" -> {Answer(Forbidden)}
      [] path.kind = "filez" -> handle_objects_filez(files, path)
      [] path.kind = "as_is" -> handle_as_is(files, path)
      [] path.kind = "config" -> handle_config
      [] path.kind = "summary" -> handle_summary(files)
      [] path.kind = "heads" -> handle_refs_heads(files, path)
      [] path.kind = "mirrors" -> handle_refs_mirrors(files, path)
      [] OTHER -> {Answer(NotFound)}

=============================================================================
