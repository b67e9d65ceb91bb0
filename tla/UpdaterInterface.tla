--------------------------- MODULE UpdaterInterface ---------------------------
(***************************************************************************)
(* What com.endlessm.Updater promises its clients (the interface's own      *)
(* description, eos-updater/com.endlessm.Updater.xml): operations that run  *)
(* one at a time, the states each may be started from, the states each may  *)
(* end in, and what Cancel does to the one in progress.  Threads, tasks and *)
(* cancellables do not appear: EosUpdater implements this specification     *)
(* with them.                                                               *)
(***************************************************************************)
CONSTANTS
    Updates,    \* what UpdateID can announce
    NoUpdate    \* the empty string

VARIABLES
    up,         \* the service has an owner on the bus
    state,      \* State
    error,      \* ErrorName, "" for none
    update,     \* UpdateID
    ops,        \* the operations in progress
    cancel      \* one of them has been cancelled

vars == <<up, state, error, update, ops, cancel>>

(* The states and errors a client can meet.                                 *)
Init ==
    /\ up = FALSE
    /\ state = "NONE"
    /\ error = ""
    /\ update = NoUpdate
    /\ ops = {}
    /\ cancel = FALSE

Start ==
    /\ ~up
    /\ up' = TRUE
    /\ \/ state' = "READY" /\ error' = ""
       \/ state' = "ERROR" /\ error' # ""
    /\ update' = NoUpdate
    /\ ops' = {}
    /\ cancel' = FALSE

(* The service leaves the bus, at any moment; what it was doing is lost.     *)
Stop ==
    /\ up' = FALSE
    /\ state' = "NONE"
    /\ error' = ""
    /\ update' = NoUpdate
    /\ ops' = {}
    /\ cancel' = FALSE

Begin(op, from, busy) ==
    /\ up
    /\ ops = {}
    /\ state \in from
    /\ state' = busy
    /\ error' = ""
    /\ ops' = {op}
    /\ UNCHANGED <<up, update, cancel>>

Poll == Begin("poll", {"READY", "UPDATE_AVAILABLE", "UPDATE_READY", "ERROR"}, "POLLING")
Fetch == Begin("fetch", {"UPDATE_AVAILABLE"}, "FETCHING")
Apply == Begin("apply", {"UPDATE_READY"}, "APPLYING_UPDATE")

(* Cancel is for an operation in progress; the operation then ends in Error. *)
Cancel ==
    /\ up
    /\ ops # {}
    /\ cancel' = TRUE
    /\ UNCHANGED <<up, state, error, update, ops>>

EndInError ==
    /\ state' = "ERROR"
    /\ error' # ""
    /\ cancel => error' = "Cancelled"

(* Only the end of a poll announces an update, and a fetch and an apply end  *)
(* with the update they began with.                                          *)
EndPoll ==
    /\ ops = {"poll"}
    /\ \/ ~cancel /\ state' = "READY" /\ error' = "" /\ update' = update
       \/ ~cancel /\ state' = "UPDATE_AVAILABLE" /\ error' = "" /\ update' \in Updates
       \/ ~cancel /\ EndInError /\ update' \in Updates
       \/ EndInError /\ update' = update

EndFetch ==
    /\ ops = {"fetch"}
    /\ \/ ~cancel /\ state' = "UPDATE_READY" /\ error' = ""
       \/ EndInError
    /\ update' = update

EndApply ==
    /\ ops = {"apply"}
    /\ \/ ~cancel /\ state' = "UPDATE_APPLIED" /\ error' = ""
       \/ EndInError
    /\ update' = update

End ==
    /\ up
    /\ EndPoll \/ EndFetch \/ EndApply
    /\ ops' = {}
    /\ cancel' = FALSE
    /\ UNCHANGED up

Next == Start \/ Stop \/ Poll \/ Fetch \/ Apply \/ Cancel \/ End

Spec == Init /\ [][Next]_vars
=============================================================================
