----------------------------- MODULE CommitSizes -----------------------------
(***************************************************************************)
(* How large an update is: get_commit_sizes (poll-common.c) adds up the    *)
(* sizes of the objects of a commit, and metadata_fetch_finished publishes *)
(* the sums.  The sizes on disk are unsigned integers, the D-Bus           *)
(* properties signed ones of the same width, where -1 says that the size   *)
(* is not known.  One step adds one object.                                *)
(***************************************************************************)
EXTENDS Integers

CONSTANTS MAXINT,       \* the largest signed integer: 2^63 - 1 in the code
          ObjectSize,   \* sizes an object may have
          MaxObjects    \* bound: objects of a commit

MAXUINT == 2 * MAXINT + 1      \* the largest unsigned integer of that width
UInt == 0 .. MAXUINT

ASSUME MaxIntAssumption == MAXINT \in Nat
ASSUME ObjectSizeAssumption == ObjectSize \subseteq UInt
ASSUME MaxObjectsAssumption == MaxObjects \in Nat

VARIABLES phase,        \* "idle", or "counting" while get_commit_sizes runs
          objects,      \* number of objects counted so far
          sums,         \* *archived, *unpacked, *new_archived, *new_unpacked
          exact,        \* the same sums in unbounded integers (history)
          sizes,        \* the four D-Bus properties
          known,        \* the exact sums behind them, when there are (history)
          state         \* the State of the daemon after the poll

sizesVars == <<phase, objects, sums, exact, sizes, known, state>>

Kind == {"archived", "unpacked", "new_archived", "new_unpacked"}
NothingCounted == [k \in Kind |-> 0]
NotKnown == [k \in Kind |-> -1]

Least(a, b) == IF a <= b THEN a ELSE b

SATURATED_INCREMENT(a, b) == IF a < MAXUINT - b THEN a + b ELSE MAXUINT

\* Mutant: a cast instead of a clamp.
Cast(a) == IF a > MAXINT THEN a - MAXUINT - 1 ELSE a

CLAMP(a) == IF a > MAXINT THEN MAXINT ELSE a

\* What one object adds to each sum: an object the repository has is nothing new.
Entry(archived, unpacked, exists) ==
  [k \in Kind |-> CASE k = "archived" -> archived
                    [] k = "unpacked" -> unpacked
                    [] k = "new_archived" -> IF exists THEN 0 ELSE archived
                    [] k = "new_unpacked" -> IF exists THEN 0 ELSE unpacked]
------------------------------------------------------------------------------
SizesInit ==
  /\ phase = "idle" /\ objects = 0 /\ state = "Ready"
  /\ sums = NothingCounted /\ exact = NothingCounted
  /\ sizes = NothingCounted /\ known = NothingCounted

\* A poll found an update: its sizes are counted from zero.
Found ==
  /\ phase = "idle"
  /\ phase' = "counting" /\ state' = "UpdateAvailable"
  /\ objects' = 0 /\ sums' = NothingCounted /\ exact' = NothingCounted
  /\ UNCHANGED <<sizes, known>>

\* A poll that finds nothing, or fails, leaves the sizes of the one before.
NotFound ==
  /\ phase = "idle"
  /\ state' \in {"Ready", "Error"}
  /\ UNCHANGED <<phase, objects, sums, exact, sizes, known>>

\* One turn of the loop over the objects of the commit.
Count(archived, unpacked, exists) ==
  LET entry == Entry(archived, unpacked, exists)
  IN  /\ phase = "counting" /\ objects < MaxObjects
      /\ objects' = objects + 1
      /\ sums' = [k \in Kind |-> SATURATED_INCREMENT(sums[k], entry[k])]
      /\ exact' = [k \in Kind |-> exact[k] + entry[k]]
      /\ UNCHANGED <<phase, sizes, known, state>>

\* Every object is counted: the sums are clamped and published.
Publish ==
  /\ phase = "counting"
  /\ phase' = "idle"
  /\ sizes' = [k \in Kind |-> CLAMP(sums[k])]
  /\ known' = exact
  /\ UNCHANGED <<objects, sums, exact, state>>

\* The commit has no sizes, or this OSTree cannot parse them.
NoSizes ==
  /\ phase = "counting" /\ objects = 0
  /\ phase' = "idle"
  /\ sizes' = NotKnown /\ known' = NotKnown
  /\ UNCHANGED <<objects, sums, exact, state>>

\* The commit or an object cannot be read: the properties stay as they are.
ReadFails ==
  /\ phase = "counting"
  /\ phase' = "idle" /\ state' = "Error"
  /\ UNCHANGED <<objects, sums, exact, sizes, known>>

SizesNext ==
  \/ Found \/ NotFound \/ Publish \/ NoSizes \/ ReadFails
  \/ \E archived, unpacked \in ObjectSize, exists \in BOOLEAN : Count(archived, unpacked, exists)

SizesSpec == SizesInit /\ [][SizesNext]_sizesVars
------------------------------------------------------------------------------
(* Properties *)

SizesTypeOK ==
  /\ phase \in {"idle", "counting"} /\ state \in {"Ready", "UpdateAvailable", "Error"}
  /\ objects \in 0 .. MaxObjects
  /\ sums \in [Kind -> UInt]
  /\ exact \in [Kind -> Nat]
  /\ sizes \in [Kind -> -1 .. MAXINT]
  /\ known \in [Kind -> Nat \cup {-1}]

\* A sum that no longer fits stays at the largest integer, however many objects
\* follow; it never wraps around (SATURATED_INCREMENT_GUINT64).
SumsSaturate == \A k \in Kind : sums[k] = Least(exact[k], MAXUINT)

\* The sizes are those of the sums they were made of or, beyond the signed range, the
\* largest integer; and the four are known together or not at all.
SizesAreClamped ==
  \/ sizes = NotKnown /\ known = NotKnown
  \/ \A k \in Kind : known[k] >= 0 /\ sizes[k] = Least(known[k], MAXINT)

\* Once a poll that found an update has published its sizes, these are its own.
SizesAreFresh ==
  phase = "idle" /\ state = "UpdateAvailable" => known \in {exact, NotKnown}

\* What clients read is the size of the update they are told of: never a negative
\* size, never that of an update before, never one of four from another update.
SizesAreOfUpdate == SizesAreClamped /\ SizesAreFresh

\* There is never more to download than the update is large, even where the larger
\* of the two sums is saturated (EosUpdater's DownloadSize, FullDownloadSize).
NewWithinFull ==
  /\ sizes["new_archived"] <= sizes["archived"]
  /\ sizes["new_unpacked"] <= sizes["unpacked"]
==============================================================================
