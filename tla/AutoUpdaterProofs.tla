--------------------------- MODULE AutoUpdaterProofs ---------------------------
(***************************************************************************)
(* Proofs about AutoUpdater, for any updates, delays, interval and last step,  *)
(* and any number of days, calls of other clients and faults.                *)
(***************************************************************************)
EXTENDS AutoUpdater, SequenceTheorems, TLAPS

(* States in which the daemon tells of an update that can be acted upon.        *)
Decided == {"UPDATE_AVAILABLE", "FETCHING", "UPDATE_READY", "APPLYING_UPDATE"}

(* What can be seen of the daemon after what was seen last: an update is told   *)
(* of after a poll that was seen, or it is the one told of before.              *)
Follows(p, q) ==
    q.state \in Decided =>
        p.state = "POLLING" \/ (p.state \in Decided /\ p.update = q.update)

Calls == [step : 1..3, waiting : BOOLEAN]
Messages == [kind : {"changed", "lost", "refused"}, props : Properties]

(* The daemon's operation is the one its state says; what it has not yet        *)
(* emitted can be seen after what it has.                                    *)
DaemonFollows ==
    /\ \A op \in ops : ops = {op}
    /\ "poll" \in ops => state = "POLLING"
    /\ "fetch" \in ops => state = "FETCHING"
    /\ "apply" \in ops => state = "APPLYING_UPDATE"
    /\ Follows(emitted, Exposed)
    /\ ~pending => emitted = Exposed /\ ahead = 0

(* What the program has seen, @p at 0, and will see, at places of its inbox @s. *)
IsView(s, i) == i = 0 \/ s[i].kind = "changed"
View(p, s, i) == IF i = 0 THEN p ELSE s[i].props

(* One view follows the other, and the last is @e.                           *)
Chained(p, s) ==
    \A j \in 1 .. Len(s) : \A i \in 0 .. j - 1 :
        IsView(s, i) /\ IsView(s, j) /\ (\A k \in i + 1 .. j - 1 : ~IsView(s, k))
            => Follows(View(p, s, i), View(p, s, j))
EndsWith(p, s, e) ==
    \A i \in 0 .. Len(s) :
        IsView(s, i) /\ (\A k \in i + 1 .. Len(s) : ~IsView(s, k)) => View(p, s, i) = e

(* What was emitted last is the last to be seen.                             *)
ViewsFollow ==
    /\ Chained(proxy, inbox)
    /\ running /\ quit = "" => EndsWith(proxy, inbox, emitted)
    /\ ~running => inbox = <<>>

(* The state last acted upon is the one last seen, but for the first and for an  *)
(* error taken for readiness; what is known is of the update seen.              *)
KnownFollows ==
    running =>
        /\ \/ previous = proxy.state
           \/ idle /\ previous = "NONE" /\ known = NoResults
           \/ previous = "READY" /\ proxy.state = "ERROR"
        /\ known # NoResults /\ proxy.state \in Decided => known.update = proxy.update

(* A visible update that is told of has been found, and not after what the      *)
(* poll results say.                                                        *)
Announced(u) == u \in UserVisible => found[u] \in 0 .. now
Dated(r) ==
    r # NoResults => r.since \in 0 .. now /\ (r.update \in UserVisible => found[r.update] \in 0 .. r.since)

FoundBefore ==
    /\ \A u \in UserVisible : found[u] \in -1 .. now
    /\ Announced(update) /\ Announced(emitted.update) /\ Announced(proxy.update)
    /\ \A i \in 1 .. Len(inbox) : Announced(inbox[i].props.update)
    /\ Dated(results) /\ Dated(known)

(* A main loop that was quit, but for a failure, was quit where it should.       *)
QuitAtRest == running /\ quit # "" /\ ~failed => quit \in Rest \/ Held

IInv == TypeOK /\ DaemonFollows /\ ViewsFollow /\ KnownFollows /\ FoundBefore /\ QuitAtRest

-----------------------------------------------------------------------------
(* Sequences of views.                                                       *)

LEMMA FollowsItself == \A p : Follows(p, p)
  BY DEF Follows

LEMMA ChainedEmpty ==
    ASSUME NEW p
    PROVE  Chained(p, <<>>) /\ EndsWith(p, <<>>, p)
<1>1. Len(<<>>) = 0
  BY EmptySeq
<1> QED
  BY <1>1 DEF Chained, EndsWith, View

(* A message that is no view changes nothing.                                *)
LEMMA ChainedAppendOther ==
    ASSUME NEW p, NEW s \in Seq(Messages), NEW m \in Messages, m.kind # "changed", Chained(p, s)
    PROVE  /\ Chained(p, Append(s, m))
           /\ \A e : EndsWith(p, s, e) => EndsWith(p, Append(s, m), e)
<1> DEFINE t == Append(s, m)
<1>1. /\ Len(t) = Len(s) + 1
      /\ \A i \in 1 .. Len(s) : t[i] = s[i]
      /\ t[Len(s) + 1] = m
      /\ Len(s) \in Nat
  BY AppendProperties, LenProperties
<1>2. /\ ~IsView(t, Len(s) + 1)
      /\ \A i \in 0 .. Len(s) : IsView(t, i) <=> IsView(s, i)
      /\ \A i \in 0 .. Len(s) : View(p, t, i) = View(p, s, i)
  BY <1>1 DEF IsView, View
<1> HIDE DEF t
<1>3. Chained(p, t)
  <2> SUFFICES ASSUME NEW j \in 1 .. Len(t), NEW i \in 0 .. j - 1, IsView(t, i), IsView(t, j),
                      \A k \in i + 1 .. j - 1 : ~IsView(t, k)
               PROVE  Follows(View(p, t, i), View(p, t, j))
    BY DEF Chained
  <2>1. j \in 1 .. Len(s) /\ i \in 0 .. Len(s)
    BY <1>1, <1>2
  <2>2. \A k \in i + 1 .. j - 1 : ~IsView(s, k)
    BY <1>1, <1>2, <2>1
  <2>3. Follows(View(p, s, i), View(p, s, j))
    BY <1>2, <2>1, <2>2 DEF Chained
  <2> QED
    BY <1>2, <2>1, <2>3
<1>4. ASSUME NEW e, EndsWith(p, s, e) PROVE EndsWith(p, t, e)
  <2> SUFFICES ASSUME NEW i \in 0 .. Len(t), IsView(t, i), \A k \in i + 1 .. Len(t) : ~IsView(t, k)
               PROVE  View(p, t, i) = e
    BY DEF EndsWith
  <2>1. i \in 0 .. Len(s)
    BY <1>1, <1>2
  <2>2. \A k \in i + 1 .. Len(s) : ~IsView(s, k)
    BY <1>1, <1>2, <2>1
  <2> QED
    BY <1>2, <1>4, <2>1, <2>2 DEF EndsWith
<1> QED
  BY <1>3, <1>4 DEF t

(* A view is appended that follows the last.                                 *)
LEMMA ChainedAppendView ==
    ASSUME NEW p, NEW e, NEW s \in Seq(Messages), NEW q \in Properties,
           Chained(p, s), EndsWith(p, s, e), Follows(e, q)
    PROVE  Chained(p, Append(s, Changed(q))) /\ EndsWith(p, Append(s, Changed(q)), q)
<1> DEFINE t == Append(s, Changed(q))
<1>1. Changed(q) \in Messages /\ Changed(q).kind = "changed" /\ Changed(q).props = q
  BY DEF Changed, Messages
<1>2. /\ Len(t) = Len(s) + 1
      /\ \A i \in 1 .. Len(s) : t[i] = s[i]
      /\ t[Len(s) + 1] = Changed(q)
      /\ Len(s) \in Nat
  BY <1>1, AppendProperties, LenProperties
<1>3. /\ IsView(t, Len(s) + 1)
      /\ View(p, t, Len(s) + 1) = q
      /\ \A i \in 0 .. Len(s) : IsView(t, i) <=> IsView(s, i)
      /\ \A i \in 0 .. Len(s) : View(p, t, i) = View(p, s, i)
  BY <1>1, <1>2 DEF IsView, View
<1> HIDE DEF t
<1>4. ASSUME NEW j \in 1 .. Len(t), NEW i \in 0 .. j - 1, IsView(t, i), IsView(t, j),
             \A k \in i + 1 .. j - 1 : ~IsView(t, k)
      PROVE  Follows(View(p, t, i), View(p, t, j))
  <2>1. i \in 0 .. Len(s)
    BY <1>2, <1>4
  <2>2. CASE j = Len(s) + 1
    <3>1. \A k \in i + 1 .. Len(s) : ~IsView(s, k)
      BY <1>2, <1>3, <1>4, <2>1, <2>2
    <3>2. View(p, s, i) = e
      BY <1>3, <1>4, <2>1, <3>1 DEF EndsWith
    <3> QED
      BY <1>3, <2>1, <2>2, <3>2
  <2>3. CASE j # Len(s) + 1
    <3>1. j \in 1 .. Len(s)
      BY <1>2, <1>4, <2>3
    <3>2. \A k \in i + 1 .. j - 1 : ~IsView(s, k)
      BY <1>2, <1>3, <1>4, <2>1, <3>1
    <3>3. IsView(s, i) /\ IsView(s, j)
      BY <1>3, <1>4, <2>1, <3>1
    <3>4. Follows(View(p, s, i), View(p, s, j))
      BY <3>1, <3>2, <3>3 DEF Chained
    <3> QED
      BY <1>3, <2>1, <3>1, <3>4
  <2> QED
    BY <2>2, <2>3
<1>5. Chained(p, t)
  BY <1>4 DEF Chained
<1>6. EndsWith(p, t, q)
  <2> SUFFICES ASSUME NEW i \in 0 .. Len(t), \A k \in i + 1 .. Len(t) : ~IsView(t, k)
               PROVE  View(p, t, i) = q
    BY DEF EndsWith
  <2>1. i = Len(s) + 1
    BY <1>2, <1>3
  <2> QED
    BY <1>3, <2>1
<1> QED
  BY <1>5, <1>6 DEF t

(* The first message is taken.                                               *)
LEMMA ChainedTail ==
    ASSUME NEW p, NEW s \in Seq(Messages), s # <<>>, Chained(p, s)
    PROVE  LET q == IF Head(s).kind = "changed" THEN Head(s).props ELSE p IN
           /\ Chained(q, Tail(s))
           /\ \A e : EndsWith(p, s, e) => EndsWith(q, Tail(s), e)
           /\ Head(s).kind = "changed" => Follows(p, q)
<1> DEFINE t == Tail(s)
           q == IF Head(s).kind = "changed" THEN Head(s).props ELSE p
           o == IF Head(s).kind = "changed" THEN 1 ELSE 0
           At(i) == IF i = 0 THEN o ELSE i + 1
<1>1. /\ Len(s) \in Nat \ {0} /\ Len(t) = Len(s) - 1
      /\ Head(s) = s[1]
      /\ \A i \in 1 .. Len(t) : t[i] = s[i + 1]
  BY HeadTailProperties, LenProperties, EmptySeq
<1>2. /\ IsView(s, 0) /\ IsView(s, o) /\ View(p, s, o) = q
      /\ o = 0 => ~IsView(s, 1)
      /\ o \in {0, 1}
  BY <1>1 DEF IsView, View
<1>3. /\ \A i \in 0 .. Len(t) : IsView(t, i) => IsView(s, At(i))
      /\ \A i \in 0 .. Len(t) : View(q, t, i) = View(p, s, At(i))
      /\ \A i \in 1 .. Len(t) : IsView(t, i) <=> IsView(s, i + 1)
  BY <1>1, <1>2 DEF IsView, View
<1>4. \A i \in 0 .. Len(t) : At(i) \in 0 .. i + 1 /\ (i > 0 => At(i) = i + 1) /\ At(0) = o
  BY <1>2
<1> HIDE DEF t, o, q, At
(* What lies between two places of the tail.                                 *)
<1>5. ASSUME NEW i \in 0 .. Len(t), NEW n \in i .. Len(t), \A k \in i + 1 .. n : ~IsView(t, k)
      PROVE  \A k \in At(i) + 1 .. n + 1 : ~IsView(s, k)
  <2> SUFFICES ASSUME NEW k \in At(i) + 1 .. n + 1 PROVE ~IsView(s, k)
    OBVIOUS
  <2>1. CASE k = 1
    <3>1. At(i) = 0 /\ i = 0
      BY <1>1, <1>4, <2>1
    <3> QED
      BY <1>2, <1>4, <2>1, <3>1
  <2>2. CASE k # 1
    <3>1. k - 1 \in i + 1 .. n
      BY <1>1, <1>2, <1>4, <2>2
    <3>2. k - 1 \in 1 .. Len(t) /\ (k - 1) + 1 = k
      BY <1>1, <3>1
    <3> QED
      BY <1>3, <1>5, <3>1, <3>2
  <2> QED
    BY <2>1, <2>2
<1>6. Chained(q, t)
  <2> SUFFICES ASSUME NEW j \in 1 .. Len(t), NEW i \in 0 .. j - 1, IsView(t, i), IsView(t, j),
                      \A k \in i + 1 .. j - 1 : ~IsView(t, k)
               PROVE  Follows(View(q, t, i), View(q, t, j))
    BY DEF Chained
  <2>1. i \in 0 .. Len(t) /\ j \in 0 .. Len(t) /\ j - 1 \in i .. Len(t)
    BY <1>1
  <2>2. \A k \in At(i) + 1 .. (j - 1) + 1 : ~IsView(s, k)
    BY <1>5, <2>1
  <2>3. /\ At(j) = j + 1 /\ j + 1 \in 1 .. Len(s)
        /\ At(i) \in 0 .. (j + 1) - 1
        /\ (j - 1) + 1 = (j + 1) - 1
    BY <1>1, <1>4, <2>1
  <2>4. IsView(s, At(i)) /\ IsView(s, j + 1)
    BY <1>3, <2>1, <2>3
  <2>5. Follows(View(p, s, At(i)), View(p, s, j + 1))
    BY <2>2, <2>3, <2>4 DEF Chained
  <2> QED
    BY <1>3, <2>1, <2>3, <2>5
<1>7. ASSUME NEW e, EndsWith(p, s, e) PROVE EndsWith(q, t, e)
  <2> SUFFICES ASSUME NEW i \in 0 .. Len(t), IsView(t, i), \A k \in i + 1 .. Len(t) : ~IsView(t, k)
               PROVE  View(q, t, i) = e
    BY DEF EndsWith
  <2>1. At(i) \in 0 .. Len(s) /\ Len(t) \in i .. Len(t) /\ Len(t) + 1 = Len(s)
    BY <1>1, <1>4
  <2>2. \A k \in At(i) + 1 .. Len(s) : ~IsView(s, k)
    BY <1>5, <2>1
  <2>3. View(p, s, At(i)) = e
    BY <1>3, <1>7, <2>1, <2>2 DEF EndsWith
  <2> QED
    BY <1>3, <2>3
<1>8. ASSUME Head(s).kind = "changed" PROVE Follows(p, q)
  <2>1. o = 1
    BY <1>8 DEF o
  <2>2. /\ 1 \in 1 .. Len(s) /\ 0 \in 0 .. 1 - 1
        /\ \A k \in 0 + 1 .. 1 - 1 : ~IsView(s, k)
    BY <1>1
  <2>3. Follows(View(p, s, 0), View(p, s, 1))
    BY <1>2, <2>1, <2>2 DEF Chained
  <2> QED
    BY <1>2, <2>1, <2>3 DEF View
<1> QED
  BY <1>6, <1>7, <1>8 DEF t, q

(* Only the first of the messages are left.                                  *)
LEMMA ChainedPrefix ==
    ASSUME NEW p, NEW s \in Seq(Messages), NEW n \in 0 .. Len(s), NEW t, Chained(p, s),
           Len(t) = n, \A i \in 1 .. n : t[i] = s[i]
    PROVE  Chained(p, t)
<1>1. Len(s) \in Nat
  BY LenProperties
<1>2. /\ \A i \in 0 .. n : IsView(t, i) <=> IsView(s, i)
      /\ \A i \in 0 .. n : View(p, t, i) = View(p, s, i)
  BY <1>1 DEF IsView, View
<1> SUFFICES ASSUME NEW j \in 1 .. n, NEW i \in 0 .. j - 1, IsView(t, i), IsView(t, j),
                    \A k \in i + 1 .. j - 1 : ~IsView(t, k)
             PROVE  Follows(View(p, t, i), View(p, t, j))
  BY DEF Chained
<1>3. i \in 0 .. n /\ j \in 0 .. n /\ j \in 1 .. Len(s) /\ \A k \in i + 1 .. j - 1 : k \in 0 .. n
  BY <1>1
<1>4. \A k \in i + 1 .. j - 1 : ~IsView(s, k)
  BY <1>2, <1>3
<1>5. Follows(View(p, s, i), View(p, s, j))
  BY <1>2, <1>3, <1>4 DEF Chained
<1> QED
  BY <1>2, <1>3, <1>5

-----------------------------------------------------------------------------
(* What the program does when the daemon's state changes.                    *)

LEMMA ResultsTypes ==
    /\ NoResults \in Results /\ NoResults.update = "" /\ NoResults.since = -1
    /\ \A p \in Properties : p.state \in States /\ p.update \in Updates \cup {""}
    /\ Blank \in Properties /\ Blank.state = "NONE" /\ Blank.update = ""
    /\ "" \notin UserVisible
<1>1. MaxTime \in Nat
  BY ConfigAssumption
<1>2. NoResults \in Results
  BY <1>1 DEF NoResults, Results
<1> QED
  BY <1>2, UpdatesAssumption DEF NoResults, Properties, Blank, States

(* A record made from the poll seen is of its update, and not dated before the   *)
(* update was found.                                                        *)
LEMMA LatestIsOfUpdate ==
    ASSUME NEW old \in Results, Dated(old), now \in 0 .. MaxTime, proxy' \in Properties,
           Announced(proxy'.update)
    PROVE  /\ Latest(old) \in Results /\ Dated(Latest(old))
           /\ Latest(old) # NoResults /\ Latest(old).update = proxy'.update
<1> DEFINE new == [since |-> now, update |-> proxy'.update]
<1>1. MaxTime \in Nat /\ now \in -1 .. MaxTime /\ now # -1
  BY ConfigAssumption
<1>2. proxy'.update \in Updates \cup {""}
  BY ResultsTypes
<1>3. new \in Results /\ new.since = now /\ new.update = proxy'.update
  BY <1>1, <1>2 DEF Results
<1>4. new # NoResults
  BY <1>1, <1>3 DEF NoResults
<1>5. Dated(new)
  BY <1>1, <1>3 DEF Dated, Announced
<1> HIDE DEF new
<1>6. Latest(old) = IF old # NoResults /\ old.update = proxy'.update THEN old ELSE new
  BY DEF Latest, new
<1> QED
  BY <1>3, <1>4, <1>5, <1>6

(* What update_poll_results leaves known is either taken anew, from the poll     *)
(* seen, or as it was, or forgotten.                                         *)
LEMMA PollResults ==
    ASSUME NEW s, NEW forget \in BOOLEAN, update_poll_results(s, forget),
           {results, known} \subseteq Results, Dated(results), Dated(known),
           now \in 0 .. MaxTime, bound \in 0 .. MaxDisturbances,
           proxy' \in Properties, Announced(proxy'.update)
    PROVE  /\ results' \in Results /\ Dated(results')
           /\ known' \in Results /\ Dated(known')
           /\ bound' \in 0 .. MaxDisturbances
           /\ ~forget /\ Refresh(s) => known' # NoResults /\ known'.update = proxy'.update
           /\ ~forget /\ ~Refresh(s) => known' = known
           /\ forget => known' = NoResults
<1>1. Dated(NoResults) /\ NoResults \in Results /\ MaxDisturbances \in Nat
  BY ResultsTypes, ConfigAssumption DEF Dated
<1>2. results' \in {results, Latest(results), Latest(NoResults)}
  BY DEF update_poll_results
<1>3. results' \in Results /\ Dated(results')
  BY <1>1, <1>2, LatestIsOfUpdate
<1>4. bound' \in 0 .. MaxDisturbances
  BY <1>1 DEF update_poll_results, Smooth, Disturbance
<1>5. /\ Latest(results') \in Results /\ Dated(Latest(results'))
      /\ Latest(results') # NoResults /\ Latest(results').update = proxy'.update
  BY <1>3, LatestIsOfUpdate
<1>6. CASE forget
  <2>1. known' = NoResults
    BY <1>6 DEF update_poll_results
  <2> QED
    BY <1>1, <1>3, <1>4, <1>6, <2>1
<1>7. CASE ~forget /\ Refresh(s)
  <2>1. known' = Latest(results')
    BY <1>7 DEF update_poll_results
  <2> QED
    BY <1>3, <1>4, <1>5, <1>7, <2>1
<1>8. CASE ~forget /\ ~Refresh(s)
  <2>1. known' = known
    BY <1>8 DEF update_poll_results
  <2> QED
    BY <1>3, <1>4, <1>8, <2>1
<1> QED
  BY <1>6, <1>7, <1>8

(* The hypotheses under which on_state_changed runs: @s is the state just seen,  *)
(* or an error taken for readiness.                                          *)
Seen(s) ==
    /\ running
    /\ s \in States
    /\ on_state_changed(s)
    /\ proxy' \in Properties
    /\ Announced(proxy'.update)
    /\ Follows(proxy, proxy')
    /\ s = proxy'.state \/ (s = "READY" /\ proxy'.state = "ERROR")
    /\ UNCHANGED <<running, now, found, lastStep, force>>

(* What is known afterwards is of the update seen.                           *)
LEMMA SeenKnown ==
    ASSUME IInv, NEW s, Seen(s)
    PROVE  /\ previous' = s /\ previous' \in States
           /\ results' \in Results /\ Dated(results')
           /\ known' \in Results /\ Dated(known')
           /\ bound' \in 0 .. MaxDisturbances
           /\ known' # NoResults /\ proxy'.state \in Decided => known'.update = proxy'.update
           /\ s # previous /\ s \in {"UPDATE_AVAILABLE", "UPDATE_READY"} => known' # NoResults
<1> USE DEF Seen
<1>1. /\ {results, known} \subseteq Results /\ Dated(results) /\ Dated(known)
      /\ now \in 0 .. MaxTime /\ bound \in 0 .. MaxDisturbances
  BY DEF IInv, TypeOK, FoundBefore
<1>2. /\ \/ previous = proxy.state
         \/ previous = "NONE" /\ known = NoResults
         \/ previous = "READY" /\ proxy.state = "ERROR"
      /\ known # NoResults /\ proxy.state \in Decided => known.update = proxy.update
  BY DEF IInv, KnownFollows
<1>3. ASSUME known' = known, known # NoResults, proxy'.state \in Decided, previous # "POLLING"
      PROVE  known'.update = proxy'.update
  <2>1. proxy.state = "POLLING" \/ (proxy.state \in Decided /\ proxy.update = proxy'.update)
    BY <1>3 DEF Follows
  <2>2. proxy.state # "POLLING"
    BY <1>2, <1>3
  <2> QED
    BY <1>2, <1>3, <2>1, <2>2
<1>4. CASE s = previous
  <2>1. previous' = previous /\ known' = known /\ results' = results /\ bound' = bound
    BY <1>4 DEF on_state_changed
  <2>2. proxy'.state \in Decided => previous # "POLLING"
    BY <1>4 DEF Decided
  <2> QED
    BY <1>1, <1>3, <1>4, <2>1, <2>2
<1>5. CASE s # previous
  <2>1. previous' = s
    BY <1>5 DEF on_state_changed
  <2>2. PICK f \in BOOLEAN : update_poll_results(s, f) /\ (f => s = "READY")
    <3>1. update_poll_results(s, FALSE) \/ (s = "READY" /\ update_poll_results(s, PollOnce))
      BY <1>5 DEF on_state_changed
    <3>2. PollOnce \in BOOLEAN /\ FALSE \in BOOLEAN
      BY DEF PollOnce
    <3> QED
      BY <3>1, <3>2
  <2>3. /\ results' \in Results /\ Dated(results')
        /\ known' \in Results /\ Dated(known')
        /\ bound' \in 0 .. MaxDisturbances
        /\ ~f /\ Refresh(s) => known' # NoResults /\ known'.update = proxy'.update
        /\ ~f /\ ~Refresh(s) => known' = known
        /\ f => known' = NoResults
    BY <1>1, <2>2, PollResults
  <2>4. ~Refresh(s) => previous # "POLLING"
    BY DEF Refresh
  <2>5. known' # NoResults /\ proxy'.state \in Decided => known'.update = proxy'.update
    BY <1>3, <2>3, <2>4
  <2>6. s \in {"UPDATE_AVAILABLE", "UPDATE_READY"} => known' # NoResults
    <3>1. s \in {"UPDATE_AVAILABLE", "UPDATE_READY"} /\ ~Refresh(s) => known # NoResults
      BY DEF Refresh, RefreshOnce
    <3> QED
      BY <2>2, <2>3, <3>1
  <2> QED
    BY <2>1, <2>3, <2>5, <2>6
<1> QED
  BY <1>4, <1>5

(* A step of do_update_step quits, or calls if it may go on.                  *)
Made(step) == calls' = Append(calls, [step |-> step, waiting |-> TRUE])

LEMMA StepMade ==
    ASSUME NEW s, NEW step, NEW goOn, do_update_step(s, step, goOn)
    PROVE  \/ ~goOn /\ quit' = s /\ calls' = calls
           \/ goOn /\ quit' = quit /\ Made(step)
  BY DEF do_update_step, Call, Made

(* The calls it makes, and where it quits.                                   *)
LEMMA SeenActs ==
    ASSUME IInv, NEW s, Seen(s)
    PROVE  /\ polled' \in BOOLEAN /\ failed' \in BOOLEAN
           /\ quit' = quit \/ (quit' = s /\ s # "")
           /\ \/ calls' = calls
              \/ \E step \in 1 .. 3 :
                    /\ Made(step)
                    /\ step = 3 => s = "UPDATE_READY" /\ s # previous /\ ~HeldBack
<1> USE DEF Seen
<1>1. polled \in BOOLEAN /\ failed \in BOOLEAN /\ s # ""
  BY DEF IInv, TypeOK, States
<1>2. CASE s = previous
  BY <1>1, <1>2 DEF on_state_changed
<1>3. CASE s # previous
  <2>1. CASE s \in {"NONE", "POLLING", "FETCHING", "APPLYING_UPDATE"}
    BY <1>1, <1>3, <2>1 DEF on_state_changed
  <2>2. CASE s = "READY"
    <3>1. (polled \/ PollOnce) \in BOOLEAN
      OBVIOUS
    <3>2. polled' = (polled \/ PollOnce) /\ failed' = failed /\ do_update_step(s, 1, PollOnce)
      BY <1>3, <2>2 DEF on_state_changed
    <3>3. \/ quit' = s /\ calls' = calls
          \/ quit' = quit /\ Made(1)
      BY <3>2, StepMade
    <3>4. polled' \in BOOLEAN /\ failed' \in BOOLEAN
      BY <1>1, <3>1, <3>2, Zenon
    <3>5. 1 \in 1 .. 3 /\ 1 # 3
      OBVIOUS
    <3> QED
      BY <1>1, <2>2, <3>3, <3>4, <3>5, Zenon
  <2>3. CASE s = "ERROR"
    BY <1>1, <1>3, <2>3 DEF on_state_changed
  <2>4. CASE s = "UPDATE_AVAILABLE"
    <3>1. polled' = polled /\ failed' = failed /\ do_update_step(s, 2, WithinConfig(2))
      BY <1>3, <2>4 DEF on_state_changed
    <3>2. \/ quit' = s /\ calls' = calls
          \/ quit' = quit /\ Made(2)
      BY <3>1, StepMade
    <3> QED
      BY <1>1, <1>3, <2>4, <3>1, <3>2
  <2>5. CASE s = "UPDATE_READY"
    <3>1. polled' = polled /\ failed' = failed /\ do_update_step(s, 3, WithinConfig(3) /\ ~HeldBack)
      BY <1>3, <2>5 DEF on_state_changed
    <3>2. \/ quit' = s /\ calls' = calls
          \/ quit' = quit /\ Made(3) /\ ~HeldBack
      BY <3>1, StepMade
    <3> QED
      BY <1>1, <1>3, <2>5, <3>1, <3>2
  <2>6. CASE s = "UPDATE_APPLIED"
    BY <1>1, <1>3, <2>6 DEF on_state_changed
  <2> QED
    BY <2>1, <2>2, <2>3, <2>4, <2>5, <2>6 DEF States
<1> QED
  BY <1>2, <1>3

(* It quits at rest unless it fails.                                         *)
LEMMA SeenRest ==
    ASSUME IInv, NEW s, Seen(s)
    PROVE  QuitAtRest'
<1> USE DEF Seen
<1>1. QuitAtRest /\ lastStep \in 0 .. 3
  BY DEF IInv, TypeOK
<1>2. CASE quit' = quit /\ failed' = failed
  BY <1>1, <1>2 DEF QuitAtRest, Rest, Held
<1>3. CASE failed'
  BY <1>3 DEF QuitAtRest
<1>4. CASE s # previous /\ s \in {"READY", "UPDATE_AVAILABLE", "UPDATE_READY", "UPDATE_APPLIED"} /\ quit' = s
  <2>1. s = "UPDATE_AVAILABLE" => quit' = quit \/ lastStep < 2
    <3>1. ASSUME s = "UPDATE_AVAILABLE" PROVE do_update_step(s, 2, WithinConfig(2))
      BY <1>4, <3>1 DEF on_state_changed
    <3>2. s = "UPDATE_AVAILABLE" => quit' = quit \/ ~WithinConfig(2)
      BY <3>1, StepMade
    <3> QED
      BY <1>1, <3>2 DEF WithinConfig
  <2>2. s = "UPDATE_READY" => quit' = quit \/ lastStep < 3 \/ (~force /\ UserVisible # {})
    <3>1. ASSUME s = "UPDATE_READY" PROVE do_update_step(s, 3, WithinConfig(3) /\ ~HeldBack)
      BY <1>4, <3>1 DEF on_state_changed
    <3>2. s = "UPDATE_READY" => quit' = quit \/ ~(WithinConfig(3) /\ ~HeldBack)
      BY <3>1, StepMade
    <3>3. HeldBack => ~force /\ UserVisible # {}
      BY DEF HeldBack
    <3> QED
      BY <1>1, <3>2, <3>3 DEF WithinConfig
  <2>3. s = "UPDATE_AVAILABLE" /\ lastStep < 2 => (quit \in Rest)'
    BY <1>1, <1>4 DEF Rest, States
  <2>4. s = "UPDATE_READY" /\ lastStep < 3 => (quit \in Rest)'
    BY <1>1, <1>4 DEF Rest, States
  <2>5. s = "UPDATE_READY" /\ ~force /\ UserVisible # {} => Held'
    BY <1>4 DEF Held
  <2>6. s \in {"READY", "UPDATE_APPLIED"} => (quit \in Rest)'
    BY <1>1, <1>4 DEF Rest, States
  <2>7. failed' = failed
    BY <1>4 DEF on_state_changed
  <2> QED
    BY <1>2, <1>4, <2>1, <2>2, <2>3, <2>4, <2>5, <2>6, <2>7 DEF QuitAtRest
<1>5. \/ quit' = quit /\ failed' = failed
      \/ failed'
      \/ s # previous /\ s \in {"READY", "UPDATE_AVAILABLE", "UPDATE_READY", "UPDATE_APPLIED"} /\ quit' = s
  BY DEF on_state_changed, do_update_step
<1> QED
  BY <1>2, <1>3, <1>4, <1>5

(* An update that is user visible is not applied too early.                   *)
LEMMA SeenDelay ==
    ASSUME IInv, NEW s, Seen(s), ApplyCalled, ~force, proxy'.update \in UserVisible
    PROVE  /\ known' # NoResults
           /\ now >= found[proxy'.update] + UserVisibleDelay
<1> USE DEF Seen
<1>1. calls \in Seq(Calls)
  BY DEF IInv, TypeOK, Calls
<1>2. PICK step \in 1 .. 3 :
          /\ Made(step)
          /\ step = 3 => s = "UPDATE_READY" /\ s # previous /\ ~HeldBack
  <2>1. calls' # calls
    BY <1>1, LenProperties DEF ApplyCalled
  <2> QED
    BY <2>1, SeenActs
<1>3. [step |-> step, waiting |-> TRUE] \in Calls
  BY DEF Calls
<1>4. Last(calls') = [step |-> step, waiting |-> TRUE]
  BY <1>1, <1>2, <1>3, AppendProperties DEF Last, Made
<1>5. step = 3
  BY <1>4 DEF ApplyCalled
<1>6. s = "UPDATE_READY" /\ s # previous /\ proxy'.state \in Decided
  BY <1>2, <1>5 DEF Decided
<1>7. known' # NoResults /\ known'.update = proxy'.update /\ Dated(known')
  BY <1>6, SeenKnown
<1>8. known'.since \in 0 .. now /\ found[proxy'.update] \in 0 .. known'.since
  BY <1>7 DEF Dated
<1>9. ~(now < known'.since + UserVisibleDelay)
  BY <1>2, <1>5 DEF HeldBack
<1>10. UserVisibleDelay \in Nat /\ now \in Nat
  <2>1. now \in 0 .. MaxTime
    BY DEF IInv, TypeOK
  <2> QED
    BY <2>1, ConfigAssumption
<1> QED
  BY <1>7, <1>8, <1>9, <1>10

-----------------------------------------------------------------------------
(* The daemon.                                                              *)

DaemonOK ==
    /\ state \in States /\ update \in Updates \cup {""}
    /\ ops \subseteq {"poll", "fetch", "apply"}
    /\ up \in BOOLEAN /\ cancel \in BOOLEAN /\ pending \in BOOLEAN
    /\ emitted \in Properties

LEMMA ExposedType == ASSUME DaemonOK PROVE Exposed \in Properties
  BY DEF DaemonOK, Exposed, Properties

(* A task starts, from a state that it is allowed in; what is to be emitted      *)
(* still follows.                                                           *)
LEMMA TaskStarts ==
    ASSUME DaemonOK, DaemonFollows, D!Poll \/ D!Fetch \/ D!Apply, pending' = TRUE, UNCHANGED emitted
    PROVE  DaemonOK' /\ DaemonFollows'
<1> USE DEF D!Poll, D!Fetch, D!Apply, D!Begin
<1>1. DaemonOK'
  BY DEF DaemonOK, States
<1>2. (\A op \in ops : ops = {op})'
  OBVIOUS
<1>3. ("poll" \in ops => state = "POLLING")' /\ ("fetch" \in ops => state = "FETCHING")'
      /\ ("apply" \in ops => state = "APPLYING_UPDATE")'
  OBVIOUS
<1>4. Follows(emitted, Exposed)'
  <2>1. Follows(emitted, Exposed) /\ update' = update /\ emitted' = emitted
    BY DEF DaemonFollows
  <2>2. state' \in Decided => state \in Decided
    BY DEF Decided
  <2> QED
    BY <2>1, <2>2 DEF Follows, Exposed
<1> QED
  BY <1>1, <1>2, <1>3, <1>4 DEF DaemonFollows

LEMMA TaskCancelled ==
    ASSUME DaemonOK, DaemonFollows, D!Cancel, pending' = TRUE, UNCHANGED emitted
    PROVE  DaemonOK' /\ DaemonFollows'
<1> USE DEF D!Cancel
<1>1. DaemonOK'
  BY DEF DaemonOK
<1>2. Follows(emitted, Exposed)'
  BY DEF DaemonFollows, Follows, Exposed
<1> QED
  BY <1>1, <1>2 DEF DaemonFollows

(* It ends after its start was emitted: a poll was then seen, and a fetch or an  *)
(* apply was seen with the update it ends with.                               *)
LEMMA TaskEnds ==
    ASSUME DaemonOK, DaemonFollows, Finish
    PROVE  DaemonOK' /\ DaemonFollows'
<1>1. /\ ~pending /\ pending' = TRUE /\ emitted' = emitted /\ update' \in Updates \cup {""}
      /\ up' = up /\ ops' = {} /\ cancel' = FALSE
      /\ D!EndPoll \/ D!EndFetch \/ D!EndApply
  BY DEF Finish, Touched, D!End
<1>2. emitted = Exposed
  BY <1>1 DEF DaemonFollows
<1>3. state' \in States
  BY <1>1 DEF D!EndPoll, D!EndFetch, D!EndApply, D!EndInError, States
<1>4. DaemonOK'
  BY <1>1, <1>3 DEF DaemonOK
<1>5. Follows(emitted, Exposed)'
  <2>1. CASE D!EndPoll
    <3>1. state = "POLLING"
      BY <2>1 DEF D!EndPoll, DaemonFollows
    <3> QED
      BY <1>1, <1>2, <3>1 DEF Follows, Exposed
  <2>2. CASE D!EndFetch
    <3>1. state = "FETCHING" /\ update' = update
      BY <2>2 DEF D!EndFetch, DaemonFollows
    <3> QED
      BY <1>1, <1>2, <3>1 DEF Follows, Exposed, Decided
  <2>3. CASE D!EndApply
    <3>1. state' \notin Decided
      BY <2>3 DEF D!EndApply, D!EndInError, Decided
    <3> QED
      BY <3>1 DEF Follows, Exposed
  <2> QED
    BY <1>1, <2>1, <2>2, <2>3
<1> QED
  BY <1>1, <1>4, <1>5 DEF DaemonFollows

LEMMA DaemonStep ==
    ASSUME IInv, [Next]_vars
    PROVE  DaemonOK' /\ DaemonFollows'
<1>1. DaemonOK /\ DaemonFollows
  BY DEF IInv, TypeOK, DaemonOK
<1>2. CASE HandleCall
  <2>1. ASSUME UNCHANGED <<daemon, pending, emitted>>, ahead' = IF pending THEN ahead - 1 ELSE ahead
        PROVE  DaemonOK' /\ DaemonFollows'
    BY <1>1, <2>1 DEF DaemonOK, DaemonFollows, daemon, Follows, Exposed
  <2>2. ASSUME NEW step, Method(step), step \in 1 .. 3
        PROVE  D!Poll \/ D!Fetch \/ D!Apply
    <3>1. step = 1 => D!Poll
      BY <2>2 DEF Method
    <3>2. step = 2 => D!Fetch
      BY <2>2 DEF Method
    <3>3. step = 3 => D!Apply
      BY <2>2 DEF Method
    <3> QED
      BY <2>2, <3>1, <3>2, <3>3
  <2>3. Head(calls).step \in 1 .. 3
    <3>1. calls \in Seq(Calls) /\ calls # <<>>
      BY <1>2 DEF IInv, TypeOK, Calls, HandleCall
    <3>2. Head(calls) \in Calls
      BY <3>1, HeadTailProperties
    <3> QED
      BY <3>2 DEF Calls
  <2>4. \/ Method(Head(calls).step) /\ pending' = TRUE /\ UNCHANGED emitted
        \/ UNCHANGED <<daemon, pending, emitted>> /\ ahead' = IF pending THEN ahead - 1 ELSE ahead
    BY <1>2 DEF HandleCall
  <2> QED
    BY <1>1, <2>1, <2>2, <2>3, <2>4, TaskStarts
<1>3. CASE OtherClient
  BY <1>1, <1>3, TaskStarts, TaskCancelled DEF OtherClient, Touched
<1>4. CASE Finish
  BY <1>1, <1>4, TaskEnds
<1>5. CASE Emit
  <2>1. Follows(Exposed, Exposed)
    BY FollowsItself
  <2>2. /\ UNCHANGED daemon /\ pending' = FALSE /\ ahead' = 0 /\ emitted' = Exposed
        /\ Exposed' = Exposed
    BY <1>5 DEF Emit, daemon, Exposed
  <2>3. DaemonOK'
    BY <1>1, <2>2, ExposedType DEF DaemonOK, daemon
  <2>4. Follows(emitted, Exposed)'
    BY <2>1, <2>2
  <2> QED
    BY <1>1, <2>2, <2>3, <2>4 DEF DaemonFollows, daemon
<1>6. CASE DaemonStarts
  <2>1. /\ up' = TRUE /\ state' \in {"READY", "ERROR"} /\ update' = "" /\ ops' = {} /\ cancel' = FALSE
        /\ pending' = FALSE /\ ahead' = 0 /\ emitted' = Exposed'
    BY <1>6 DEF DaemonStarts, D!Start
  <2>2. Exposed' \in Properties
    BY <2>1 DEF Exposed, Properties, States
  <2>3. Follows(emitted, Exposed)'
    BY <2>1 DEF Follows, Exposed, Decided
  <2> QED
    BY <2>1, <2>2, <2>3 DEF DaemonOK, DaemonFollows, States
<1>7. CASE DaemonStops
  <2>1. /\ up' = FALSE /\ state' = "NONE" /\ update' = "" /\ ops' = {} /\ cancel' = FALSE
        /\ pending' = FALSE /\ ahead' = 0 /\ emitted' = Blank
    BY <1>7 DEF DaemonStops, D!Stop
  <2>2. Exposed' = Blank
    BY <2>1 DEF Exposed, Blank
  <2>3. Follows(emitted, Exposed)'
    BY <2>1, <2>2, FollowsItself
  <2> QED
    BY <2>1, <2>2, <2>3, ResultsTypes DEF DaemonOK, DaemonFollows, States
<1>8. ASSUME UNCHANGED <<daemon, emission>>
      PROVE  DaemonOK' /\ DaemonFollows'
  BY <1>1, <1>8 DEF DaemonOK, DaemonFollows, daemon, emission, Follows, Exposed
<1>9. \/ HandleCall \/ OtherClient \/ Finish \/ Emit \/ DaemonStarts \/ DaemonStops
      \/ UNCHANGED <<daemon, emission>>
  BY DEF Next, Environment, Daemon, Program, Tick, Killed, FirstRun, main,
         initial_poll_idle_func, Dispatch, Exit, vars
<1> QED
  BY <1>2, <1>3, <1>4, <1>5, <1>6, <1>7, <1>8, <1>9

-----------------------------------------------------------------------------
(* What is seen, and when it is.                                             *)

LEMMA IdleSees ==
    ASSUME IInv, initial_poll_idle_func
    PROVE  \E s : Seen(s)
<1> DEFINE s == IF proxy.state = "ERROR" THEN "READY" ELSE proxy.state
<1>1. proxy \in Properties /\ Announced(proxy.update)
  BY DEF IInv, TypeOK, FoundBefore
<1>2. /\ proxy' = proxy /\ running /\ on_state_changed(s)
      /\ UNCHANGED <<running, now, found, lastStep, force>>
  BY DEF initial_poll_idle_func
<1>3. s \in States /\ (s = proxy.state \/ (s = "READY" /\ proxy.state = "ERROR"))
  BY <1>1, ResultsTypes DEF States
<1> HIDE DEF s
<1>4. Follows(proxy, proxy')
  BY <1>2, FollowsItself
<1>5. Seen(s)
  BY <1>1, <1>2, <1>3, <1>4 DEF Seen
<1> QED
  BY <1>5

(* The first message carries what is seen next, if it carries anything.         *)
LEMMA InboxHead ==
    ASSUME IInv, inbox # <<>>
    PROVE  /\ inbox \in Seq(Messages)
           /\ Head(inbox) \in Messages /\ Announced(Head(inbox).props.update)
<1>1. inbox \in Seq(Messages)
  BY DEF IInv, TypeOK, Messages
<1>2. 1 \in 1 .. Len(inbox) /\ Head(inbox) = inbox[1] /\ Head(inbox) \in Messages
  BY <1>1, HeadTailProperties, LenProperties, EmptySeq
<1> QED
  BY <1>1, <1>2 DEF IInv, FoundBefore

LEMMA DispatchSees ==
    ASSUME IInv, Dispatch
    PROVE  /\ proxy' = IF Head(inbox).kind = "changed" THEN Head(inbox).props ELSE proxy
           /\ proxy' \in Properties /\ Announced(proxy'.update) /\ Follows(proxy, proxy')
           /\ \/ Seen(proxy'.state)
              \/ /\ proxy'.state = proxy.state
                 /\ UNCHANGED <<previous, polled, known, results, failed, quit, calls, bound>>
              \/ /\ proxy' = proxy /\ failed' = TRUE /\ quit' = "ERROR"
                 /\ UNCHANGED <<previous, polled, known, results, calls, bound>>
<1>1. /\ inbox # <<>> /\ running
      /\ on_state_changed_notify \/ Fail
      /\ UNCHANGED <<running, now, found, lastStep, force>>
  BY DEF Dispatch
<1>2. /\ inbox \in Seq(Messages)
      /\ Head(inbox) \in Messages /\ Announced(Head(inbox).props.update)
  BY <1>1, InboxHead
<1>3. /\ proxy \in Properties /\ Announced(proxy.update) /\ Chained(proxy, inbox)
  BY DEF IInv, TypeOK, FoundBefore, ViewsFollow
<1>4. CASE on_state_changed_notify
  <2>1. Head(inbox).kind = "changed" /\ proxy' = Head(inbox).props /\ proxy' \in Properties
    BY <1>2, <1>4 DEF on_state_changed_notify, Messages
  <2>2. Follows(proxy, proxy')
    BY <1>1, <1>2, <1>3, <2>1, ChainedTail
  <2>3. Announced(proxy'.update)
    BY <1>2, <2>1
  <2>4. CASE on_state_changed(proxy'.state)
    <3>1. proxy'.state \in States
      BY <2>1, ResultsTypes
    <3>2. Seen(proxy'.state)
      BY <1>1, <2>1, <2>2, <2>3, <2>4, <3>1 DEF Seen
    <3> QED
      BY <2>1, <2>2, <2>3, <3>2
  <2>5. CASE /\ proxy'.state = proxy.state
             /\ UNCHANGED <<previous, polled, known, results, failed, quit, calls, bound>>
    BY <2>1, <2>2, <2>3, <2>5
  <2> QED
    BY <1>4, <2>4, <2>5 DEF on_state_changed_notify
<1>5. CASE Fail
  <2>1. /\ Head(inbox).kind # "changed" /\ proxy' = proxy /\ failed' = TRUE /\ quit' = "ERROR"
        /\ UNCHANGED <<previous, polled, known, results, calls, bound>>
    BY <1>5 DEF Fail
  <2> QED
    BY <1>3, <2>1, FollowsItself
<1> QED
  BY <1>1, <1>4, <1>5

-----------------------------------------------------------------------------
(* The calls on their way.                                                  *)

CallsOK == calls \in Seq(Calls) /\ ahead \in 0 .. Len(calls)

LEMMA CallMade ==
    ASSUME CallsOK, NEW step \in 1 .. 3, Made(step), ahead' = ahead
    PROVE  CallsOK' /\ Len(calls') = Len(calls) + 1
<1>1. [step |-> step, waiting |-> TRUE] \in Calls
  BY DEF Calls
<1>2. calls' \in Seq(Calls) /\ Len(calls') = Len(calls) + 1 /\ Len(calls) \in Nat
  BY <1>1, AppendProperties, LenProperties DEF CallsOK, Made
<1> QED
  BY <1>2 DEF CallsOK

LEMMA CallsLeft ==
    ASSUME CallsOK, Leave, ahead' = ahead
    PROVE  CallsOK' /\ Len(calls') <= Len(calls)
<1>1. PICK n \in 0 .. Len(calls) :
          /\ n >= ahead
          /\ calls' = [i \in 1 .. n |-> [calls[i] EXCEPT !.waiting = FALSE]]
  BY DEF Leave
<1>2. Len(calls) \in Nat /\ n \in Nat /\ \A i \in 1 .. n : calls[i] \in Calls
  BY LenProperties DEF CallsOK
<1>3. \A i \in 1 .. n : [calls[i] EXCEPT !.waiting = FALSE] \in Calls
  BY <1>2 DEF Calls
<1>4. calls' \in Seq(Calls) /\ Len(calls') = n
  BY <1>1, <1>2, <1>3, IsASeq
<1> QED
  BY <1>1, <1>2, <1>4 DEF CallsOK

LEMMA CallHandled ==
    ASSUME IInv, CallsOK, HandleCall
    PROVE  CallsOK' /\ Len(calls') < Len(calls)
<1>1. calls' = Tail(calls) /\ calls # <<>> /\ (pending => ahead > 0)
  BY DEF HandleCall
<1>2. calls' \in Seq(Calls) /\ Len(calls') = Len(calls) - 1 /\ Len(calls) \in Nat /\ Len(calls') \in Nat
  BY <1>1, HeadTailProperties, LenProperties DEF CallsOK
<1>3. ~pending => ahead = 0
  BY DEF IInv, DaemonFollows
<1>4. \/ pending /\ ahead' = ahead - 1
      \/ ~pending /\ (ahead' = Len(calls') \/ ahead' = ahead)
  BY DEF HandleCall
<1>5. ahead' \in 0 .. Len(calls')
  BY <1>1, <1>2, <1>3, <1>4 DEF CallsOK
<1> QED
  BY <1>2, <1>5 DEF CallsOK

(* Only the reaction to what is seen makes a call.                            *)
LEMMA CallsStep ==
    ASSUME IInv, [Next]_vars
    PROVE  /\ CallsOK'
           /\ \/ Len(calls') <= Len(calls)
              \/ \E s : Seen(s) /\ (initial_poll_idle_func \/ Dispatch)
<1>1. CallsOK
  BY DEF IInv, TypeOK, CallsOK, Calls
<1>2. Len(calls) \in Nat
  BY <1>1, LenProperties DEF CallsOK
<1>3. CASE HandleCall
  BY <1>1, <1>2, <1>3, CallHandled, LenProperties DEF CallsOK
<1>4. ASSUME calls' = calls, ahead' \in {0, ahead, Len(calls')}
      PROVE  CallsOK' /\ Len(calls') <= Len(calls)
  BY <1>1, <1>2, <1>4 DEF CallsOK
<1>5. ASSUME NEW s, Seen(s), ahead' = ahead
      PROVE  CallsOK'
  <2>1. calls' = calls \/ \E step \in 1 .. 3 : Made(step)
    BY <1>5, SeenActs
  <2> QED
    BY <1>1, <1>4, <1>5, <2>1, CallMade
<1>6. CASE initial_poll_idle_func
  <2>1. ahead' = ahead
    BY <1>6 DEF initial_poll_idle_func, emission
  <2> QED
    BY <1>5, <1>6, <2>1, IdleSees
<1>7. CASE Dispatch
  <2>1. ahead' = ahead
    BY <1>7 DEF Dispatch, emission
  <2>2. Seen(proxy'.state) \/ calls' = calls
    BY <1>7, DispatchSees
  <2> QED
    BY <1>4, <1>5, <1>7, <2>1, <2>2
<1>8. CASE Exit \/ Killed
  <2>1. Leave /\ ahead' = ahead
    BY <1>8 DEF Exit, Killed, emission
  <2> QED
    BY <1>1, <2>1, CallsLeft
<1>9. CASE \/ OtherClient \/ Finish \/ Emit \/ DaemonStarts \/ DaemonStops \/ Tick
           \/ FirstRun \/ main \/ UNCHANGED vars
  <2>1. calls' = calls /\ ahead' \in {0, ahead, Len(calls')}
    BY <1>9 DEF OtherClient, Finish, Touched, Emit, DaemonStarts, DaemonStops, Tick, FirstRun,
                main, emission, vars
  <2> QED
    BY <1>4, <2>1
<1> QED
  BY <1>3, <1>6, <1>7, <1>8, <1>9 DEF Next, Environment, Daemon, Program

-----------------------------------------------------------------------------
(* What is on its way to the program.                                        *)

InboxOK ==
    /\ inbox \in Seq(Messages)
    /\ ViewsFollow
    /\ \A i \in 1 .. Len(inbox) : Announced(inbox[i].props.update)

LEMMA MessageTypes ==
    /\ \A k \in {"lost", "refused"} :
          Message(k) \in Messages /\ Message(k).kind # "changed" /\ Announced(Message(k).props.update)
    /\ \A p \in Properties :
          Changed(p) \in Messages /\ Changed(p).kind = "changed" /\ Changed(p).props = p
  BY ResultsTypes DEF Message, Changed, Messages, Announced

(* A message is added to those on their way.                                 *)
Adds(m) == inbox' = Append(inbox, m)

LEMMA Added ==
    ASSUME NEW m \in Messages, inbox \in Seq(Messages), Adds(m)
    PROVE  /\ inbox' \in Seq(Messages)
           /\ Len(inbox) \in Nat /\ Len(inbox') = Len(inbox) + 1
           /\ \A i \in 1 .. Len(inbox') : i \in 1 .. Len(inbox) \/ i = Len(inbox) + 1
           /\ \A i \in 1 .. Len(inbox) : inbox'[i] = inbox[i]
           /\ inbox'[Len(inbox) + 1] = m
<1> DEFINE t == Append(inbox, m)
<1>1. t \in Seq(Messages) /\ Len(t) = Len(inbox) + 1 /\ Len(inbox) \in Nat
  BY AppendProperties, LenProperties
<1>2. (\A i \in 1 .. Len(inbox) : t[i] = inbox[i]) /\ t[Len(inbox) + 1] = m
  BY AppendProperties
<1>3. inbox' = t
  BY DEF Adds
<1> HIDE DEF t
<1> QED
  BY <1>1, <1>2, <1>3

(* A message that shows nothing is added.                                    *)
LEMMA OtherAdded ==
    ASSUME InboxOK, NEW m \in Messages, m.kind # "changed", Announced(m.props.update),
           Adds(m), running, UNCHANGED <<proxy, running, quit, emitted, found, now>>
    PROVE  InboxOK'
<1>1. inbox \in Seq(Messages) /\ Chained(proxy, inbox) /\ (quit = "" => EndsWith(proxy, inbox, emitted))
  BY DEF InboxOK, ViewsFollow
<1>2. /\ inbox' \in Seq(Messages)
      /\ Len(inbox') = Len(inbox) + 1 /\ Len(inbox) \in Nat
      /\ \A i \in 1 .. Len(inbox') : i \in 1 .. Len(inbox) \/ i = Len(inbox) + 1
      /\ \A i \in 1 .. Len(inbox) : inbox'[i] = inbox[i]
      /\ inbox'[Len(inbox) + 1] = m
  BY <1>1, Added
<1>3. Chained(proxy, inbox') /\ (quit = "" => EndsWith(proxy, inbox', emitted))
  BY <1>1, ChainedAppendOther DEF Adds
<1>4. \A i \in 1 .. Len(inbox') : Announced(inbox'[i].props.update)
  BY <1>2 DEF InboxOK
<1>5. (\A i \in 1 .. Len(inbox) : Announced(inbox[i].props.update))'
  BY <1>4 DEF Announced
<1>6. ViewsFollow'
  BY <1>3 DEF ViewsFollow
<1> QED
  BY <1>2, <1>5, <1>6 DEF InboxOK

(* What is emitted is added, for one that listens.                           *)
LEMMA ViewAdded ==
    ASSUME InboxOK, NEW q \in Properties, Follows(emitted, q), Announced(q.update),
           Adds(Changed(q)), emitted' = q,
           running, quit = "", UNCHANGED <<proxy, running, quit, found, now>>
    PROVE  InboxOK'
<1>1. inbox \in Seq(Messages) /\ Chained(proxy, inbox) /\ EndsWith(proxy, inbox, emitted)
  BY DEF InboxOK, ViewsFollow
<1>2. /\ inbox' \in Seq(Messages)
      /\ Len(inbox') = Len(inbox) + 1 /\ Len(inbox) \in Nat
      /\ \A i \in 1 .. Len(inbox') : i \in 1 .. Len(inbox) \/ i = Len(inbox) + 1
      /\ \A i \in 1 .. Len(inbox) : inbox'[i] = inbox[i]
      /\ inbox'[Len(inbox) + 1].props = q
  <2>1. Changed(q) \in Messages /\ Changed(q).props = q
    BY MessageTypes
  <2> QED
    BY <1>1, <2>1, Added
<1>3. Chained(proxy, inbox') /\ EndsWith(proxy, inbox', q)
  BY <1>1, ChainedAppendView DEF Adds
<1>4. \A i \in 1 .. Len(inbox') : Announced(inbox'[i].props.update)
  <2>1. \A i \in 1 .. Len(inbox) : Announced(inbox'[i].props.update)
    BY <1>2 DEF InboxOK
  <2> QED
    BY <1>2, <2>1
<1>5. (\A i \in 1 .. Len(inbox) : Announced(inbox[i].props.update))'
  BY <1>4 DEF Announced
<1>6. ViewsFollow'
  BY <1>3 DEF ViewsFollow
<1> QED
  BY <1>2, <1>5, <1>6 DEF InboxOK

(* One that does not listen sees nothing of it.                              *)
LEMMA NoneAdded ==
    ASSUME InboxOK, UNCHANGED <<inbox, proxy, running, quit, found, now>>,
           emitted' = emitted \/ ~(running /\ quit = "")
    PROVE  InboxOK'
  BY DEF InboxOK, ViewsFollow, Announced

LEMMA Sent ==
    ASSUME InboxOK
    PROVE  /\ Send(<<>>) => inbox' = inbox
           /\ \A m : Send(<<m>>) /\ m \in Messages =>
                 inbox' = IF running /\ quit = "" THEN Append(inbox, m) ELSE inbox
           /\ \A m, n : Send(<<m, n>>) /\ m \in Messages /\ n \in Messages =>
                 inbox' = IF running /\ quit = "" THEN Append(Append(inbox, m), n) ELSE inbox
<1>1. inbox \in Seq(Messages)
  BY DEF InboxOK
<1>2. inbox \o <<>> = inbox
  BY <1>1, ConcatEmptySeq
<1>3. ASSUME NEW m \in Messages PROVE inbox \o <<m>> = Append(inbox, m)
  BY <1>1, AppendIsConcat
<1>4. ASSUME NEW m \in Messages, NEW n \in Messages
      PROVE  inbox \o <<m, n>> = Append(Append(inbox, m), n)
  <2>1. Append(inbox, m) \in Seq(Messages) /\ <<m>> \in Seq(Messages) /\ <<n>> \in Seq(Messages)
    BY <1>1, AppendProperties
  <2>2. Append(Append(inbox, m), n) = (inbox \o <<m>>) \o <<n>>
    BY <1>3, <2>1, AppendIsConcat
  <2>3. (inbox \o <<m>>) \o <<n>> = inbox \o (<<m>> \o <<n>>)
    BY <1>1, <2>1, ConcatAssociative
  <2>4. <<m>> \o <<n>> = <<m, n>>
    <3>1. <<m>> \o <<n>> = Append(<<m>>, n)
      BY <2>1, AppendIsConcat
    <3>2. /\ Append(<<m>>, n) \in Seq(Messages) /\ Len(Append(<<m>>, n)) = 2
          /\ Append(<<m>>, n)[1] = m /\ Append(<<m>>, n)[2] = n
      BY <2>1, AppendProperties
    <3>3. <<m, n>> \in Seq(Messages) /\ Len(<<m, n>>) = 2 /\ <<m, n>>[1] = m /\ <<m, n>>[2] = n
      OBVIOUS
    <3>4. Append(<<m>>, n) = <<m, n>>
      <4> DEFINE a == Append(<<m>>, n)
                 b == <<m, n>>
      <4> HIDE DEF a, b
      <4>1. a \in Seq(Messages) /\ Len(a) = 2 /\ a[1] = m /\ a[2] = n
        BY <3>2 DEF a
      <4>2. b \in Seq(Messages) /\ Len(b) = 2 /\ b[1] = m /\ b[2] = n
        BY <3>3 DEF b
      <4>3. a = b
        BY <4>1, <4>2, SeqEqual
      <4> QED
        BY <4>3 DEF a, b
    <3> QED
      BY <3>1, <3>4
  <2> QED
    BY <2>2, <2>3, <2>4
<1> QED
  BY <1>2, <1>3, <1>4 DEF Send

LEMMA EmissionSent ==
    ASSUME InboxOK, NEW q \in Properties, Follows(emitted, q), Announced(q.update),
           Send(<<Changed(q)>>), emitted' = q, UNCHANGED <<proxy, running, quit, found, now>>
    PROVE  InboxOK'
<1>1. inbox' = IF running /\ quit = "" THEN Append(inbox, Changed(q)) ELSE inbox
  BY Sent, MessageTypes
<1> QED
  BY <1>1, ViewAdded, NoneAdded DEF Adds

-----------------------------------------------------------------------------
(* When the updates were found.                                              *)

(* A day found is kept, and what is announced has been found.                  *)
LEMMA FoundStep ==
    ASSUME IInv, [Next]_vars
    PROVE  /\ now' \in 0 .. MaxTime /\ now <= now'
           /\ found' \in [UserVisible -> -1 .. MaxTime]
           /\ \A u \in UserVisible : found'[u] \in -1 .. now'
           /\ \A u \in UserVisible : found[u] >= 0 => found'[u] = found[u]
           /\ Announced(update)'
<1>1. /\ now \in 0 .. MaxTime /\ found \in [UserVisible -> -1 .. MaxTime]
      /\ \A u \in UserVisible : found[u] \in -1 .. now
      /\ Announced(update) /\ MaxTime \in Nat
  BY ConfigAssumption DEF IInv, TypeOK, FoundBefore
<1>2. CASE Finish
  <2>1. /\ now' = now
        /\ found' = [u \in UserVisible |-> IF u = update' /\ found[u] = -1 THEN now ELSE found[u]]
    BY <1>2 DEF Finish
  <2>2. \A u \in UserVisible : found'[u] = IF u = update' /\ found[u] = -1 THEN now ELSE found[u]
    BY <2>1
  <2>3. found' \in [UserVisible -> -1 .. MaxTime]
    BY <1>1, <2>1
  <2>4. Announced(update)'
    <3>1. update' \in UserVisible => found'[update'] \in 0 .. now
      BY <1>1, <2>2
    <3> QED
      BY <2>1, <3>1 DEF Announced
  <2>5. (\A u \in UserVisible : found'[u] \in -1 .. now')
        /\ (\A u \in UserVisible : found[u] >= 0 => found'[u] = found[u])
    BY <1>1, <2>1, <2>2
  <2> QED
    BY <1>1, <2>1, <2>3, <2>4, <2>5
<1>3. CASE Tick
  <2>1. now' = now + 1 /\ now < MaxTime /\ found' = found /\ update' = update
    BY <1>3 DEF Tick, daemon
  <2> QED
    BY <1>1, <2>1 DEF Announced
<1>4. ASSUME now' = now, found' = found, update' \in {update, ""}
      PROVE  /\ now' \in 0 .. MaxTime /\ now <= now'
             /\ found' \in [UserVisible -> -1 .. MaxTime]
             /\ \A u \in UserVisible : found'[u] \in -1 .. now'
             /\ \A u \in UserVisible : found[u] >= 0 => found'[u] = found[u]
             /\ Announced(update)'
  <2>1. Announced(update)'
    BY <1>1, <1>4, UpdatesAssumption DEF Announced
  <2>2. now' \in 0 .. MaxTime /\ now <= now'
    <3>1. now \in 0 .. MaxTime /\ now' = now /\ MaxTime \in Nat
      BY ONLY <1>1, <1>4
    <3> QED
      BY ONLY <3>1
  <2>3. found' \in [UserVisible -> -1 .. MaxTime]
    BY <1>1, <1>4
  <2>4. /\ \A u \in UserVisible : found'[u] \in -1 .. now'
        /\ \A u \in UserVisible : found[u] >= 0 => found'[u] = found[u]
    BY <1>1, <1>4
  <2> QED
    BY <2>1, <2>2, <2>3, <2>4
<1>5. CASE HandleCall \/ OtherClient \/ DaemonStarts \/ DaemonStops
  <2>1. now' = now /\ found' = found
    BY <1>5 DEF HandleCall, OtherClient, DaemonStarts, DaemonStops
  <2>2. CASE HandleCall
    <3>1. Method(Head(calls).step) \/ update' = update
      BY <2>2 DEF HandleCall, daemon
    <3>2. calls \in Seq(Calls) /\ calls # <<>>
      BY <2>2 DEF IInv, TypeOK, Calls, HandleCall
    <3>3. Head(calls) \in Calls
      BY <3>2, HeadTailProperties
    <3>4. \A step \in 1 .. 3 : Method(step) => update' = update
      <4>1. D!Poll \/ D!Fetch \/ D!Apply => update' = update
        BY DEF D!Poll, D!Fetch, D!Apply, D!Begin
      <4>2. /\ Method(1) => D!Poll
            /\ Method(2) => D!Fetch
            /\ Method(3) => D!Apply
        BY DEF Method
      <4>3. 1 .. 3 = {1, 2, 3}
        OBVIOUS
      <4> QED
        BY <4>1, <4>2, <4>3
    <3>5. update' = update
      BY <3>1, <3>3, <3>4 DEF Calls
    <3> QED
      BY <1>4, <2>1, <3>5
  <2>3. CASE OtherClient
    <3>1. update' = update
      BY <2>3 DEF OtherClient, D!Poll, D!Fetch, D!Apply, D!Begin, D!Cancel
    <3> QED
      BY <1>4, <2>1, <3>1
  <2>4. CASE DaemonStarts \/ DaemonStops
    <3>1. update' = ""
      BY <2>4 DEF DaemonStarts, DaemonStops, D!Start, D!Stop
    <3> QED
      BY <1>4, <2>1, <3>1
  <2> QED
    BY <1>5, <2>2, <2>3, <2>4
<1>6. CASE Emit \/ FirstRun \/ main \/ Program \/ Killed \/ UNCHANGED vars
  <2>1. now' = now /\ found' = found /\ update' = update
    BY <1>6 DEF Emit, FirstRun, main, Program, initial_poll_idle_func, Dispatch, Exit, Killed,
                daemon, vars
  <2> QED
    BY <1>4, <2>1
<1> QED
  BY <1>2, <1>3, <1>5, <1>6 DEF Next, Environment, Daemon

LEMMA NowNat ==
    ASSUME IInv, [Next]_vars
    PROVE  now \in Nat /\ now' \in Nat
<1>1. now \in 0 .. MaxTime /\ now' \in 0 .. MaxTime
  BY FoundStep DEF IInv, TypeOK
<1> QED
  BY <1>1, ConfigAssumption

(* What was announced and dated remains so.                                  *)
LEMMA StillAnnounced ==
    ASSUME IInv, [Next]_vars, NEW u, Announced(u)
    PROVE  u \in UserVisible => found'[u] \in 0 .. now'
<1>1. now \in Nat /\ now' \in Nat
  BY NowNat
<1>2. CASE u \in UserVisible
  <2>1. found[u] \in 0 .. now
    BY <1>2 DEF Announced
  <2> QED
    BY <1>1, <1>2, <2>1, FoundStep
<1> QED
  BY <1>2

LEMMA StillDated ==
    ASSUME IInv, [Next]_vars, NEW r, Dated(r)
    PROVE  r # NoResults =>
              r.since \in 0 .. now' /\ (r.update \in UserVisible => found'[r.update] \in 0 .. r.since)
<1>1. now \in Nat /\ now' \in Nat
  BY NowNat
<1>2. CASE r # NoResults
  <2>1. r.since \in 0 .. now /\ (r.update \in UserVisible => found[r.update] \in 0 .. r.since)
    BY <1>2 DEF Dated
  <2>2. r.since \in 0 .. now'
    BY <1>1, <2>1, FoundStep
  <2>3. r.update \in UserVisible => found'[r.update] \in 0 .. r.since
    BY <1>1, <2>1, FoundStep
  <2> QED
    BY <2>2, <2>3
<1> QED
  BY <1>2

-----------------------------------------------------------------------------
(* What is on its way, over a step.                                          *)

(* The daemon is gone: nothing more is seen of it, and the program is told.     *)
LEMMA StopSent ==
    ASSUME InboxOK, Send(<<Changed(Blank), Message("lost")>>), emitted' = Blank,
           UNCHANGED <<proxy, running, quit, found, now>>
    PROVE  InboxOK'
<1> DEFINE t == Append(inbox, Changed(Blank))
           r == Append(t, Message("lost"))
<1>1. inbox \in Seq(Messages) /\ Chained(proxy, inbox)
  BY DEF InboxOK, ViewsFollow
<1>2. /\ Changed(Blank) \in Messages /\ Changed(Blank).props = Blank
      /\ Message("lost") \in Messages /\ Message("lost").kind # "changed"
      /\ Announced(Message("lost").props.update) /\ Announced(Blank.update)
      /\ Blank \in Properties /\ Follows(emitted, Blank)
  BY MessageTypes, ResultsTypes DEF Announced, Follows, Decided
<1>3. inbox' = IF running /\ quit = "" THEN r ELSE inbox
  BY <1>2, Sent
<1>4. CASE ~(running /\ quit = "")
  BY <1>3, <1>4, NoneAdded
<1>5. CASE running /\ quit = ""
  <2>1. EndsWith(proxy, inbox, emitted)
    BY <1>5 DEF InboxOK, ViewsFollow
  <2>2. t \in Seq(Messages) /\ Len(t) = Len(inbox) + 1 /\ Len(inbox) \in Nat
    BY <1>1, <1>2, AppendProperties, LenProperties
  <2>3. (\A i \in 1 .. Len(inbox) : t[i] = inbox[i]) /\ t[Len(inbox) + 1] = Changed(Blank)
    BY <1>1, <1>2, AppendProperties
  <2>4. Chained(proxy, t) /\ EndsWith(proxy, t, Blank)
    BY <1>1, <1>2, <2>1, ChainedAppendView
  <2> HIDE DEF t
  <2>5. r \in Seq(Messages) /\ Len(r) = Len(t) + 1 /\ Len(t) \in Nat
    BY <1>2, <2>2, AppendProperties, LenProperties
  <2>6. (\A i \in 1 .. Len(t) : r[i] = t[i]) /\ r[Len(t) + 1] = Message("lost")
    BY <1>2, <2>2, AppendProperties
  <2>7. Chained(proxy, r) /\ EndsWith(proxy, r, Blank)
    BY <1>2, <2>2, <2>4, ChainedAppendOther
  <2> HIDE DEF r
  <2>8. inbox' = r
    BY <1>3, <1>5
  <2>9. \A i \in 1 .. Len(t) : Announced(t[i].props.update)
    <3>1. \A i \in 1 .. Len(inbox) : Announced(t[i].props.update)
      BY <2>3 DEF InboxOK
    <3>2. Announced(t[Len(inbox) + 1].props.update)
      BY <1>2, <2>3
    <3> QED
      BY <2>2, <3>1, <3>2
  <2>10. \A i \in 1 .. Len(r) : Announced(r[i].props.update)
    <3>1. \A i \in 1 .. Len(t) : Announced(r[i].props.update)
      BY <2>6, <2>9
    <3>2. Announced(r[Len(t) + 1].props.update)
      BY <1>2, <2>6
    <3> QED
      BY <2>5, <3>1, <3>2
  <2>11. (\A i \in 1 .. Len(inbox) : Announced(inbox[i].props.update))'
    BY <2>8, <2>10 DEF Announced
  <2>12. ViewsFollow'
    BY <1>5, <2>7, <2>8 DEF ViewsFollow
  <2> QED
    BY <2>5, <2>8, <2>11, <2>12 DEF InboxOK
<1> QED
  BY <1>4, <1>5

(* The program takes a message.                                              *)
LEMMA MessageTaken ==
    ASSUME IInv, InboxOK, Dispatch
    PROVE  InboxOK'
<1>1. /\ running /\ inbox # <<>>
      /\ \/ (quit # "" \/ quit' = "") /\ inbox' = Tail(inbox)
         \/ /\ quit = "" /\ quit' # ""
            /\ \E n \in 1 .. Len(inbox) : inbox' = SubSeq(inbox, 2, n)
      /\ UNCHANGED <<running, emitted, found, now>>
  BY DEF Dispatch, emission
<1>2. inbox \in Seq(Messages) /\ Chained(proxy, inbox) /\ (quit = "" => EndsWith(proxy, inbox, emitted))
  BY <1>1 DEF InboxOK, ViewsFollow
<1>3. /\ Tail(inbox) \in Seq(Messages)
      /\ Len(inbox) \in Nat /\ Len(Tail(inbox)) = Len(inbox) - 1
      /\ \A i \in 1 .. Len(Tail(inbox)) : Tail(inbox)[i] = inbox[i + 1]
  BY <1>1, <1>2, HeadTailProperties, LenProperties
<1>4. PICK q : q = IF Head(inbox).kind = "changed" THEN Head(inbox).props ELSE proxy
  OBVIOUS
<1>5. proxy' = q
  BY <1>4, DispatchSees
<1>6. Chained(q, Tail(inbox)) /\ (quit = "" => EndsWith(q, Tail(inbox), emitted))
  BY <1>1, <1>2, <1>4, ChainedTail
<1>7. \A i \in 1 .. Len(Tail(inbox)) : Announced(Tail(inbox)[i].props.update)
  <2> SUFFICES ASSUME NEW i \in 1 .. Len(Tail(inbox))
               PROVE  Announced(Tail(inbox)[i].props.update)
    OBVIOUS
  <2>1. i + 1 \in 1 .. Len(inbox) /\ Tail(inbox)[i] = inbox[i + 1]
    BY <1>3
  <2> QED
    BY <2>1 DEF InboxOK
<1>8. CASE (quit # "" \/ quit' = "") /\ inbox' = Tail(inbox)
  <2>1. quit' = "" => quit = ""
    <3>1. quit' = quit \/ quit' # ""
      BY DispatchSees, SeenActs
    <3> QED
      BY <3>1
  <2>2. ViewsFollow'
    BY <1>1, <1>5, <1>6, <1>8, <2>1 DEF ViewsFollow
  <2>3. (\A i \in 1 .. Len(inbox) : Announced(inbox[i].props.update))'
    BY <1>1, <1>7, <1>8 DEF Announced
  <2> QED
    BY <1>3, <1>8, <2>2, <2>3 DEF InboxOK
<1>9. CASE quit' # "" /\ \E n \in 1 .. Len(inbox) : inbox' = SubSeq(inbox, 2, n)
  <2>1. PICK n \in 1 .. Len(inbox) : inbox' = SubSeq(inbox, 2, n)
    BY <1>9
  <2>2. \A i \in 2 .. n : inbox[i] \in Messages
    <3>1. \A i \in 2 .. n : i \in 1 .. Len(inbox)
      BY <1>3
    <3> QED
      BY <1>2, <3>1, ElementOfSeq
  <2>3. /\ SubSeq(inbox, 2, n) \in Seq(Messages)
        /\ Len(SubSeq(inbox, 2, n)) = n - 1
        /\ \A i \in 1 .. n - 1 : SubSeq(inbox, 2, n)[i] = inbox[i + 1]
    <3>1. /\ SubSeq(inbox, 2, n) \in Seq(Messages)
          /\ Len(SubSeq(inbox, 2, n)) = IF 2 <= n THEN n - 2 + 1 ELSE 0
          /\ \A i \in 1 .. n - 2 + 1 : SubSeq(inbox, 2, n)[i] = inbox[2 + i - 1]
      BY <1>3, <2>2, SubSeqProperties
    <3> QED
      BY <1>3, <3>1
  <2>4. /\ inbox' \in Seq(Messages) /\ Len(inbox') = n - 1
        /\ \A i \in 1 .. n - 1 : inbox'[i] = Tail(inbox)[i]
        /\ n - 1 \in 0 .. Len(Tail(inbox))
    BY <1>3, <2>1, <2>3
  <2>5. PICK t : t = inbox'
    OBVIOUS
  <2>6. Chained(q, t)
    BY <1>3, <1>6, <2>4, <2>5, ChainedPrefix
  <2>7. ViewsFollow'
    BY <1>1, <1>5, <1>9, <2>5, <2>6 DEF ViewsFollow
  <2>8. \A i \in 1 .. n - 1 : Announced(inbox'[i].props.update)
    BY <1>3, <1>7, <2>4
  <2>9. (\A i \in 1 .. Len(inbox) : Announced(inbox[i].props.update))'
    BY <1>1, <2>4, <2>8 DEF Announced
  <2> QED
    BY <2>4, <2>7, <2>9 DEF InboxOK
<1> QED
  BY <1>1, <1>8, <1>9

LEMMA InboxStep ==
    ASSUME IInv, [Next]_vars
    PROVE  InboxOK'
<1>1. InboxOK /\ emitted \in Properties
  BY DEF IInv, TypeOK, InboxOK, Messages, FoundBefore
<1>2. CASE HandleCall
  <2>1. UNCHANGED <<proxy, running, quit, emitted, found, now>>
    BY <1>2 DEF HandleCall, program
  <2>2. Send(<<>>) \/ Send(<<Message("refused")>>) \/ inbox' = inbox
    BY <1>2 DEF HandleCall
  <2>3. CASE inbox' = inbox
    BY <1>1, <2>1, <2>3, NoneAdded
  <2>4. CASE inbox' = Append(inbox, Message("refused")) /\ running
    BY <1>1, <2>1, <2>4, OtherAdded, MessageTypes DEF Adds
  <2>5. inbox' = inbox \/ (inbox' = Append(inbox, Message("refused")) /\ running)
    BY <1>1, <2>2, Sent, MessageTypes
  <2> QED
    BY <2>3, <2>4, <2>5
<1>3. CASE OtherClient \/ FirstRun
  <2>1. UNCHANGED <<inbox, proxy, running, quit, emitted, found, now>>
    BY <1>3 DEF OtherClient, Touched, FirstRun, emission, program
  <2> QED
    BY <1>1, <2>1, NoneAdded
<1>4. CASE Finish \/ Tick
  <2>1. UNCHANGED <<inbox, proxy, running, quit, emitted>>
    BY <1>4 DEF Finish, Touched, Tick, emission, program
  <2>2. \A i \in 1 .. Len(inbox) :
           inbox[i].props.update \in UserVisible => found'[inbox[i].props.update] \in 0 .. now'
    BY <1>1, StillAnnounced DEF InboxOK
  <2>3. (\A i \in 1 .. Len(inbox) : Announced(inbox[i].props.update))'
    BY <2>1, <2>2 DEF Announced
  <2>4. ViewsFollow'
    BY <1>1, <2>1 DEF InboxOK, ViewsFollow
  <2> QED
    BY <1>1, <2>1, <2>3, <2>4 DEF InboxOK
<1>5. CASE Emit
  <2>1. /\ UNCHANGED <<proxy, running, quit, found, now>> /\ emitted' = Exposed
        /\ Send(IF Exposed # emitted THEN <<Changed(Exposed)>> ELSE <<>>)
    BY <1>5 DEF Emit, program
  <2>2. PICK q : q = Exposed
    OBVIOUS
  <2>3. q \in Properties /\ Follows(emitted, q) /\ q.update = update /\ Announced(q.update)
    BY <2>2, ExposedType DEF IInv, TypeOK, DaemonOK, DaemonFollows, Exposed, FoundBefore
  <2>4. CASE q = emitted
    <3>1. inbox' = inbox
      BY <1>1, <2>1, <2>2, <2>4, Sent
    <3> QED
      BY <1>1, <2>1, <2>2, <2>4, <3>1, NoneAdded
  <2>5. CASE q # emitted
    <3>1. Send(<<Changed(q)>>)
      BY <2>1, <2>2, <2>5
    <3> QED
      BY <1>1, <2>1, <2>2, <2>3, <3>1, EmissionSent
  <2> QED
    BY <2>4, <2>5
<1>6. CASE DaemonStarts
  <2>1. /\ UNCHANGED <<proxy, running, quit, found, now>> /\ emitted' = Exposed'
        /\ Send(<<Changed(Exposed')>>)
        /\ state' \in {"READY", "ERROR"} /\ update' = ""
    BY <1>6 DEF DaemonStarts, D!Start, program
  <2>2. PICK q : q = Exposed'
    OBVIOUS
  <2>3. q \in Properties /\ Follows(emitted, q) /\ Announced(q.update)
    BY <2>1, <2>2, UpdatesAssumption DEF Exposed, Properties, States, Follows, Decided, Announced
  <2> QED
    BY <1>1, <2>1, <2>2, <2>3, EmissionSent
<1>7. CASE DaemonStops
  BY <1>1, <1>7, StopSent DEF DaemonStops, program
<1>8. CASE main
  <2>1. /\ ~running /\ ~pending /\ running' = TRUE /\ proxy' = Exposed /\ quit' = ""
        /\ UNCHANGED <<inbox, emitted, found, now>>
    BY <1>8 DEF main, emission
  <2>2. inbox = <<>> /\ emitted = Exposed
    BY <2>1 DEF IInv, ViewsFollow, DaemonFollows
  <2>3. ViewsFollow'
    BY <2>1, <2>2, ChainedEmpty DEF ViewsFollow
  <2> QED
    BY <1>1, <2>1, <2>3 DEF InboxOK, Announced
<1>9. CASE initial_poll_idle_func
  <2>1. /\ running /\ quit = "" /\ inbox' = IF quit' = "" THEN inbox ELSE <<>>
        /\ UNCHANGED <<proxy, running, emitted, found, now>>
    BY <1>9 DEF initial_poll_idle_func, emission
  <2>2. CASE quit' = ""
    BY <1>1, <2>1, <2>2, NoneAdded
  <2>3. CASE quit' # ""
    <3>1. inbox' = <<>> /\ Len(<<>>) = 0 /\ <<>> \in Seq(Messages)
      BY <2>1, <2>3, EmptySeq
    <3>2. ViewsFollow'
      BY <2>1, <2>3, <3>1, ChainedEmpty DEF ViewsFollow
    <3> QED
      BY <3>1, <3>2 DEF InboxOK
  <2> QED
    BY <2>2, <2>3
<1>10. CASE Dispatch
  BY <1>1, <1>10, MessageTaken
<1>11. CASE Exit \/ Killed
  <2>1. running' = FALSE /\ inbox' = <<>> /\ proxy' = Blank
    BY <1>11 DEF Exit, Killed, Leave
  <2>2. Len(<<>>) = 0 /\ <<>> \in Seq(Messages)
    BY EmptySeq
  <2>3. ViewsFollow'
    BY <2>1, ChainedEmpty DEF ViewsFollow
  <2> QED
    BY <2>1, <2>2, <2>3 DEF InboxOK
<1>12. CASE UNCHANGED vars
  <2>1. UNCHANGED <<inbox, proxy, running, quit, emitted, found, now>>
    BY <1>12 DEF vars, emission, program
  <2> QED
    BY <1>1, <2>1, NoneAdded
<1> QED
  BY <1>2, <1>3, <1>4, <1>5, <1>6, <1>7, <1>8, <1>9, <1>10, <1>11, <1>12
     DEF Next, Environment, Daemon, Program

-----------------------------------------------------------------------------
(* The program.                                                             *)

ProgramOK ==
    /\ proxy \in Properties /\ results \in Results /\ known \in Results
    /\ lastStep \in 0 .. 3 /\ previous \in States /\ quit \in States \cup {""}
    /\ running \in BOOLEAN /\ force \in BOOLEAN /\ idle \in BOOLEAN
    /\ polled \in BOOLEAN /\ failed \in BOOLEAN

(* What the program's part of the invariant says.                            *)
ProgramInv ==
    /\ ProgramOK /\ KnownFollows /\ QuitAtRest
    /\ Announced(proxy.update) /\ Dated(results) /\ Dated(known)

LEMMA ProgramRests ==
    ASSUME IInv, [Next]_vars, ProgramInv, UNCHANGED <<program, results, lastStep>>
    PROVE  ProgramInv'
<1>1. UNCHANGED <<running, force, proxy, idle, previous, polled, known, failed, quit, results, lastStep>>
  BY DEF program
<1>2. ProgramOK'
  BY <1>1 DEF ProgramInv, ProgramOK
<1>3. KnownFollows'
  BY <1>1 DEF ProgramInv, KnownFollows
<1>4. QuitAtRest'
  BY <1>1 DEF ProgramInv, QuitAtRest, Rest, Held
<1>5. Announced(proxy.update)'
  BY <1>1, StillAnnounced DEF ProgramInv, Announced
<1>6. Dated(results)' /\ Dated(known)'
  BY <1>1, StillDated DEF ProgramInv, Dated
<1> QED
  BY <1>2, <1>3, <1>4, <1>5, <1>6 DEF ProgramInv

LEMMA ProgramStarts ==
    ASSUME IInv, [Next]_vars, ProgramInv, main
    PROVE  ProgramInv'
<1>1. /\ running' = TRUE /\ force' \in BOOLEAN /\ proxy' = Exposed /\ idle' = TRUE /\ previous' = "NONE"
      /\ polled' = FALSE /\ known' = NoResults /\ failed' = FALSE /\ quit' = ""
      /\ UNCHANGED <<now, found, results, lastStep, update>>
  BY DEF main, daemon, files
<1>2. Exposed \in Properties /\ Exposed.update = update
  BY ExposedType DEF IInv, TypeOK, DaemonOK, Exposed
<1>3. ProgramOK'
  BY <1>1, <1>2, ResultsTypes DEF ProgramInv, ProgramOK, States
<1>4. KnownFollows' /\ QuitAtRest'
  BY <1>1 DEF KnownFollows, QuitAtRest
<1>5. Announced(proxy.update)'
  BY <1>1, <1>2 DEF IInv, FoundBefore, Announced
<1>6. Dated(results)' /\ Dated(known)'
  BY <1>1 DEF ProgramInv, Dated
<1> QED
  BY <1>3, <1>4, <1>5, <1>6 DEF ProgramInv

LEMMA ProgramLeaves ==
    ASSUME IInv, ProgramInv, Leave, UNCHANGED <<now, found, results, lastStep>>
    PROVE  ProgramInv'
<1>1. /\ running' = FALSE /\ force' = FALSE /\ proxy' = Blank /\ idle' = FALSE /\ previous' = "NONE"
      /\ polled' = FALSE /\ known' = NoResults /\ failed' = FALSE /\ quit' = ""
  BY DEF Leave
<1>2. ProgramOK'
  BY <1>1, ResultsTypes DEF ProgramInv, ProgramOK, States
<1>3. KnownFollows' /\ QuitAtRest'
  BY <1>1 DEF KnownFollows, QuitAtRest
<1>4. Announced(proxy.update)'
  BY <1>1, ResultsTypes DEF Announced
<1>5. Dated(results)' /\ Dated(known)'
  BY <1>1 DEF ProgramInv, Dated
<1> QED
  BY <1>2, <1>3, <1>4, <1>5 DEF ProgramInv

(* It reacts to what it has seen.                                            *)
LEMMA ProgramReacts ==
    ASSUME IInv, ProgramInv, NEW s, Seen(s), idle' \in BOOLEAN
    PROVE  ProgramInv'
<1>1. /\ running /\ running' = running /\ now' = now /\ found' = found
      /\ lastStep' = lastStep /\ force' = force
      /\ proxy' \in Properties /\ Announced(proxy'.update) /\ s \in States
      /\ s = proxy'.state \/ (s = "READY" /\ proxy'.state = "ERROR")
  BY DEF Seen
<1>2. /\ previous' = s /\ results' \in Results /\ Dated(results')
      /\ known' \in Results /\ Dated(known')
      /\ known' # NoResults /\ proxy'.state \in Decided => known'.update = proxy'.update
  BY SeenKnown
<1>3. polled' \in BOOLEAN /\ failed' \in BOOLEAN /\ quit' \in States \cup {""}
  <2>1. quit' = quit \/ quit' = s
    BY SeenActs
  <2>2. polled' \in BOOLEAN /\ failed' \in BOOLEAN
    BY SeenActs
  <2> QED
    BY <1>1, <2>1, <2>2 DEF ProgramInv, ProgramOK
<1>4. ProgramOK'
  <2>1. running' \in BOOLEAN /\ force' \in BOOLEAN
    BY <1>1, Zenon DEF ProgramInv, ProgramOK
  <2> QED
    BY <1>1, <1>2, <1>3, <2>1 DEF ProgramInv, ProgramOK
<1>5. KnownFollows'
  BY <1>1, <1>2 DEF KnownFollows
<1>6. QuitAtRest'
  BY SeenRest
<1>7. Announced(proxy.update)'
  BY <1>1 DEF Announced
<1>8. Dated(results)' /\ Dated(known)'
  BY <1>1, <1>2 DEF Dated
<1> QED
  BY <1>4, <1>5, <1>6, <1>7, <1>8 DEF ProgramInv

LEMMA ProgramDispatches ==
    ASSUME IInv, ProgramInv, Dispatch
    PROVE  ProgramInv'
<1>1. /\ running /\ UNCHANGED <<running, force, idle, now, found, lastStep>>
  BY DEF Dispatch
<1>2. proxy' \in Properties /\ Announced(proxy'.update) /\ Follows(proxy, proxy')
  BY DispatchSees
<1>3. running' \in BOOLEAN /\ force' \in BOOLEAN /\ idle' \in BOOLEAN
  BY <1>1, Zenon DEF ProgramInv, ProgramOK
<1>4. CASE Seen(proxy'.state)
  <2>1. PICK s : s = proxy'.state
    OBVIOUS
  <2>2. Seen(s)
    BY <1>4, <2>1
  <2> QED
    BY <1>3, <2>2, ProgramReacts
<1>5. CASE /\ proxy'.state = proxy.state
           /\ UNCHANGED <<previous, polled, known, results, failed, quit, calls, bound>>
  <2>1. ProgramOK'
    BY <1>1, <1>2, <1>5 DEF ProgramInv, ProgramOK
  <2>2. KnownFollows'
    <3>1. proxy'.state \in Decided => proxy'.update = proxy.update
      BY <1>2, <1>5 DEF Follows, Decided
    <3> QED
      BY <1>1, <1>5, <3>1 DEF ProgramInv, KnownFollows
  <2>3. QuitAtRest'
    BY <1>1, <1>5 DEF ProgramInv, QuitAtRest, Rest, Held
  <2>4. Announced(proxy.update)' /\ Dated(results)' /\ Dated(known)'
    BY <1>1, <1>2, <1>5 DEF ProgramInv, Announced, Dated
  <2> QED
    BY <2>1, <2>2, <2>3, <2>4 DEF ProgramInv
<1>6. CASE /\ proxy' = proxy /\ failed' = TRUE /\ quit' = "ERROR"
           /\ UNCHANGED <<previous, polled, known, results, calls, bound>>
  <2>1. ProgramOK'
    BY <1>1, <1>2, <1>6 DEF ProgramInv, ProgramOK, States
  <2>2. KnownFollows'
    BY <1>1, <1>6 DEF ProgramInv, KnownFollows
  <2>3. QuitAtRest'
    BY <1>6 DEF QuitAtRest
  <2>4. Announced(proxy.update)' /\ Dated(results)' /\ Dated(known)'
    BY <1>1, <1>2, <1>6 DEF ProgramInv, Announced, Dated
  <2> QED
    BY <2>1, <2>2, <2>3, <2>4 DEF ProgramInv
<1> QED
  BY <1>4, <1>5, <1>6, DispatchSees

LEMMA ProgramStep ==
    ASSUME IInv, [Next]_vars
    PROVE  ProgramInv'
<1>1. ProgramInv
  BY DEF IInv, TypeOK, FoundBefore, ProgramInv, ProgramOK
<1>2. CASE main
  BY <1>1, <1>2, ProgramStarts
<1>3. CASE initial_poll_idle_func
  <2>1. idle' = FALSE /\ proxy' = proxy
    BY <1>3 DEF initial_poll_idle_func
  <2>2. PICK s : Seen(s)
    BY <1>3, IdleSees
  <2> QED
    BY <1>1, <2>1, <2>2, ProgramReacts
<1>4. CASE Dispatch
  BY <1>1, <1>4, ProgramDispatches
<1>5. CASE Exit \/ Killed
  <2>1. Leave /\ UNCHANGED <<now, found, results, lastStep>>
    BY <1>5 DEF Exit, Killed, files
  <2> QED
    BY <1>1, <2>1, ProgramLeaves
<1>6. CASE \/ HandleCall \/ OtherClient \/ Finish \/ Emit \/ DaemonStarts \/ DaemonStops
           \/ Tick \/ FirstRun \/ UNCHANGED vars
  <2>1. UNCHANGED <<program, results, lastStep>>
    BY <1>6 DEF HandleCall, OtherClient, Finish, Emit, DaemonStarts, DaemonStops, Tick, FirstRun,
                files, vars
  <2> QED
    BY <1>1, <2>1, ProgramRests
<1> QED
  BY <1>2, <1>3, <1>4, <1>5, <1>6 DEF Next, Environment, Daemon, Program

-----------------------------------------------------------------------------
(* The stamp and the bound, and what was emitted.                             *)

StampOK ==
    /\ bound \in 0 .. MaxDisturbances
    /\ stamp \in -1 .. MaxTime + RandomizedDelay /\ success \in -1 .. MaxTime

(* The stamp is written with a time that is not past the delay.                *)
LEMMA StampWritten ==
    ASSUME StampOK, now \in 0 .. MaxTime, NEW time \in 0 .. now, update_stamp_file(time)
    PROVE  /\ bound' \in 0 .. MaxDisturbances
           /\ stamp' \in -1 .. MaxTime + RandomizedDelay
           /\ stamp' # stamp => stamp' \in time .. time + RandomizedDelay \/ stamp' = now
<1>1. RandomizedDelay \in Nat /\ MaxTime \in Nat /\ MaxDisturbances \in Nat
  BY ConfigAssumption
<1>2. time \in Nat /\ time <= now /\ now <= MaxTime /\ now \in Nat
  BY <1>1
<1>3. bound' \in 0 .. MaxDisturbances
  <2>1. bound' = bound \/ (bound < MaxDisturbances /\ bound' = bound + 1)
    BY DEF update_stamp_file, Smooth, Disturbance
  <2> QED
    BY <1>1, <2>1 DEF StampOK
<1>4. CASE \E d \in 0 .. RandomizedDelay : stamp' = time + d
  <2>1. PICK d \in 0 .. RandomizedDelay : stamp' = time + d
    BY <1>4
  <2> QED
    BY <1>1, <1>2, <1>3, <2>1
<1>5. CASE stamp' \in {stamp, now}
  BY <1>1, <1>2, <1>3, <1>5 DEF StampOK
<1>6. (\E d \in 0 .. RandomizedDelay : stamp' = time + d) \/ stamp' \in {stamp, now}
  BY DEF update_stamp_file, StampTimes
<1> QED
  BY <1>4, <1>5, <1>6

LEMMA StampStep ==
    ASSUME IInv, [Next]_vars
    PROVE  StampOK'
<1>1. StampOK /\ now \in 0 .. MaxTime
  BY DEF IInv, TypeOK, StampOK
<1>2. /\ RandomizedDelay \in Nat /\ MaxTime \in Nat /\ MaxDisturbances \in Nat
      /\ Interval \in Nat /\ now \in Nat
  BY <1>1, ConfigAssumption
<1>3. CASE FirstRun
  <2>1. PICK time : time = IF now >= Interval THEN now - Interval ELSE now
    OBVIOUS
  <2>2. time \in 0 .. now
    BY <1>2, <2>1
  <2>3. update_stamp_file(time) /\ success' = success
    BY <1>3, <2>1 DEF FirstRun
  <2> QED
    BY <1>1, <2>2, <2>3, StampWritten DEF StampOK
<1>4. CASE Exit
  <2>1. CASE UNCHANGED <<stamp, success, bound>>
    BY <1>1, <2>1 DEF StampOK
  <2>2. CASE update_stamp_file(now) /\ success' = IF stamp' = stamp THEN success ELSE now
    <3>1. now \in 0 .. now
      BY <1>2
    <3>2. success' \in -1 .. MaxTime
      BY <1>1, <1>2, <2>2 DEF StampOK
    <3> QED
      BY <1>1, <2>2, <3>1, <3>2, StampWritten DEF StampOK
  <2> QED
    BY <1>4, <2>1, <2>2 DEF Exit
<1>5. CASE initial_poll_idle_func \/ Dispatch
  <2>1. UNCHANGED <<stamp, success>>
    BY <1>5 DEF initial_poll_idle_func, Dispatch
  <2>2. bound' \in 0 .. MaxDisturbances
    <3>1. \A s : Seen(s) => bound' \in 0 .. MaxDisturbances
      BY SeenKnown
    <3>2. bound' = bound \/ bound' \in 0 .. MaxDisturbances
      BY <1>5, <3>1, IdleSees, DispatchSees
    <3> QED
      BY <1>1, <3>2 DEF StampOK
  <2> QED
    BY <1>1, <2>1, <2>2 DEF StampOK
<1>6. CASE \/ HandleCall \/ OtherClient \/ Finish \/ Emit \/ DaemonStarts \/ DaemonStops
           \/ Tick \/ main \/ Killed \/ UNCHANGED vars
  <2>1. UNCHANGED <<stamp, success>>
    BY <1>6 DEF HandleCall, OtherClient, Finish, Emit, DaemonStarts, DaemonStops, Tick, main, Killed,
                files, vars
  <2>2. bound' = bound \/ (bound < MaxDisturbances /\ bound' = bound + 1)
    BY <1>6 DEF HandleCall, OtherClient, Finish, Emit, DaemonStarts, DaemonStops, Tick, main, Killed,
                is_time_to_update, Smooth, Disturbance, vars
  <2>3. bound' \in 0 .. MaxDisturbances
    BY <1>1, <1>2, <2>2 DEF StampOK
  <2> QED
    BY <1>1, <2>1, <2>3 DEF StampOK
<1> QED
  BY <1>3, <1>4, <1>5, <1>6 DEF Next, Environment, Daemon, Program

(* What is emitted has been announced.                                       *)
LEMMA EmittedStep ==
    ASSUME IInv, [Next]_vars
    PROVE  Announced(emitted.update)'
<1>1. /\ Announced(emitted.update) /\ Announced(update) /\ Announced(update)'
  BY FoundStep DEF IInv, FoundBefore
<1>2. CASE Emit
  <2>1. emitted'.update = update'
    BY <1>2 DEF Emit, Exposed, daemon
  <2> QED
    BY <1>1, <2>1 DEF Announced
<1>3. CASE DaemonStarts
  <2>1. emitted'.update = update'
    BY <1>3 DEF DaemonStarts, Exposed
  <2> QED
    BY <1>1, <2>1 DEF Announced
<1>4. CASE DaemonStops
  <2>1. emitted'.update = ""
    BY <1>4, ResultsTypes DEF DaemonStops
  <2> QED
    BY <2>1, UpdatesAssumption DEF Announced
<1>5. CASE emitted' = emitted
  BY <1>1, <1>5, StillAnnounced DEF Announced
<1>6. Emit \/ DaemonStarts \/ DaemonStops \/ emitted' = emitted
  BY DEF Next, Environment, Daemon, Program, HandleCall, OtherClient, Finish, Touched, Tick, Killed,
         FirstRun, main, initial_poll_idle_func, Dispatch, Exit, emission, vars
<1> QED
  BY <1>2, <1>3, <1>4, <1>5, <1>6

-----------------------------------------------------------------------------
(* The invariant and what follows from it.                                    *)

LEMMA InitIInv == Init => IInv
<1> SUFFICES ASSUME Init PROVE IInv
  OBVIOUS
<1> USE DEF Init
<1>1. /\ RandomizedDelay \in Nat /\ MaxTime \in Nat /\ MaxDisturbances \in Nat
      /\ LastSteps \subseteq 0 .. 3
  BY ConfigAssumption
<1>2. /\ up = FALSE /\ state = "NONE" /\ update = "" /\ ops = {} /\ cancel = FALSE
  BY DEF D!Init
<1>3. Len(calls) = 0 /\ calls \in Seq(Calls) /\ inbox \in Seq(Messages) /\ Len(inbox) = 0
  BY EmptySeq
<1>4. found \in [UserVisible -> -1 .. MaxTime] /\ (\A u \in UserVisible : found[u] \in -1 .. now)
  <2>1. -1 \in -1 .. MaxTime /\ -1 \in -1 .. 0
    BY ONLY <1>1
  <2>2. now = 0 /\ found = [u \in UserVisible |-> -1]
    OBVIOUS
  <2> QED
    BY ONLY <2>1, <2>2
<1>5. TypeOK
  <2>1. /\ state \in States /\ update \in Updates \cup {""} /\ ops \subseteq {"poll", "fetch", "apply"}
        /\ {emitted, proxy} \subseteq Properties
        /\ previous \in States /\ quit \in States \cup {""}
    BY <1>2, ResultsTypes DEF States
  <2>2. /\ now \in 0 .. MaxTime /\ bound \in 0 .. MaxDisturbances
        /\ stamp \in -1 .. MaxTime + RandomizedDelay /\ success \in -1 .. MaxTime
        /\ lastStep \in 0 .. 3
    <3>1. now = 0 /\ bound = 0 /\ stamp = -1 /\ success = -1 /\ lastStep \in LastSteps
      OBVIOUS
    <3> QED
      BY ONLY <1>1, <3>1
  <2>3. {results, known} \subseteq Results
    BY ResultsTypes
  <2>4. {up, cancel, pending, running, force, idle, polled, failed} \subseteq BOOLEAN
    BY <1>2
  <2>5. ahead \in 0 .. Len(calls)
    <3>1. ahead = 0
      OBVIOUS
    <3> QED
      BY ONLY <1>3, <3>1
  <2> QED
    BY <1>3, <1>4, <2>1, <2>2, <2>3, <2>4, <2>5 DEF TypeOK, Calls, Messages
<1>6. DaemonFollows
  BY <1>2, FollowsItself DEF DaemonFollows, Exposed, Blank
<1>7. ViewsFollow /\ KnownFollows /\ QuitAtRest
  BY ChainedEmpty DEF ViewsFollow, KnownFollows, QuitAtRest
<1>8. FoundBefore
  <2>1. Announced(update) /\ Announced(emitted.update) /\ Announced(proxy.update)
    BY <1>2, ResultsTypes DEF Announced
  <2>2. Dated(results) /\ Dated(known)
    BY DEF Dated
  <2> QED
    BY ONLY <1>3, <1>4, <2>1, <2>2 DEF FoundBefore
<1> QED
  BY <1>5, <1>6, <1>7, <1>8 DEF IInv

LEMMA NextIInv == IInv /\ [Next]_vars => IInv'
<1> SUFFICES ASSUME IInv, [Next]_vars PROVE IInv'
  OBVIOUS
<1>1. DaemonOK' /\ DaemonFollows'
  BY DaemonStep
<1>2. CallsOK' /\ InboxOK' /\ ProgramInv' /\ StampOK'
  BY CallsStep, InboxStep, ProgramStep, StampStep
<1>3. /\ now' \in 0 .. MaxTime /\ found' \in [UserVisible -> -1 .. MaxTime]
      /\ (\A u \in UserVisible : found'[u] \in -1 .. now') /\ Announced(update)'
  BY FoundStep
<1>4. TypeOK'
  <2>1. (/\ state \in States /\ update \in Updates \cup {""} /\ ops \subseteq {"poll", "fetch", "apply"}
         /\ {emitted, proxy} \subseteq Properties
         /\ {results, known} \subseteq Results)'
    BY <1>1, <1>2 DEF DaemonOK, ProgramInv, ProgramOK
  <2>2. (/\ bound \in 0 .. MaxDisturbances
         /\ stamp \in -1 .. MaxTime + RandomizedDelay /\ success \in -1 .. MaxTime
         /\ lastStep \in 0 .. 3 /\ previous \in States /\ quit \in States \cup {""})'
    BY <1>2 DEF StampOK, ProgramInv, ProgramOK
  <2>3. (/\ calls \in Seq([step : 1..3, waiting : BOOLEAN])
         /\ inbox \in Seq([kind : {"changed", "lost", "refused"}, props : Properties])
         /\ ahead \in 0..Len(calls))'
    BY <1>2 DEF CallsOK, InboxOK, Calls, Messages
  <2>4. ({up, cancel, pending, running, force, idle, polled, failed} \subseteq BOOLEAN)'
    BY <1>1, <1>2 DEF DaemonOK, ProgramInv, ProgramOK
  <2> QED
    BY <1>3, <2>1, <2>2, <2>3, <2>4 DEF TypeOK
<1>5. FoundBefore'
  BY <1>2, <1>3, EmittedStep DEF FoundBefore, InboxOK, ProgramInv
<1> QED
  BY <1>1, <1>2, <1>4, <1>5 DEF IInv, InboxOK, ProgramInv

THEOREM Invariance == Spec => []IInv
<1>1. Init => IInv
  BY InitIInv
<1>2. IInv /\ [Next]_vars => IInv'
  BY NextIInv
<1> QED
  BY <1>1, <1>2, PTL DEF Spec

(* Every variable holds what its declaration allows: a call the main loop is     *)
(* to dispatch before it emits is one that is on its way.                     *)
THEOREM TypeCorrect == Spec => []TypeOK
<1>1. IInv => TypeOK
  BY DEF IInv
<1> QED
  BY <1>1, Invariance, PTL

(* When the program decides on an update, the poll results it decides by are     *)
(* those of that update (the assertion in do_update_step).                     *)
THEOREM ResultsOfUpdate == Spec => []ResultsAreOfUpdate
<1>1. IInv => ResultsAreOfUpdate
  <2> SUFFICES ASSUME IInv, running, known # NoResults, previous \in Decided
               PROVE  known.update = proxy.update
    BY DEF ResultsAreOfUpdate, Decided
  <2>1. previous = proxy.state
    BY DEF IInv, KnownFollows, Decided
  <2> QED
    BY <2>1 DEF IInv, KnownFollows
<1> QED
  BY <1>1, Invariance, PTL

(* No update that is user visible is applied, unforced, before the delay has     *)
(* passed since it was found, whatever is restarted meanwhile.                 *)
THEOREM DelayIsRespected == Spec => DelayRespected
<1> DEFINE A == ApplyCalled /\ ~force /\ proxy'.update \in UserVisible =>
                   /\ known' # NoResults
                   /\ now >= found[proxy'.update] + UserVisibleDelay
<1>1. IInv /\ [Next]_vars => A
  <2> SUFFICES ASSUME IInv, [Next]_vars, ApplyCalled, ~force, proxy'.update \in UserVisible
               PROVE  /\ known' # NoResults
                      /\ now >= found[proxy'.update] + UserVisibleDelay
    OBVIOUS
  <2>1. Len(calls) \in Nat /\ Len(calls') \in Nat
    BY CallsStep, LenProperties DEF CallsOK, IInv, TypeOK
  <2>2. ~(Len(calls') <= Len(calls))
    BY <2>1 DEF ApplyCalled
  <2>3. PICK s : Seen(s)
    BY <2>2, CallsStep
  <2> QED
    BY <2>3, SeenDelay
<1>2. IInv /\ [Next]_vars => [A]_vars
  BY <1>1
<1> QED
  BY <1>2, Invariance, PTL DEF Spec, DelayRespected

(* A run that writes the stamp has come to where it is configured to rest, and    *)
(* the stamp then tells the next run when it is due.                          *)
THEOREM StampIsDone == Spec => StampMeansDone
<1> DEFINE A == success' # success =>
                   /\ quit \in Rest \/ Held
                   /\ stamp' \in now .. now + RandomizedDelay
<1>1. IInv /\ [Next]_vars => A
  <2> SUFFICES ASSUME IInv, [Next]_vars, success' # success
               PROVE  (quit \in Rest \/ Held) /\ stamp' \in now .. now + RandomizedDelay
    OBVIOUS
  <2>1. Exit
    BY DEF Next, Environment, Daemon, Program, HandleCall, OtherClient, Finish, Emit, DaemonStarts,
           DaemonStops, Tick, Killed, FirstRun, main, initial_poll_idle_func, Dispatch, files, vars
  <2>2. running /\ quit # "" /\ ~failed /\ update_stamp_file(now) /\ stamp' # stamp
    BY <2>1 DEF Exit
  <2>3. quit \in Rest \/ Held
    BY <2>2 DEF IInv, QuitAtRest
  <2>4. now \in Nat /\ RandomizedDelay \in Nat /\ now \in 0 .. MaxTime /\ now \in 0 .. now
    <3>1. now \in 0 .. MaxTime /\ now \in Nat
      BY NowNat DEF IInv, TypeOK
    <3> QED
      BY <3>1, ConfigAssumption
  <2>5. stamp' \in now .. now + RandomizedDelay \/ stamp' = now
    BY <2>2, <2>4, StampWritten DEF IInv, TypeOK, StampOK
  <2> QED
    BY <2>3, <2>4, <2>5
<1>2. IInv /\ [Next]_vars => [A]_vars
  BY <1>1
<1> QED
  BY <1>2, Invariance, PTL DEF Spec, StampMeansDone

=============================================================================
