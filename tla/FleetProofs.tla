----------------------------- MODULE FleetProofs -----------------------------
(***************************************************************************)
(* Theorems about Fleet and the Upgrade beside it, for any processes,      *)
(* versions, intervals and times.                                          *)
(***************************************************************************)
EXTENDS Upgrade, TLAPS

(* The registry                                                            *)

\* A process that works has a record as new as its last beat and no older than
\* staleAfter, until it is `unseen`; and no record but that of its last beat.
SeenOnTime ==
  \A p \in Processes :
    /\ Beats(p) => records[p] \in {Gone, beatAt[p]}
    /\ Beats(p) /\ p \notin unseen => records[p] = beatAt[p] /\ beatAt[p] >= now - StaleAfter
    /\ state[p] = "leftover" => p \in unseen

\* A process that was verified beside another, not yet registered, or that works
\* beside one of another version.
Apart ==
  \A p, q \in Processes :
    /\ p # q /\ state[p] = "verified" /\ state[q] = "verified" => {p, q} \in raced
    /\ state[p] = "verified" /\ Working(q) /\ Mixed(p, q) => {p, q} \in raced \/ q \in unseen

FleetInv == FleetTypeOK /\ SeenOnTime /\ Apart /\ MixedOnlyUnseen

LEMMA InitFleet == FleetInit => FleetInv
BY FleetBoundsAssumption
DEF FleetInit, FleetInv, FleetTypeOK, SeenOnTime, Apart, MixedOnlyUnseen, Beats, Working, Gone

LEMMA FleetTypes ==
  ASSUME FleetTypeOK, FleetNext
  PROVE  FleetTypeOK'
<1>1. CASE Tick
  BY <1>1, FleetBoundsAssumption DEF Tick, FleetTypeOK, Beats
<1>2. ASSUME NEW p \in Processes, Verify(p) \/ SkipVerify(p) \/ GiveUpStart(p) \/ RequestStop(p)
      PROVE  FleetTypeOK'
  <2>1. state' \in [Processes -> {"off", "verified", "on", "draining", "leftover", "dead"}]
    BY <1>2 DEF Verify, SkipVerify, GiveUpStart, RequestStop, FleetTypeOK
  <2>2. \A q \in Processes : Beats(q) => Beats(q)'
    BY <1>2 DEF Verify, SkipVerify, GiveUpStart, RequestStop, FleetTypeOK, Beats
  <2>3. \A pair \in raced' : pair \subseteq Processes
    BY <1>2 DEF Verify, SkipVerify, GiveUpStart, RequestStop, FleetTypeOK
  <2> QED
    BY <1>2, <2>1, <2>2, <2>3 DEF Verify, SkipVerify, GiveUpStart, RequestStop, FleetTypeOK
<1>3. ASSUME NEW p \in Processes, Register(p) \/ Beat(p)
      PROVE  FleetTypeOK'
  <2>1. \A q \in Processes : Beats(q) => Beats(q)'
    BY <1>3 DEF Register, Beat, FleetTypeOK, Beats
  <2> QED
    BY <1>3, <2>1 DEF Register, Beat, FleetTypeOK
<1>4. ASSUME NEW p \in Processes, CheckOut(p) \/ CheckOutBusy(p) \/ EndLeftover(p)
      PROVE  FleetTypeOK'
  <2>1. records' \in [Processes -> 0..MaxTime \cup {Gone}]
    BY <1>4 DEF CheckOut, CheckOutBusy, EndLeftover, FleetTypeOK
  <2>2. \A q \in cutOff' : q \in cutOff /\ q # p
    BY <1>4 DEF CheckOut, CheckOutBusy, EndLeftover, FleetTypeOK, Beats
  <2>3. \A q \in Processes : q # p => (Beats(q) => Beats(q)')
    BY <1>4 DEF CheckOut, CheckOutBusy, EndLeftover, FleetTypeOK, Beats
  <2>4. cutOff' \subseteq {q \in Processes : Beats(q)'}
    BY <2>2, <2>3 DEF FleetTypeOK
  <2> QED
    BY <1>4, <2>1, <2>4 DEF CheckOut, CheckOutBusy, EndLeftover, FleetTypeOK
<1>5. ASSUME NEW p \in Processes, ForgetGone(p)
      PROVE  FleetTypeOK'
  BY <1>5 DEF ForgetGone, FleetTypeOK, Beats
<1>6. ASSUME NEW p \in Processes, Fault(p)
      PROVE  FleetTypeOK'
  <2>1. state' \in [Processes -> {"off", "verified", "on", "draining", "leftover", "dead"}]
    BY <1>6 DEF Fault, Crash, CutOff, Resume, FleetTypeOK
  <2>2. cutOff' \subseteq {q \in Processes : Beats(q)'}
    BY <1>6 DEF Fault, Crash, CutOff, Resume, FleetTypeOK, Beats
  <2> QED
    BY <1>6, <2>1, <2>2 DEF Fault, Crash, CutOff, Resume, FleetTypeOK
<1> QED
  BY <1>1, <1>2, <1>3, <1>4, <1>5, <1>6 DEF FleetNext, Process

\* Who is seen, and so counts as live, in time.
LEMMA SeenIsLive ==
  ASSUME FleetInv, NEW p \in Processes, Working(p), p \notin unseen
  PROVE  p \in Live
<1>1. Beats(p) /\ records[p] = beatAt[p] /\ beatAt[p] >= now - StaleAfter
  BY DEF FleetInv, SeenOnTime, Working, Beats
<1> QED
  BY <1>1 DEF Live, FleetInv, FleetTypeOK, Gone

\* The time by which a beat is due is in time to count as live.
LEMMA FleetSeen ==
  ASSUME FleetInv, FleetNext
  PROVE  SeenOnTime'
<1> USE DEF FleetInv
<1>t. now \in Nat /\ StaleAfter \in Nat /\ Interval \in Nat /\ Interval <= StaleAfter
  BY BeatsAssumption DEF FleetTypeOK
<1>1. CASE Tick
  <2>1. ASSUME NEW p \in Processes, Beats(p), p \notin unseen'
        PROVE  beatAt[p] >= now + 1 - StaleAfter
    <3>1. beatAt[p] \in Nat
      BY DEF FleetTypeOK
    <3>2. CASE p \in cutOff
      <4>1. ~(beatAt[p] < now + 1 - StaleAfter)
        BY <1>1, <2>1, <3>2 DEF Tick
      <4> QED
        BY <1>t, <3>1, <4>1
    <3>3. CASE p \notin cutOff
      BY <1>1, <1>t, <2>1, <3>1, <3>3 DEF Tick
    <3> QED
      BY <3>2, <3>3
  <2>2. /\ unseen \subseteq unseen' /\ now' = now + 1
        /\ UNCHANGED <<state, records, beatAt>>
    BY <1>1 DEF Tick
  <2>3. ASSUME NEW p \in Processes
        PROVE  /\ Beats(p)' => records'[p] \in {Gone, beatAt'[p]}
               /\ Beats(p)' /\ p \notin unseen' => records'[p] = beatAt'[p]
               /\ state'[p] = "leftover" => p \in unseen'
    BY <2>2 DEF SeenOnTime, Beats
  <2>4. ASSUME NEW p \in Processes, Beats(p)', p \notin unseen'
        PROVE  beatAt'[p] >= now' - StaleAfter
    BY <1>t, <2>1, <2>2, <2>4 DEF Beats
  <2> QED
    BY <2>3, <2>4 DEF SeenOnTime
<1>2. ASSUME NEW p \in Processes, Verify(p) \/ SkipVerify(p) \/ GiveUpStart(p) \/ RequestStop(p)
      PROVE  SeenOnTime'
  BY <1>2 DEF Verify, SkipVerify, GiveUpStart, RequestStop, SeenOnTime, FleetTypeOK, Beats
<1>3. ASSUME NEW p \in Processes, Register(p)
      PROVE  SeenOnTime'
  BY <1>3, <1>t DEF Register, SeenOnTime, FleetTypeOK, Beats
<1>4. ASSUME NEW p \in Processes, Beat(p)
      PROVE  SeenOnTime'
  <2>1. p \notin unseen => records[p] # Gone
    BY <1>4 DEF Beat, SeenOnTime, FleetTypeOK, Gone
  <2>2. \A q \in Processes : Beats(q)' = Beats(q) /\ (state'[q] = state[q])
    BY <1>4 DEF Beat, Beats
  <2> QED
    BY <1>4, <1>t, <2>1, <2>2 DEF Beat, SeenOnTime, FleetTypeOK
<1>5. ASSUME NEW p \in Processes, CheckOut(p) \/ CheckOutBusy(p) \/ EndLeftover(p)
      PROVE  SeenOnTime'
  <2>1. \A q \in Processes : q # p => /\ state'[q] = state[q]
                                      /\ records'[q] = records[q]
                                      /\ q \in unseen' <=> q \in unseen
    BY <1>5 DEF CheckOut, CheckOutBusy, EndLeftover, FleetTypeOK
  <2>2. /\ ~Beats(p)' /\ (state'[p] = "leftover" => p \in unseen')
        /\ beatAt' = beatAt /\ now' = now
    BY <1>5 DEF CheckOut, CheckOutBusy, EndLeftover, FleetTypeOK, Beats
  <2> QED
    BY <2>1, <2>2 DEF SeenOnTime, Beats
<1>6. ASSUME NEW p \in Processes, ForgetGone(p)
      PROVE  SeenOnTime'
  <2>1. PICK age \in Ages :
          records' = [q \in Processes |-> IF q \in Forgettable(age) THEN Gone ELSE records[q]]
    BY <1>6 DEF ForgetGone
  <2>2. age \in Nat
    BY FleetBoundsAssumption
  <2>3. \A q \in Forgettable(age) : records[q] \in Nat /\ records[q] < now - StaleAfter
    BY <1>t, <2>2 DEF Forgettable, FleetTypeOK
  <2>4. \A q \in Processes : Beats(q) /\ q \notin unseen => q \notin Forgettable(age)
    BY <1>t, <2>3 DEF SeenOnTime, FleetTypeOK
  <2> QED
    BY <1>6, <2>1, <2>4 DEF ForgetGone, SeenOnTime, Beats
<1>7. ASSUME NEW p \in Processes, Fault(p)
      PROVE  SeenOnTime'
  BY <1>7 DEF Fault, Crash, CutOff, Resume, SeenOnTime, FleetTypeOK, Beats
<1> QED
  BY <1>1, <1>2, <1>3, <1>4, <1>5, <1>6, <1>7 DEF FleetNext, Process

LEMMA FleetApart ==
  ASSUME FleetInv, FleetNext
  PROVE  Apart' /\ MixedOnlyUnseen'
<1> USE DEF FleetInv
<1>1. ASSUME NEW p \in Processes, Verify(p) \/ SkipVerify(p)
      PROVE  Apart' /\ MixedOnlyUnseen'
  <2>1. /\ state' = [state EXCEPT ![p] = "verified"] /\ state[p] = "off"
        /\ raced \subseteq raced' /\ unseen' = unseen
    BY <1>1 DEF Verify, SkipVerify
  <2>2. \A q \in Processes : Working(q)' = Working(q)
    BY <2>1 DEF Working, FleetTypeOK
  <2>3. \A q \in Processes : Working(q) /\ Mixed(p, q) => q \in unseen \/ {p, q} \in raced'
    <3>1. CASE Verify(p)
      BY <3>1, SeenIsLive DEF Verify, Conflicts
    <3>2. CASE SkipVerify(p)
      BY <3>2 DEF SkipVerify
    <3> QED
      BY <1>1, <3>1, <3>2
  <2>4. \A q \in Processes : state[q] = "verified" => {p, q} \in raced'
    BY <1>1 DEF Verify, SkipVerify
  <2>5. \A q \in Processes : q # p => state'[q] = state[q]
    BY <2>1 DEF FleetTypeOK
  <2>6. raced \subseteq raced' /\ \A q, r \in Processes : Mixed(q, r)' = Mixed(q, r)
    BY <2>1 DEF Mixed
  <2>7. MixedOnlyUnseen'
    BY <2>1, <2>2, <2>6 DEF MixedOnlyUnseen
  <2>8. ASSUME NEW q \in Processes, NEW r \in Processes, q # r, state'[q] = "verified", state'[r] = "verified"
        PROVE  {q, r} \in raced'
    <3>1. {q, r} = {r, q}
      OBVIOUS
    <3> QED
      BY <2>4, <2>5, <2>6, <2>8, <3>1 DEF Apart
  <2>9. ASSUME NEW q \in Processes, NEW r \in Processes, state'[q] = "verified", Working(r), Mixed(q, r)
        PROVE  {q, r} \in raced' \/ r \in unseen
    BY <2>3, <2>5, <2>6, <2>9 DEF Apart
  <2>10. Apart'
    BY <2>1, <2>2, <2>6, <2>8, <2>9 DEF Apart
  <2> QED
    BY <2>7, <2>10
<1>2. ASSUME NEW p \in Processes, Register(p)
      PROVE  Apart' /\ MixedOnlyUnseen'
  <2>1. /\ state' = [state EXCEPT ![p] = "on"] /\ state[p] = "verified"
        /\ raced' = raced /\ unseen' = unseen
    BY <1>2 DEF Register
  <2>2. \A q \in Processes : /\ q # p => state'[q] = state[q] /\ Working(q)' = Working(q)
                             /\ state'[p] = "on" /\ Working(p)'
    BY <2>1 DEF Working, FleetTypeOK
  <2>3. \A q, r \in Processes : /\ Mixed(q, r)' = Mixed(q, r) /\ (Mixed(q, r) = Mixed(r, q))
                                /\ {q, r} = {r, q} /\ ~Mixed(q, q)
    BY DEF Mixed
  <2> QED
    BY <2>1, <2>2, <2>3 DEF Apart, MixedOnlyUnseen
<1>3. ASSUME NEW p \in Processes, GiveUpStart(p) \/ CheckOut(p) \/ EndLeftover(p)
      PROVE  Apart' /\ MixedOnlyUnseen'
  <2>1. /\ state' = [state EXCEPT ![p] = "off"]
        /\ raced' = {pair \in raced : p \notin pair}
        /\ unseen \ {p} \subseteq unseen'
    BY <1>3 DEF GiveUpStart, CheckOut, EndLeftover
  <2>2. \A q \in Processes : /\ q # p => state'[q] = state[q] /\ Working(q)' = Working(q)
                             /\ state'[p] = "off" /\ ~Working(p)'
    BY <2>1 DEF Working, FleetTypeOK
  <2>3. \A q, r \in Processes : Mixed(q, r)' = Mixed(q, r)
    BY DEF Mixed
  <2>4. \A q, r \in Processes : q # p /\ r # p /\ {q, r} \in raced => {q, r} \in raced'
    BY <2>1
  <2>5. Apart'
    BY <2>1, <2>2, <2>3, <2>4 DEF Apart
  <2>6. MixedOnlyUnseen'
    BY <2>1, <2>2, <2>3, <2>4 DEF MixedOnlyUnseen
  <2> QED
    BY <2>5, <2>6
<1>4. ASSUME \/ Tick
             \/ \E p \in Processes : \/ Beat(p) \/ RequestStop(p) \/ CheckOutBusy(p) \/ ForgetGone(p)
                                     \/ Fault(p)
      PROVE  Apart' /\ MixedOnlyUnseen'
  <2>1. /\ \A q \in Processes : /\ state'[q] = "verified" => state[q] = "verified"
                                /\ Working(q)' => Working(q)
        /\ raced' = raced /\ unseen \subseteq unseen'
    BY <1>4 DEF Tick, Beat, RequestStop, CheckOutBusy, ForgetGone, Fault, Crash, CutOff, Resume, Working,
                FleetTypeOK
  <2>2. \A q, r \in Processes : Mixed(q, r)' = Mixed(q, r)
    BY DEF Mixed
  <2> QED
    BY <2>1, <2>2 DEF Apart, MixedOnlyUnseen
<1> QED
  BY <1>1, <1>2, <1>3, <1>4 DEF FleetNext, Process

LEMMA StepFleet == FleetInv /\ [FleetNext]_fleetVars => FleetInv'
<1>1. ASSUME FleetInv, FleetNext PROVE FleetInv'
  BY <1>1, FleetTypes, FleetSeen, FleetApart DEF FleetInv
<1>2. ASSUME FleetInv, UNCHANGED fleetVars PROVE FleetInv'
  BY <1>2 DEF FleetInv, fleetVars, FleetTypeOK, SeenOnTime, Apart, MixedOnlyUnseen, Beats, Working, Mixed
<1> QED
  BY <1>1, <1>2

\* Beside an upgrade, the fleet does what it does without one.
LEMMA UpgradeSpares == [Next]_vars => [FleetNext]_fleetVars
BY DEF Next, Operator, vars, BeginUpgrade, DropAttempts, EndUpgrade, Skip, Refuse, Count, Rename, Rewrite,
       Enqueue

\* The upgrade beside a fleet changes nothing of it: the processes of upgradeFrom2's
\* specification behave as those of the registry's.
THEOREM FleetImplemented == Spec => FleetSpec
<1>1. Init => FleetInit
  BY DEF Init
<1> QED
  BY <1>1, UpgradeSpares, PTL DEF Spec, FleetSpec

\* Only one version runs at a time, but for the windows MixedOnlyUnseen names.
THEOREM OneVersion == Spec => []MixedOnlyUnseen
<1>1. FleetInv => MixedOnlyUnseen
  BY DEF FleetInv
<1> QED
  BY <1>1, InitFleet, StepFleet, FleetImplemented, PTL DEF FleetSpec

\* A process that beats counts as live, whatever is cleaned up.
THEOREM BeatsCount == Spec => []BeatingIsSeen
<1>1. FleetInv => BeatingIsSeen
  <2> SUFFICES ASSUME FleetInv, NEW p \in Processes, Beats(p), now <= beatAt[p] + Interval
               PROVE  p \in Live \/ (records[p] = Gone /\ p \in unseen)
    BY DEF BeatingIsSeen
  <2>1. CASE records[p] = Gone
    BY <2>1, SeenIsLive DEF Live, Beats, Working
  <2>2. CASE records[p] = beatAt[p]
    BY <2>2, BeatsAssumption DEF FleetInv, FleetTypeOK, Live, Gone
  <2> QED
    BY <2>1, <2>2 DEF FleetInv, SeenOnTime
<1> QED
  BY <1>1, InitFleet, StepFleet, FleetImplemented, PTL DEF FleetSpec

-----------------------------------------------------------------------------
(* The upgrade                                                             *)

\* How far the upgrade has got is written in the documents: what the calls before
\* `up` rewrote stays rewritten, whoever wrote or renamed what since.
Rewritten ==
  /\ up > 1 => "schedulers" \notin old
  /\ up > 2 => "tasks" \notin old
  /\ up > 3 => statuses[Ended] = NewWord("success")
  /\ up > 4 => statuses[Claimed] = NewWord("processing")
  /\ up > 5 => ~attempts
  /\ up > 6 => statuses[Item] = NewWord("claimed")

\* Between the count and the rename, whatever is in the engine's collection was
\* written in a hurry.
Hurried ==
  /\ counted => \E c \in old : Does(c)
  /\ \A c \in fresh : counted /\ Does(c) => c \in hurried
  /\ lost \subseteq hurried

UpgradeTypeOK ==
  /\ up \in 0..Len(Calls) + 1 /\ counted \in BOOLEAN /\ upgrades \in 0..MaxUpgrades
  /\ old \subseteq Renames /\ fresh \subseteq old
  /\ hurried \subseteq Renames /\ lost \subseteq Renames
  /\ attempts \in BOOLEAN
  /\ \A d \in Docs : statuses[d] \in {d[2], NewWord(d[2])}

UpgradeInv == UpgradeTypeOK /\ DOMAIN statuses = Docs /\ Rewritten /\ Hurried

\* The sequence of the calls, call by call.
LEMMA CallsAre ==
  /\ Len(Calls) = 6 /\ DOMAIN Calls = 1..6
  /\ Calls[1] = "schedulers" /\ Calls[2] = "tasks" /\ Calls[3] = "success"
  /\ Calls[4] = "processing" /\ Calls[5] = "attempts" /\ Calls[6] = "claimed"
BY DEF Calls

LEMMA WordsAre ==
  /\ NewWord("success") = "done" /\ NewWord("processing") = "running"
  /\ NewWord("claimed") = "running" /\ NewWord("pending") = "pending"
  /\ Ended \in Docs /\ Claimed \in Docs /\ Waiting \in Docs /\ Item \in Docs
  /\ Ended[1] = "tasks" /\ Claimed[1] = "tasks" /\ Waiting[1] = "tasks" /\ Item[1] = "items"
  /\ Ended[2] = "success" /\ Claimed[2] = "processing" /\ Waiting[2] = "pending" /\ Item[2] = "claimed"
BY DEF NewWord, Docs, Ended, Claimed, Waiting, Item

LEMMA InitUpgrade == Init => UpgradeInv
<1> SUFFICES ASSUME Init
             PROVE  UpgradeInv
  OBVIOUS
<1>1. \A d \in Docs : statuses[d] = d[2]
  BY DEF Init
<1>2. upgrades \in 0..MaxUpgrades /\ up \in 0..Len(Calls) + 1
  BY CallsAre, UpgradesAssumption DEF Init
<1>3. UpgradeTypeOK
  BY <1>1, <1>2 DEF Init, UpgradeTypeOK
<1> QED
  BY <1>3 DEF Init, UpgradeInv, Rewritten, Hurried

LEMMA StepUpgrade == UpgradeInv /\ [Next]_vars => UpgradeInv'
<1> SUFFICES ASSUME UpgradeInv, [Next]_vars
             PROVE  UpgradeInv'
  OBVIOUS
<1> USE DEF UpgradeInv
<1>1. CASE BeginUpgrade
  BY <1>1, CallsAre, UpgradesAssumption DEF BeginUpgrade, UpgradeTypeOK, Rewritten, Hurried, Does, docVars
<1>2. ASSUME NEW c \in Renames, Skip(c)
      PROVE  UpgradeInv'
  <2>1. UpgradeTypeOK'
    BY <1>2, CallsAre DEF Skip, UpgradeTypeOK, Does, docVars
  <2>2. Rewritten'
    BY <1>2, CallsAre DEF Skip, Renames, UpgradeTypeOK, Rewritten, Does, docVars
  <2>3. Hurried'
    BY <1>2, CallsAre DEF Skip, UpgradeTypeOK, Hurried, Does, docVars
  <2> QED
    BY <1>2, <2>1, <2>2, <2>3 DEF Skip, docVars
<1>3. ASSUME NEW c \in Renames, Refuse(c) \/ Count(c)
      PROVE  UpgradeInv'
  <2>1. UpgradeTypeOK'
    <3>1. up' \in 0..Len(Calls) + 1
      BY <1>3, CallsAre DEF Refuse, Count, UpgradeTypeOK
    <3>2. counted' \in BOOLEAN
      BY <1>3, Zenon DEF Refuse, Count, UpgradeTypeOK
    <3>3. UNCHANGED <<upgrades, docVars>>
      BY <1>3 DEF Refuse, Count
    <3> QED
      BY <3>1, <3>2, <3>3 DEF UpgradeTypeOK, docVars
  <2>2. Rewritten'
    BY <1>3, CallsAre DEF Refuse, Count, Renames, UpgradeTypeOK, Rewritten, Does, docVars
  <2>3. Hurried'
    BY <1>3, CallsAre DEF Refuse, Count, UpgradeTypeOK, Hurried, Does, docVars
  <2> QED
    BY <1>3, <2>1, <2>2, <2>3 DEF Refuse, Count, docVars
<1>4. ASSUME NEW c \in Renames, Rename(c)
      PROVE  UpgradeInv'
  <2>1. UpgradeTypeOK'
    <3>1. up' \in 0..Len(Calls) + 1
      BY <1>4, CallsAre DEF Rename, UpgradeTypeOK, Does
    <3>2. /\ old' \subseteq Renames /\ fresh' \subseteq old' /\ lost' \subseteq Renames
      BY <1>4 DEF Rename, Left, UpgradeTypeOK
    <3> QED
      BY <1>4, <3>1, <3>2 DEF Rename, UpgradeTypeOK
  <2>2. Rewritten'
    BY <1>4, CallsAre DEF Rename, Renames, UpgradeTypeOK, Rewritten, Does
  <2>3. Hurried'
    BY <1>4 DEF Rename, UpgradeTypeOK, Hurried
  <2> QED
    BY <1>4, <2>1, <2>2, <2>3 DEF Rename
<1>5. ASSUME NEW status \in {"success", "processing", "claimed"}, Rewrite(status)
      PROVE  UpgradeInv'
  <2>1. \A d \in Docs : statuses'[d] = IF d \in Reached /\ statuses[d] = status
                                       THEN NewWord(status) ELSE statuses[d]
    BY <1>5 DEF Rewrite
  <2>2. \A d \in Docs : statuses'[d] = statuses[d] \/ (statuses[d] = status /\ statuses'[d] = NewWord(status))
    BY <2>1
  <2>3. \A d \in Docs : statuses'[d] \in {d[2], NewWord(d[2])}
    BY <2>2, WordsAre DEF UpgradeTypeOK, Docs
  <2>4. UpgradeTypeOK'
    BY <1>5, <2>3, CallsAre DEF Rewrite, UpgradeTypeOK, Does
  <2>5. Rewritten'
    <3>1. /\ Ended \in Docs /\ Claimed \in Docs /\ Item \in Docs
          /\ "tasks" \notin old => Ended \in Reached /\ Claimed \in Reached
          /\ Item \in Reached
      BY WordsAre DEF Reached, UpgradeTypeOK, Renames
    <3>2. /\ statuses[Ended] \in {"success", "done"} /\ statuses[Claimed] \in {"processing", "running"}
          /\ statuses[Item] \in {"claimed", "running"}
      BY WordsAre DEF UpgradeTypeOK
    <3> QED
      BY <1>5, <2>1, <3>1, <3>2, CallsAre, WordsAre DEF Rewrite, Rewritten, Does, UpgradeTypeOK
  <2>6. Hurried'
    BY <1>5, CallsAre DEF Rewrite, UpgradeTypeOK, Hurried, Does, Renames
  <2> QED
    BY <1>5, <2>4, <2>5, <2>6 DEF Rewrite
<1>6. CASE DropAttempts
  BY <1>6, CallsAre DEF DropAttempts, UpgradeTypeOK, Rewritten, Hurried, Does, Renames
<1>7. CASE EndUpgrade
  <2>1. UpgradeTypeOK'
    <3>1. up' \in 0..Len(Calls) + 1
      BY <1>7, CallsAre DEF EndUpgrade, UpgradeTypeOK
    <3>2. counted' \in BOOLEAN
      BY <1>7, Zenon DEF EndUpgrade, UpgradeTypeOK
    <3>3. UNCHANGED <<upgrades, docVars>>
      BY <1>7 DEF EndUpgrade
    <3> QED
      BY <3>1, <3>2, <3>3 DEF UpgradeTypeOK, docVars
  <2>2. Rewritten'
    BY <1>7, CallsAre DEF EndUpgrade, Renames, UpgradeTypeOK, Rewritten, Does, docVars
  <2>3. Hurried'
    BY <1>7, CallsAre DEF EndUpgrade, UpgradeTypeOK, Hurried, Does, docVars
  <2> QED
    BY <1>7, <2>1, <2>2, <2>3 DEF EndUpgrade, docVars
<1>8. ASSUME NEW c \in Renames, Enqueue(c)
      PROVE  UpgradeInv'
  BY <1>8 DEF Enqueue, UpgradeTypeOK, Rewritten, Hurried, Does
<1>9. CASE UNCHANGED upVars
  BY <1>9 DEF upVars, docVars, UpgradeTypeOK, Rewritten, Hurried, Does
<1> QED
  BY <1>1, <1>2, <1>3, <1>4, <1>5, <1>6, <1>7, <1>8, <1>9 DEF Next, Operator, vars

\* Every variable keeps its type, those of the fleet included.
THEOREM TypeCorrect == Spec => []TypeOK
<1>1. FleetInv /\ UpgradeInv => TypeOK
  BY DEF FleetInv, UpgradeInv, UpgradeTypeOK, TypeOK
<1> QED
  BY <1>1, InitFleet, StepFleet, FleetImplemented, InitUpgrade, StepUpgrade, PTL DEF Spec, FleetSpec

\* An upgrade that ends has rewritten everything, wherever earlier ones died, and
\* drops nothing but what was written between its count and its rename.
THEOREM UpgradeEndsWhole == Spec => []UpgradeIsWhole
<1>1. UpgradeInv => UpgradeIsWhole
  <2> SUFFICES ASSUME UpgradeInv, up = Len(Calls) + 1
               PROVE  old = {} /\ ~attempts /\ \A d \in Docs : statuses[d] = NewWord(d[2])
    BY DEF UpgradeIsWhole, UpgradeInv, Hurried
  <2>1. up = 7
    BY CallsAre
  <2>2. old = {} /\ ~attempts
    BY <2>1 DEF UpgradeInv, UpgradeTypeOK, Rewritten, Renames
  <2>3. statuses[Waiting] = NewWord(Waiting[2])
    BY WordsAre DEF UpgradeInv, UpgradeTypeOK
  <2>4. \A d \in {Ended, Claimed, Item} : statuses[d] = NewWord(d[2])
    BY <2>1, WordsAre DEF UpgradeInv, Rewritten
  <2> QED
    BY <2>2, <2>3, <2>4 DEF Docs
<1> QED
  BY <1>1, InitUpgrade, StepUpgrade, PTL DEF Spec

=============================================================================
