--------------------------- MODULE ScheduleProofs ---------------------------
(***************************************************************************)
(* The schedules of any number of feeds: the types, among them that        *)
(* buildHourlySlotMap finds a minute of the hour for each hourly feed,     *)
(* however many there are, and that Redis holds one repeatable per key.    *)
(* Then schedules and backups together, as MCPlatform runs them.           *)
(***************************************************************************)
EXTENDS MCPlatform, BackupProofs, TLAPS, FiniteSetTheorems

\* The system without fairness.
ScheduleSpec == ScheduleInit /\ [][ScheduleNext]_scheduleOwn

\* The schedules a pass may want, with their patterns.
Wants == UNION {[S -> Pattern] : S \in SUBSET Schedules}

\* A pass.
Pass ==
  [pc : {"idle", "list", "live", "weed"}, group : {"builtin", "custom"}, want : Wants,
   todo : SUBSET Repeatable, live : SUBSET Schedules, known : BOOLEAN, seen : SUBSET Schedules]

\* One repeatable per key.
OneOfKey(R) == \A q, r \in R : q.id = r.id /\ q.legacy = r.legacy => q = r

\* The type invariant.
ScheduleTypeInv ==
  /\ settings \in [Feeds -> Crons]
  /\ repeats \subseteq Repeatable /\ OneOfKey(repeats)
  /\ runs \subseteq Schedules
  /\ sync \in [Syncers -> Pass]
  /\ due \subseteq {"builtin", "custom"}
  /\ changes \in 0 .. MaxChanges
  /\ faults \in 0 .. MaxFaults

-----------------------------------------------------------------------------
(* What is wanted *)

\* The share of an hour that each of n feeds gets is a number of minutes.
LEMMA Spacing == \A n \in Nat : n # 0 => 60 \div n \in Nat
  OBVIOUS

\* buildHourlySlotMap: a minute of the hour, for 60 feeds and more too.
LEMMA SlotInHour ==
  ASSUME settings \in [Feeds -> Crons], NEW fs \in SUBSET Feeds, NEW f \in Hourly(fs)
  PROVE  SlotMinute(f, fs) \in 0 .. 59
<1>1. IsFiniteSet(Hourly(fs))
  BY FS_Subset, ScheduleAssumption DEF Hourly
<1>2. Cardinality(Hourly(fs)) \in Nat /\ Cardinality(Hourly(fs)) # 0
  BY <1>1, FS_CardinalityType, FS_EmptySet
<1>3. Cardinality({g \in Hourly(fs) : g < f}) \in Nat
  BY <1>1, FS_Subset, FS_CardinalityType
<1>4. 60 \div Cardinality(Hourly(fs)) \in Nat
  BY <1>2, Spacing
<1>5. ASSUME NEW i \in Nat, NEW d \in Nat
      PROVE  (IF i * d < 59 THEN i * d ELSE 59) \in 0 .. 59
  <2>1. i * d \in Nat
    OBVIOUS
  <2> QED
    BY <2>1
<1> DEFINE count == Cardinality(Hourly(fs))
           spacing == IF count = 1 THEN 0 ELSE IF 60 \div count > 1 THEN 60 \div count ELSE 1
<1>6. spacing \in Nat
  BY <1>4
<1> QED
  BY <1>3, <1>5, <1>6 DEF SlotMinute

\* What a group's feeds ask for is a pattern for each of its schedules.
LEMMA DesiredTyped ==
  ASSUME settings \in [Feeds -> Crons], NEW g
  PROVE  Desired(g) \in Wants
<1> DEFINE fs == IF g = "builtin" THEN Builtin ELSE Custom
           on == {f \in fs : settings[f] # "off"}
           all == on \cup IF Usom \in on THEN {0} ELSE {}
<1>1. fs \in SUBSET Feeds /\ DOMAIN Desired(g) = all
  BY DEF Feeds, Desired
<1>2. all \subseteq Schedules
  BY <1>1 DEF Schedules
<1>3. ASSUME NEW i \in all PROVE Desired(g)[i] \in Pattern
  <2>1. CASE i = 0
    BY <2>1 DEF Desired, Pattern
  <2>2. CASE i # 0
    <3>1. i \in on /\ settings[i] \in {"hourly", "daily"} /\ Desired(g)[i] = PatternOf(i, fs)
      BY <1>1, <2>2 DEF Desired, Crons
    <3>2. settings[i] = "hourly" => SlotMinute(i, fs) \in 0 .. 59
      BY <1>1, <3>1, SlotInHour DEF Hourly
    <3>3. (IF settings[i] = "hourly" THEN SlotMinute(i, fs) ELSE 0) \in 0 .. 59
      BY <3>2
    <3> QED
      BY <3>1, <3>3 DEF PatternOf, Pattern
  <2> QED
    BY <2>1, <2>2
<1>4. Desired(g) = [i \in all |-> Desired(g)[i]]
  BY DEF Desired
<1>5. Desired(g) \in [all -> Pattern]
  BY <1>3, <1>4
<1> QED
  BY <1>2, <1>5 DEF Wants

-----------------------------------------------------------------------------
(* Types *)

\* Wants are functions from schedules to patterns.
LEMMA WantsTyped ==
  ASSUME NEW want \in Wants
  PROVE  DOMAIN want \subseteq Schedules /\ \A i \in DOMAIN want : want[i] \in Pattern
  BY DEF Wants

\* A process without a pass.
LEMMA NoPassTyped == NoPass \in Pass
<1>1. <<>> \in [{} -> Pattern]
  OBVIOUS
<1>2. <<>> \in Wants
  BY <1>1 DEF Wants
<1> QED
  BY <1>2 DEF NoPass, Pass

\* Nothing has been scheduled, or there are keys of an earlier version.
LEMMA ScheduleTypeInit == ScheduleInit => ScheduleTypeInv
<1> SUFFICES ASSUME ScheduleInit PROVE ScheduleTypeInv
  OBVIOUS
<1>1. settings \in [Feeds -> Crons]
  BY DEF ScheduleInit, Crons
<1>2. repeats \subseteq Repeatable /\ OneOfKey(repeats)
  <2>1. CASE repeats = {}
    BY <2>1 DEF OneOfKey
  <2>2. CASE repeats = {[id |-> f, legacy |-> TRUE, phase |-> "delayed",
                         pat |-> [cron |-> "hourly", minute |-> 0]] : f \in Feeds}
    <3>1. [cron |-> "hourly", minute |-> 0] \in Pattern
      BY DEF Pattern
    <3>2. repeats \subseteq Repeatable
      <4>1. ASSUME NEW f \in Feeds
            PROVE  [id |-> f, legacy |-> TRUE, phase |-> "delayed",
                    pat |-> [cron |-> "hourly", minute |-> 0]] \in Repeatable
        BY <3>1 DEF Repeatable, Schedules
      <4> QED
        BY <2>2, <4>1
    <3>3. ASSUME NEW q \in repeats, NEW r \in repeats, q.id = r.id PROVE q = r
      <4>1. PICK f \in Feeds : q = [id |-> f, legacy |-> TRUE, phase |-> "delayed",
                                    pat |-> [cron |-> "hourly", minute |-> 0]]
        BY <2>2
      <4>2. PICK g \in Feeds : r = [id |-> g, legacy |-> TRUE, phase |-> "delayed",
                                    pat |-> [cron |-> "hourly", minute |-> 0]]
        BY <2>2
      <4> QED
        BY <3>3, <4>1, <4>2
    <3> QED
      BY <3>2, <3>3 DEF OneOfKey
  <2> QED
    BY <2>1, <2>2 DEF ScheduleInit
<1>4. sync \in [Syncers -> Pass]
  BY NoPassTyped DEF ScheduleInit
<1> QED
  BY <1>1, <1>2, <1>4, ScheduleAssumption DEF ScheduleInit, ScheduleTypeInv

\* A key that is removed takes nothing else along.
LEMMA KeyRemoved ==
  ASSUME ScheduleTypeInv, NEW r
  PROVE  WithoutKey(r) \subseteq Repeatable /\ OneOfKey(WithoutKey(r))
  BY DEF ScheduleTypeInv, WithoutKey, OneOfKey

\* Every step of a pass preserves the types.
LEMMA TypePass ==
  ASSUME ScheduleTypeInv, NEW p \in Syncers, Begin(p) \/ PassStep(p) \/ AbortSync(p)
  PROVE  ScheduleTypeInv'
<1>1. /\ sync[p] \in Pass /\ NoPass \in Pass /\ settings \in [Feeds -> Crons]
      /\ repeats \subseteq Repeatable
  BY NoPassTyped DEF ScheduleTypeInv
<1>2. \E s \in Pass : sync' = [sync EXCEPT ![p] = s]
  <2>1. CASE Begin(p)
    <3>1. PICK g \in {"builtin", "custom"} : BeginSync(p, g)
      BY <2>1 DEF Begin
    <3>2. [NoPass EXCEPT !.pc = "list", !.group = g, !.want = Desired(g)] \in Pass
      BY <1>1, DesiredTyped DEF Pass, NoPass
    <3> QED
      BY <3>1, <3>2 DEF BeginSync
  <2>2. CASE ListRepeatables(p)
    <3> DEFINE s == [sync[p] EXCEPT !.todo = {r \in repeats : r.id \in Group(sync[p].group)},
                                    !.pc = IF sync[p].known THEN "weed" ELSE "live"]
    <3>1. s \in Pass
      BY <1>1 DEF Pass
    <3>2. sync' = [sync EXCEPT ![p] = s]
      BY <2>2 DEF ListRepeatables
    <3> QED
      BY <3>1, <3>2
  <2>3. CASE CollectLive(p)
    <3>1. LiveSchedules \subseteq Schedules
      BY DEF ScheduleTypeInv, LiveSchedules, Repeatable
    <3>2. /\ [sync[p] EXCEPT !.pc = "weed", !.live = LiveSchedules] \in Pass
          /\ [sync[p] EXCEPT !.pc = "weed"] \in Pass
      BY <1>1, <3>1 DEF Pass
    <3>3. \/ sync' = [sync EXCEPT ![p] = [sync[p] EXCEPT !.pc = "weed", !.live = LiveSchedules]]
          \/ sync' = [sync EXCEPT ![p] = [sync[p] EXCEPT !.pc = "weed"]]
      BY <2>3 DEF CollectLive
    <3> QED
      BY <3>2, <3>3
  <2>4. CASE Weed(p)
    <3>1. PICK r \in sync[p].todo :
            sync' = [sync EXCEPT
              ![p].todo = @ \ {r},
              ![p].seen = @ \cup {i \in MappedTo(r, sync[p].want) : Kept(r, i, sync[p])}]
      BY <2>4 DEF Weed
    <3> DEFINE kept == {i \in MappedTo(r, sync[p].want) : Kept(r, i, sync[p])}
               s == [sync[p] EXCEPT !.todo = @ \ {r}, !.seen = @ \cup kept]
    <3>2. kept \subseteq Schedules
      BY <1>1, WantsTyped DEF Pass, Kept
    <3>3. s \in Pass
      BY <1>1, <3>2 DEF Pass
    <3>4. sync' = [sync EXCEPT ![p] = s]
      BY <3>1
    <3> QED
      BY <3>3, <3>4
  <2>5. CASE Ensure(p)
    <3>1. PICK i \in DOMAIN sync[p].want : sync' = [sync EXCEPT ![p].seen = @ \cup {i}]
      BY <2>5 DEF Ensure
    <3> DEFINE s == [sync[p] EXCEPT !.seen = @ \cup {i}]
    <3>2. s \in Pass
      BY <1>1, WantsTyped DEF Pass
    <3>3. sync' = [sync EXCEPT ![p] = s]
      BY <3>1
    <3> QED
      BY <3>2, <3>3
  <2>6. CASE EndSync(p)
    <3>1. [NoPass EXCEPT !.pc = "list", !.group = "custom", !.want = Desired("custom"),
                         !.live = sync[p].live, !.known = TRUE] \in Pass
      BY <1>1, DesiredTyped DEF Pass, NoPass
    <3> QED
      BY <1>1, <2>6, <3>1 DEF EndSync
  <2>7. CASE AbortSync(p)
    BY <1>1, <2>7 DEF AbortSync
  <2> QED
    BY <2>1, <2>2, <2>3, <2>4, <2>5, <2>6, <2>7 DEF PassStep
<1>3. repeats' \subseteq Repeatable /\ OneOfKey(repeats')
  <2>1. CASE UNCHANGED repeats
    BY <2>1 DEF ScheduleTypeInv
  <2>2. CASE \E r : repeats' = WithoutKey(r)
    BY <2>2, KeyRemoved
  <2>3. CASE Ensure(p)
    <3>0. PICK i \in DOMAIN sync[p].want :
            LET r == [id |-> i, legacy |-> FALSE, pat |-> sync[p].want[i], phase |-> "delayed"]
            IN  repeats' = WithoutKey(r) \cup {r}
      BY <2>3 DEF Ensure
    <3>1. PICK r :
            /\ r = [id |-> i, legacy |-> FALSE, pat |-> sync[p].want[i], phase |-> "delayed"]
            /\ repeats' = WithoutKey(r) \cup {r}
      BY <3>0
    <3>2. i \in Schedules /\ sync[p].want[i] \in Pattern
      BY <1>1, WantsTyped DEF Pass
    <3>3. r \in Repeatable
      BY <3>1, <3>2 DEF Repeatable
    <3>4. \A q \in WithoutKey(r) : q.id # r.id \/ q.legacy # r.legacy
      BY DEF WithoutKey
    <3>5. WithoutKey(r) \subseteq Repeatable /\ OneOfKey(WithoutKey(r))
      BY KeyRemoved
    <3>6. repeats' \subseteq Repeatable
      BY <3>1, <3>3, <3>5
    <3>7. ASSUME NEW a \in repeats', NEW b \in repeats', a.id = b.id, a.legacy = b.legacy
          PROVE  a = b
      BY <3>1, <3>4, <3>5, <3>7 DEF OneOfKey
    <3> QED
      BY <3>6, <3>7 DEF OneOfKey
  <2> QED
    BY <2>1, <2>2, <2>3 DEF Begin, BeginSync, PassStep, ListRepeatables, CollectLive, Weed, EndSync,
       AbortSync
<1>4. /\ UNCHANGED <<settings, runs, changes>> /\ due' \subseteq due
      /\ faults' \in 0 .. MaxFaults
  <2>1. UNCHANGED <<settings, runs, changes>> /\ due' \subseteq due
    BY DEF Begin, BeginSync, PassStep, ListRepeatables, CollectLive, Weed, Ensure, EndSync, AbortSync
  <2>2. UNCHANGED faults \/ (faults < MaxFaults /\ faults' = faults + 1)
    BY DEF Begin, BeginSync, PassStep, ListRepeatables, CollectLive, Weed, Ensure, EndSync, AbortSync
  <2> QED
    BY <2>1, <2>2, ScheduleAssumption DEF ScheduleTypeInv
<1> QED
  BY <1>2, <1>3, <1>4 DEF ScheduleTypeInv

\* An iteration that moves on changes the phase of its repeatable alone.
LEMMA Turned ==
  ASSUME ScheduleTypeInv, NEW r \in repeats, NEW phase \in {"delayed", "due", "lost", "overdue"},
         Turn(r, phase)
  PROVE  repeats' \subseteq Repeatable /\ OneOfKey(repeats')
<1>1. r \in Repeatable
  BY DEF ScheduleTypeInv
<1>2. PICK t : /\ t = [r EXCEPT !.phase = phase]
               /\ repeats' = (repeats \ {r}) \cup {t}
  BY DEF Turn
<1>3. t \in Repeatable /\ t.id = r.id /\ t.legacy = r.legacy
  BY <1>1, <1>2 DEF Repeatable
<1>4. repeats' \subseteq Repeatable
  BY <1>2, <1>3 DEF ScheduleTypeInv
<1>5. ASSUME NEW a \in repeats', NEW b \in repeats', a.id = b.id, a.legacy = b.legacy
      PROVE  a = b
  BY <1>2, <1>3, <1>5 DEF ScheduleTypeInv, OneOfKey
<1> QED
  BY <1>4, <1>5 DEF OneOfKey

\* And so does every step of BullMQ.
LEMMA TypeQueue ==
  ASSUME ScheduleTypeInv, (\E r \in repeats : IterationLost(r)) \/ (\E i \in Schedules : Queue(i))
  PROVE  ScheduleTypeInv'
<1>1. UNCHANGED <<settings, sync, due, changes>> /\ faults' \in 0 .. MaxFaults
  <2>1. UNCHANGED <<settings, sync, due, changes>>
    BY DEF Queue, IterationLost, IterationDue, IterationTaken, IterationOver, IterationOverdue
  <2>2. UNCHANGED faults \/ (faults < MaxFaults /\ faults' = faults + 1)
    BY DEF Queue, IterationLost, IterationDue, IterationTaken, IterationOver, IterationOverdue
  <2> QED
    BY <2>1, <2>2, ScheduleAssumption DEF ScheduleTypeInv
<1>2. runs' \subseteq Schedules
  <2>1. runs' \subseteq runs \/ \E r \in repeats : runs' = runs \cup {r.id}
    BY DEF Queue, IterationLost, IterationDue, IterationTaken, IterationOver, IterationOverdue
  <2> QED
    BY <2>1 DEF ScheduleTypeInv, Repeatable
<1>3. repeats' \subseteq Repeatable /\ OneOfKey(repeats')
  <2>1. \/ UNCHANGED repeats
        \/ \E r \in repeats, phase \in {"delayed", "due", "lost", "overdue"} : Turn(r, phase)
    BY DEF Queue, IterationLost, IterationDue, IterationTaken, IterationOver, IterationOverdue
  <2> QED
    BY <2>1, Turned DEF ScheduleTypeInv
<1> QED
  BY <1>1, <1>2, <1>3 DEF ScheduleTypeInv

\* Every step preserves the types.
LEMMA ScheduleTypeNext ==
  ASSUME ScheduleTypeInv, [ScheduleNext]_scheduleOwn
  PROVE  ScheduleTypeInv'
<1>1. CASE \E f \in Feeds, cron \in Crons : SetSchedule(f, cron)
  <2>1. PICK f \in Feeds, cron \in Crons : SetSchedule(f, cron)
    BY <1>1
  <2>2. /\ settings' \in [Feeds -> Crons] /\ due' \subseteq {"builtin", "custom"}
        /\ UNCHANGED <<repeats, runs, sync, faults>>
    BY <2>1 DEF SetSchedule, ScheduleTypeInv
  <2>3. changes' \in 0 .. MaxChanges
    BY <2>1, ScheduleAssumption DEF SetSchedule, ScheduleTypeInv
  <2> QED
    BY <2>2, <2>3 DEF ScheduleTypeInv
<1>2. CASE UNCHANGED scheduleOwn
  BY <1>2 DEF scheduleOwn, ScheduleTypeInv
<1> QED
  BY <1>1, <1>2, TypePass, TypeQueue DEF ScheduleNext

\* However passes and iterations interleave, there is one repeatable per key.
THEOREM OneRepeatable == ScheduleSpec => []OneOfKey(repeats)
<1>1. ScheduleTypeInv /\ [ScheduleNext]_scheduleOwn => ScheduleTypeInv'
  BY ScheduleTypeNext
<1>2. ScheduleTypeInv => OneOfKey(repeats)
  BY DEF ScheduleTypeInv
<1> QED
  BY <1>1, <1>2, ScheduleTypeInit, PTL DEF ScheduleSpec

\* Settings, repeatables, iterations, passes and what is due are always well
\* formed: in particular every pattern that is ever written has a minute of the
\* hour, whatever feeds are hourly.
THEOREM ScheduleTypeCorrect == ScheduleSpec => []ScheduleTypeOK
<1>1. ScheduleTypeInv /\ [ScheduleNext]_scheduleOwn => ScheduleTypeInv'
  BY ScheduleTypeNext
<1>2. ScheduleTypeInv => ScheduleTypeOK
  BY WantsTyped DEF ScheduleTypeInv, Pass, ScheduleTypeOK
<1> QED
  BY <1>1, <1>2, ScheduleTypeInit, PTL DEF ScheduleSpec

-----------------------------------------------------------------------------
(* Backups and schedules together *)

\* The composed system is a backup system and a schedule system: its bounds
\* only take steps away, and a step of one part is a stutter of the other.
LEMMA PlatformStep ==
  ASSUME [MCNext]_platformVars
  PROVE  [BackupNext]_<<backupOwn, stops>> /\ [ScheduleNext]_scheduleOwn
<1>1. CASE MCNext
  BY <1>1 DEF MCNext
<1>2. CASE UNCHANGED platformVars
  BY <1>2 DEF platformVars
<1> QED
  BY <1>1, <1>2

\* The backups and the schedules of MCPlatform behave as the specifications
\* that the theorems are about, so what is proved of either holds of the
\* system that TLC explores.
THEOREM PlatformParts == MCSpec => BackupSpec /\ ScheduleSpec
<1>1. MCInit => BackupInit /\ ScheduleInit
  BY DEF MCInit
<1> QED
  BY <1>1, PlatformStep, PTL DEF MCSpec, BackupSpec, ScheduleSpec

\* Rows, archives, staging directories, jobs, schedules, repeatables and
\* passes are well formed in the composed system.
THEOREM PlatformTypeCorrect == MCSpec => []PlatformTypeOK
<1>1. BackupTypeOK /\ ScheduleTypeOK => PlatformTypeOK
  BY DEF PlatformTypeOK
<1> QED
  BY <1>1, PlatformParts, BackupTypeCorrect, ScheduleTypeCorrect, PTL

=============================================================================
