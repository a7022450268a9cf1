---------------------------- MODULE ScheduleSync ----------------------------
(***************************************************************************)
(* The schedules of the feeds: administrators change them in PostgreSQL,   *)
(* BullMQ keeps one repeatable job per schedule in Redis, and a pass of    *)
(* syncIntegrationFeedSchedules makes the second agree with the first.     *)
(* The scheduler runs a pass every minute, the API one after each change;  *)
(* both list the repeatables first and then remove and add them one by     *)
(* one, with no lock between the two processes.                            *)
(*                                                                         *)
(* Hourly feeds share the hour: the minute of each depends on the others.  *)
(* The schedules are named by numbers, in the order of the feeds' keys, 0  *)
(* standing for the weekly full reconciliation of the feed Usom.           *)
(***************************************************************************)
EXTENDS Naturals, FiniteSets

CONSTANTS
  Builtin,     \* feeds of INTEGRATION_FEED_JOBS
  Custom,      \* custom threat feeds, whose jobs all have the same name
  Usom,        \* the built-in feed with a second schedule
  MaxChanges,  \* bound: changes of a schedule by administrators
  MaxFaults    \* bound: lost iterations, failed passes and failed reads

Feeds == Builtin \cup Custom

ASSUME ScheduleAssumption ==
  /\ Feeds \subseteq Nat \ {0} /\ IsFiniteSet(Feeds)
  /\ Builtin \cap Custom = {}
  /\ Usom \in Builtin
  /\ {MaxChanges, MaxFaults} \subseteq Nat

VARIABLES
  settings,  \* PostgreSQL: the schedule of each feed, "off" when it has none
  repeats,   \* Redis: the repeatable jobs
  runs,      \* Redis: the schedules with an iteration waiting or active
  sync,      \* the pass of each process
  due,       \* API: the passes its requests have still to run
  changes,   \* how often administrators changed a schedule
  faults     \* how often something went wrong

scheduleOwn == <<settings, repeats, runs, sync, due, changes, faults>>

Syncers == {"scheduler", "api"}

Crons == {"hourly", "daily", "off"}

Schedules == Feeds \cup {0}

Group(g) == IF g = "builtin" THEN Builtin \cup {0} ELSE Custom

Pattern == [cron : {"hourly", "daily", "weekly"}, minute : 0 .. 59]

\* legacy: a key of an earlier version, not integration-schedule:<identity>.
\* phase of the next iteration: delayed, due (waiting in the queue), lost from
\* Redis, or lost for so long that the repeatable is overdue.
Repeatable == [id : Schedules, legacy : BOOLEAN, pat : Pattern,
               phase : {"delayed", "due", "lost", "overdue"}]

NoPass == [pc |-> "idle", group |-> "builtin", want |-> <<>>, todo |-> {},
           live |-> {}, known |-> FALSE, seen |-> {}]

-----------------------------------------------------------------------------
(* What is wanted *)

Hourly(fs) == {f \in fs : settings[f] = "hourly"}

\* Mutant: slots are counted from one, past the end of the hour.
SlotMinutePast(f, fs) ==
  LET count == Cardinality(Hourly(fs))
  IN Cardinality({g \in Hourly(fs) : g <= f}) * (60 \div count)

\* buildHourlySlotMap
SlotMinute(f, fs) ==
  LET count == Cardinality(Hourly(fs))
      index == Cardinality({g \in Hourly(fs) : g < f})
      spacing == IF count = 1 THEN 0
                 ELSE IF 60 \div count > 1 THEN 60 \div count ELSE 1
  IN IF index * spacing < 59 THEN index * spacing ELSE 59

\* desiredRepeatConfig
PatternOf(f, fs) ==
  [cron |-> settings[f],
   minute |-> IF settings[f] = "hourly" THEN SlotMinute(f, fs) ELSE 0]

\* loadActiveFeedSchedules with the full reconciliation, or
\* loadCustomThreatFeedSchedules: the schedules of a group and their patterns.
Desired(g) ==
  LET fs == IF g = "builtin" THEN Builtin ELSE Custom
      on == {f \in fs : settings[f] # "off"}
  IN [i \in on \cup IF Usom \in on THEN {0} ELSE {} |->
        IF i = 0 THEN [cron |-> "weekly", minute |-> 0] ELSE PatternOf(i, fs)]

ScheduleTypeOK ==
  /\ settings \in [Feeds -> Crons]
  /\ repeats \subseteq Repeatable
  /\ runs \subseteq Schedules
  /\ \A p \in Syncers :
       /\ sync[p].pc \in {"idle", "list", "live", "weed"}
       /\ sync[p].group \in {"builtin", "custom"}
       /\ DOMAIN sync[p].want \subseteq Schedules
       /\ \A i \in DOMAIN sync[p].want : sync[p].want[i] \in Pattern
       /\ sync[p].todo \subseteq Repeatable
       /\ sync[p].known \in BOOLEAN
       /\ sync[p].live \cup sync[p].seen \subseteq Schedules
  /\ due \subseteq {"builtin", "custom"}
  /\ changes \in 0 .. MaxChanges
  /\ faults \in 0 .. MaxFaults

\* Nothing is scheduled yet, or there are repeatables of an earlier version.
ScheduleInit ==
  /\ settings \in [Feeds -> {"hourly", "off"}]
  /\ repeats \in {{}, {[id |-> f, legacy |-> TRUE, phase |-> "delayed",
                        pat |-> [cron |-> "hourly", minute |-> 0]] : f \in Feeds}}
  /\ runs = {}
  /\ sync = [p \in Syncers |-> NoPass]
  /\ due = {}
  /\ changes = 0
  /\ faults = 0

-----------------------------------------------------------------------------
(* The administrators: each request changes the row and then starts a pass *)

SetSchedule(f, cron) ==
  /\ changes < MaxChanges
  /\ cron # settings[f]
  /\ settings' = [settings EXCEPT ![f] = cron]
  /\ due' = due \cup {IF f \in Builtin THEN "builtin" ELSE "custom"}
  /\ changes' = changes + 1
  /\ UNCHANGED <<repeats, runs, sync, faults>>

-----------------------------------------------------------------------------
(* A pass *)

Syncing(p, pc) == sync[p].pc = pc

\* A pass of a built-in feed or of the scheduler goes through both groups.
BeginSync(p, g) ==
  /\ Syncing(p, "idle")
  /\ IF p = "api" THEN g \in due /\ due' = due \ {g}
                  ELSE g = "builtin" /\ UNCHANGED due
  /\ sync' = [sync EXCEPT ![p] =
       [NoPass EXCEPT !.pc = "list", !.group = g, !.want = Desired(g)]]
  /\ UNCHANGED <<settings, repeats, runs, changes, faults>>

\* getRepeatableJobs
ListRepeatables(p) ==
  /\ Syncing(p, "list")
  /\ sync' = [sync EXCEPT
       ![p].todo = {r \in repeats : r.id \in Group(sync[p].group)},
       ![p].pc = IF sync[p].known THEN "weed" ELSE "live"]
  /\ UNCHANGED <<settings, repeats, runs, due, changes, faults>>

\* collectLiveScheduleIdentities: waiting, active and delayed jobs.
LiveSchedules ==
  runs \cup {r.id : r \in {q \in repeats : q.phase \in {"delayed", "due"}}}

\* A read that fails counts as an empty one.  The custom feeds of a whole pass
\* are compared with what was collected for the built-in ones.
CollectLive(p) ==
  /\ Syncing(p, "live")
  /\ \/ /\ sync' = [sync EXCEPT ![p].pc = "weed", ![p].live = LiveSchedules]
        /\ UNCHANGED faults
     \/ /\ faults < MaxFaults /\ faults' = faults + 1
        /\ sync' = [sync EXCEPT ![p].pc = "weed"]
  /\ UNCHANGED <<settings, repeats, runs, due, changes>>

\* deriveFeedScheduleIdentity; and for custom feeds deriveFeedKeyFromRepeatable,
\* which falls back on the job name, and so on the only feed there is.
MappedTo(r, want) ==
  CASE r.id \in Builtin \cup {0} -> {r.id}
    [] r.id \in DOMAIN want -> {r.id}
    [] Cardinality(DOMAIN want) = 1 -> DOMAIN want
    [] OTHER -> {}

\* evaluateRepeatableStall
StalledRepeat(r, i, live) == r.phase \in {"due", "overdue"} /\ i \notin live

\* Mutant: a schedule that changed is not noticed.
KeptThoughChanged(r, i, s) ==
  /\ i \in DOMAIN s.want
  /\ ~(r.legacy /\ i \in {0, Usom})
  /\ ~StalledRepeat(r, i, s.live)
  /\ i \notin s.seen

\* Mutant: a repeatable that lost its iteration is left alone.
KeptThoughStalled(r, i, s) ==
  /\ i \in DOMAIN s.want
  /\ ~(r.legacy /\ i \in {0, Usom})
  /\ r.pat = s.want[i]
  /\ i \notin s.seen

\* The conditions of the loop over the repeatables, for one mapped to i.
Kept(r, i, s) ==
  /\ i \in DOMAIN s.want
  /\ ~(r.legacy /\ i \in {0, Usom})
  /\ ~StalledRepeat(r, i, s.live)
  /\ r.pat = s.want[i]
  /\ i \notin s.seen

\* removeRepeatableByKey: whatever is stored under the key now.
WithoutKey(r) == {q \in repeats : q.id # r.id \/ q.legacy # r.legacy}

\* One turn of the loop over the listed repeatables.
Weed(p) ==
  /\ Syncing(p, "weed")
  /\ \E r \in sync[p].todo :
       LET kept == {i \in MappedTo(r, sync[p].want) : Kept(r, i, sync[p])} IN
       /\ sync' = [sync EXCEPT ![p].todo = @ \ {r}, ![p].seen = @ \cup kept]
       /\ repeats' = IF kept = {} THEN WithoutKey(r) ELSE repeats
  /\ UNCHANGED <<settings, runs, due, changes, faults>>

\* ensureFeedSchedule: what is wanted and was not seen is added under its key.
Ensure(p) ==
  /\ Syncing(p, "weed") /\ sync[p].todo = {}
  /\ \E i \in DOMAIN sync[p].want \ sync[p].seen :
       LET r == [id |-> i, legacy |-> FALSE, pat |-> sync[p].want[i],
                 phase |-> "delayed"]
       IN /\ repeats' = WithoutKey(r) \cup {r}
          /\ sync' = [sync EXCEPT ![p].seen = @ \cup {i}]
  /\ UNCHANGED <<settings, runs, due, changes, faults>>

\* The built-in feeds are done: on to syncCustomThreatFeedSchedules.
EndSync(p) ==
  /\ Syncing(p, "weed") /\ sync[p].todo = {}
  /\ DOMAIN sync[p].want \subseteq sync[p].seen
  /\ sync' = [sync EXCEPT ![p] =
       IF sync[p].group = "builtin"
       THEN [NoPass EXCEPT !.pc = "list", !.group = "custom",
                           !.want = Desired("custom"),
                           !.live = sync[p].live, !.known = TRUE]
       ELSE NoPass]
  /\ UNCHANGED <<settings, repeats, runs, due, changes, faults>>

\* A query or a Redis command fails, or the process dies.
AbortSync(p) ==
  /\ sync[p].pc # "idle"
  /\ faults < MaxFaults
  /\ faults' = faults + 1
  /\ sync' = [sync EXCEPT ![p] = NoPass]
  /\ UNCHANGED <<settings, repeats, runs, due, changes>>

-----------------------------------------------------------------------------
(* BullMQ (external) *)

Turn(r, phase) == repeats' = (repeats \ {r}) \cup {[r EXCEPT !.phase = phase]}

\* The delayed iteration comes due.
IterationDue(r) ==
  /\ r.phase = "delayed"
  /\ Turn(r, "due")
  /\ runs' = runs \cup {r.id}
  /\ UNCHANGED <<settings, sync, due, changes, faults>>

\* A worker takes it, which arms the next one.
IterationTaken(r) ==
  /\ r.phase = "due"
  /\ Turn(r, "delayed")
  /\ UNCHANGED <<settings, runs, sync, due, changes, faults>>

IterationOver(i) ==
  /\ i \in runs
  /\ ~\E r \in repeats : r.id = i /\ r.phase = "due"
  /\ runs' = runs \ {i}
  /\ UNCHANGED <<settings, repeats, sync, due, changes, faults>>

\* Redis restarts without it.
IterationLost(r) ==
  /\ r.phase \in {"delayed", "due"}
  /\ faults < MaxFaults
  /\ faults' = faults + 1
  /\ Turn(r, "lost")
  /\ runs' = IF r.phase = "due" THEN runs \ {r.id} ELSE runs
  /\ UNCHANGED <<settings, sync, due, changes>>

IterationOverdue(r) ==
  /\ r.phase = "lost"
  /\ Turn(r, "overdue")
  /\ UNCHANGED <<settings, runs, sync, due, changes, faults>>

PassStep(p) ==
  ListRepeatables(p) \/ CollectLive(p) \/ Weed(p) \/ Ensure(p) \/ EndSync(p)

Begin(p) == \E g \in {"builtin", "custom"} : BeginSync(p, g)

Queue(i) ==
  \/ \E r \in {q \in repeats : q.id = i} :
       IterationDue(r) \/ IterationTaken(r) \/ IterationOverdue(r)
  \/ IterationOver(i)

ScheduleNext ==
  \/ \E f \in Feeds, cron \in Crons : SetSchedule(f, cron)
  \/ \E p \in Syncers : Begin(p) \/ PassStep(p) \/ AbortSync(p)
  \/ \E r \in repeats : IterationLost(r)
  \/ \E i \in Schedules : Queue(i)

-----------------------------------------------------------------------------
(* Properties *)

\* The repeatables of a group are those its feeds ask for.
Agrees(g) ==
  /\ {r.id : r \in {q \in repeats : q.id \in Group(g)}} = DOMAIN Desired(g)
  /\ \A r \in repeats : r.id \in Group(g) => r.pat = Desired(g)[r.id]

\* Once nobody changes schedules any more, the repeatables of the built-in feeds
\* come to agree with them and stay so, however passes of the API and of the
\* scheduler that read older settings overlap, fail half-way or lose data.
SchedulesConverge == <>[]Agrees("builtin")

\* A built-in feed that is wanted has, again and again, an iteration that is to
\* come or has come, also after Redis lost it.
IterationsRearmed ==
  \A i \in Builtin \cup {0} :
    []<>(i \in DOMAIN Desired("builtin") =>
           \E r \in repeats : r.id = i /\ r.phase \in {"delayed", "due"})

\* The repeatables of the custom feeds come to agree with their settings: the
\* one of a feed that was switched off is removed, the others stay.
CustomSchedulesConverge == <>[]Agrees("custom")

=============================================================================
