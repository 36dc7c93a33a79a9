------------------------------ MODULE Schedules ------------------------------
(* The timetable of one classroom (api/src/services/schedules), the          *)
(* exemptions of its machines and its own settings (services/classrooms):    *)
(* every request that changes what the classroom's agents enforce, one       *)
(* action per database statement, and the two readings of what is in force.  *)
(* A day has DayLength minutes and a week WeekLength days.                   *)
EXTENDS Integers, FiniteSets

CONSTANTS
  None,
  Users, Admins,       \* those who may reserve, and those among them who manage all
  Usable,              \* the enabled groups a user may use
  Groups, Ids, Machines,
  CallsOf,             \* the requests a handler may be given in this instance
  Handlers,
  DayLength, WeekLength, SchoolDays,
  Horizon, MaxTime, MaxFaults   \* the last instant asked for, the last of the clock

SchedulesAssumption ==
  /\ Admins \subseteq Users
  /\ Usable \in [Users -> SUBSET Groups]
  /\ DayLength \in Nat \ {0} /\ WeekLength \in Nat \ {0}
  /\ SchoolDays \subseteq 0..(WeekLength - 1)
  /\ Horizon \in Nat /\ MaxTime \in Nat /\ MaxFaults \in Nat
  /\ None \notin Groups /\ None \notin Ids /\ None \notin Nat

Calls == {"weekly", "one_off", "change", "delete",
          "exempt", "exempt_hours", "readmit", "remove_machine", "activate", "settings"}

Instants == 0..Horizon
Week == Instants \union 0..(DayLength * WeekLength - 1)
Minutes == 0..(DayLength - 1)
DayOf(t) == (t \div DayLength) % WeekLength
MinuteOf(t) == t % DayLength

VARIABLES
  schedules,   \* the row of each identifier, None where there is none
  machines,    \* the machines linked to the classroom
  exemptions,  \* machine_exemptions
  classroom,   \* the default and the active group, and the captive portal domains
  unpublished, \* a change has been written that the agents were not told of since
  handlers, now, faults

vars == <<schedules, machines, exemptions, classroom, unpublished, handlers, now, faults>>

-----------------------------------------------------------------------------
(* What is in force *)

\* A weekly row is in force on its day, a one-off row between its instants.
WeeklyAt(s, t) ==
  /\ s /= None /\ s.kind = "weekly" /\ s.day = DayOf(t)
  /\ s.start <= MinuteOf(t) /\ MinuteOf(t) < s.end
OneOffAt(s, t) == s /= None /\ s.kind = "one_off" /\ s.start <= t /\ t < s.end

WeeklyGroups(t) ==
  IF DayOf(t) \notin SchoolDays THEN {}
  ELSE {schedules[i].group : i \in {j \in Ids : WeeklyAt(schedules[j], t)}}
OneOffGroups(t) == {schedules[i].group : i \in {j \in Ids : OneOffAt(schedules[j], t)}}

\* The groups the page of one classroom may show: LIMIT 1 picks any row.
ScheduledOnPage(t) ==
  IF OneOffGroups(t) /= {} THEN OneOffGroups(t)
  ELSE IF WeeklyGroups(t) /= {} THEN WeeklyGroups(t) ELSE {None}

\* Mutant: a weekly row takes the place of the one-off row already found.
ScheduledInListLast(t) ==
  IF WeeklyGroups(t) /= {} THEN WeeklyGroups(t)
  ELSE IF OneOffGroups(t) /= {} THEN OneOffGroups(t) ELSE {None}

\* The same in the list of classrooms, where the first row entered stays.
ScheduledInList(t) ==
  LET entered == OneOffGroups(t)
  IN  IF DayOf(t) \notin SchoolDays \/ entered /= {}
      THEN IF entered = {} THEN {None} ELSE entered
      ELSE IF WeeklyGroups(t) = {} THEN {None} ELSE WeeklyGroups(t)

\* An active group overrides the timetable, which overrides the default.
InForce(scheduled) ==
  IF classroom.active /= None THEN classroom.active
  ELSE IF scheduled /= None THEN scheduled ELSE classroom.default

\* When the lesson a machine is exempted from ends: the one-off row's end, or
\* today's end of the weekly row, counted from the minute it is now.
LessonEnd(s, t) ==
  CASE OneOffAt(s, t)                                  -> s.end
    [] WeeklyAt(s, t) /\ DayOf(t) \in SchoolDays       -> t + (s.end - MinuteOf(t))
    [] OTHER                                           -> None

\* Exemptions the page lists: those not over of machines still there.
Listed(t) == {x \in exemptions : x.machine \in machines /\ x.expires > t}

-----------------------------------------------------------------------------
(* Conflicts *)

\* Weekly rows meet on a day, one-off rows anywhere; a one-off row may lie over
\* a weekly one, which it replaces.
Overlaps(a, b) ==
  /\ a.kind = b.kind /\ a.day = b.day
  /\ a.start < b.end /\ b.start < a.end

\* Mutant: a row that moves is checked on the day it moves from.
ConflictsOnOldDay(row, except) ==
  LET day == IF except = None \/ schedules[except] = None THEN row.day ELSE schedules[except].day
  IN  {i \in Ids \ {except} :
         schedules[i] /= None /\ Overlaps([row EXCEPT !.day = day], schedules[i])}

\* findConflicting...ScheduleId, over the committed rows but the one that moves.
Conflicts(row, except) ==
  {i \in Ids \ {except} : schedules[i] /= None /\ Overlaps(row, schedules[i])}

\* Rows a user may ask for; the router lets a weekly row fall on school days only.
WeeklyRows(u) ==
  [kind : {"weekly"}, day : SchoolDays, start : Minutes, end : Minutes,
   group : Usable[u], teacher : {u}]
OneOffRows(u) ==
  [kind : {"one_off"}, day : {None}, start : Instants, end : Instants,
   group : Usable[u], teacher : {u}]
IsRow(r) ==
  /\ r \in [kind : {"weekly", "one_off"}, day : SchoolDays \union {None}, start : Nat, end : Nat,
            group : Groups, teacher : Users]
  /\ r.start < r.end
  /\ IF r.kind = "weekly" THEN r.day /= None /\ r.end \in Minutes ELSE r.day = None

\* What an update may ask of a row: another start, end or group and, of a weekly
\* row, another school day. The group it has already may be given again.
ChangesBy(u, row) ==
  LET weekly == row.kind = "weekly"
      times == IF weekly THEN Minutes ELSE Instants
  IN  [day : IF weekly THEN SchoolDays \union {None} ELSE {None},
       start : times \union {None}, end : times \union {None},
       group : Usable[u] \union {row.group, None}]

\* The row an update makes: what was not asked stays.
NextRow(row, change) ==
  [row EXCEPT !.day   = IF change.day = None THEN @ ELSE change.day,
              !.start = IF change.start = None THEN @ ELSE change.start,
              !.end   = IF change.end = None THEN @ ELSE change.end,
              !.group = IF change.group = None THEN @ ELSE change.group]

-----------------------------------------------------------------------------
(* Handlers *)

Idle == [pc |-> "idle"]
Put(h, rec) == handlers' = [handlers EXCEPT ![h] = rec]
To(h, pc) == handlers' = [handlers EXCEPT ![h].pc = pc]
Answer(h) == Put(h, Idle)

\* Effective writes leave the agents behind until the classroom is published.
Written(h) == unpublished' = TRUE /\ To(h, "notify")

\* Every request is first checked against the user's groups and the machine's
\* link, which do not change while it runs in this model; the exemption of a
\* machine that is not of the classroom is refused there.
Start(h) ==
  /\ handlers[h] = Idle
  /\ \E u \in Users, call \in CallsOf[h] :
       \/ /\ call = "weekly"
          /\ \E r \in WeeklyRows(u) :
               r.start < r.end /\ Put(h, [pc |-> "check", call |-> call, user |-> u, row |-> r, id |-> None])
       \/ /\ call = "one_off"
          /\ \E r \in OneOffRows(u) :
               r.start < r.end /\ Put(h, [pc |-> "check", call |-> call, user |-> u, row |-> r, id |-> None])
       \/ /\ call \in {"change", "delete"}
          /\ \E i \in Ids : Put(h, [pc |-> "load", call |-> call, user |-> u, id |-> i])
       \/ /\ call = "exempt"
          /\ \E m \in machines, i \in Ids :
               Put(h, [pc |-> "load", call |-> call, user |-> u, machine |-> m, id |-> i])
       \/ /\ call = "exempt_hours" /\ u \in Admins
          /\ \E m \in machines :
               Put(h, [pc |-> "write", call |-> call, user |-> u,
                       row |-> [machine |-> m, schedule |-> None, expires |-> now + 1]])
       \/ /\ call = "readmit"
          /\ \E x \in exemptions :
               /\ x.schedule = None => u \in Admins
               /\ Put(h, [pc |-> "write", call |-> call, user |-> u, row |-> x])
       \/ /\ call = "remove_machine"
          /\ \E m \in Machines : Put(h, [pc |-> "write", call |-> call, user |-> u, row |-> m])
       \/ /\ call = "activate"
          /\ \E g \in Usable[u] \union {None} :
               Put(h, [pc |-> "write", call |-> call, user |-> u, row |-> g])
       \/ /\ call = "settings"
          /\ \E g \in Usable[u] \union {None}, domains \in BOOLEAN, supported \in BOOLEAN :
               Put(h, [pc |-> "write", call |-> call, user |-> u, row |-> g,
                       domains |-> domains, supported |-> supported])
  /\ UNCHANGED <<schedules, machines, exemptions, classroom, unpublished, now, faults>>

\* assertCanManageSchedule.
CanManage(u, row) == u \in Admins \/ row.teacher = u

\* loadScheduleOrThrow, the checks on what was loaded, and what an update asks.
Load(h) ==
  LET me == handlers[h]
      row == schedules[me.id]
  IN  /\ me.pc = "load"
      /\ \/ /\ me.call = "exempt"
            /\ IF LessonEnd(row, now) = None THEN Answer(h)
               ELSE Put(h, [pc |-> "write", call |-> me.call, user |-> me.user,
                            row |-> [machine |-> me.machine, schedule |-> me.id,
                                     expires |-> LessonEnd(row, now)]])
         \/ /\ me.call = "delete"
            /\ IF row /= None /\ CanManage(me.user, row) THEN To(h, "write") ELSE Answer(h)
         \/ /\ me.call = "change"
            /\ IF row = None THEN Answer(h)
               ELSE IF ~CanManage(me.user, row) THEN Answer(h)
               ELSE \E change \in ChangesBy(me.user, row) :
                 LET next == NextRow(row, change)
                 IN  IF next.start < next.end
                     THEN Put(h, [pc |-> "check", call |-> me.call, user |-> me.user,
                                  row |-> next, change |-> change, id |-> me.id])
                     ELSE Answer(h)
      /\ UNCHANGED <<schedules, machines, exemptions, classroom, unpublished, now, faults>>

\* assertNoConflict and assertNoOneOffConflict.
Check(h) ==
  LET me == handlers[h]
  IN  /\ me.pc = "check"
      /\ IF Conflicts(me.row, me.id) = {} THEN To(h, "write") ELSE Answer(h)
      /\ UNCHANGED <<schedules, machines, exemptions, classroom, unpublished, now, faults>>

\* Identifiers are drawn at random: a new row never gets one that a change or a
\* deletion under way has still to write by.
Fresh(i) ==
  /\ schedules[i] = None
  /\ \A h \in Handlers :
       handlers[h] /= Idle /\ handlers[h].call \in {"change", "delete"} => handlers[h].id /= i

\* The insert of a reservation.
Reserve(h) ==
  LET me == handlers[h]
  IN  /\ me.pc = "write" /\ me.call \in {"weekly", "one_off"}
      /\ \E i \in Ids :
           /\ Fresh(i)
           /\ schedules' = [schedules EXCEPT ![i] = me.row]
      /\ Written(h)
      /\ UNCHANGED <<machines, exemptions, classroom, now, faults>>

\* The update writes only what was asked, over whatever the row has become.
Change(h) ==
  LET me == handlers[h]
  IN  /\ me.pc = "write" /\ me.call = "change"
      /\ IF schedules[me.id] = None THEN Answer(h) /\ UNCHANGED <<schedules, unpublished>>
         ELSE /\ schedules' = [schedules EXCEPT ![me.id] = NextRow(@, me.change)]
              /\ Written(h)
      /\ UNCHANGED <<machines, exemptions, classroom, now, faults>>

\* The delete, which is published whether or not it found the row.
Delete(h) ==
  LET me == handlers[h]
  IN  /\ me.pc = "write" /\ me.call = "delete"
      /\ schedules' = [schedules EXCEPT ![me.id] = None]
      /\ Written(h)
      /\ UNCHANGED <<machines, exemptions, classroom, now, faults>>

\* Exempting a machine: the row, or the one that is there with the same key.
Exempt(h) ==
  LET me == handlers[h]
  IN  /\ me.pc = "write" /\ me.call \in {"exempt", "exempt_hours"}
      /\ exemptions' = exemptions \union {me.row}
      /\ Written(h)
      /\ UNCHANGED <<schedules, machines, classroom, now, faults>>

Readmit(h) ==
  LET me == handlers[h]
  IN  /\ me.pc = "write" /\ me.call = "readmit"
      /\ exemptions' = exemptions \ {me.row}
      /\ Written(h)
      /\ UNCHANGED <<schedules, machines, classroom, now, faults>>

\* A machine's row goes, its exemptions stay.
RemoveMachine(h) ==
  LET me == handlers[h]
  IN  /\ me.pc = "write" /\ me.call = "remove_machine"
      /\ machines' = machines \ {me.row}
      /\ Written(h)
      /\ UNCHANGED <<schedules, exemptions, classroom, now, faults>>

Activate(h) ==
  LET me == handlers[h]
  IN  /\ me.pc = "write" /\ me.call = "activate"
      /\ classroom' = [classroom EXCEPT !.active = me.row]
      /\ Written(h)
      /\ UNCHANGED <<schedules, machines, exemptions, now, faults>>

\* Mutant: the classroom is published when its default group was given.
PublishesWithDefault(me) == me.row /= None

\* updateClassroom publishes when the default group or the domains were given.
Publishes(me) == me.row /= None \/ me.domains

\* The settings: first the fields, if any was given ...
Settings(h) ==
  LET me == handlers[h]
  IN  /\ me.pc = "write" /\ me.call = "settings"
      /\ IF me.row = None THEN UNCHANGED <<classroom, unpublished>>
         ELSE classroom' = [classroom EXCEPT !.default = me.row] /\ unpublished' = TRUE
      /\ To(h, "domains")
      /\ UNCHANGED <<schedules, machines, exemptions, now, faults>>

\* ... then the captive portal domains, if the column is there.
Domains(h) ==
  LET me == handlers[h]
  IN  /\ me.pc = "domains"
      /\ IF me.domains /\ me.supported
         THEN classroom' = [classroom EXCEPT !.domains = ~@] /\ unpublished' = TRUE
         ELSE UNCHANGED <<classroom, unpublished>>
      /\ IF Publishes(me) THEN To(h, "notify") ELSE Answer(h)
      /\ UNCHANGED <<schedules, machines, exemptions, now, faults>>

\* notifyOpenPathClassroomChanged: the agents fetch what is in force by now.
Notify(h) ==
  /\ handlers[h].pc = "notify"
  /\ unpublished' = FALSE
  /\ Answer(h)
  /\ UNCHANGED <<schedules, machines, exemptions, classroom, now, faults>>

\* A statement fails, or the process dies: the request ends where it is.
Fail(h) ==
  /\ handlers[h] /= Idle
  /\ faults < MaxFaults
  /\ faults' = faults + 1
  /\ Answer(h)
  /\ UNCHANGED <<schedules, machines, exemptions, classroom, unpublished, now>>

Tick ==
  /\ now < MaxTime
  /\ now' = now + 1
  /\ UNCHANGED <<schedules, machines, exemptions, classroom, unpublished, handlers, faults>>

Init ==
  /\ schedules = [i \in Ids |-> None]
  /\ machines = Machines
  /\ exemptions = {}
  /\ classroom = [default |-> None, active |-> None, domains |-> FALSE]
  /\ unpublished = FALSE
  /\ handlers = [h \in Handlers |-> Idle]
  /\ now = 0 /\ faults = 0

Run(h) ==
  \/ Load(h) \/ Check(h) \/ Reserve(h) \/ Change(h) \/ Delete(h) \/ Exempt(h) \/ Readmit(h)
  \/ RemoveMachine(h) \/ Activate(h) \/ Settings(h) \/ Domains(h) \/ Notify(h)

Next == Tick \/ \E h \in Handlers : Start(h) \/ Run(h) \/ Fail(h)

Spec == Init /\ [][Next]_vars

-----------------------------------------------------------------------------
(* Properties *)

\* Every row is one a request may have asked for.
TypeOK ==
  /\ \A i \in Ids : schedules[i] = None \/ IsRow(schedules[i])
  /\ machines \subseteq Machines
  /\ exemptions \subseteq [machine : Machines, schedule : Ids \union {None}, expires : Nat]
  /\ classroom \in [default : Groups \union {None}, active : Groups \union {None}, domains : BOOLEAN]
  /\ unpublished \in BOOLEAN
  /\ \A h \in Handlers : handlers[h].pc \in {"idle", "load", "check", "write", "domains", "notify"}
  /\ now \in 0..MaxTime /\ faults \in 0..MaxFaults

\* While one request at a time writes the timetable, whatever was created, moved
\* by either end or to another day and deleted, no two reservations of a kind
\* share a minute: the check looks at the row as it will be, on the day it will
\* be on, beside every other committed row.
ReservationsStandApart ==
  \A i, j \in Ids :
    i /= j /\ schedules[i] /= None /\ schedules[j] /= None /\ schedules[i].kind = schedules[j].kind
      => \A t \in Week :
           /\ ~(WeeklyAt(schedules[i], t) /\ WeeklyAt(schedules[j], t))
           /\ ~(OneOffAt(schedules[i], t) /\ OneOffAt(schedules[j], t))

\* The page of a classroom and the list of classrooms, which compute it in two
\* ways, name the same group in force, and only one, at every minute of the week,
\* on school days and on others.
OneGroupInForce ==
  \A t \in Week :
    /\ {InForce(g) : g \in ScheduledOnPage(t)} = {InForce(g) : g \in ScheduledInList(t)}
    /\ Cardinality({InForce(g) : g \in ScheduledOnPage(t)}) = 1

\* Once no request is under way the agents have been told of the last change of
\* the timetable, the exemptions or the settings, unless a statement failed.
Published == faults = 0 /\ (\A h \in Handlers : handlers[h] = Idle) => ~unpublished
=============================================================================
