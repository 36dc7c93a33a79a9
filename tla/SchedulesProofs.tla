---------------------------- MODULE SchedulesProofs ----------------------------
(* What is proved of a classroom's timetable: agents are told of the last     *)
(* change whatever the requests interleave, and while at most one request is  *)
(* between its conflict check and its write, no two reservations of a kind    *)
(* share a minute and both readings show one group in force.                  *)
EXTENDS Schedules, FiniteSetTheorems, TLAPS

-----------------------------------------------------------------------------
(* What a handler remembers of its call, and where it may be. *)

RowType ==
  [kind : {"weekly", "one_off"}, day : SchoolDays \union {None}, start : Nat, end : Nat,
   group : Groups, teacher : Users]
ChangeType ==
  [day : SchoolDays \union {None}, start : Nat \union {None}, end : Nat \union {None},
   group : Groups \union {None}]
ExemptionType == [machine : Machines, schedule : Ids \union {None}, expires : Nat]
Given == Groups \union {None}

Reserving == [pc : {"check", "write", "notify"}, call : {"weekly", "one_off"}, user : Users,
              row : RowType, id : {None}]
Loading == [pc : {"load"}, call : {"change"}, user : Users, id : Ids]
Changing == [pc : {"check", "write", "notify"}, call : {"change"}, user : Users,
             row : RowType, change : ChangeType, id : Ids]
Deleting == [pc : {"load", "write", "notify"}, call : {"delete"}, user : Users, id : Ids]
Choosing == [pc : {"load"}, call : {"exempt"}, user : Users, machine : Machines, id : Ids]
Exempting == [pc : {"write", "notify"}, call : {"exempt", "exempt_hours", "readmit"},
              user : Users, row : ExemptionType]
Removing == [pc : {"write", "notify"}, call : {"remove_machine"}, user : Users, row : Machines]
Activating == [pc : {"write", "notify"}, call : {"activate"}, user : Users, row : Given]
Setting == [pc : {"write", "domains", "notify"}, call : {"settings"}, user : Users, row : Given,
            domains : BOOLEAN, supported : BOOLEAN]

Timetabling == Reserving \union Loading \union Changing \union Deleting
Arranging == Choosing \union Exempting \union Removing \union Activating \union Setting
HandlerRecords == {Idle} \union Timetabling \union Arranging

\* The tables and the handlers, whatever they interleave. A row that two changes
\* have moved at once need not start before it ends: that is IsRow's part.
Shape ==
  /\ schedules \in [Ids -> RowType \union {None}]
  /\ machines \subseteq Machines
  /\ exemptions \subseteq ExemptionType
  /\ classroom \in [default : Given, active : Given, domains : BOOLEAN]
  /\ unpublished \in BOOLEAN
  /\ handlers \in [Handlers -> HandlerRecords]
  /\ now \in 0..MaxTime /\ faults \in 0..MaxFaults

-----------------------------------------------------------------------------
(* Types *)

\* Where the handler h goes, every other one stays where it is.
LEMMA PutKeepsType ==
  ASSUME handlers \in [Handlers -> HandlerRecords], NEW h \in Handlers,
         NEW rec \in HandlerRecords, Put(h, rec)
  PROVE  /\ handlers' \in [Handlers -> HandlerRecords]
         /\ handlers'[h] = rec
         /\ \A k \in Handlers \ {h} : handlers'[k] = handlers[k]
BY DEF Put

LEMMA AnswerKeepsType ==
  ASSUME handlers \in [Handlers -> HandlerRecords], NEW h \in Handlers, Answer(h)
  PROVE  /\ handlers' \in [Handlers -> HandlerRecords]
         /\ handlers'[h] = Idle
         /\ \A k \in Handlers \ {h} : handlers'[k] = handlers[k]
<1>1. Idle \in HandlerRecords
  BY DEF HandlerRecords
<1> QED BY <1>1 DEF Put, Answer

\* Where a handler goes on, it keeps the record of its call.
LEMMA GoesOn ==
  ASSUME NEW me \in HandlerRecords, NEW pc,
         \/ me.pc = "load" /\ me.call = "delete" /\ pc = "write"
         \/ me.pc = "check" /\ pc = "write"
         \/ me.pc = "write" /\ pc = "notify"
         \/ me.pc = "write" /\ me.call = "settings" /\ pc = "domains"
         \/ me.pc = "domains" /\ pc = "notify"
  PROVE  [me EXCEPT !.pc = pc] \in HandlerRecords
<1> USE DEF HandlerRecords, Timetabling, Arranging, Idle
<1>1. CASE me.pc = "load" /\ me.call = "delete" /\ pc = "write"
  <2>1. me \in Deleting
    BY <1>1 DEF Reserving, Loading, Changing, Choosing, Exempting, Removing, Activating, Setting
  <2> QED BY <1>1, <2>1 DEF Deleting
<1>2. CASE me.pc = "check" /\ pc = "write"
  <2>1. me \in Reserving \union Changing
    BY <1>2 DEF Loading, Deleting, Choosing, Exempting, Removing, Activating, Setting
  <2> QED BY <1>2, <2>1 DEF Reserving, Changing
<1>3. CASE me.pc = "write" /\ pc = "notify"
  <2>1. me \in Reserving \union Changing \union Deleting \union Exempting \union Removing
                 \union Activating \union Setting
    BY <1>3 DEF Loading, Choosing
  <2> QED BY <1>3, <2>1 DEF Reserving, Changing, Deleting, Exempting, Removing, Activating, Setting
<1>4. CASE me.pc = "write" /\ me.call = "settings" /\ pc = "domains"
  <2>1. me \in Setting
    BY <1>4 DEF Reserving, Loading, Changing, Deleting, Choosing, Exempting, Removing, Activating
  <2> QED BY <1>4, <2>1 DEF Setting
<1>5. CASE me.pc = "domains" /\ pc = "notify"
  <2>1. me \in Setting
    BY <1>5 DEF Reserving, Loading, Changing, Deleting, Choosing, Exempting, Removing, Activating
  <2> QED BY <1>5, <2>1 DEF Setting
<1> QED BY <1>1, <1>2, <1>3, <1>4, <1>5

LEMMA ToKeepsType ==
  ASSUME handlers \in [Handlers -> HandlerRecords], NEW h \in Handlers, NEW pc, To(h, pc),
         [handlers[h] EXCEPT !.pc = pc] \in HandlerRecords
  PROVE  /\ handlers' \in [Handlers -> HandlerRecords]
         /\ handlers'[h] = [handlers[h] EXCEPT !.pc = pc]
         /\ \A k \in Handlers \ {h} : handlers'[k] = handlers[k]
BY DEF To

\* A row keeps its columns through a change, and a machine's exemption its own.
LEMMA NextRowTyped ==
  ASSUME NEW row \in RowType, NEW change \in ChangeType
  PROVE  NextRow(row, change) \in RowType
BY DEF NextRow, RowType, ChangeType

LEMMA ChangesTyped ==
  ASSUME SchedulesAssumption, NEW u \in Users, NEW row \in RowType, NEW change \in ChangesBy(u, row)
  PROVE  /\ change \in ChangeType
         /\ row.kind = "weekly" => change.end \in Minutes \union {None}
         /\ row.kind = "one_off" => change.day = None
<1>1. Usable[u] \subseteq Groups /\ row.group \in Groups
  BY DEF SchedulesAssumption, RowType
<1>2. Minutes \subseteq Nat /\ Instants \subseteq Nat
  BY DEF Minutes, Instants
<1> QED BY <1>1, <1>2 DEF ChangesBy, ChangeType

LEMMA LessonEndTyped ==
  ASSUME SchedulesAssumption, NEW s \in RowType \union {None}, NEW t \in Nat
  PROVE  LessonEnd(s, t) \in Nat \union {None}
<1>1. CASE OneOffAt(s, t)
  <2>1. s \in RowType
    BY <1>1 DEF OneOffAt
  <2>2. LessonEnd(s, t) = s.end
    BY <1>1 DEF LessonEnd, OneOffAt, WeeklyAt
  <2> QED BY <2>1, <2>2 DEF RowType
<1>2. CASE WeeklyAt(s, t) /\ DayOf(t) \in SchoolDays
  <2>1. s \in RowType
    BY <1>2 DEF WeeklyAt
  <2>2. LessonEnd(s, t) = t + (s.end - MinuteOf(t))
    BY <1>2 DEF LessonEnd, OneOffAt, WeeklyAt
  <2>3. MinuteOf(t) \in Nat /\ MinuteOf(t) < s.end
    BY <1>2 DEF WeeklyAt, MinuteOf, SchedulesAssumption
  <2> QED BY <2>1, <2>2, <2>3 DEF RowType
<1>3. CASE ~OneOffAt(s, t) /\ ~(WeeklyAt(s, t) /\ DayOf(t) \in SchoolDays)
  BY <1>3 DEF LessonEnd
<1> QED BY <1>1, <1>2, <1>3

LEMMA InitShaped == SchedulesAssumption /\ Init => Shape
<1> SUFFICES ASSUME SchedulesAssumption, Init PROVE Shape
  OBVIOUS
<1>1. handlers \in [Handlers -> HandlerRecords]
  BY DEF Init, HandlerRecords
<1>2. schedules \in [Ids -> RowType \union {None}]
  BY DEF Init
<1>3. classroom \in [default : Given, active : Given, domains : BOOLEAN]
  BY DEF Init, Given
<1>4. unpublished \in BOOLEAN /\ machines \subseteq Machines /\ exemptions \subseteq ExemptionType
  BY DEF Init
<1>5. now \in 0..MaxTime /\ faults \in 0..MaxFaults
  BY DEF Init, SchedulesAssumption
<1> QED BY <1>1, <1>2, <1>3, <1>4, <1>5 DEF Shape

\* The call a handler is given is one of its records.
LEMMA StartKeepsShape ==
  ASSUME SchedulesAssumption, Shape, NEW h \in Handlers, Start(h)
  PROVE  Shape'
<1>1. PICK u \in Users, call \in CallsOf[h] :
       \/ /\ call = "weekly"
          /\ \E r \in WeeklyRows(u) :
               r.start < r.end /\ Put(h, [pc |-> "check", call |-> call, user |-> u, row |-> r, id |-> None])
       \/ /\ call = "one_off"
          /\ \E r \in OneOffRows(u) :
               r.start < r.end /\ Put(h, [pc |-> "check", call |-> call, user |-> u, row |-> r, id |-> None])
       \/ /\ call \in {"change", "delete"}
          /\ \E i \in Ids : Put(h, [pc |-> "load", call |-> call, user |-> u, id |-> i])
       \/ /\ call = "exempt"
          /\ \E m \in machines, i \in Ids :
               Put(h, [pc |-> "load", call |-> call, user |-> u, machine |-> m, id |-> i])
       \/ /\ call = "exempt_hours" /\ u \in Admins
          /\ \E m \in machines :
               Put(h, [pc |-> "write", call |-> call, user |-> u,
                       row |-> [machine |-> m, schedule |-> None, expires |-> now + 1]])
       \/ /\ call = "readmit"
          /\ \E x \in exemptions :
               /\ x.schedule = None => u \in Admins
               /\ Put(h, [pc |-> "write", call |-> call, user |-> u, row |-> x])
       \/ /\ call = "remove_machine"
          /\ \E m \in Machines : Put(h, [pc |-> "write", call |-> call, user |-> u, row |-> m])
       \/ /\ call = "activate"
          /\ \E g \in Usable[u] \union {None} :
               Put(h, [pc |-> "write", call |-> call, user |-> u, row |-> g])
       \/ /\ call = "settings"
          /\ \E g \in Usable[u] \union {None}, domains \in BOOLEAN, supported \in BOOLEAN :
               Put(h, [pc |-> "write", call |-> call, user |-> u, row |-> g,
                       domains |-> domains, supported |-> supported])
  BY DEF Start
<1>2. Usable[u] \subseteq Groups /\ machines \subseteq Machines /\ now \in Nat
  BY DEF SchedulesAssumption, Shape
<1>3. \E rec \in HandlerRecords : Put(h, rec)
  <2> USE DEF HandlerRecords, Timetabling, Arranging
  <2>1. CASE call = "weekly"
    <3>1. PICK r \in WeeklyRows(u) :
             Put(h, [pc |-> "check", call |-> call, user |-> u, row |-> r, id |-> None])
      BY <1>1, <2>1
    <3>2. r \in RowType
      BY <1>2 DEF WeeklyRows, RowType, Minutes
    <3>3. [pc |-> "check", call |-> call, user |-> u, row |-> r, id |-> None] \in Reserving
      BY <2>1, <3>2 DEF Reserving
    <3> QED BY <3>1, <3>3
  <2>2. CASE call = "one_off"
    <3>1. PICK r \in OneOffRows(u) :
             Put(h, [pc |-> "check", call |-> call, user |-> u, row |-> r, id |-> None])
      BY <1>1, <2>2
    <3>2. r \in RowType
      BY <1>2 DEF OneOffRows, RowType, Instants
    <3>3. [pc |-> "check", call |-> call, user |-> u, row |-> r, id |-> None] \in Reserving
      BY <2>2, <3>2 DEF Reserving
    <3> QED BY <3>1, <3>3
  <2>3. CASE call \in {"change", "delete"}
    <3>1. PICK i \in Ids : Put(h, [pc |-> "load", call |-> call, user |-> u, id |-> i])
      BY <1>1, <2>3
    <3>2. [pc |-> "load", call |-> call, user |-> u, id |-> i] \in Loading \union Deleting
      BY <2>3 DEF Loading, Deleting
    <3> QED BY <3>1, <3>2
  <2>4. CASE call = "exempt"
    <3>1. PICK m \in Machines, i \in Ids :
             Put(h, [pc |-> "load", call |-> call, user |-> u, machine |-> m, id |-> i])
      BY <1>1, <1>2, <2>4
    <3>2. [pc |-> "load", call |-> call, user |-> u, machine |-> m, id |-> i] \in Choosing
      BY <2>4 DEF Choosing
    <3> QED BY <3>1, <3>2
  <2>5. CASE call = "exempt_hours"
    <3>1. PICK m \in Machines :
             Put(h, [pc |-> "write", call |-> call, user |-> u,
                     row |-> [machine |-> m, schedule |-> None, expires |-> now + 1]])
      BY <1>1, <1>2, <2>5
    <3>2. [machine |-> m, schedule |-> None, expires |-> now + 1] \in ExemptionType
      BY <1>2 DEF ExemptionType
    <3>3. [pc |-> "write", call |-> call, user |-> u,
           row |-> [machine |-> m, schedule |-> None, expires |-> now + 1]] \in Exempting
      BY <2>5, <3>2 DEF Exempting
    <3> QED BY <3>1, <3>3
  <2>6. CASE call = "readmit"
    <3>1. PICK x \in exemptions : Put(h, [pc |-> "write", call |-> call, user |-> u, row |-> x])
      BY <1>1, <2>6
    <3>2. [pc |-> "write", call |-> call, user |-> u, row |-> x] \in Exempting
      BY <2>6 DEF Exempting, Shape
    <3> QED BY <3>1, <3>2
  <2>7. CASE call = "remove_machine"
    <3>1. PICK m \in Machines : Put(h, [pc |-> "write", call |-> call, user |-> u, row |-> m])
      BY <1>1, <2>7
    <3>2. [pc |-> "write", call |-> call, user |-> u, row |-> m] \in Removing
      BY <2>7 DEF Removing
    <3> QED BY <3>1, <3>2
  <2>8. CASE call = "activate"
    <3>1. PICK g \in Given : Put(h, [pc |-> "write", call |-> call, user |-> u, row |-> g])
      BY <1>1, <1>2, <2>8 DEF Given
    <3>2. [pc |-> "write", call |-> call, user |-> u, row |-> g] \in Activating
      BY <2>8 DEF Activating
    <3> QED BY <3>1, <3>2
  <2>9. CASE call = "settings"
    <3>1. PICK g \in Given, domains \in BOOLEAN, supported \in BOOLEAN :
             Put(h, [pc |-> "write", call |-> call, user |-> u, row |-> g,
                     domains |-> domains, supported |-> supported])
      BY <1>1, <1>2, <2>9 DEF Given
    <3>2. [pc |-> "write", call |-> call, user |-> u, row |-> g,
           domains |-> domains, supported |-> supported] \in Setting
      BY <2>9 DEF Setting
    <3> QED BY <3>1, <3>2
  <2> QED BY <1>1, <2>1, <2>2, <2>3, <2>4, <2>5, <2>6, <2>7, <2>8, <2>9
<1>4. handlers' \in [Handlers -> HandlerRecords]
  BY <1>3, PutKeepsType DEF Shape
<1>5. UNCHANGED <<schedules, machines, exemptions, classroom, unpublished, now, faults>>
  BY DEF Start
<1> QED BY <1>4, <1>5 DEF Shape

-----------------------------------------------------------------------------
(* What a handler holds where it is. *)

LEMMA AtCheck ==
  ASSUME NEW me \in HandlerRecords, me.pc = "check"
  PROVE  me \in Reserving \union Changing
BY DEF HandlerRecords, Timetabling, Arranging, Idle, Reserving, Loading, Changing, Deleting,
       Choosing, Exempting, Removing, Activating, Setting

LEMMA AtWrite ==
  ASSUME NEW me \in HandlerRecords, me.pc = "write"
  PROVE  /\ me.call \in {"weekly", "one_off"} => me \in Reserving
         /\ me.call = "change" => me \in Changing
         /\ me.call = "delete" => me \in Deleting
         /\ me.call \in {"exempt", "exempt_hours", "readmit"} => me \in Exempting
         /\ me.call = "remove_machine" => me \in Removing
         /\ me.call = "activate" => me \in Activating
         /\ me.call = "settings" => me \in Setting
BY DEF HandlerRecords, Timetabling, Arranging, Idle, Reserving, Loading, Changing, Deleting,
       Choosing, Exempting, Removing, Activating, Setting

LEMMA AtDomains ==
  ASSUME NEW me \in HandlerRecords, me.pc = "domains"
  PROVE  me \in Setting
BY DEF HandlerRecords, Timetabling, Arranging, Idle, Reserving, Loading, Changing, Deleting,
       Choosing, Exempting, Removing, Activating, Setting

LEMMA AtLoad ==
  ASSUME NEW me \in HandlerRecords, me.pc = "load"
  PROVE  /\ me.call = "exempt" => me \in Choosing
         /\ me.call = "delete" => me \in Deleting
         /\ me.call = "change" => me \in Loading
BY DEF HandlerRecords, Timetabling, Arranging, Idle, Reserving, Loading, Changing, Deleting,
       Choosing, Exempting, Removing, Activating, Setting

\* An answer, a fault and the clock change no table.
LEMMA AnswerKeepsShape ==
  ASSUME Shape, NEW h \in Handlers, Answer(h),
         UNCHANGED <<schedules, machines, exemptions, classroom, unpublished, now>>,
         faults' \in 0..MaxFaults
  PROVE  Shape'
BY AnswerKeepsType DEF Shape

\* Loading: what is checked and written next is a record of the call again.
LEMMA LoadKeepsShape ==
  ASSUME SchedulesAssumption, Shape, NEW h \in Handlers, Load(h)
  PROVE  Shape'
<1> DEFINE me == handlers[h]
           row == schedules[me.id]
<1>1. /\ handlers \in [Handlers -> HandlerRecords] /\ me \in HandlerRecords
      /\ now \in Nat
  BY DEF Shape, SchedulesAssumption
<1>2. UNCHANGED <<schedules, machines, exemptions, classroom, unpublished, now, faults>>
  BY DEF Load
<1>3. handlers' \in [Handlers -> HandlerRecords]
  <2>1. CASE me.call = "exempt"
    <3>1. me \in Choosing
      BY <1>1, <2>1, AtLoad DEF Load
    <3>2. row \in RowType \union {None}
      BY <3>1 DEF Choosing, Shape
    <3>3. CASE LessonEnd(row, now) = None
      <4>1. Answer(h)
        BY <2>1, <3>3 DEF Load
      <4> QED BY <1>1, <4>1, AnswerKeepsType
    <3>4. CASE LessonEnd(row, now) # None
      <4>1. LessonEnd(row, now) \in Nat
        BY <1>1, <3>2, <3>4, LessonEndTyped
      <4> DEFINE rec == [pc |-> "write", call |-> me.call, user |-> me.user,
                         row |-> [machine |-> me.machine, schedule |-> me.id,
                                  expires |-> LessonEnd(row, now)]]
      <4>2. Put(h, rec)
        BY <2>1, <3>4 DEF Load
      <4>3. [machine |-> me.machine, schedule |-> me.id, expires |-> LessonEnd(row, now)]
              \in ExemptionType
        BY <3>1, <4>1 DEF Choosing, ExemptionType
      <4>4. rec \in Exempting
        BY <2>1, <3>1, <4>3 DEF Choosing, Exempting
      <4>5. rec \in HandlerRecords
        BY <4>4 DEF HandlerRecords, Arranging
      <4> HIDE DEF rec
      <4> QED BY <1>1, <4>2, <4>5, PutKeepsType
    <3> QED BY <3>3, <3>4
  <2>2. CASE me.call = "delete"
    <3>1. To(h, "write") \/ Answer(h)
      BY <2>2 DEF Load
    <3>2. [me EXCEPT !.pc = "write"] \in HandlerRecords
      BY <1>1, <2>2, GoesOn DEF Load
    <3> QED BY <1>1, <3>1, <3>2, ToKeepsType, AnswerKeepsType
  <2>3. CASE me.call = "change"
    <3>1. me \in Loading
      BY <1>1, <2>3, AtLoad DEF Load
    <3>2. CASE Answer(h)
      BY <1>1, <3>2, AnswerKeepsType
    <3>3. CASE row # None /\ ~Answer(h)
      <4>1. row \in RowType
        BY <3>1, <3>3 DEF Loading, Shape
      <4>2. PICK change \in ChangesBy(me.user, row) :
               Put(h, [pc |-> "check", call |-> me.call, user |-> me.user,
                       row |-> NextRow(row, change), change |-> change, id |-> me.id])
        BY <2>3, <3>3 DEF Load
      <4>3. change \in ChangeType
        BY <3>1, <4>1, <4>2, ChangesTyped DEF Loading
      <4> DEFINE rec == [pc |-> "check", call |-> me.call, user |-> me.user,
                         row |-> NextRow(row, change), change |-> change, id |-> me.id]
      <4>4. rec \in Changing
        BY <2>3, <3>1, <4>1, <4>3, NextRowTyped DEF Loading, Changing
      <4>5. rec \in HandlerRecords
        BY <4>4 DEF HandlerRecords, Timetabling
      <4> HIDE DEF rec
      <4> QED BY <1>1, <4>2, <4>5, PutKeepsType DEF rec
    <3> QED BY <2>3, <3>2, <3>3 DEF Load
  <2> QED BY <2>1, <2>2, <2>3 DEF Load
<1> QED BY <1>2, <1>3 DEF Shape

\* Where a handler goes within its call, its record stays one of the call.
LEMMA WrittenKeepsType ==
  ASSUME Shape, NEW h \in Handlers, handlers[h].pc = "write", Written(h)
  PROVE  /\ handlers' \in [Handlers -> HandlerRecords]
         /\ handlers'[h] = [handlers[h] EXCEPT !.pc = "notify"]
         /\ \A k \in Handlers \ {h} : handlers'[k] = handlers[k]
         /\ unpublished' = TRUE
<1>1. handlers \in [Handlers -> HandlerRecords] /\ handlers[h] \in HandlerRecords
  BY DEF Shape
<1>2. [handlers[h] EXCEPT !.pc = "notify"] \in HandlerRecords
  BY <1>1, GoesOn
<1> QED BY <1>1, <1>2, ToKeepsType DEF Written

\* The writes of the timetable keep its rows typed.
LEMMA TimetableKeepsShape ==
  ASSUME SchedulesAssumption, Shape, NEW h \in Handlers,
         Check(h) \/ Reserve(h) \/ Change(h) \/ Delete(h)
  PROVE  Shape'
<1> DEFINE me == handlers[h]
<1>1. handlers \in [Handlers -> HandlerRecords] /\ me \in HandlerRecords
  BY DEF Shape
<1>2. CASE Check(h)
  <2>1. [me EXCEPT !.pc = "write"] \in HandlerRecords
    BY <1>1, <1>2, GoesOn DEF Check
  <2>2. To(h, "write") \/ Answer(h)
    BY <1>2 DEF Check
  <2>3. handlers' \in [Handlers -> HandlerRecords]
    BY <1>1, <2>1, <2>2, ToKeepsType, AnswerKeepsType
  <2> QED BY <1>2, <2>3 DEF Check, Shape
<1>3. CASE Reserve(h)
  <2>1. me \in Reserving
    BY <1>1, <1>3, AtWrite DEF Reserve
  <2>2. handlers' \in [Handlers -> HandlerRecords] /\ unpublished' = TRUE
    BY <1>3, WrittenKeepsType DEF Reserve
  <2>3. schedules' \in [Ids -> RowType \union {None}]
    BY <1>3, <2>1 DEF Reserve, Reserving, Shape
  <2> QED BY <1>3, <2>2, <2>3 DEF Reserve, Shape
<1>4. CASE Change(h)
  <2>1. me \in Changing
    BY <1>1, <1>4, AtWrite DEF Change
  <2>2. CASE schedules[me.id] = None
    <3>1. Answer(h) /\ UNCHANGED <<schedules, machines, exemptions, classroom, unpublished, now, faults>>
      BY <1>4, <2>2 DEF Change
    <3> QED BY <3>1, AnswerKeepsShape DEF Shape
  <2>3. CASE schedules[me.id] # None
    <3>1. /\ schedules' = [schedules EXCEPT ![me.id] = NextRow(@, me.change)]
          /\ Written(h)
      BY <1>4, <2>3 DEF Change
    <3>2. schedules[me.id] \in RowType
      BY <2>1, <2>3 DEF Changing, Shape
    <3>3. NextRow(schedules[me.id], me.change) \in RowType
      BY <2>1, <3>2, NextRowTyped DEF Changing
    <3>4. schedules' \in [Ids -> RowType \union {None}]
      BY <2>1, <3>1, <3>3 DEF Changing, Shape
    <3>5. handlers' \in [Handlers -> HandlerRecords] /\ unpublished' = TRUE
      BY <1>4, <3>1, WrittenKeepsType DEF Change
    <3> QED BY <1>4, <3>4, <3>5 DEF Change, Shape
  <2> QED BY <2>2, <2>3
<1>5. CASE Delete(h)
  <2>1. me \in Deleting
    BY <1>1, <1>5, AtWrite DEF Delete
  <2>2. handlers' \in [Handlers -> HandlerRecords] /\ unpublished' = TRUE
    BY <1>5, WrittenKeepsType DEF Delete
  <2>3. schedules' \in [Ids -> RowType \union {None}]
    BY <1>5, <2>1 DEF Delete, Deleting, Shape
  <2> QED BY <1>5, <2>2, <2>3 DEF Delete, Shape
<1> QED BY <1>2, <1>3, <1>4, <1>5

\* The exemptions, the machines, the active group and the settings.
LEMMA ClassroomKeepsShape ==
  ASSUME SchedulesAssumption, Shape, NEW h \in Handlers,
         Exempt(h) \/ Readmit(h) \/ RemoveMachine(h) \/ Activate(h) \/ Settings(h) \/ Domains(h)
           \/ Notify(h)
  PROVE  Shape'
<1> DEFINE me == handlers[h]
<1>1. handlers \in [Handlers -> HandlerRecords] /\ me \in HandlerRecords
  BY DEF Shape
<1>2. CASE Exempt(h)
  <2>1. me \in Exempting
    BY <1>1, <1>2, AtWrite DEF Exempt
  <2>2. handlers' \in [Handlers -> HandlerRecords] /\ unpublished' = TRUE
    BY <1>2, WrittenKeepsType DEF Exempt
  <2>3. exemptions' \subseteq ExemptionType
    BY <1>2, <2>1 DEF Exempt, Exempting, Shape
  <2> QED BY <1>2, <2>2, <2>3 DEF Exempt, Shape
<1>3. CASE Readmit(h)
  <2>2. handlers' \in [Handlers -> HandlerRecords] /\ unpublished' = TRUE
    BY <1>3, WrittenKeepsType DEF Readmit
  <2> QED BY <1>3, <2>2 DEF Readmit, Shape
<1>4. CASE RemoveMachine(h)
  <2>2. handlers' \in [Handlers -> HandlerRecords] /\ unpublished' = TRUE
    BY <1>4, WrittenKeepsType DEF RemoveMachine
  <2> QED BY <1>4, <2>2 DEF RemoveMachine, Shape
<1>5. CASE Activate(h)
  <2>1. me \in Activating
    BY <1>1, <1>5, AtWrite DEF Activate
  <2>2. handlers' \in [Handlers -> HandlerRecords] /\ unpublished' = TRUE
    BY <1>5, WrittenKeepsType DEF Activate
  <2>3. classroom' \in [default : Given, active : Given, domains : BOOLEAN]
    BY <1>5, <2>1 DEF Activate, Activating, Shape
  <2> QED BY <1>5, <2>2, <2>3 DEF Activate, Shape
<1>6. CASE Settings(h)
  <2>1. me \in Setting
    BY <1>1, <1>6, AtWrite DEF Settings
  <2>2. [me EXCEPT !.pc = "domains"] \in HandlerRecords
    BY <1>1, <1>6, GoesOn DEF Settings
  <2>3. handlers' \in [Handlers -> HandlerRecords]
    BY <1>1, <1>6, <2>2, ToKeepsType DEF Settings
  <2>4. /\ classroom' \in [default : Given, active : Given, domains : BOOLEAN]
        /\ unpublished' \in BOOLEAN
    BY <1>6, <2>1 DEF Settings, Setting, Shape
  <2> QED BY <1>6, <2>3, <2>4 DEF Settings, Shape
<1>7. CASE Domains(h)
  <2>1. [me EXCEPT !.pc = "notify"] \in HandlerRecords
    BY <1>1, <1>7, GoesOn DEF Domains
  <2>2. To(h, "notify") \/ Answer(h)
    BY <1>7 DEF Domains
  <2>3. handlers' \in [Handlers -> HandlerRecords]
    BY <1>1, <2>1, <2>2, ToKeepsType, AnswerKeepsType
  <2>4. /\ classroom' \in [default : Given, active : Given, domains : BOOLEAN]
        /\ unpublished' \in BOOLEAN
    BY <1>7 DEF Domains, Shape
  <2> QED BY <1>7, <2>3, <2>4 DEF Domains, Shape
<1>8. CASE Notify(h)
  <2>1. handlers' \in [Handlers -> HandlerRecords]
    BY <1>1, <1>8, AnswerKeepsType DEF Notify
  <2> QED BY <1>8, <2>1 DEF Notify, Shape
<1> QED BY <1>2, <1>3, <1>4, <1>5, <1>6, <1>7, <1>8

LEMMA NextKeepsShape ==
  ASSUME SchedulesAssumption, Shape, [Next]_vars
  PROVE  Shape'
<1>1. CASE UNCHANGED vars
  BY <1>1 DEF vars, Shape
<1>2. CASE Tick
  BY <1>2 DEF Tick, Shape, SchedulesAssumption
<1>3. ASSUME NEW h \in Handlers, Start(h)
      PROVE  Shape'
  BY <1>3, StartKeepsShape
<1>4. ASSUME NEW h \in Handlers, Run(h)
      PROVE  Shape'
  BY <1>4, LoadKeepsShape, TimetableKeepsShape, ClassroomKeepsShape DEF Run
<1>5. ASSUME NEW h \in Handlers, Fail(h)
      PROVE  Shape'
  <2>1. faults' \in 0..MaxFaults
    BY <1>5 DEF Fail, Shape, SchedulesAssumption
  <2> QED BY <1>5, <2>1, AnswerKeepsShape DEF Fail
<1> QED BY <1>1, <1>2, <1>3, <1>4, <1>5 DEF Next

\* Whatever the requests interleave, every table keeps its columns and every
\* request its own call.
THEOREM SchedulesShaped == SchedulesAssumption => (Spec => []Shape)
<1> SUFFICES ASSUME SchedulesAssumption PROVE Spec => []Shape
  OBVIOUS
<1>1. Init => Shape
  BY InitShaped
<1>2. Shape /\ [Next]_vars => Shape'
  BY NextKeepsShape
<1> QED BY <1>1, <1>2, PTL DEF Spec

-----------------------------------------------------------------------------
(* Agents are told of the last change. *)

\* A request about to publish: at its notice, or at the second statement of the
\* settings with a field or the domains given.
Owing(rec) == \/ rec.pc = "notify"
              \/ rec.pc = "domains" /\ Publishes(rec)
Owed == unpublished /\ faults = 0 => \E h \in Handlers : Owing(handlers[h])

\* One request moves: it publishes, it will, or it owed nothing and wrote nothing.
LEMMA MoveKeepsOwed ==
  ASSUME Owed, NEW h \in Handlers, faults' = faults,
         \A k \in Handlers \ {h} : handlers'[k] = handlers[k],
         \/ unpublished' = FALSE
         \/ Owing(handlers'[h])
         \/ unpublished' = unpublished /\ ~Owing(handlers[h])
  PROVE  Owed'
<1>1. CASE unpublished' = FALSE
  BY <1>1 DEF Owed
<1>2. CASE Owing(handlers'[h])
  BY <1>2 DEF Owed, Owing, Publishes
<1>3. CASE unpublished' = unpublished /\ ~Owing(handlers[h])
  <2> SUFFICES ASSUME unpublished, faults = 0
               PROVE  \E k \in Handlers : Owing(handlers'[k])
    BY <1>3 DEF Owed, Owing, Publishes
  <2>1. PICK k \in Handlers : Owing(handlers[k])
    BY DEF Owed
  <2>2. handlers'[k] = handlers[k]
    BY <1>3, <2>1
  <2> QED BY <2>1, <2>2
<1> QED BY <1>1, <1>2, <1>3

LEMMA WrittenOwes ==
  ASSUME Shape, NEW h \in Handlers, handlers[h].pc = "write", Written(h)
  PROVE  /\ Owing(handlers'[h])
         /\ \A k \in Handlers \ {h} : handlers'[k] = handlers[k]
<1>1. handlers[h] \in HandlerRecords
  BY DEF Shape
<1>2. "pc" \in DOMAIN handlers[h]
  BY <1>1, AtWrite DEF HandlerRecords, Timetabling, Arranging, Idle, Reserving, Loading, Changing,
     Deleting, Choosing, Exempting, Removing, Activating, Setting
<1>3. /\ handlers'[h] = [handlers[h] EXCEPT !.pc = "notify"]
      /\ \A k \in Handlers \ {h} : handlers'[k] = handlers[k]
  BY WrittenKeepsType
<1> QED BY <1>2, <1>3 DEF Owing

LEMMA RunKeepsOwed ==
  ASSUME Shape, Owed, NEW h \in Handlers, Run(h)
  PROVE  Owed'
<1> DEFINE me == handlers[h]
<1>1. handlers \in [Handlers -> HandlerRecords] /\ me \in HandlerRecords
  BY DEF Shape
<1>2. CASE Load(h)
  <2>1. unpublished' = unpublished /\ faults' = faults
    BY <1>2 DEF Load
  <2>2. ~Owing(handlers[h])
    BY <1>2 DEF Load, Owing
  <2>3. \A k \in Handlers \ {h} : handlers'[k] = handlers[k]
    BY <1>1, <1>2 DEF Load, Put, Answer, To
  <2> QED BY <2>1, <2>2, <2>3, MoveKeepsOwed
<1>3. CASE Check(h)
  <2>1. unpublished' = unpublished /\ faults' = faults /\ ~Owing(handlers[h])
    BY <1>3 DEF Check, Owing
  <2>2. \A k \in Handlers \ {h} : handlers'[k] = handlers[k]
    BY <1>1, <1>3 DEF Check, Put, Answer, To
  <2> QED BY <2>1, <2>2, MoveKeepsOwed
<1>4. CASE Reserve(h) \/ Delete(h) \/ Exempt(h) \/ Readmit(h) \/ RemoveMachine(h) \/ Activate(h)
  <2>1. me.pc = "write" /\ Written(h) /\ faults' = faults
    BY <1>4 DEF Reserve, Delete, Exempt, Readmit, RemoveMachine, Activate
  <2> QED BY <2>1, WrittenOwes, MoveKeepsOwed
<1>5. CASE Change(h)
  <2>1. CASE schedules[me.id] = None
    <3>1. unpublished' = unpublished /\ faults' = faults /\ Answer(h) /\ ~Owing(handlers[h])
      BY <1>5, <2>1 DEF Change, Owing
    <3> QED BY <1>1, <3>1, AnswerKeepsType, MoveKeepsOwed
  <2>2. CASE schedules[me.id] # None
    <3>1. me.pc = "write" /\ Written(h) /\ faults' = faults
      BY <1>5, <2>2 DEF Change
    <3> QED BY <3>1, WrittenOwes, MoveKeepsOwed
  <2> QED BY <2>1, <2>2
<1>6. CASE Settings(h)
  <2>1. me \in Setting /\ me.pc = "write" /\ faults' = faults /\ To(h, "domains")
    BY <1>1, <1>6, AtWrite DEF Settings
  <2>2. /\ handlers'[h] = [me EXCEPT !.pc = "domains"]
        /\ \A k \in Handlers \ {h} : handlers'[k] = handlers[k]
    BY <1>1, <2>1 DEF To
  <2>3. CASE me.row = None
    <3>1. unpublished' = unpublished /\ ~Owing(handlers[h])
      BY <1>6, <2>1, <2>3 DEF Settings, Owing
    <3> QED BY <2>1, <2>2, <3>1, MoveKeepsOwed
  <2>4. CASE me.row # None
    <3>1. Owing(handlers'[h])
      BY <2>1, <2>2, <2>4 DEF Owing, Publishes, Setting
    <3> QED BY <2>1, <2>2, <3>1, MoveKeepsOwed
  <2> QED BY <2>3, <2>4
<1>7. CASE Domains(h)
  <2>1. me \in Setting /\ me.pc = "domains" /\ faults' = faults
    BY <1>1, <1>7, AtDomains DEF Domains
  <2>2. CASE Publishes(me)
    <3>1. To(h, "notify")
      BY <1>7, <2>2 DEF Domains
    <3>2. /\ handlers'[h] = [me EXCEPT !.pc = "notify"]
          /\ \A k \in Handlers \ {h} : handlers'[k] = handlers[k]
      BY <1>1, <3>1 DEF To
    <3>3. Owing(handlers'[h])
      BY <2>1, <3>2 DEF Owing, Setting
    <3> QED BY <2>1, <3>2, <3>3, MoveKeepsOwed
  <2>3. CASE ~Publishes(me)
    <3>1. Answer(h) /\ unpublished' = unpublished /\ ~Owing(handlers[h])
      BY <1>7, <2>1, <2>3 DEF Domains, Publishes, Owing
    <3> QED BY <1>1, <2>1, <3>1, AnswerKeepsType, MoveKeepsOwed
  <2> QED BY <2>2, <2>3
<1>8. CASE Notify(h)
  BY <1>8 DEF Notify, Owed
<1> QED BY <1>2, <1>3, <1>4, <1>5, <1>6, <1>7, <1>8 DEF Run

LEMMA NextKeepsOwed ==
  ASSUME SchedulesAssumption, Shape, Owed, [Next]_vars
  PROVE  Owed'
<1>1. CASE UNCHANGED vars
  BY <1>1 DEF vars, Owed, Owing, Publishes
<1>2. CASE Tick
  BY <1>2 DEF Tick, Owed, Owing, Publishes
<1>3. ASSUME NEW h \in Handlers, Start(h)
      PROVE  Owed'
  <2>1. unpublished' = unpublished /\ faults' = faults /\ ~Owing(handlers[h])
    BY <1>3 DEF Start, Owing, Idle
  <2>2. \A k \in Handlers \ {h} : handlers'[k] = handlers[k]
    BY <1>3 DEF Start, Put, Shape
  <2> QED BY <2>1, <2>2, MoveKeepsOwed
<1>4. ASSUME NEW h \in Handlers, Run(h)
      PROVE  Owed'
  BY <1>4, RunKeepsOwed
<1>5. ASSUME NEW h \in Handlers, Fail(h)
      PROVE  Owed'
  <2>1. faults' # 0
    BY <1>5 DEF Fail, Shape, SchedulesAssumption
  <2> QED BY <2>1 DEF Owed
<1> QED BY <1>1, <1>2, <1>3, <1>4, <1>5 DEF Next

\* Whatever the requests on a classroom interleave, once none is under way its
\* agents have been told of the last change, unless a statement failed.
THEOREM ClassroomPublished == SchedulesAssumption => (Spec => []Published)
<1> SUFFICES ASSUME SchedulesAssumption PROVE Spec => []Published
  OBVIOUS
<1>1. Init => Owed
  BY DEF Init, Owed
<1>2. Shape /\ Owed /\ [Next]_vars => Owed'
  BY NextKeepsOwed
<1>3. Owed => Published
  BY DEF Owed, Published, Owing, Idle
<1>4. Spec => []Shape
  BY SchedulesShaped
<1> QED BY <1>1, <1>2, <1>3, <1>4, PTL DEF Spec

-----------------------------------------------------------------------------
(* No two reservations of a kind meet. *)

\* Between its conflict check and its write, both of them included, a request
\* relies on the timetable not being written by another one. Nothing in the code
\* makes it so: the check and the write are two statements of no transaction.
Writing(h) ==
  handlers[h].pc \in {"check", "write"} /\ handlers[h].call \in {"weekly", "one_off", "change"}
OneWriter == \A h, k \in Handlers : Writing(h) /\ Writing(k) => h = k

\* The row the request will leave, which a change makes of the row there is by now.
Keeps(h) ==
  LET me == handlers[h]
  IN  /\ IsRow(me.row)
      /\ me.call = "change" =>
           schedules[me.id] = None \/ NextRow(schedules[me.id], me.change) = me.row

\* It relies on the conflicts that were ruled out, too.
Relies(h) == Keeps(h) /\ (handlers[h].pc = "write" => Conflicts(handlers[h].row, handlers[h].id) = {})

Rows == \A i \in Ids : schedules[i] = None \/ IsRow(schedules[i])
Apart == \A i, j \in Ids :
  i # j /\ schedules[i] # None /\ schedules[j] # None => ~Overlaps(schedules[i], schedules[j])
Relied == \A h \in Handlers : Writing(h) => Relies(h)

TimetableInv == Shape /\ Rows /\ Apart /\ Relied

\* The types of the tables and the handlers, where every row is one.
LEMMA RowsTyped ==
  ASSUME Shape, Rows
  PROVE  TypeOK
<1>1. \A h \in Handlers : handlers[h].pc \in {"idle", "load", "check", "write", "domains", "notify"}
  BY DEF Shape, HandlerRecords, Timetabling, Arranging, Idle, Reserving, Loading, Changing, Deleting,
     Choosing, Exempting, Removing, Activating, Setting
<1> QED BY <1>1 DEF TypeOK, Rows, Shape, ExemptionType, Given

LEMMA OverlapsBothWays ==
  ASSUME NEW a \in RowType, NEW b \in RowType, Overlaps(a, b)
  PROVE  Overlaps(b, a)
BY DEF Overlaps

\* A row without conflicts takes its place beside the others.
LEMMA PlacedApart ==
  ASSUME Shape, Rows, Apart, NEW i \in Ids, NEW row \in RowType, IsRow(row),
         NEW except \in Ids \union {None}, except \in Ids => except = i,
         Conflicts(row, except) = {}, schedules' = [schedules EXCEPT ![i] = row]
  PROVE  Rows' /\ Apart'
<1>1. \A j \in Ids \ {i} : schedules'[j] = schedules[j]
  BY DEF Shape
<1>2. schedules'[i] = row
  BY DEF Shape
<1>3. ASSUME NEW j \in Ids \ {i}, schedules[j] # None
      PROVE  ~Overlaps(row, schedules[j]) /\ ~Overlaps(schedules[j], row)
  <2>1. ~Overlaps(row, schedules[j])
    BY <1>3 DEF Conflicts
  <2>2. schedules[j] \in RowType
    BY <1>3 DEF Shape
  <2> QED BY <2>1, <2>2, OverlapsBothWays
<1>4. Rows'
  <2> SUFFICES ASSUME NEW j \in Ids PROVE schedules'[j] = None \/ IsRow(schedules'[j])
    BY DEF Rows
  <2> QED BY <1>1, <1>2 DEF Rows
<1>5. Apart'
  <2> SUFFICES ASSUME NEW j \in Ids, NEW k \in Ids, j # k, schedules'[j] # None,
                      schedules'[k] # None
               PROVE  ~Overlaps(schedules'[j], schedules'[k])
    BY DEF Apart
  <2>1. CASE j = i
    BY <1>1, <1>2, <1>3, <2>1
  <2>2. CASE k = i
    BY <1>1, <1>2, <1>3, <2>2
  <2>3. CASE j # i /\ k # i
    BY <1>1, <2>3 DEF Apart
  <2> QED BY <2>1, <2>2, <2>3
<1> QED BY <1>4, <1>5

\* Where the table stays, and what the other handlers hold, only the handler that
\* moves may rely on something new.
LEMMA MoveKeepsRelied ==
  ASSUME Rows, Apart, Relied, NEW h \in Handlers, schedules' = schedules,
         \A k \in Handlers \ {h} : handlers'[k] = handlers[k],
         Writing(h)' => Relies(h)'
  PROVE  Rows' /\ Apart' /\ Relied'
<1>1. Rows' /\ Apart'
  BY DEF Rows, Apart
<1>2. ASSUME NEW k \in Handlers \ {h}, Writing(k)'
      PROVE  Relies(k)'
  <2>1. Writing(k) /\ handlers'[k] = handlers[k]
    BY <1>2 DEF Writing
  <2>2. Relies(k)
    BY <2>1 DEF Relied
  <2> QED BY <2>1, <2>2 DEF Relies, Keeps, Conflicts
<1> QED BY <1>1, <1>2 DEF Relied

\* A request that begins to reserve asks for a row of its own kind.
LEMMA StartsReserving ==
  ASSUME SchedulesAssumption, Shape, NEW h \in Handlers, Start(h), Writing(h)'
  PROVE  /\ handlers'[h].pc = "check" /\ handlers'[h].call \in {"weekly", "one_off"}
         /\ IsRow(handlers'[h].row) /\ handlers'[h].row.kind = handlers'[h].call
<1>1. handlers \in [Handlers -> HandlerRecords]
  BY DEF Shape
<1>2. handlers'[h].pc \in {"check", "write"} /\ handlers'[h].call \in {"weekly", "one_off", "change"}
  BY DEF Writing
<1>3. PICK u \in Users :
         \E r \in WeeklyRows(u) \union OneOffRows(u), call \in {"weekly", "one_off"} :
           /\ r.start < r.end /\ r.kind = call
           /\ Put(h, [pc |-> "check", call |-> call, user |-> u, row |-> r, id |-> None])
  <2>1. ASSUME NEW rec, Put(h, rec)
        PROVE  rec.pc \in {"check", "write"} /\ rec.call \in {"weekly", "one_off", "change"}
    BY <1>1, <1>2, <2>1 DEF Put
  <2>2. PICK u \in Users, call \in CallsOf[h] :
           \/ /\ call = "weekly"
              /\ \E r \in WeeklyRows(u) :
                   r.start < r.end /\ Put(h, [pc |-> "check", call |-> call, user |-> u, row |-> r, id |-> None])
           \/ /\ call = "one_off"
              /\ \E r \in OneOffRows(u) :
                   r.start < r.end /\ Put(h, [pc |-> "check", call |-> call, user |-> u, row |-> r, id |-> None])
           \/ /\ call \in {"change", "delete"}
              /\ \E i \in Ids : Put(h, [pc |-> "load", call |-> call, user |-> u, id |-> i])
           \/ /\ call = "exempt"
              /\ \E m \in machines, i \in Ids :
                   Put(h, [pc |-> "load", call |-> call, user |-> u, machine |-> m, id |-> i])
           \/ /\ call = "exempt_hours" /\ u \in Admins
              /\ \E m \in machines :
                   Put(h, [pc |-> "write", call |-> call, user |-> u,
                           row |-> [machine |-> m, schedule |-> None, expires |-> now + 1]])
           \/ /\ call = "readmit"
              /\ \E x \in exemptions :
                   /\ x.schedule = None => u \in Admins
                   /\ Put(h, [pc |-> "write", call |-> call, user |-> u, row |-> x])
           \/ /\ call = "remove_machine"
              /\ \E m \in Machines : Put(h, [pc |-> "write", call |-> call, user |-> u, row |-> m])
           \/ /\ call = "activate"
              /\ \E g \in Usable[u] \union {None} :
                   Put(h, [pc |-> "write", call |-> call, user |-> u, row |-> g])
           \/ /\ call = "settings"
              /\ \E g \in Usable[u] \union {None}, domains \in BOOLEAN, supported \in BOOLEAN :
                   Put(h, [pc |-> "write", call |-> call, user |-> u, row |-> g,
                           domains |-> domains, supported |-> supported])
    BY DEF Start
  <2>3. ASSUME NEW rec, Put(h, rec), rec.pc = "load" \/ rec.call \notin {"weekly", "one_off", "change"}
        PROVE  FALSE
    BY <2>1, <2>3
  <2>4. CASE call \in {"change", "delete"}
    <3>1. PICK i \in Ids : Put(h, [pc |-> "load", call |-> call, user |-> u, id |-> i])
      BY <2>2, <2>4
    <3> QED BY <2>3, <3>1
  <2>5. CASE call = "exempt"
    <3>1. PICK m \in machines, i \in Ids :
             Put(h, [pc |-> "load", call |-> call, user |-> u, machine |-> m, id |-> i])
      BY <2>2, <2>5
    <3> QED BY <2>3, <3>1
  <2>6. CASE call = "exempt_hours"
    <3>1. PICK m \in machines :
             Put(h, [pc |-> "write", call |-> call, user |-> u,
                     row |-> [machine |-> m, schedule |-> None, expires |-> now + 1]])
      BY <2>2, <2>6
    <3> QED BY <2>3, <2>6, <3>1
  <2>7. CASE call \in {"readmit", "remove_machine", "activate"}
    <3>1. PICK x : Put(h, [pc |-> "write", call |-> call, user |-> u, row |-> x])
      BY <2>2, <2>7
    <3> QED BY <2>3, <2>7, <3>1
  <2>8. CASE call = "settings"
    <3>1. PICK g \in Usable[u] \union {None}, domains \in BOOLEAN, supported \in BOOLEAN :
             Put(h, [pc |-> "write", call |-> call, user |-> u, row |-> g,
                     domains |-> domains, supported |-> supported])
      BY <2>2, <2>8
    <3> QED BY <2>3, <2>8, <3>1
  <2>9. call \in Calls
    BY <2>2 DEF Calls
  <2>10. CASE call = "weekly"
    <3>1. PICK r \in WeeklyRows(u) :
             r.start < r.end /\ Put(h, [pc |-> "check", call |-> call, user |-> u, row |-> r, id |-> None])
      BY <2>2, <2>10
    <3> QED BY <2>10, <3>1 DEF WeeklyRows
  <2>11. CASE call = "one_off"
    <3>1. PICK r \in OneOffRows(u) :
             r.start < r.end /\ Put(h, [pc |-> "check", call |-> call, user |-> u, row |-> r, id |-> None])
      BY <2>2, <2>11
    <3> QED BY <2>11, <3>1 DEF OneOffRows
  <2> QED BY <2>4, <2>5, <2>6, <2>7, <2>8, <2>9, <2>10, <2>11 DEF Calls
<1>4. PICK r \in WeeklyRows(u) \union OneOffRows(u), call \in {"weekly", "one_off"} :
         /\ r.start < r.end /\ r.kind = call
         /\ Put(h, [pc |-> "check", call |-> call, user |-> u, row |-> r, id |-> None])
  BY <1>3
<1>5. Usable[u] \subseteq Groups
  BY DEF SchedulesAssumption
<1>6. IsRow(r)
  <2>1. CASE r \in WeeklyRows(u)
    <3>1. r.day \in SchoolDays /\ r.day # None
      <4>1. r.day \in SchoolDays
        BY <2>1 DEF WeeklyRows
      <4>2. SchoolDays \subseteq Nat /\ None \notin Nat
        BY DEF SchedulesAssumption
      <4> QED BY <4>1, <4>2
    <3>2. r \in RowType
      BY <1>5, <2>1 DEF RowType, WeeklyRows, Minutes
    <3>3. r.kind = "weekly" /\ r.end \in Minutes
      BY <2>1 DEF WeeklyRows
    <3> QED BY <1>4, <3>1, <3>2, <3>3 DEF IsRow, RowType
  <2>2. CASE r \in OneOffRows(u)
    <3>1. r \in RowType
      BY <1>5, <2>2 DEF RowType, OneOffRows, Instants
    <3> QED BY <1>4, <2>2, <3>1 DEF IsRow, OneOffRows, RowType
  <2> QED BY <2>1, <2>2
<1>7. handlers'[h] = [pc |-> "check", call |-> call, user |-> u, row |-> r, id |-> None]
  BY <1>1, <1>4 DEF Put
<1> QED BY <1>4, <1>6, <1>7

LEMMA StartKeepsRelied ==
  ASSUME SchedulesAssumption, TimetableInv, NEW h \in Handlers, Start(h)
  PROVE  Rows' /\ Apart' /\ Relied'
<1>1. schedules' = schedules /\ handlers \in [Handlers -> HandlerRecords]
  BY DEF Start, TimetableInv, Shape
<1>2. \A k \in Handlers \ {h} : handlers'[k] = handlers[k]
  BY <1>1 DEF Start, Put
<1>3. Writing(h)' => Relies(h)'
  BY StartsReserving DEF TimetableInv, Relies, Keeps
<1> QED BY <1>1, <1>2, <1>3, MoveKeepsRelied DEF TimetableInv

\* A request that has loaded the row it changes makes a row of it.
LEMMA LoadsChange ==
  ASSUME SchedulesAssumption, Shape, Rows, NEW h \in Handlers, Load(h), Writing(h)'
  PROVE  LET me == handlers'[h]
             row == schedules[me.id]
         IN  /\ me.pc = "check" /\ me.call = "change" /\ me.id \in Ids /\ me.change \in ChangeType
             /\ row # None /\ row \in RowType /\ IsRow(row)
             /\ me.row = NextRow(row, me.change) /\ IsRow(me.row)
<1> DEFINE me == handlers[h]
           row == schedules[me.id]
<1>1. handlers \in [Handlers -> HandlerRecords] /\ me \in HandlerRecords /\ me.pc = "load"
  BY DEF Load, Shape
<1>2. handlers'[h].pc \in {"check", "write"} /\ handlers'[h].call \in {"weekly", "one_off", "change"}
  BY DEF Writing
<1>3. me.call = "change"
  <2>1. CASE me.call = "exempt"
    BY <1>1, <1>2, <2>1 DEF Load, Put, Answer, Idle
  <2>2. CASE me.call = "delete"
    <3>1. me \in Deleting
      BY <1>1, <2>2, AtLoad
    <3> QED BY <1>1, <1>2, <2>2, <3>1 DEF Load, Put, To, Answer, Idle, Deleting
  <2> QED BY <2>1, <2>2 DEF Load
<1>4. me \in Loading
  BY <1>1, <1>3, AtLoad
<1>5. ~Answer(h) /\ row # None
  BY <1>1, <1>2, <1>3 DEF Load, Answer, Put, Idle
<1>6. PICK change \in ChangesBy(me.user, row) :
         /\ NextRow(row, change).start < NextRow(row, change).end
         /\ Put(h, [pc |-> "check", call |-> me.call, user |-> me.user,
                    row |-> NextRow(row, change), change |-> change, id |-> me.id])
  BY <1>3, <1>5 DEF Load
<1>7. handlers'[h] = [pc |-> "check", call |-> me.call, user |-> me.user,
                      row |-> NextRow(row, change), change |-> change, id |-> me.id]
  BY <1>1, <1>6 DEF Put
<1>8. row \in RowType /\ IsRow(row)
  BY <1>4, <1>5 DEF Loading, Shape, Rows
<1>9. change \in ChangeType
  BY <1>4, <1>6, <1>8, ChangesTyped DEF Loading
<1>10. IsRow(NextRow(row, change))
  <2>1. NextRow(row, change) \in RowType /\ NextRow(row, change).start < NextRow(row, change).end
    BY <1>6, <1>8, <1>9, NextRowTyped
  <2>2. /\ NextRow(row, change).kind = row.kind
        /\ NextRow(row, change).day = (IF change.day = None THEN row.day ELSE change.day)
        /\ NextRow(row, change).end = (IF change.end = None THEN row.end ELSE change.end)
    BY <1>8 DEF NextRow, RowType
  <2>3. CASE row.kind = "weekly"
    <3>1. row.day # None /\ row.end \in Minutes
      BY <1>8, <2>3 DEF IsRow
    <3>2. change.end \in Minutes \union {None}
      BY <1>4, <1>6, <1>8, <2>3, ChangesTyped DEF Loading
    <3> QED BY <2>1, <2>2, <2>3, <3>1, <3>2 DEF IsRow, RowType
  <2>4. CASE row.kind = "one_off"
    <3>1. row.day = None
      BY <1>8, <2>4 DEF IsRow
    <3>2. change.day = None
      BY <1>4, <1>6, <1>8, <2>4, ChangesTyped DEF Loading
    <3> QED BY <2>1, <2>2, <2>4, <3>1, <3>2 DEF IsRow, RowType
  <2> QED BY <1>8, <2>3, <2>4 DEF RowType
<1> QED BY <1>3, <1>4, <1>5, <1>7, <1>8, <1>9, <1>10 DEF Loading

LEMMA LoadKeepsRelied ==
  ASSUME SchedulesAssumption, TimetableInv, NEW h \in Handlers, Load(h)
  PROVE  Rows' /\ Apart' /\ Relied'
<1>1. schedules' = schedules /\ handlers \in [Handlers -> HandlerRecords]
  BY DEF Load, TimetableInv, Shape
<1>2. \A k \in Handlers \ {h} : handlers'[k] = handlers[k]
  BY <1>1 DEF Load, Put, Answer, To
<1>3. Writing(h)' => Relies(h)'
  BY <1>1, LoadsChange DEF TimetableInv, Relies, Keeps
<1> QED BY <1>1, <1>2, <1>3, MoveKeepsRelied DEF TimetableInv

\* The check: what it finds free stays so until the row is written.
LEMMA CheckKeepsRelied ==
  ASSUME TimetableInv, NEW h \in Handlers, Check(h)
  PROVE  Rows' /\ Apart' /\ Relied'
<1> DEFINE me == handlers[h]
<1>1. /\ schedules' = schedules /\ handlers \in [Handlers -> HandlerRecords]
      /\ me \in Reserving \union Changing /\ me.pc = "check"
  BY AtCheck DEF Check, TimetableInv, Shape
<1>2. \A k \in Handlers \ {h} : handlers'[k] = handlers[k]
  BY <1>1 DEF Check, Put, Answer, To
<1>3. ASSUME Writing(h)'
      PROVE  Relies(h)'
  <2>1. Conflicts(me.row, me.id) = {} /\ To(h, "write")
    BY <1>1, <1>3 DEF Check, Writing, Answer, Put, Idle
  <2>2. handlers'[h] = [me EXCEPT !.pc = "write"]
    BY <1>1, <2>1 DEF To
  <2>3. /\ handlers'[h].row = me.row /\ handlers'[h].id = me.id /\ handlers'[h].call = me.call
        /\ me.call = "change" => handlers'[h].change = me.change
    BY <1>1, <2>2 DEF Reserving, Changing
  <2>4. Relies(h)
    BY <1>1 DEF TimetableInv, Relied, Writing, Reserving, Changing
  <2> QED BY <1>1, <2>1, <2>3, <2>4 DEF Relies, Keeps, Conflicts
<1> QED BY <1>1, <1>2, <1>3, MoveKeepsRelied DEF TimetableInv

\* The handler that writes the timetable is the only one that relied on it.
LEMMA WriterLeaves ==
  ASSUME Shape, OneWriter, NEW h \in Handlers, Writing(h),
         handlers'[h].pc \notin {"check", "write"},
         \A k \in Handlers \ {h} : handlers'[k] = handlers[k]
  PROVE  Relied'
<1> SUFFICES ASSUME NEW k \in Handlers, Writing(k)' PROVE FALSE
  BY DEF Relied
<1>1. CASE k = h
  BY <1>1 DEF Writing
<1>2. CASE k # h
  <2>1. Writing(k)
    BY <1>2 DEF Writing
  <2> QED BY <1>2, <2>1 DEF OneWriter
<1> QED BY <1>1, <1>2

LEMMA ReserveKeepsRelied ==
  ASSUME SchedulesAssumption, TimetableInv, OneWriter, NEW h \in Handlers, Reserve(h)
  PROVE  Rows' /\ Apart' /\ Relied'
<1> DEFINE me == handlers[h]
<1>1. /\ Shape /\ handlers \in [Handlers -> HandlerRecords] /\ me \in HandlerRecords
      /\ me.pc = "write" /\ Written(h)
  BY DEF TimetableInv, Shape, Reserve
<1>2. me \in Reserving
  BY <1>1, AtWrite DEF Reserve
<1>3. Writing(h)
  BY <1>1, <1>2 DEF Writing, Reserving
<1>4. Relies(h)
  BY <1>3 DEF TimetableInv, Relied
<1>5. PICK i \in Ids : Fresh(i) /\ schedules' = [schedules EXCEPT ![i] = me.row]
  BY DEF Reserve
<1>6. me.row \in RowType /\ IsRow(me.row) /\ me.id = None /\ Conflicts(me.row, me.id) = {}
  BY <1>1, <1>2, <1>4 DEF Relies, Keeps, Reserving
<1>7. None \notin Ids
  BY DEF SchedulesAssumption
<1>8. Rows' /\ Apart'
  BY <1>1, <1>5, <1>6, <1>7, PlacedApart DEF TimetableInv
<1>9. /\ handlers'[h] = [me EXCEPT !.pc = "notify"]
      /\ \A k \in Handlers \ {h} : handlers'[k] = handlers[k]
  BY <1>1, WrittenKeepsType
<1>10. handlers'[h].pc = "notify"
  BY <1>2, <1>9 DEF Reserving
<1> QED BY <1>1, <1>3, <1>8, <1>9, <1>10, WriterLeaves

\* The change writes the row it checked: the row it moves is still the one it
\* loaded, or is gone.
LEMMA ChangeKeepsRelied ==
  ASSUME SchedulesAssumption, TimetableInv, OneWriter, NEW h \in Handlers, Change(h)
  PROVE  Rows' /\ Apart' /\ Relied'
<1> DEFINE me == handlers[h]
<1>1. /\ Shape /\ handlers \in [Handlers -> HandlerRecords] /\ me \in HandlerRecords
      /\ me.pc = "write" /\ me.call = "change"
  BY DEF TimetableInv, Shape, Change
<1>2. me \in Changing
  BY <1>1, AtWrite
<1>3. Writing(h)
  BY <1>1 DEF Writing
<1>4. Relies(h)
  BY <1>3 DEF TimetableInv, Relied
<1>5. CASE schedules[me.id] = None
  <2>1. Answer(h) /\ schedules' = schedules
    BY <1>5 DEF Change
  <2>2. /\ handlers'[h] = Idle
        /\ \A k \in Handlers \ {h} : handlers'[k] = handlers[k]
    BY <1>1, <2>1, AnswerKeepsType
  <2>3. handlers'[h].pc = "idle"
    BY <2>2 DEF Idle
  <2>4. Rows' /\ Apart'
    BY <2>1 DEF TimetableInv, Rows, Apart
  <2> QED BY <1>1, <1>3, <2>2, <2>3, <2>4, WriterLeaves
<1>6. CASE schedules[me.id] # None
  <2>1. /\ schedules' = [schedules EXCEPT ![me.id] = NextRow(schedules[me.id], me.change)]
        /\ Written(h)
    BY <1>6 DEF Change
  <2>2. NextRow(schedules[me.id], me.change) = me.row
    BY <1>1, <1>4, <1>6 DEF Relies, Keeps
  <2>3. /\ me.row \in RowType /\ IsRow(me.row) /\ me.id \in Ids
        /\ Conflicts(me.row, me.id) = {}
    BY <1>1, <1>2, <1>4 DEF Relies, Keeps, Changing
  <2>4. schedules' = [schedules EXCEPT ![me.id] = me.row]
    BY <2>1, <2>2
  <2>5. Rows' /\ Apart'
    BY <1>1, <2>3, <2>4, PlacedApart DEF TimetableInv
  <2>6. /\ handlers'[h] = [me EXCEPT !.pc = "notify"]
        /\ \A k \in Handlers \ {h} : handlers'[k] = handlers[k]
    BY <1>1, <2>1, WrittenKeepsType
  <2>7. handlers'[h].pc = "notify"
    BY <1>2, <2>6 DEF Changing
  <2> QED BY <1>1, <1>3, <2>5, <2>6, <2>7, WriterLeaves
<1> QED BY <1>5, <1>6

\* A deletion makes room, and a change that has loaded the row finds it gone.
LEMMA DeleteKeepsRelied ==
  ASSUME TimetableInv, NEW h \in Handlers, Delete(h)
  PROVE  Rows' /\ Apart' /\ Relied'
<1> DEFINE me == handlers[h]
<1>1. /\ Shape /\ me \in HandlerRecords /\ me.pc = "write" /\ me.call = "delete" /\ Written(h)
      /\ schedules' = [schedules EXCEPT ![me.id] = None]
  BY DEF TimetableInv, Shape, Delete
<1>2. me \in Deleting
  BY <1>1, AtWrite
<1>3. \A i \in Ids : schedules'[i] = schedules[i] \/ schedules'[i] = None
  BY <1>1 DEF Shape
<1>4. Rows' /\ Apart'
  BY <1>3 DEF TimetableInv, Rows, Apart
<1>5. /\ handlers'[h] = [me EXCEPT !.pc = "notify"]
      /\ \A k \in Handlers \ {h} : handlers'[k] = handlers[k]
  BY <1>1, WrittenKeepsType
<1>6. handlers'[h].pc = "notify"
  BY <1>2, <1>5 DEF Deleting
<1>7. ASSUME NEW k \in Handlers, Writing(k)'
      PROVE  Relies(k)'
  <2>1. handlers'[k] = handlers[k]
    BY <1>5, <1>6, <1>7 DEF Writing
  <2>2. Writing(k)
    BY <1>7, <2>1 DEF Writing
  <2>3. Relies(k) /\ handlers[k] \in Reserving \union Changing
    BY <1>1, <2>2, AtCheck, AtWrite DEF TimetableInv, Relied, Writing, Shape
  <2>4. handlers[k].call = "change" => handlers[k].id \in Ids
    BY <2>3 DEF Reserving, Changing
  <2>5. handlers[k].pc = "write" =>
          {i \in Ids \ {handlers[k].id} :
             schedules'[i] # None /\ Overlaps(handlers[k].row, schedules'[i])} = {}
    BY <1>3, <2>3 DEF Relies, Keeps, Conflicts
  <2> QED BY <1>3, <2>1, <2>3, <2>4, <2>5 DEF Relies, Keeps, Conflicts
<1> QED BY <1>4, <1>7 DEF Relied

\* What else goes on in the classroom leaves its handler nothing to write.
LEMMA ClassroomLeaves ==
  ASSUME Shape, NEW h \in Handlers,
         Exempt(h) \/ Readmit(h) \/ RemoveMachine(h) \/ Activate(h) \/ Settings(h) \/ Domains(h)
           \/ Notify(h) \/ Fail(h)
  PROVE  /\ handlers'[h].pc \in {"notify", "domains", "idle"}
         /\ \A k \in Handlers \ {h} : handlers'[k] = handlers[k]
<1> DEFINE me == handlers[h]
<1>1. handlers \in [Handlers -> HandlerRecords] /\ me \in HandlerRecords
  BY DEF Shape
<1>2. \E pc \in {"notify", "domains"} : To(h, pc) \/ Answer(h)
  BY DEF Exempt, Readmit, RemoveMachine, Activate, Settings, Domains, Notify, Fail, Written
<1>3. "pc" \in DOMAIN me
  BY <1>1 DEF HandlerRecords, Timetabling, Arranging, Idle, Reserving, Loading, Changing, Deleting,
     Choosing, Exempting, Removing, Activating, Setting
<1> QED BY <1>1, <1>2, <1>3 DEF To, Answer, Put, Idle

\* It relies on no row of the timetable.
LEMMA ClassroomKeepsRelied ==
  ASSUME TimetableInv, NEW h \in Handlers,
         Exempt(h) \/ Readmit(h) \/ RemoveMachine(h) \/ Activate(h) \/ Settings(h) \/ Domains(h)
           \/ Notify(h) \/ Fail(h)
  PROVE  Rows' /\ Apart' /\ Relied'
<1>1. Shape /\ schedules' = schedules
  BY DEF TimetableInv, Exempt, Readmit, RemoveMachine, Activate, Settings, Domains, Notify, Fail
<1>2. /\ handlers'[h].pc \in {"notify", "domains", "idle"}
      /\ \A k \in Handlers \ {h} : handlers'[k] = handlers[k]
  BY <1>1, ClassroomLeaves
<1>3. ~Writing(h)'
  BY <1>2 DEF Writing
<1> QED BY <1>1, <1>2, <1>3, MoveKeepsRelied DEF TimetableInv

LEMMA NextKeepsTimetable ==
  ASSUME SchedulesAssumption, TimetableInv, OneWriter, [Next]_vars
  PROVE  TimetableInv'
<1>1. Shape'
  BY NextKeepsShape DEF TimetableInv
<1>2. CASE UNCHANGED vars
  BY <1>1, <1>2 DEF vars, TimetableInv, Rows, Apart, Relied, Writing, Relies, Keeps, Conflicts
<1>3. CASE Tick
  BY <1>1, <1>3 DEF Tick, TimetableInv, Rows, Apart, Relied, Writing, Relies, Keeps, Conflicts
<1>4. ASSUME NEW h \in Handlers, Start(h) \/ Run(h) \/ Fail(h)
      PROVE  TimetableInv'
  <2>1. Rows' /\ Apart' /\ Relied'
    BY <1>4, StartKeepsRelied, LoadKeepsRelied, CheckKeepsRelied, ReserveKeepsRelied,
       ChangeKeepsRelied, DeleteKeepsRelied, ClassroomKeepsRelied DEF Run
  <2> QED BY <1>1, <2>1 DEF TimetableInv
<1> QED BY <1>2, <1>3, <1>4 DEF Next

LEMMA TimetableHolds == SchedulesAssumption => (Spec /\ []OneWriter => []TimetableInv)
<1> SUFFICES ASSUME SchedulesAssumption PROVE Spec /\ []OneWriter => []TimetableInv
  OBVIOUS
<1>1. Init => TimetableInv
  <2> SUFFICES ASSUME Init PROVE TimetableInv
    OBVIOUS
  <2>1. Shape
    BY InitShaped
  <2>2. \A h \in Handlers : ~Writing(h)
    BY DEF Init, Writing, Idle
  <2> QED BY <2>1, <2>2 DEF Init, TimetableInv, Rows, Apart, Relied
<1>2. TimetableInv /\ OneWriter /\ [Next]_vars => TimetableInv'
  BY NextKeepsTimetable
<1> QED BY <1>1, <1>2, PTL DEF Spec

-----------------------------------------------------------------------------
(* Rows that one request at a time changes *)

\* At most one change is between its load and its write. Two of them can leave a
\* row that ends before it starts: each checks the end it moves against the start
\* it has loaded.
OneChanger ==
  \A h, k \in Handlers :
    Writing(h) /\ handlers[h].call = "change" /\ Writing(k) /\ handlers[k].call = "change" => h = k

Kept == \A h \in Handlers : Writing(h) => Keeps(h)
RowsInv == Shape /\ Rows /\ Kept

\* Where the table stays, only the handler that moves may write something new.
LEMMA MoveKeepsRows ==
  ASSUME Rows, Kept, NEW h \in Handlers, schedules' = schedules,
         \A k \in Handlers \ {h} : handlers'[k] = handlers[k],
         Writing(h)' => Keeps(h)'
  PROVE  Rows' /\ Kept'
<1>1. Rows'
  BY DEF Rows
<1>2. ASSUME NEW k \in Handlers \ {h}, Writing(k)'
      PROVE  Keeps(k)'
  <2>1. Writing(k) /\ handlers'[k] = handlers[k]
    BY <1>2 DEF Writing
  <2> QED BY <2>1 DEF Kept, Keeps
<1> QED BY <1>1, <1>2 DEF Kept

LEMMA StartKeepsRows ==
  ASSUME SchedulesAssumption, RowsInv, NEW h \in Handlers, Start(h)
  PROVE  Rows' /\ Kept'
<1>1. schedules' = schedules /\ handlers \in [Handlers -> HandlerRecords]
  BY DEF Start, RowsInv, Shape
<1>2. \A k \in Handlers \ {h} : handlers'[k] = handlers[k]
  BY <1>1 DEF Start, Put
<1>3. Writing(h)' => Keeps(h)'
  BY StartsReserving DEF RowsInv, Keeps
<1> QED BY <1>1, <1>2, <1>3, MoveKeepsRows DEF RowsInv

LEMMA LoadKeepsRows ==
  ASSUME SchedulesAssumption, RowsInv, NEW h \in Handlers, Load(h)
  PROVE  Rows' /\ Kept'
<1>1. schedules' = schedules /\ handlers \in [Handlers -> HandlerRecords]
  BY DEF Load, RowsInv, Shape
<1>2. \A k \in Handlers \ {h} : handlers'[k] = handlers[k]
  BY <1>1 DEF Load, Put, Answer, To
<1>3. Writing(h)' => Keeps(h)'
  BY <1>1, LoadsChange DEF RowsInv, Keeps
<1> QED BY <1>1, <1>2, <1>3, MoveKeepsRows DEF RowsInv

LEMMA CheckKeepsRows ==
  ASSUME RowsInv, NEW h \in Handlers, Check(h)
  PROVE  Rows' /\ Kept'
<1> DEFINE me == handlers[h]
<1>1. /\ schedules' = schedules /\ handlers \in [Handlers -> HandlerRecords]
      /\ me \in Reserving \union Changing /\ me.pc = "check"
  BY AtCheck DEF Check, RowsInv, Shape
<1>2. \A k \in Handlers \ {h} : handlers'[k] = handlers[k]
  BY <1>1 DEF Check, Put, Answer, To
<1>3. ASSUME Writing(h)'
      PROVE  Keeps(h)'
  <2>1. To(h, "write")
    BY <1>1, <1>3 DEF Check, Writing, Answer, Put, Idle
  <2>2. handlers'[h] = [me EXCEPT !.pc = "write"]
    BY <1>1, <2>1 DEF To
  <2>3. /\ handlers'[h].row = me.row /\ handlers'[h].id = me.id /\ handlers'[h].call = me.call
        /\ me.call = "change" => handlers'[h].change = me.change
    BY <1>1, <2>2 DEF Reserving, Changing
  <2>4. Keeps(h)
    BY <1>1 DEF RowsInv, Kept, Writing, Reserving, Changing
  <2> QED BY <1>1, <2>3, <2>4 DEF Keeps
<1> QED BY <1>1, <1>2, <1>3, MoveKeepsRows DEF RowsInv

\* A new row has a fresh identifier: no change that is under way writes it.
LEMMA ReserveKeepsRows ==
  ASSUME SchedulesAssumption, RowsInv, NEW h \in Handlers, Reserve(h)
  PROVE  Rows' /\ Kept'
<1> DEFINE me == handlers[h]
<1>1. /\ Shape /\ handlers \in [Handlers -> HandlerRecords] /\ me \in HandlerRecords
      /\ me.pc = "write" /\ Written(h)
  BY DEF RowsInv, Shape, Reserve
<1>2. me \in Reserving /\ Writing(h)
  BY <1>1, AtWrite DEF Reserve, Writing, Reserving
<1>3. IsRow(me.row)
  BY <1>2 DEF RowsInv, Kept, Keeps
<1>4. PICK i \in Ids : Fresh(i) /\ schedules' = [schedules EXCEPT ![i] = me.row]
  BY DEF Reserve
<1>5. \A j \in Ids : schedules'[j] = IF j = i THEN me.row ELSE schedules[j]
  BY <1>1, <1>4 DEF Shape
<1>6. Rows'
  BY <1>3, <1>5 DEF RowsInv, Rows
<1>7. /\ handlers'[h] = [me EXCEPT !.pc = "notify"]
      /\ \A k \in Handlers \ {h} : handlers'[k] = handlers[k]
  BY <1>1, WrittenKeepsType
<1>8. handlers'[h].pc = "notify"
  BY <1>2, <1>7 DEF Reserving
<1>9. ASSUME NEW k \in Handlers, Writing(k)'
      PROVE  Keeps(k)'
  <2>1. handlers'[k] = handlers[k] /\ Writing(k)
    BY <1>7, <1>8, <1>9 DEF Writing
  <2>2. Keeps(k) /\ handlers[k] \in Reserving \union Changing
    BY <1>1, <2>1, AtCheck, AtWrite DEF RowsInv, Kept, Writing, Shape
  <2>3. ASSUME handlers[k].call = "change"
        PROVE  schedules'[handlers[k].id] = schedules[handlers[k].id]
    <3>1. handlers[k].id \in Ids
      BY <2>2, <2>3 DEF Reserving, Changing
    <3>2. handlers[k] # Idle
      BY <2>1 DEF Writing, Idle
    <3>3. handlers[k].id # i
      BY <1>4, <2>3, <3>2 DEF Fresh
    <3> QED BY <1>5, <3>1, <3>3
  <2> QED BY <2>1, <2>2, <2>3 DEF Keeps
<1> QED BY <1>6, <1>9 DEF Kept

\* The one change writes the row that it made of what is still there.
LEMMA ChangeKeepsRows ==
  ASSUME SchedulesAssumption, RowsInv, OneChanger, NEW h \in Handlers, Change(h)
  PROVE  Rows' /\ Kept'
<1> DEFINE me == handlers[h]
<1>1. /\ Shape /\ handlers \in [Handlers -> HandlerRecords] /\ me \in HandlerRecords
      /\ me.pc = "write" /\ me.call = "change"
  BY DEF RowsInv, Shape, Change
<1>2. me \in Changing /\ Writing(h)
  BY <1>1, AtWrite DEF Writing
<1>3. Keeps(h) /\ me.id \in Ids
  BY <1>2 DEF RowsInv, Kept, Changing
<1>4. CASE schedules[me.id] = None
  <2>1. Answer(h) /\ schedules' = schedules
    BY <1>4 DEF Change
  <2>2. /\ handlers'[h] = Idle
        /\ \A k \in Handlers \ {h} : handlers'[k] = handlers[k]
    BY <1>1, <2>1, AnswerKeepsType
  <2>3. ~Writing(h)'
    BY <2>2 DEF Idle, Writing
  <2> QED BY <2>1, <2>2, <2>3, MoveKeepsRows DEF RowsInv
<1>5. CASE schedules[me.id] # None
  <2>1. schedules' = [schedules EXCEPT ![me.id] = NextRow(schedules[me.id], me.change)] /\ Written(h)
    BY <1>5 DEF Change
  <2>2. NextRow(schedules[me.id], me.change) = me.row /\ IsRow(me.row)
    BY <1>1, <1>3, <1>5 DEF Keeps
  <2>3. \A j \in Ids : schedules'[j] = IF j = me.id THEN me.row ELSE schedules[j]
    BY <1>1, <2>1, <2>2 DEF Shape
  <2>4. Rows'
    BY <2>2, <2>3 DEF RowsInv, Rows
  <2>5. /\ handlers'[h] = [me EXCEPT !.pc = "notify"]
        /\ \A k \in Handlers \ {h} : handlers'[k] = handlers[k]
    BY <1>1, <2>1, WrittenKeepsType
  <2>6. handlers'[h].pc = "notify"
    BY <1>2, <2>5 DEF Changing
  <2>7. ASSUME NEW k \in Handlers, Writing(k)'
        PROVE  Keeps(k)'
    <3>1. handlers'[k] = handlers[k] /\ Writing(k) /\ k # h
      BY <2>5, <2>6, <2>7 DEF Writing
    <3>2. handlers[k].call # "change"
      BY <1>1, <1>2, <3>1 DEF OneChanger
    <3> QED BY <3>1, <3>2 DEF RowsInv, Kept, Keeps
  <2> QED BY <2>4, <2>7 DEF Kept
<1> QED BY <1>4, <1>5

LEMMA DeleteKeepsRows ==
  ASSUME RowsInv, NEW h \in Handlers, Delete(h)
  PROVE  Rows' /\ Kept'
<1> DEFINE me == handlers[h]
<1>1. /\ Shape /\ me \in HandlerRecords /\ me.pc = "write" /\ me.call = "delete" /\ Written(h)
      /\ schedules' = [schedules EXCEPT ![me.id] = None]
  BY DEF RowsInv, Shape, Delete
<1>2. me \in Deleting
  BY <1>1, AtWrite
<1>3. \A i \in Ids : schedules'[i] = schedules[i] \/ schedules'[i] = None
  BY <1>1 DEF Shape
<1>4. Rows'
  BY <1>3 DEF RowsInv, Rows
<1>5. /\ handlers'[h] = [me EXCEPT !.pc = "notify"]
      /\ \A k \in Handlers \ {h} : handlers'[k] = handlers[k]
  BY <1>1, WrittenKeepsType
<1>6. handlers'[h].pc = "notify"
  BY <1>2, <1>5 DEF Deleting
<1>7. ASSUME NEW k \in Handlers, Writing(k)'
      PROVE  Keeps(k)'
  <2>1. handlers'[k] = handlers[k] /\ Writing(k)
    BY <1>5, <1>6, <1>7 DEF Writing
  <2>2. Keeps(k) /\ handlers[k] \in Reserving \union Changing
    BY <1>1, <2>1, AtCheck, AtWrite DEF RowsInv, Kept, Writing, Shape
  <2>3. handlers[k].call = "change" => handlers[k].id \in Ids
    BY <2>2 DEF Reserving, Changing
  <2> QED BY <1>3, <2>1, <2>2, <2>3 DEF Keeps
<1> QED BY <1>4, <1>7 DEF Kept

LEMMA ClassroomKeepsRows ==
  ASSUME RowsInv, NEW h \in Handlers,
         Exempt(h) \/ Readmit(h) \/ RemoveMachine(h) \/ Activate(h) \/ Settings(h) \/ Domains(h)
           \/ Notify(h) \/ Fail(h)
  PROVE  Rows' /\ Kept'
<1>1. Shape /\ schedules' = schedules
  BY DEF RowsInv, Exempt, Readmit, RemoveMachine, Activate, Settings, Domains, Notify, Fail
<1>2. /\ handlers'[h].pc \in {"notify", "domains", "idle"}
      /\ \A k \in Handlers \ {h} : handlers'[k] = handlers[k]
  BY <1>1, ClassroomLeaves
<1>3. ~Writing(h)'
  BY <1>2 DEF Writing
<1> QED BY <1>1, <1>2, <1>3, MoveKeepsRows DEF RowsInv

LEMMA NextKeepsRows ==
  ASSUME SchedulesAssumption, RowsInv, OneChanger, [Next]_vars
  PROVE  RowsInv'
<1>1. Shape'
  BY NextKeepsShape DEF RowsInv
<1>2. CASE UNCHANGED vars \/ Tick
  <2>1. schedules' = schedules /\ handlers' = handlers
    BY <1>2 DEF vars, Tick
  <2> QED BY <1>1, <2>1 DEF RowsInv, Rows, Kept, Writing, Keeps
<1>3. ASSUME NEW h \in Handlers, Start(h) \/ Run(h) \/ Fail(h)
      PROVE  RowsInv'
  <2>1. Rows' /\ Kept'
    BY <1>3, StartKeepsRows, LoadKeepsRows, CheckKeepsRows, ReserveKeepsRows,
       ChangeKeepsRows, DeleteKeepsRows, ClassroomKeepsRows DEF Run
  <2> QED BY <1>1, <2>1 DEF RowsInv
<1> QED BY <1>2, <1>3 DEF Next

\* A request under way keeps its call.
LEMMA CallStays ==
  ASSUME Shape, [Next]_vars, NEW h \in Handlers, handlers[h] # Idle, handlers'[h] # Idle
  PROVE  handlers'[h].call = handlers[h].call
<1> DEFINE me == handlers[h]
<1>1. handlers \in [Handlers -> HandlerRecords] /\ me \in HandlerRecords
  BY DEF Shape
<1>2. CASE handlers'[h] = me
  BY <1>2
<1>3. CASE handlers'[h] # me
  <2>1. PICK k \in Handlers : Start(k) \/ Run(k) \/ Fail(k)
    BY <1>3 DEF Next, vars, Tick
  <2>2. ~Start(h) /\ ~Fail(h)
    BY <1>1 DEF Start, Fail, Answer, Put
  <2>3. Run(h)
    <3>1. \A j \in Handlers \ {k} : handlers'[j] = handlers[j]
      <4>1. CASE Fail(k)
        BY <1>1, <4>1 DEF Fail, Answer, Put
      <4>2. CASE Start(k)
        BY <1>1, <4>2 DEF Start, Put
      <4>3. CASE Run(k)
        BY <1>1, <4>3 DEF Run, Load, Check, Reserve, Change, Delete, Exempt, Readmit, RemoveMachine,
           Activate, Settings, Domains, Notify, Written, To, Answer, Put
      <4> QED BY <2>1, <4>1, <4>2, <4>3
    <3>2. k = h
      BY <1>3, <3>1
    <3> QED BY <2>1, <2>2, <3>2
  <2>4. CASE Load(h)
    <3>1. "call" \in DOMAIN me
      BY <1>1, <2>4 DEF Load, HandlerRecords, Timetabling, Arranging, Idle, Reserving, Loading, Changing,
         Deleting, Choosing, Exempting, Removing, Activating, Setting
    <3> QED BY <1>1, <2>4, <3>1 DEF Load, Put, To, Answer
  <2>5. CASE ~Load(h)
    <3>1. PICK pc \in {"write", "notify", "domains"} : To(h, pc)
      BY <1>1, <2>3, <2>5 DEF Run, Check, Reserve, Change, Delete, Exempt, Readmit, RemoveMachine,
         Activate, Settings, Domains, Notify, Written, Answer, Put
    <3>2. handlers'[h] = [me EXCEPT !.pc = pc]
      BY <1>1, <3>1 DEF To
    <3> QED BY <1>1, <3>2 DEF HandlerRecords, Timetabling, Arranging, Idle, Reserving, Loading, Changing,
         Deleting, Choosing, Exempting, Removing, Activating, Setting
  <2> QED BY <2>4, <2>5
<1> QED BY <1>2, <1>3

\* While one request at a time changes reservations, however many make and delete
\* them, every row the timetable ever has starts before it ends.
THEOREM OneChangerKeepsRows == SchedulesAssumption => (Spec /\ []OneChanger => []TypeOK)
<1> SUFFICES ASSUME SchedulesAssumption PROVE Spec /\ []OneChanger => []TypeOK
  OBVIOUS
<1>1. Init => RowsInv
  <2> SUFFICES ASSUME Init PROVE RowsInv
    OBVIOUS
  <2>1. Shape
    BY InitShaped
  <2>2. \A h \in Handlers : ~Writing(h)
    BY DEF Init, Writing, Idle
  <2> QED BY <2>1, <2>2 DEF Init, RowsInv, Rows, Kept
<1>2. RowsInv /\ OneChanger /\ [Next]_vars => RowsInv'
  BY NextKeepsRows
<1>3. RowsInv => TypeOK
  BY RowsTyped DEF RowsInv
<1> QED BY <1>1, <1>2, <1>3, PTL DEF Spec

-----------------------------------------------------------------------------
(* What it means for the reservations and for what is in force. *)

\* Two rows in force at once of which one is not beside the other overlap.
LEMMA TogetherOverlap ==
  ASSUME SchedulesAssumption, NEW a \in RowType, NEW b \in RowType, IsRow(a), IsRow(b),
         NEW t \in Nat,
         \/ WeeklyAt(a, t) /\ WeeklyAt(b, t)
         \/ OneOffAt(a, t) /\ OneOffAt(b, t)
  PROVE  Overlaps(a, b)
<1>1. MinuteOf(t) \in Int
  BY DEF MinuteOf, SchedulesAssumption
<1>2. CASE WeeklyAt(a, t) /\ WeeklyAt(b, t)
  BY <1>1, <1>2 DEF WeeklyAt, Overlaps, RowType
<1>3. CASE OneOffAt(a, t) /\ OneOffAt(b, t)
  BY <1>3 DEF OneOffAt, Overlaps, RowType, IsRow
<1> QED BY <1>2, <1>3

\* One row of a kind at most is in force at a time.
AloneInForce ==
  \A i, j \in Ids, t \in Nat :
    \/ WeeklyAt(schedules[i], t) /\ WeeklyAt(schedules[j], t)
    \/ OneOffAt(schedules[i], t) /\ OneOffAt(schedules[j], t)
    => i = j

LEMMA TimetableAlone ==
  ASSUME SchedulesAssumption, TimetableInv
  PROVE  AloneInForce
<1> SUFFICES ASSUME NEW i \in Ids, NEW j \in Ids, NEW t \in Nat,
                    \/ WeeklyAt(schedules[i], t) /\ WeeklyAt(schedules[j], t)
                    \/ OneOffAt(schedules[i], t) /\ OneOffAt(schedules[j], t)
             PROVE  i = j
  BY DEF AloneInForce
<1>1. schedules[i] # None /\ schedules[j] # None
  BY DEF WeeklyAt, OneOffAt
<1>2. /\ schedules[i] \in RowType /\ schedules[j] \in RowType
      /\ IsRow(schedules[i]) /\ IsRow(schedules[j])
  BY <1>1 DEF TimetableInv, Shape, Rows
<1>3. Overlaps(schedules[i], schedules[j])
  BY <1>2, TogetherOverlap
<1> QED BY <1>1, <1>3 DEF TimetableInv, Apart

LEMMA AloneStandApart ==
  ASSUME SchedulesAssumption, AloneInForce
  PROVE  ReservationsStandApart
<1> SUFFICES ASSUME NEW i \in Ids, NEW j \in Ids, i # j,
                    NEW t \in Week
             PROVE  /\ ~(WeeklyAt(schedules[i], t) /\ WeeklyAt(schedules[j], t))
                    /\ ~(OneOffAt(schedules[i], t) /\ OneOffAt(schedules[j], t))
  BY DEF ReservationsStandApart
<1>1. t \in Nat
  BY DEF Week, Instants
<1> QED BY <1>1 DEF AloneInForce

\* The two readings of the timetable, one per page, always agree.
LEMMA ReadingsAgree ==
  ASSUME NEW t
  PROVE  ScheduledOnPage(t) = ScheduledInList(t)
BY DEF ScheduledOnPage, ScheduledInList, WeeklyGroups

LEMMA AloneAgree ==
  ASSUME SchedulesAssumption, AloneInForce
  PROVE  OneGroupInForce
<1> SUFFICES ASSUME NEW t \in Week
             PROVE  /\ {InForce(g) : g \in ScheduledOnPage(t)} = {InForce(g) : g \in ScheduledInList(t)}
                    /\ Cardinality({InForce(g) : g \in ScheduledOnPage(t)}) = 1
  BY DEF OneGroupInForce
<1>1. t \in Nat
  BY DEF Week, Instants
<1>2. \E g : ScheduledOnPage(t) = {g}
  <2>1. CASE OneOffGroups(t) # {}
    <3>1. PICK i \in Ids : OneOffAt(schedules[i], t)
      BY <2>1 DEF OneOffGroups
    <3>2. \A j \in Ids : OneOffAt(schedules[j], t) => j = i
      BY <1>1, <3>1 DEF AloneInForce
    <3>3. OneOffGroups(t) = {schedules[i].group}
      BY <3>1, <3>2 DEF OneOffGroups
    <3> QED BY <2>1, <3>3 DEF ScheduledOnPage
  <2>2. CASE OneOffGroups(t) = {} /\ WeeklyGroups(t) # {}
    <3>1. DayOf(t) \in SchoolDays
      BY <2>2 DEF WeeklyGroups
    <3>2. PICK i \in Ids : WeeklyAt(schedules[i], t)
      BY <2>2, <3>1 DEF WeeklyGroups
    <3>3. \A j \in Ids : WeeklyAt(schedules[j], t) => j = i
      BY <1>1, <3>2 DEF AloneInForce
    <3>4. WeeklyGroups(t) = {schedules[i].group}
      BY <3>1, <3>2, <3>3 DEF WeeklyGroups
    <3> QED BY <2>2, <3>4 DEF ScheduledOnPage
  <2>3. CASE OneOffGroups(t) = {} /\ WeeklyGroups(t) = {}
    BY <2>3 DEF ScheduledOnPage
  <2> QED BY <2>1, <2>2, <2>3
<1>3. PICK g : ScheduledOnPage(t) = {g}
  BY <1>2
<1>4. {InForce(k) : k \in ScheduledOnPage(t)} = {InForce(g)}
  BY <1>3
<1>5. Cardinality({InForce(g)}) = 1
  BY FS_Singleton
<1> QED BY <1>4, <1>5, ReadingsAgree

LEMMA TimetableInForceAlone ==
  SchedulesAssumption => (Spec /\ []OneWriter => []AloneInForce)
<1> SUFFICES ASSUME SchedulesAssumption
             PROVE  Spec /\ []OneWriter => []AloneInForce
  OBVIOUS
<1>1. TimetableInv => AloneInForce
  BY TimetableAlone
<1> QED BY <1>1, TimetableHolds, PTL

\* While at most one request is between its check and its write, no sequence of
\* reservations, changes by either end and deletions makes two reservations of a
\* kind share a minute, however the other requests and the faults fall.
THEOREM TimetableStandsApart ==
  SchedulesAssumption => (Spec /\ []OneWriter => []ReservationsStandApart)
<1> SUFFICES ASSUME SchedulesAssumption
             PROVE  Spec /\ []OneWriter => []ReservationsStandApart
  OBVIOUS
<1>1. AloneInForce => ReservationsStandApart
  BY AloneStandApart
<1> QED BY <1>1, TimetableInForceAlone, PTL

\* So long, the page of a classroom and the list of classrooms name one and the
\* same group in force at every instant.
THEOREM TimetableInForce ==
  SchedulesAssumption => (Spec /\ []OneWriter => []OneGroupInForce)
<1> SUFFICES ASSUME SchedulesAssumption
             PROVE  Spec /\ []OneWriter => []OneGroupInForce
  OBVIOUS
<1>1. AloneInForce => OneGroupInForce
  BY AloneAgree
<1> QED BY <1>1, TimetableInForceAlone, PTL
=============================================================================
