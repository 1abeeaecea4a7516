------------------------------ MODULE Attendance ------------------------------
(***************************************************************************)
(* One attendance day of one employee: the row (employee, date) of the     *)
(* attendances table and everything that writes it.  Punches, the cron     *)
(* jobs and the sync with an external device read the row, work out what   *)
(* the day looks like now, and write it back by id: a read and a write are *)
(* two steps, with everybody else in between.  Other employees only matter *)
(* as the time a cron job spends on them between its read and its write.   *)
(***************************************************************************)
EXTENDS Integers, Sequences

CONSTANTS
    Callers,        \* requests and cron jobs that may be under way together
    Duties,         \* [Callers -> what each of them does]
    DayEnd,         \* attendance_day_end_time
    Horizon,        \* bound: the last instant, local midnight
    LunchStart, LunchHours, LunchThreshold,
    Requests,       \* bound: the <<check-in, check-out>> that corrections ask for
    Entries,        \* bound: what HR may enter
    DeviceDays,     \* bound: what the device may say of the day
    MaxSessions,    \* bound: sessions of the day that a check-in may follow
    MaxCorrections  \* bound: corrections of the day that are approved

AllOperations == {"in", "out", "lunchOut", "lunchIn", "autoCheckout", "markAbsent",
                  "remind", "sync", "manual", "leave", "approve", "decline"}

ASSUME AttendanceAssumption ==
    /\ Duties \in [Callers -> SUBSET AllOperations]
    /\ DayEnd \in Nat \ {0} /\ Horizon \in Nat /\ DayEnd < Horizon
    /\ LunchStart \in Nat /\ LunchHours \in Nat /\ LunchThreshold \in Nat
    /\ Requests \subseteq (0..Horizon) \X (0..Horizon) \ {<<0, 0>>}
    /\ Entries \subseteq [status : {"PRESENT", "ABSENT", "LEAVE", "HOLIDAY"},
                          in : 0..Horizon, out : 0..Horizon]
    \* The columns and the list of stretches need not agree.  The provider drops a
    \* check-out that precedes the check-in.
    /\ DeviceDays \subseteq [status : {"PRESENT", "ABSENT"}, in : 0..Horizon,
                             out : 0..Horizon, list : Seq((1..Horizon) \X (0..Horizon))]
    /\ \A d \in DeviceDays : d.out = 0 \/ d.in <= d.out
    /\ MaxSessions \in Nat \ {0} /\ MaxCorrections \in Nat

VARIABLES
    policy,     \* allow_multiple_checkin, strict_attendance_mode
    now,
    row,
    call,       \* [Callers -> what the call has read]
    request,    \* the latest attendance correction of the day
    punches,    \* history: punches confirmed, until the day is replaced or adjusted
    odd         \* history: what punches never make and reports of the day have made

vars == <<policy, now, row, call, request, punches, odd>>

NoTime == 0
Instants == 1..Horizon
Times == 0..Horizon
NoHours == -1

Session == [type : {"WORK", "LUNCH"}, in : Instants, out : Times, reminded : BOOLEAN]
Stretch(type, in, out) == [type |-> type, in |-> in, out |-> out, reminded |-> FALSE]
Work(in, out) == Stretch("WORK", in, out)

Row == [status : {"NONE", "PRESENT", "MISSED_CHECKOUT", "ABSENT", "LEAVE", "HOLIDAY"},
        checkIn : Times, checkOut : Times, sessions : Seq(Session), hours : Int,
        source : {"MANUAL", "LEAVE", "other"}]
NoRow == [status |-> "NONE", checkIn |-> NoTime, checkOut |-> NoTime,
          sessions |-> <<>>, hours |-> NoHours, source |-> "other"]

\* originalCheckIn/Out as they were when the correction was filed.  One that was
\* decided leaves nothing behind but the number of those approved.
Request == [status : {"NONE", "PENDING"}, original : Times \X Times,
            requested : Times \X Times, approved : Nat]
NoRequest == [status |-> "NONE", original |-> <<NoTime, NoTime>>,
              requested |-> <<NoTime, NoTime>>, approved |-> 0]

Idle == [op |-> "none", at |-> NoTime, seen |-> NoRow]

TypeOK ==
    /\ policy \in [multiple : BOOLEAN, strict : BOOLEAN]
    /\ now \in Instants
    /\ row \in Row
    /\ call \in [Callers -> [op : AllOperations \union {"none", "adjusted"},
                             at : Times, seen : Row]]
    /\ request \in Request
    /\ punches \subseteq ({"in", "out"} \X Instants)
    /\ odd \subseteq {"list", "ahead", "noCheckIn"}

-----------------------------------------------------------------------------
(* Sessions *)

\* A row without sessions counts its two columns as one.
Sessions(r) ==
    IF r.sessions # <<>> \/ r.checkIn = NoTime THEN r.sessions
    ELSE <<Work(r.checkIn, r.checkOut)>>

OpenAt(s) == {i \in DOMAIN s : s[i].out = NoTime}
Open(s) == OpenAt(s) # {}
FirstOpen(s) == CHOOSE i \in OpenAt(s) : \A j \in OpenAt(s) : i <= j
Close(s, t) == [s EXCEPT ![FirstOpen(s)].out = t]

Later(a, b) == IF a > b THEN a ELSE b

\* Seeded fault: what lies past the day's end counts.
Unclamped(out, in) == out

\* clampToDayEnd()
Clamped(out, in) == IF out <= DayEnd THEN out ELSE Later(in, DayEnd)
ClampAll(s) == [i \in DOMAIN s |-> [s[i] EXCEPT !.out = Clamped(@, s[i].in)]]

Deduction(first) == IF first >= LunchStart THEN 0 ELSE LunchHours

Length(x) == IF x.type = "WORK" /\ x.out # NoTime THEN x.out - x.in ELSE 0
Total(s) ==
    LET sum[i \in 0..Len(s)] == IF i = 0 THEN 0 ELSE sum[i-1] + Length(s[i])
    IN  sum[Len(s)]

\* sumSessionHours(): a recorded lunch is left out already.
Hours(s, first) ==
    IF Total(s) > LunchThreshold /\ \A i \in DOMAIN s : s[i].type # "LUNCH"
    THEN Later(0, Total(s) - Deduction(first)) ELSE Later(0, Total(s))

\* calculateWorkHours(), from the two columns
ColumnsHours(in, out) ==
    IF in = NoTime \/ out = NoTime THEN NoHours ELSE Hours(<<Work(in, out)>>, in)

\* A check-out that is not after the check-in is one of the next morning, which
\* lies past the day's end.
NextMorning(in, out) == in # NoTime /\ out # NoTime /\ out <= in

First(r, s) == IF r.checkIn # NoTime \/ s = <<>> THEN r.checkIn ELSE s[1].in

-----------------------------------------------------------------------------
(* Steps that every call is made of *)

Free(c, op) == op \in Duties[c] /\ call[c] = Idle

Read(c, op) ==
    /\ Free(c, op)
    /\ call' = [call EXCEPT ![c] = [op |-> op, at |-> now, seen |-> row]]
    /\ UNCHANGED <<policy, now, row, request, punches, odd>>

Return(c) == call' = [call EXCEPT ![c] = Idle]

Corrected == request.approved > 0
Adjusted == Corrected \/ \E c \in Callers : call[c].op = "adjusted"

\* The punch is confirmed to the employee.
Confirm(kinds, t) == punches' = IF Adjusted THEN {} ELSE punches \union (kinds \X {t})

-----------------------------------------------------------------------------
(* Punches of the employee; a refused punch changes nothing *)

\* Seeded fault: with several check-ins a day, one under way does not matter.
ReadCheckInAnyway(c) ==
    /\ now < DayEnd
    /\ policy.multiple \/ row.checkIn = NoTime
    /\ Len(Sessions(row)) < MaxSessions
    /\ Read(c, "in")

\* The bound on sessions stands for the employee's patience.
ReadCheckIn(c) ==
    /\ now < DayEnd
    /\ IF policy.multiple THEN ~Open(Sessions(row)) ELSE row.checkIn = NoTime
    /\ Len(Sessions(row)) < MaxSessions
    /\ Read(c, "in")

\* Seeded fault: the check-out of the session before stays in the row.
ReopenedKeepingOut(seen, t) ==
    [row EXCEPT !.status = "PRESENT",
                !.checkIn = IF policy.multiple /\ seen.checkIn # NoTime THEN seen.checkIn ELSE t,
                !.sessions = IF policy.multiple THEN Append(Sessions(seen), Work(t, NoTime))
                             ELSE <<Work(t, NoTime)>>]

\* Seeded fault: the sessions before are replaced in every mode.
ReopenedAnew(seen, t) ==
    [row EXCEPT !.status = "PRESENT",
                !.checkIn = IF policy.multiple /\ seen.checkIn # NoTime THEN seen.checkIn ELSE t,
                !.checkOut = IF policy.multiple THEN NoTime ELSE @,
                !.sessions = <<Work(t, NoTime)>>]

\* Seeded fault: the new session starts at the check-in the row had.
ReopenedFromStart(seen, t) ==
    [row EXCEPT !.status = "PRESENT", !.checkIn = t, !.checkOut = NoTime,
                !.sessions = Append(Sessions(seen), Work(seen.checkIn, NoTime))]

\* The row is there already, but it has no check-in yet: one session.
\* With several check-ins a day: one session more.
Reopened(seen, t) ==
    [row EXCEPT !.status = "PRESENT",
                !.checkIn = IF policy.multiple /\ seen.checkIn # NoTime THEN seen.checkIn ELSE t,
                !.checkOut = IF policy.multiple THEN NoTime ELSE @,
                !.sessions = IF policy.multiple THEN Append(Sessions(seen), Work(t, NoTime))
                             ELSE <<Work(t, NoTime)>>]

\* The unique index (employee, date) refuses a second row.
WriteCheckIn(c) ==
    LET seen == call[c].seen
        t == call[c].at
    IN  /\ call[c].op = "in"
        /\ \/ /\ seen.status = "NONE" /\ row.status # "NONE"
              /\ UNCHANGED <<row, punches, odd>>
           \/ /\ seen.status = "NONE" /\ row.status = "NONE"
              /\ row' = [NoRow EXCEPT !.status = "PRESENT", !.checkIn = t,
                                      !.sessions = <<Work(t, NoTime)>>]
              /\ Confirm({"in"}, t)
           \/ /\ seen.status # "NONE"
              /\ row' = Reopened(seen, t)
              /\ Confirm({"in"}, t)
        /\ Return(c)
        /\ UNCHANGED <<policy, now, request, odd>>

ReadCheckOut(c) == Open(Sessions(row)) /\ Read(c, "out")

WriteCheckOut(c) ==
    LET seen == call[c].seen
        was == Sessions(seen)
        out == Clamped(call[c].at, was[FirstOpen(was)].in)
        s == ClampAll(Close(was, out))
        first == First(seen, s)
    IN  /\ call[c].op = "out"
        /\ row' = [row EXCEPT !.checkIn = first, !.checkOut = out, !.sessions = s,
                              !.hours = Hours(s, first)]
        /\ Confirm({"out"}, out)
        /\ Return(c)
        /\ UNCHANGED <<policy, now, request, odd>>

ReadLunchOut(c) ==
    LET s == Sessions(row)
    IN  /\ \A i \in DOMAIN s : s[i].type # "LUNCH"
        /\ Open(s)
        /\ Read(c, "lunchOut")

WriteLunchOut(c) ==
    LET t == call[c].at
    IN  /\ call[c].op = "lunchOut"
        /\ row' = [row EXCEPT !.sessions =
                     Append(Close(Sessions(call[c].seen), t), Stretch("LUNCH", t, NoTime))]
        /\ Confirm({"in", "out"}, t)
        /\ Return(c)
        /\ UNCHANGED <<policy, now, request, odd>>

OpenLunch(s) == \E i \in OpenAt(s) : s[i].type = "LUNCH"

ReadLunchIn(c) == OpenLunch(Sessions(row)) /\ Read(c, "lunchIn")

WriteLunchIn(c) ==
    LET t == call[c].at
        s == Sessions(call[c].seen)
        lunch == CHOOSE i \in OpenAt(s) : s[i].type = "LUNCH"
    IN  /\ call[c].op = "lunchIn"
        /\ row' = [row EXCEPT !.sessions =
                     Append([s EXCEPT ![lunch].out = t], Work(t, NoTime))]
        /\ Confirm({"in", "out"}, t)
        /\ Return(c)
        /\ UNCHANGED <<policy, now, request, odd>>

-----------------------------------------------------------------------------
(* Cron jobs *)

ReadAutoCheckout(c) ==
    /\ now >= DayEnd
    /\ row.status = "PRESENT" /\ row.checkOut = NoTime
    /\ Read(c, "autoCheckout")

\* sessions.filter((s) => s.checkOut)
Closed(s) ==
    LET closed[i \in 0..Len(s)] ==
          IF i = 0 THEN <<>>
          ELSE IF s[i].out = NoTime THEN closed[i-1] ELSE Append(closed[i-1], s[i])
    IN  closed[Len(s)]

\* Strict: what is still open does not count, and stays open.
Missed(s, first) ==
    [row EXCEPT !.status = "MISSED_CHECKOUT", !.hours = Hours(ClampAll(Closed(s)), first)]

\* Seeded fault: the hours of the sessions before are not counted again.
ClosedKeepingHours(s, first) ==
    LET out == Later(DayEnd, s[FirstOpen(s)].in)
    IN  [row EXCEPT !.checkOut = out, !.sessions = ClampAll(Close(s, out))]

\* Seeded fault: the sessions are closed, the row is not.
ClosedSessionsOnly(s, first) ==
    LET closed == ClampAll(Close(s, Later(DayEnd, s[FirstOpen(s)].in)))
    IN  [row EXCEPT !.sessions = closed, !.hours = Hours(closed, first)]

ClosedAtDayEnd(s, first) ==
    LET out == Later(DayEnd, s[FirstOpen(s)].in)
        closed == ClampAll(Close(s, out))
    IN  [row EXCEPT !.checkOut = out, !.sessions = closed, !.hours = Hours(closed, first)]

WriteAutoCheckout(c) ==
    LET s == Sessions(call[c].seen)
        first == First(call[c].seen, s)
    IN  /\ call[c].op = "autoCheckout"
        /\ row' = IF policy.strict THEN Missed(s, first)
                  ELSE IF Open(s) THEN ClosedAtDayEnd(s, first) ELSE row
        /\ Return(c)
        /\ UNCHANGED <<policy, now, request, punches, odd>>

ReadMarkAbsent(c) == now >= DayEnd /\ row.status = "NONE" /\ Read(c, "markAbsent")

WriteMarkAbsent(c) ==
    /\ call[c].op = "markAbsent"
    /\ row' = IF row.status # "NONE" THEN row
              ELSE [NoRow EXCEPT !.status = "ABSENT"]
    /\ Return(c)
    /\ UNCHANGED <<policy, now, request, punches, odd>>

DueLunch(s) == {i \in OpenAt(s) :
    s[i].type = "LUNCH" /\ ~s[i].reminded /\ now - s[i].in >= LunchHours}

ReadRemind(c) ==
    /\ row.checkOut = NoTime /\ DueLunch(row.sessions) # {}
    /\ Read(c, "remind")

\* In between, the reminder is mailed.
WriteRemind(c) ==
    LET s == call[c].seen.sessions
        lunch == CHOOSE i \in OpenAt(s) : s[i].type = "LUNCH"
    IN  /\ call[c].op = "remind"
        /\ row' = [row EXCEPT !.sessions = [s EXCEPT ![lunch].reminded = TRUE]]
        /\ Return(c)
        /\ UNCHANGED <<policy, now, request, punches, odd>>

-----------------------------------------------------------------------------
(* Days replaced as a whole *)

\* buildAndUpsertAttendance().  A list of stretches is stored as it was given; if
\* there are several, the hours are theirs.
Replaced(d, source) ==
    LET out == Clamped(d.out, d.in)
        list == [i \in DOMAIN d.list |->
                   Work(d.list[i][1], Clamped(d.list[i][2], d.list[i][1]))]
    IN  [status |-> d.status, checkIn |-> d.in, checkOut |-> out, source |-> source,
         sessions |-> IF d.list # <<>> THEN list
                      ELSE IF d.in # NoTime THEN <<Work(d.in, out)>> ELSE <<>>,
         hours |-> IF Len(d.list) > 1 THEN Hours(list, d.in) ELSE ColumnsHours(d.in, out)]

\* Several stretches at once, times still to come, a day that ends, counts as present
\* or has stretches without having begun: no check refuses them.
Oddities(r) ==
    {k \in {"ahead", "noCheckIn"} :
       IF k = "ahead" THEN r.checkIn > now \/ r.checkOut > now
       ELSE /\ r.checkIn = NoTime
            /\ r.checkOut # NoTime \/ r.status = "PRESENT" \/ r.sessions # <<>>}

Replace(d, source) ==
    /\ row' = Replaced(d, source)
    /\ odd' = odd \union Oddities(row') \union (IF d.list # <<>> THEN {"list"} ELSE {})
    /\ punches' = {}

Entered(e) ==
    [status |-> e.status, in |-> e.in, list |-> <<>>,
     out |-> IF NextMorning(e.in, e.out) THEN Later(e.in, DayEnd) ELSE e.out]

EnterManually(c) ==
    /\ Free(c, "manual")
    /\ \E e \in Entries : Replace(Entered(e), "MANUAL")
    /\ UNCHANGED <<policy, now, call, request>>

ReadSync(c) ==
    /\ row.status # "LEAVE" /\ row.source \notin {"LEAVE", "MANUAL"} /\ ~Corrected
    /\ Read(c, "sync")

\* The columns are compared, the list is not.
WriteSync(c) ==
    LET seen == call[c].seen
    IN  /\ call[c].op = "sync"
        /\ \E d \in DeviceDays :
             /\ d.in # NoTime \/ d.status = "ABSENT"
             /\ IF seen.status # "NONE" /\ <<d.in, d.out>> = <<seen.checkIn, seen.checkOut>>
                THEN UNCHANGED <<row, punches, odd>> ELSE Replace(d, "other")
        /\ Return(c)
        /\ UNCHANGED <<policy, now, request>>

\* A leave request is approved: days with a row keep it.
GrantLeave(c) ==
    /\ Free(c, "leave")
    /\ row.status = "NONE"
    /\ row' = [NoRow EXCEPT !.status = "LEAVE", !.hours = 0, !.source = "LEAVE"]
    /\ UNCHANGED <<policy, now, call, request, punches, odd>>

-----------------------------------------------------------------------------
(* Attendance corrections *)

Deciding == {"approve", "adjusted", "decline"}

Wanted(q, i) == IF q.requested[i] # NoTime THEN q.requested[i] ELSE q.original[i]

\* Without a check-in the check-out is not clamped.
WantedOut(q) ==
    LET in == Wanted(q, 1)
        out == Wanted(q, 2)
    IN  IF NextMorning(in, out) THEN Later(in, DayEnd)
        ELSE IF in = NoTime THEN out ELSE Clamped(out, in)

\* Bound: filed when nobody works on the one before.
File ==
    /\ \E c \in Callers : Free(c, "approve")
    /\ request.status # "PENDING" /\ request.approved < MaxCorrections
    /\ \A c \in Callers : call[c].op \notin Deciding
    /\ \E r \in Requests :
         request' = [status |-> "PENDING", requested |-> r,
                     original |-> <<row.checkIn, row.checkOut>>,
                     approved |-> request.approved]
    /\ UNCHANGED <<policy, now, row, call, punches, odd>>

ReadRequest(c, op) == request.status = "PENDING" /\ Read(c, op)

\* Sessions and source stay what they were.
Adjust(c) ==
    LET in == Wanted(request, 1)
        out == WantedOut(request)
    IN  /\ call[c].op = "approve"
        /\ row' = [row EXCEPT !.status = "PRESENT", !.checkIn = in, !.checkOut = out,
                              !.hours = ColumnsHours(in, out)]
        /\ odd' = odd \union Oddities(row')
        /\ call' = [call EXCEPT ![c].op = "adjusted"]
        /\ punches' = {}
        /\ UNCHANGED <<policy, now, request>>

\* What was asked for is not read again.
Settle(c, op, more) ==
    /\ call[c].op = op
    /\ request' = [NoRequest EXCEPT !.approved = request.approved + more]
    /\ Return(c)
    /\ UNCHANGED <<policy, now, row, punches, odd>>

-----------------------------------------------------------------------------
Tick ==
    /\ now < Horizon
    /\ now' = now + 1
    /\ UNCHANGED <<policy, row, call, request, punches, odd>>

Init ==
    /\ policy \in [multiple : BOOLEAN, strict : BOOLEAN]
    /\ now = 1
    /\ row = NoRow
    /\ call = [c \in Callers |-> Idle]
    /\ request = NoRequest
    /\ punches = {}
    /\ odd = {}

Punch(c) ==
    \/ ReadCheckIn(c) \/ WriteCheckIn(c) \/ ReadCheckOut(c) \/ WriteCheckOut(c)
    \/ ReadLunchOut(c) \/ WriteLunchOut(c) \/ ReadLunchIn(c) \/ WriteLunchIn(c)

CronJob(c) ==
    \/ ReadAutoCheckout(c) \/ WriteAutoCheckout(c)
    \/ ReadMarkAbsent(c) \/ WriteMarkAbsent(c)
    \/ ReadRemind(c) \/ WriteRemind(c)
    \/ ReadSync(c) \/ WriteSync(c)

Decide(c) ==
    \/ ReadRequest(c, "approve") \/ ReadRequest(c, "decline")
    \/ Adjust(c)
    \/ Settle(c, "adjusted", 1)
    \/ Settle(c, "decline", 0)     \* reject() and cancel()

Next ==
    \/ \E c \in Callers :
         Punch(c) \/ CronJob(c) \/ Decide(c) \/ EnterManually(c) \/ GrantLeave(c)
    \/ File \/ Tick

Spec == Init /\ [][Next]_vars

\* A call that was begun ends.  The job at the day's end runs every minute, so
\* it is not kept from a free caller for ever.
FairSpec ==
    /\ Spec
    /\ \A c \in Callers : WF_call(Return(c))
    /\ \A c \in {d \in Callers : "autoCheckout" \in Duties[d]} : SF_vars(ReadAutoCheckout(c))
-----------------------------------------------------------------------------
(* Properties *)

\* However calls follow one another, and whoever creates the row meanwhile, the day
\* never has two stretches under way, unless the device reported a list of them: a
\* check-out, the end of lunch and the job at the day's end each close the first
\* they find (attendances.service.ts:731, 1482) and would leave the other one open.
OneOpenSession == "list" \notin odd => \A i, j \in OpenAt(row.sessions) : i = j

\* "nothing past the attendance day end is payable" (attendances.service.ts:2032),
\* and no hour of the day is paid twice, however punches, day-end job, device, HR
\* and corrections follow each other.  A list from the device may overlap, and a
\* time still to come may overlap the punches until then.
PaidWithinDay ==
    row.hours > 0 /\ odd \intersect {"list", "ahead"} = {} =>
      \E t \in {row.checkIn} \union {row.sessions[i].in : i \in DOMAIN row.sessions} :
        t # NoTime /\ row.hours <= DayEnd - t

\* The hours of a day that has ended are those of its sessions or those between its
\* two columns, never those of an earlier state of the day, whatever was punched,
\* reported, corrected and closed before in either mode.
HoursExplained ==
    row.status = "PRESENT" /\ row.checkIn # NoTime /\ row.checkOut # NoTime
                           /\ ~Open(Sessions(row)) =>
      row.hours \in {Hours(Sessions(row), row.checkIn),
                     ColumnsHours(row.checkIn, row.checkOut)}

\* "The sessions array IS the record of individual punches"
\* (attendance-punch.util.ts:10): each punch that was confirmed is in it, until HR
\* or the device replaces the day or a correction is approved.  Only a list of
\* stretches for a day without a check-in can be discarded later: the next check-in
\* begins that day anew (:514).
PunchesRecorded ==
    \/ {"list", "noCheckIn"} \subseteq odd
    \/ \A p \in punches : \E i \in DOMAIN row.sessions :
         LET x == row.sessions[i]
         IN  IF p[1] = "in" THEN x.in = p[2]
             ELSE x.out = Clamped(p[2], x.in) \/ x.out = p[2]

\* The job at the day's end looks for rows without a check-out (:1388): a day with
\* a stretch under way is one of them.  Three things give such a day its check-out
\* all the same: a correction, a list whose last stretch is open, and a check-out
\* entered before the day has begun, which a check-in keeps (:514).
OpenDayIsFound ==
    /\ row.status = "PRESENT" /\ Open(row.sessions)
    /\ ~Adjusted /\ odd \intersect {"list", "noCheckIn"} = {}
    => row.checkOut = NoTime

\* A day that is under way at the day's end is closed or flagged.
DayIsClosed ==
    (now >= DayEnd /\ row.status = "PRESENT" /\ row.checkOut = NoTime /\ Open(row.sessions))
        ~> (row.checkOut # NoTime \/ row.status # "PRESENT")
=============================================================================
