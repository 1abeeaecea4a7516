-------------------------- MODULE AttendanceProofs --------------------------
(***************************************************************************)
(* Proofs about Attendance, in four steps.  Whatever overlaps, the row has *)
(* its types and, without a list from the device, one stretch at most is   *)
(* under way (DayInv).  If at most one of the callers under way does more  *)
(* than create the row, its hours are explained and the day keeps its      *)
(* punches (WorkInv).  As long as nothing reported lies ahead, times are   *)
(* in order (OrderInv), and with one worker no hour is paid twice          *)
(* (PaidInv).                                                              *)
(***************************************************************************)
EXTENDS Attendance, FiniteSetTheorems, TLAPS

-----------------------------------------------------------------------------
(* The inductive invariants *)

OneOpen(s) == \A i, j \in OpenAt(s) : i = j

\* What a call has read lets it write.
CallInv(k) ==
    LET s == Sessions(k.seen)
    IN  /\ k.op # "none" => k.at \in Instants
        /\ k.op \in {"out", "lunchOut"} => Open(s)
        /\ k.op = "lunchIn" => OpenLunch(s)
        /\ k.op = "remind" => OpenLunch(k.seen.sessions)
        /\ k.op = "autoCheckout" => k.at >= DayEnd

\* It has read a day with one stretch under way, and none if another may begin.
OneRead(k) ==
    /\ OneOpen(Sessions(k.seen))
    /\ k.op = "in" /\ policy.multiple => ~Open(Sessions(k.seen))

DayInv ==
    /\ TypeOK
    /\ \A c \in Callers : CallInv(call[c])
    /\ "list" \notin odd =>
         OneOpen(row.sessions) /\ \A c \in Callers : OneRead(call[c])

Creators == {"markAbsent", "leave"}

\* Two callers overlap only if one of them does no more than create the row.
OneWorker ==
    \A c, d \in Callers : c # d => Duties[c] \subseteq Creators \/ Duties[d] \subseteq Creators

Working == {"in", "out", "lunchOut", "lunchIn", "autoCheckout", "remind", "sync"}

\* A call does what it is there for.
OnDuty(c) ==
    \/ call[c].op \in Duties[c] \union {"none"}
    \/ call[c].op = "adjusted" /\ "approve" \in Duties[c]

\* What a worker has read still stands, or the row was created since.
ReadStands(k) ==
    /\ k.op \in Working => k.seen \in {row, NoRow}
    /\ k.op = "in" /\ ~policy.multiple => k.seen.checkIn = NoTime
    /\ k.op = "autoCheckout" => k.seen.status = "PRESENT" /\ k.seen.checkOut = NoTime
    /\ k.op = "remind" => k.seen.checkOut = NoTime
    /\ k.op \in Deciding => request.status = "PENDING"

\* HoursExplained
Explained(r) ==
    r.status = "PRESENT" /\ r.checkIn # NoTime /\ r.checkOut # NoTime /\ ~Open(Sessions(r)) =>
      r.hours \in {Hours(Sessions(r), r.checkIn), ColumnsHours(r.checkIn, r.checkOut)}

\* What a day without a check-in can still record, and what it never pays.
WithoutCheckIn(r, adjusted, o) ==
    r.checkIn = NoTime =>
      /\ "noCheckIn" \notin o =>
           r.sessions = <<>> /\ r.checkOut = NoTime /\ r.status # "PRESENT"
      /\ "list" \notin o =>
           /\ adjusted \/ r.sessions = <<>>
           /\ r.hours <= 0
           /\ r.status = "PRESENT" /\ r.sessions # <<>> => r.checkOut # NoTime

\* OpenDayIsFound
FoundOpen(r, adjusted, o) ==
    r.status = "PRESENT" /\ Open(r.sessions) /\ ~adjusted
      /\ "list" \notin o /\ "noCheckIn" \notin o => r.checkOut = NoTime

\* PunchesRecorded, of one punch and one session
Shows(x, p) ==
    IF p[1] = "in" THEN x.in = p[2] ELSE x.out = Clamped(p[2], x.in) \/ x.out = p[2]

ShowsAll(s, ps) == \A p \in ps : \E i \in DOMAIN s : Shows(s[i], p)

\* The day r with the punches ps and the oddities o, adjusted or not.
DayIs(r, adjusted, ps, o) ==
    /\ r.status = "NONE" => r = NoRow
    /\ Explained(r)
    /\ WithoutCheckIn(r, adjusted, o)
    /\ FoundOpen(r, adjusted, o)
    /\ adjusted => ps = {}
    /\ "list" \notin o \/ "noCheckIn" \notin o => ShowsAll(r.sessions, ps)

WorkInv ==
    /\ \A c \in Callers : OnDuty(c) /\ ReadStands(call[c])
    /\ request.status = "PENDING" => request.requested # <<NoTime, NoTime>>
    /\ DayIs(row, Adjusted, punches, odd)

\* One stretch ends before the next begins; all of it by instant t.
Ordered(s, t) ==
    /\ \A i \in DOMAIN s :
         /\ s[i].in <= t /\ s[i].out <= t
         /\ s[i].out # NoTime => s[i].in <= s[i].out
    /\ \A i, j \in DOMAIN s : i < j => s[i].out # NoTime /\ s[i].out <= s[j].in

InOrder(r, t) ==
    /\ Ordered(r.sessions, t)
    /\ r.checkIn <= t /\ r.checkOut <= t
    /\ r.sessions = <<>> /\ r.checkIn # NoTime /\ r.checkOut # NoTime
         => r.checkIn <= r.checkOut

\* Nothing reported overlaps or lies ahead.
Straight(o) == "list" \notin o /\ "ahead" \notin o

OrderInv ==
    /\ \A c \in Callers : call[c].at <= now
    /\ Straight(odd) =>
         InOrder(row, now) /\ \A c \in Callers : InOrder(call[c].seen, call[c].at)

\* PaidWithinDay, from instant t on
PaidFrom(r, t) ==
    /\ t = r.checkIn \/ \E i \in DOMAIN r.sessions : t = r.sessions[i].in
    /\ t # NoTime /\ r.hours <= DayEnd - t

PaidInv == Straight(odd) /\ row.hours > 0 => \E t \in Times : PaidFrom(row, t)

-----------------------------------------------------------------------------
(* Sequences of sessions *)

\* A session has a beginning, and an end unless it is under way.
LEMMA SessionFields ==
  ASSUME NEW x \in Session
  PROVE  x.in \in Nat /\ x.in >= 1 /\ x.in <= Horizon /\ x.out \in Nat /\ x.out <= Horizon
  BY AttendanceAssumption DEF Session, Instants, Times

\* The elements of a sequence of sessions.
LEMMA ElementFields ==
  ASSUME NEW s \in Seq(Session)
  PROVE  /\ Len(s) \in Nat /\ DOMAIN s = 1..Len(s)
         /\ s = <<>> <=> Len(s) = 0
         /\ \A i \in DOMAIN s :
              /\ s[i] \in Session /\ s[i].in \in Nat /\ s[i].in >= 1 /\ s[i].in <= Horizon
              /\ s[i].out \in Nat /\ s[i].out <= Horizon
<1>1. Len(s) \in Nat /\ DOMAIN s = 1..Len(s) /\ (s = <<>> <=> Len(s) = 0)
  OBVIOUS
<1>2. \A i \in DOMAIN s : s[i] \in Session
  OBVIOUS
<1> QED BY <1>1, <1>2, SessionFields

\* A stretch is a session.
LEMMA StretchIsSession ==
  ASSUME NEW type \in {"WORK", "LUNCH"}, NEW in \in Instants, NEW out \in Times
  PROVE  /\ Stretch(type, in, out) \in Session
         /\ Stretch(type, in, out).in = in /\ Stretch(type, in, out).out = out
         /\ Stretch(type, in, out).type = type
  BY DEF Stretch, Session

\* What a row counts as its sessions are sessions.
LEMMA SessionsOfRow ==
  ASSUME NEW r \in Row
  PROVE  /\ Sessions(r) \in Seq(Session)
         /\ r.sessions # <<>> => Sessions(r) = r.sessions
         /\ r.sessions = <<>> /\ r.checkIn # NoTime =>
              /\ Work(r.checkIn, r.checkOut) \in Session
              /\ Work(r.checkIn, r.checkOut).in = r.checkIn
              /\ Work(r.checkIn, r.checkOut).out = r.checkOut
              /\ Sessions(r) = <<Work(r.checkIn, r.checkOut)>>
              /\ DOMAIN Sessions(r) = {1} /\ Sessions(r)[1] = Work(r.checkIn, r.checkOut)
         /\ r.sessions = <<>> /\ r.checkIn = NoTime => Sessions(r) = <<>>
<1>1. CASE r.sessions # <<>> \/ r.checkIn = NoTime
  BY <1>1 DEF Sessions, Row
<1>2. CASE r.sessions = <<>> /\ r.checkIn # NoTime
  <2>1. r.checkIn \in Instants /\ r.checkOut \in Times
    BY <1>2, AttendanceAssumption DEF Row, Times, Instants, NoTime
  <2>2. PICK x \in Session : /\ x = Work(r.checkIn, r.checkOut)
                             /\ x.in = r.checkIn /\ x.out = r.checkOut
    BY <2>1, StretchIsSession DEF Work
  <2>3. Sessions(r) = <<x>>
    BY <1>2, <2>2 DEF Sessions
  <2>4. <<x>> \in Seq(Session) /\ DOMAIN <<x>> = {1} /\ <<x>>[1] = x
    OBVIOUS
  <2> QED BY <1>2, <2>2, <2>3, <2>4
<1> QED BY <1>1, <1>2

\* The stretches under way of a row: those it records, or its columns.
LEMMA SessionsUnderWay ==
  ASSUME NEW r \in Row, Open(Sessions(r))
  PROVE  /\ r # NoRow
         /\ \/ Sessions(r) = r.sessions /\ r.sessions # <<>>
            \/ r.sessions = <<>> /\ r.checkIn # NoTime /\ r.checkOut = NoTime
<1>1. ~Open(<<>>) /\ NoRow.sessions = <<>> /\ NoRow.checkIn = NoTime
  BY DEF Open, OpenAt, NoRow
<1>2. CASE r.sessions # <<>>
  BY <1>1, <1>2, SessionsOfRow
<1>3. CASE r.sessions = <<>>
  <2>1. r.checkIn # NoTime
    BY <1>1, <1>3, SessionsOfRow
  <2>2. r.checkOut = NoTime
    BY <1>3, <2>1, SessionsOfRow DEF Open, OpenAt
  <2> QED BY <1>1, <1>3, <2>1, <2>2
<1> QED BY <1>2, <1>3

\* One stretch under way in the list is one under way in what the row counts.
LEMMA OneOfRow ==
  ASSUME NEW r \in Row, OneOpen(r.sessions)
  PROVE  OneOpen(Sessions(r))
<1>1. CASE r.sessions # <<>>
  BY <1>1, SessionsOfRow
<1>2. CASE r.sessions = <<>>
  <2>1. \A i \in OpenAt(Sessions(r)) : i = 1
    BY <1>2, SessionsOfRow DEF OpenAt
  <2> QED BY <2>1 DEF OneOpen
<1> QED BY <1>1, <1>2

-----------------------------------------------------------------------------
(* What is computed session by session *)

\* Finite sets, from smaller to larger ones.
LEMMA SetInduction ==
  ASSUME NEW X, IsFiniteSet(X), NEW G,
         \A s \in SUBSET X : (\A t \in SUBSET s : t # s => t \in G) => s \in G
  PROVE  \A s \in SUBSET X : s \in G
<1> SUFFICES ASSUME (SUBSET X) \ G # {} PROVE FALSE
  OBVIOUS
<1>1. IsWellFoundedOn(StrictSubsetOrdering(X), SUBSET X)
  <2>1. FiniteSubsetsOf(X) = SUBSET X
    BY FS_FiniteSubsetsOfFinite
  <2>2. IsWellFoundedOn(StrictSubsetOrdering(X), FiniteSubsetsOf(X))
    BY FS_StrictSubsetOrderingWellFounded
  <2> QED BY <2>1, <2>2
<1>2. PICK s \in (SUBSET X) \ G : \A t \in (SUBSET X) \ G : <<t, s>> \notin StrictSubsetOrdering(X)
  <2> DEFINE T == (SUBSET X) \ G
  <2>1. T \subseteq SUBSET X /\ T # {}
    OBVIOUS
  <2> HIDE DEF T
  <2>2. \E s \in T : \A t \in T : ~ (<<t, s>> \in StrictSubsetOrdering(X))
    BY <1>1, <2>1, WFMin
  <2> QED BY <2>2 DEF T
<1>3. \A t \in SUBSET s : t # s => t \in G
  BY <1>2 DEF StrictSubsetOrdering
<1> QED BY <1>2, <1>3

\* Along the positions of a sequence.
LEMMA PositionInduction ==
  ASSUME NEW n \in Nat, NEW G, 0 \in G, \A i \in 1..n : i-1 \in G => i \in G
  PROVE  \A i \in 0..n : i \in G
<1> DEFINE H == {s \in SUBSET (0..n) : \A i \in 0..n : s = 0..i => i \in G}
<1>1. ASSUME NEW s \in SUBSET (0..n), \A t \in SUBSET s : t # s => t \in H
      PROVE  s \in H
  <2> SUFFICES ASSUME NEW i \in 0..n, s = 0..i PROVE i \in G
    OBVIOUS
  <2>1. CASE i = 0
    BY <2>1
  <2>2. CASE i # 0
    <3>1. 0..(i-1) \in SUBSET s /\ i \in s /\ i \notin 0..(i-1) /\ i-1 \in 0..n
      BY <2>2
    <3>2. i-1 \in G
      BY <1>1, <3>1
    <3> QED BY <2>2, <3>2
  <2> QED BY <2>1, <2>2
<1>2. IsFiniteSet(0..n)
  BY FS_Interval
<1> HIDE DEF H
<1>3. \A s \in SUBSET (0..n) : s \in H
  BY <1>1, <1>2, SetInduction
<1>4. \A i \in 0..n : 0..i \in H
  BY <1>3
<1> QED BY <1>4 DEF H

\* What is computed position by position, each value from the one before.
Computed(n, base, step, f) ==
    f = [i \in 0..n |-> IF i = 0 THEN base ELSE step[i][f[i-1]]]

\* It exists, with values of the right kind.
LEMMA Computable ==
  ASSUME NEW n \in Nat, NEW V, NEW base \in V, NEW step \in [1..n -> [V -> V]]
  PROVE  \E f \in [0..n -> V] : Computed(n, base, step, f)
<1> DEFINE G == {k \in 0..n : \E f \in [0..k -> V] : Computed(k, base, step, f)}
<1>1. 0 \in G
  <2> DEFINE f == [i \in 0..0 |-> base]
  <2>1. f \in [0..0 -> V] /\ Computed(0, base, step, f)
    BY DEF Computed
  <2> QED BY <2>1
<1>2. ASSUME NEW k \in 1..n, k-1 \in G PROVE k \in G
  <2>1. PICK f \in [0..(k-1) -> V] : Computed(k-1, base, step, f)
    BY <1>2
  <2> DEFINE g == [i \in 0..k |-> IF i = k THEN step[k][f[k-1]] ELSE f[i]]
  <2>2. g \in [0..k -> V]
    BY <2>1
  <2>3. ASSUME NEW i \in 0..k
        PROVE  g[i] = IF i = 0 THEN base ELSE step[i][g[i-1]]
    <3>1. CASE i = k
      BY <3>1
    <3>2. CASE i < k
      <4>1. f[i] = IF i = 0 THEN base ELSE step[i][f[i-1]]
        BY <2>1, <3>2 DEF Computed
      <4>2. i # 0 => g[i-1] = f[i-1]
        BY <3>2
      <4> QED BY <3>2, <4>1, <4>2
    <3> QED BY <3>1, <3>2
  <2>4. Computed(k, base, step, g)
    BY <2>3 DEF Computed
  <2> QED BY <2>2, <2>4
<1> HIDE DEF G
<1>3. \A k \in 1..n : k-1 \in G => k \in G
  BY <1>2
<1>4. \A k \in 0..n : k \in G
  BY <1>1, <1>3, PositionInduction
<1>5. n \in G
  BY <1>4
<1> QED BY <1>5 DEF G

\* Partial sums of the lengths.
Sums(s, f) == f = [i \in 0..Len(s) |-> IF i = 0 THEN 0 ELSE f[i-1] + Length(s[i])]

\* What Total counts.
LEMMA TotalIsChosen == ASSUME NEW s PROVE Total(s) = (CHOOSE f : Sums(s, f))[Len(s)]
  BY DEF Total, Sums

\* The length of a session.
LEMMA LengthIsInt == ASSUME NEW x \in Session PROVE Length(x) \in Int
  BY SessionFields DEF Length

\* The total is the last of the partial sums.
LEMMA TotalIsSum ==
  ASSUME NEW s \in Seq(Session)
  PROVE  \E f \in [0..Len(s) -> Int] : Sums(s, f) /\ Total(s) = f[Len(s)]
<1>1. PICK n \in Nat : n = Len(s) /\ \A i \in 1..n : Length(s[i]) \in Int
  BY ElementFields, LengthIsInt
<1> DEFINE step == [i \in 1..n |-> [v \in Int |-> v + Length(s[i])]]
<1>2. step \in [1..n -> [Int -> Int]]
  BY <1>1
<1>3. \A i \in 1..n, v \in Int : step[i][v] = v + Length(s[i])
  OBVIOUS
<1> HIDE DEF step
<1>4. PICK g \in [0..n -> Int] : Computed(n, 0, step, g)
  <2>1. 0 \in Int
    OBVIOUS
  <2> QED BY <1>2, <2>1, Computable, Zenon
<1>5. \A i \in 0..n : g[i] = IF i = 0 THEN 0 ELSE step[i][g[i-1]]
  BY <1>4 DEF Computed
<1>6. ASSUME NEW i \in 0..n
      PROVE  g[i] = IF i = 0 THEN 0 ELSE g[i-1] + Length(s[i])
  <2>1. CASE i = 0
    BY <2>1, <1>5
  <2>2. CASE i # 0
    <3>1. i \in 1..n /\ i-1 \in 0..n
      BY <2>2
    <3>2. g[i-1] \in Int
      BY <3>1
    <3>3. step[i][g[i-1]] = g[i-1] + Length(s[i])
      BY <3>1, <3>2, <1>3
    <3> QED BY <2>2, <3>3, <1>5
  <2> QED BY <2>1, <2>2
<1>7. g = [i \in 0..n |-> g[i]]
  OBVIOUS
<1>8. g = [i \in 0..n |-> IF i = 0 THEN 0 ELSE g[i-1] + Length(s[i])]
  BY <1>6, <1>7
<1>9. Sums(s, g)
  BY <1>1, <1>8 DEF Sums
<1>10. PICK f : f = (CHOOSE h : Sums(s, h)) /\ Sums(s, f)
  BY <1>9
<1> DEFINE F == {i \in 0..n : f[i] \in Int}
<1>11. \A i \in 0..n : f[i] = IF i = 0 THEN 0 ELSE f[i-1] + Length(s[i])
  BY <1>1, <1>10 DEF Sums
<1>12. 0 \in F
  BY <1>11
<1>13. \A i \in 1..n : i-1 \in F => i \in F
  BY <1>1, <1>11
<1> HIDE DEF F
<1>14. \A i \in 0..n : i \in F
  BY <1>12, <1>13, PositionInduction
<1>15. \A i \in 0..n : f[i] \in Int
  BY <1>14 DEF F
<1>16. f = [i \in 0..n |-> f[i]]
  BY <1>1, <1>10 DEF Sums
<1>17. f \in [0..n -> Int]
  BY <1>15, <1>16
<1> QED BY <1>1, <1>10, <1>17, TotalIsChosen

\* Hours never exceed the total, which is a number.
LEMMA HoursWithinTotal ==
  ASSUME NEW s \in Seq(Session), NEW first
  PROVE  /\ Total(s) \in Int /\ Hours(s, first) \in Int
         /\ Hours(s, first) > 0 => Hours(s, first) <= Total(s)
<1>1. Total(s) \in Int
  BY TotalIsSum, ElementFields
<1>2. Deduction(first) \in Nat
  BY AttendanceAssumption DEF Deduction
<1>3. LunchThreshold \in Nat
  BY AttendanceAssumption
<1>4. PICK total \in Int : total = Total(s)
  BY <1>1
<1>5. PICK lunch \in Nat : lunch = Deduction(first)
  BY <1>2
<1>6. Hours(s, first) \in {Later(0, total), Later(0, total - lunch)}
  BY <1>4, <1>5 DEF Hours
<1> QED BY <1>4, <1>5, <1>6 DEF Later

\* Sessions that ended, collected one by one.
Kept(s, f) ==
    f = [i \in 0..Len(s) |->
           IF i = 0 THEN <<>>
           ELSE IF s[i].out = NoTime THEN f[i-1] ELSE Append(f[i-1], s[i])]

\* What Closed collects.
LEMMA ClosedIsChosen == ASSUME NEW s PROVE Closed(s) = (CHOOSE f : Kept(s, f))[Len(s)]
  BY DEF Closed, Kept

\* The filtered sessions are what was kept in the end.
LEMMA ClosedIsKept ==
  ASSUME NEW s \in Seq(Session)
  PROVE  \E f : Kept(s, f) /\ Closed(s) = f[Len(s)]
<1>1. PICK n \in Nat : n = Len(s) /\ \A i \in 1..n : s[i] \in Session
  BY ElementFields
<1> DEFINE V == Seq(Session)
           step == [i \in 1..n |-> [v \in V |-> IF s[i].out = NoTime THEN v ELSE Append(v, s[i])]]
<1>2. \A i \in 1..n, v \in V : (IF s[i].out = NoTime THEN v ELSE Append(v, s[i])) \in V
  BY <1>1
<1>3. <<>> \in V
  OBVIOUS
<1> HIDE DEF V
<1>4. step \in [1..n -> [V -> V]]
  BY <1>2
<1>5. \A i \in 1..n, v \in V :
        step[i][v] = IF s[i].out = NoTime THEN v ELSE Append(v, s[i])
  OBVIOUS
<1> HIDE DEF step
<1>6. PICK g \in [0..n -> V] : Computed(n, <<>>, step, g)
  BY <1>3, <1>4, Computable, Zenon
<1>7. \A i \in 0..n : g[i] = IF i = 0 THEN <<>> ELSE step[i][g[i-1]]
  BY <1>6 DEF Computed
<1>8. ASSUME NEW i \in 0..n
      PROVE  g[i] = IF i = 0 THEN <<>>
                    ELSE IF s[i].out = NoTime THEN g[i-1] ELSE Append(g[i-1], s[i])
  <2>1. CASE i = 0
    BY <2>1, <1>7
  <2>2. CASE i # 0
    <3>1. i \in 1..n /\ g[i-1] \in V
      BY <2>2
    <3> QED BY <2>2, <3>1, <1>5, <1>7
  <2> QED BY <2>1, <2>2
<1>9. g = [i \in 0..n |-> g[i]]
  OBVIOUS
<1>10. Kept(s, g)
  BY <1>1, <1>8, <1>9 DEF Kept
<1> QED BY <1>10, ClosedIsChosen

\* They are sessions.
LEMMA ClosedTyped ==
  ASSUME NEW s \in Seq(Session)
  PROVE  Closed(s) \in Seq(Session)
<1>1. PICK n \in Nat : n = Len(s) /\ \A i \in 1..n : s[i] \in Session
  BY ElementFields
<1>2. PICK f : Kept(s, f) /\ Closed(s) = f[n]
  BY <1>1, ClosedIsKept
<1>3. \A i \in 0..n : f[i] = IF i = 0 THEN <<>>
                             ELSE IF s[i].out = NoTime THEN f[i-1] ELSE Append(f[i-1], s[i])
  BY <1>1, <1>2 DEF Kept
<1> DEFINE V == Seq(Session)
           G == {i \in 0..n : f[i] \in V}
<1>4. <<>> \in V /\ \A i \in 1..n, v \in V : Append(v, s[i]) \in V
  BY <1>1
<1> HIDE DEF V
<1>5. 0 \in G
  <2>1. f[0] = <<>>
    BY <1>3
  <2> QED BY <2>1, <1>4
<1>6. ASSUME NEW i \in 1..n, i-1 \in G PROVE i \in G
  <2>1. f[i-1] \in V
    BY <1>6
  <2>2. f[i] = IF s[i].out = NoTime THEN f[i-1] ELSE Append(f[i-1], s[i])
    BY <1>3
  <2>3. f[i] \in V
    BY <2>1, <2>2, <1>4
  <2> QED BY <2>3
<1> HIDE DEF G
<1>7. \A i \in 0..n : i \in G
  BY <1>5, <1>6, PositionInduction
<1>8. f[n] \in V
  BY <1>7 DEF G
<1> QED BY <1>2, <1>8 DEF V

\* The first stretch under way is one.
LEMMA FirstOpenIsOpen ==
  ASSUME NEW s \in Seq(Session), Open(s)
  PROVE  FirstOpen(s) \in OpenAt(s)
<1>1. PICK n \in Nat : n = Len(s) /\ DOMAIN s = 1..n
  BY ElementFields
<1>2. OpenAt(s) \subseteq 1..n
  BY <1>1 DEF OpenAt
<1>3. \E i \in OpenAt(s) : \A j \in OpenAt(s) : i <= j
  <2> SUFFICES ASSUME \A i \in OpenAt(s) : \E j \in OpenAt(s) : j < i
               PROVE  FALSE
    BY <1>2
  <2> DEFINE G == {k \in 0..n : \A i \in 1..k : i \notin OpenAt(s)}
  <2>1. 0 \in G
    OBVIOUS
  <2>2. ASSUME NEW k \in 1..n, k-1 \in G PROVE k \in G
    <3>1. \A i \in 1..(k-1) : i \notin OpenAt(s)
      BY <2>2
    <3>2. k \notin OpenAt(s)
      <4> SUFFICES ASSUME k \in OpenAt(s) PROVE FALSE
        OBVIOUS
      <4>1. PICK j \in OpenAt(s) : j < k
        OBVIOUS
      <4>2. j \in 1..(k-1)
        BY <4>1, <1>2
      <4> QED BY <3>1, <4>2
    <3>3. \A i \in 1..k : i \in 1..(k-1) \/ i = k
      OBVIOUS
    <3> QED BY <3>1, <3>2, <3>3
  <2> HIDE DEF G
  <2>3. \A k \in 0..n : k \in G
    BY <2>1, <2>2, PositionInduction
  <2>4. \A i \in 1..n : i \notin OpenAt(s)
    BY <2>3 DEF G
  <2> QED BY <2>4, <1>2 DEF Open
<1> QED BY <1>3 DEF FirstOpen

\* s, of which the n-th stretch was under way, with the end of that one.
Ends(s, n, out, e) ==
    /\ e \in Seq(Session) /\ e # <<>> /\ Len(e) = Len(s) /\ DOMAIN e = DOMAIN s
    /\ n \in OpenAt(s) /\ OpenAt(e) = OpenAt(s) \ {n}
    /\ e[n].in = s[n].in /\ e[n].out = out
    /\ \A i \in DOMAIN s : i # n => e[i] = s[i]

\* Besides, all of them are clamped to the day's end.
Closes(s, n, out, k) ==
    /\ k \in Seq(Session) /\ k # <<>> /\ Len(k) = Len(s) /\ DOMAIN k = DOMAIN s
    /\ n \in OpenAt(s) /\ OpenAt(k) = OpenAt(s) \ {n}
    /\ \A i \in DOMAIN s :
         /\ k[i].in = s[i].in
         /\ k[i].out = IF i = n THEN out ELSE Clamped(s[i].out, s[i].in)

\* s, and after it a stretch that begins at t.
Begins(s, t, a) ==
    /\ a \in Seq(Session) /\ a # <<>> /\ Len(a) = Len(s) + 1
    /\ DOMAIN a = DOMAIN s \union {Len(a)} /\ Len(a) \notin DOMAIN s
    /\ OpenAt(a) = OpenAt(s) \union {Len(a)}
    /\ a[Len(a)].in = t /\ a[Len(a)].out = NoTime
    /\ \A i \in DOMAIN s : a[i] = s[i]

\* The end of one stretch is written.
LEMMA Ending ==
  ASSUME NEW s \in Seq(Session), NEW n \in OpenAt(s), NEW out \in Instants
  PROVE  Ends(s, n, out, [s EXCEPT ![n].out = out])
<1> DEFINE x == [s[n] EXCEPT !.out = out]
           e == [s EXCEPT ![n] = x]
<1>1. Len(s) \in Nat /\ DOMAIN s = 1..Len(s) /\ n \in DOMAIN s /\ s[n] \in Session
      /\ out \in Times /\ out # NoTime
  BY ElementFields DEF OpenAt, Times, Instants, NoTime
<1>2. x \in Session /\ x.in = s[n].in /\ x.out = out
  BY <1>1 DEF Session
<1> HIDE DEF x
<1>3. /\ e \in Seq(Session) /\ Len(e) = Len(s) /\ DOMAIN e = DOMAIN s
      /\ e[n] = x /\ \A i \in DOMAIN s : i # n => e[i] = s[i]
  BY <1>1, <1>2
<1> HIDE DEF e
<1>4. OpenAt(e) = OpenAt(s) \ {n}
  BY <1>1, <1>2, <1>3 DEF OpenAt
<1>5. e # <<>>
  BY <1>1, <1>3, ElementFields
<1>6. Ends(s, n, out, e)
  BY <1>2, <1>3, <1>4, <1>5 DEF Ends
<1> QED BY <1>6 DEF e, x

\* An instant, clamped, is one.
LEMMA ClampedTyped ==
  ASSUME NEW in \in Times, NEW out \in Times
  PROVE  /\ Clamped(out, in) \in Times /\ (Clamped(out, in) = NoTime <=> out = NoTime)
         /\ Clamped(Clamped(out, in), in) = Clamped(out, in)
         /\ out # NoTime => Clamped(out, in) \in Instants
         /\ Later(DayEnd, in) \in Instants
         /\ Clamped(Later(DayEnd, in), in) = Later(DayEnd, in)
  BY AttendanceAssumption DEF Clamped, Later, Times, Instants, NoTime

\* Sessions, clamped, are sessions, and as many are under way.
LEMMA ClampingAll ==
  ASSUME NEW s \in Seq(Session)
  PROVE  /\ ClampAll(s) \in Seq(Session) /\ Len(ClampAll(s)) = Len(s)
         /\ DOMAIN ClampAll(s) = DOMAIN s /\ OpenAt(ClampAll(s)) = OpenAt(s)
         /\ \A i \in DOMAIN s :
              /\ ClampAll(s)[i].in = s[i].in /\ ClampAll(s)[i].type = s[i].type
              /\ ClampAll(s)[i].out = Clamped(s[i].out, s[i].in)
<1>1. PICK n \in Nat : n = Len(s) /\ DOMAIN s = 1..n
  BY ElementFields
<1> DEFINE x(i) == [s[i] EXCEPT !.out = Clamped(s[i].out, s[i].in)]
           k == ClampAll(s)
<1>2. \A i \in 1..n : s[i] \in Session /\ s[i].in \in Times /\ s[i].out \in Times
  BY <1>1, ElementFields DEF Times
<1>3. \A i \in 1..n : /\ x(i) \in Session /\ x(i).in = s[i].in /\ x(i).type = s[i].type
                      /\ x(i).out = Clamped(s[i].out, s[i].in)
  BY <1>2, ClampedTyped DEF Session
<1>4. k = [i \in 1..n |-> x(i)]
  BY <1>1 DEF ClampAll
<1> HIDE DEF x, k
<1>5. k \in Seq(Session) /\ Len(k) = n /\ DOMAIN k = 1..n
  BY <1>3, <1>4
<1>6. \A i \in 1..n : /\ k[i].in = s[i].in /\ k[i].type = s[i].type
                      /\ k[i].out = Clamped(s[i].out, s[i].in)
  BY <1>3, <1>4
<1>7. \A i \in 1..n : k[i].out = NoTime <=> s[i].out = NoTime
  BY <1>2, <1>6, ClampedTyped
<1>8. OpenAt(k) = OpenAt(s)
  BY <1>1, <1>5, <1>7 DEF OpenAt
<1> QED BY <1>1, <1>5, <1>6, <1>8 DEF k

\* The first stretch under way ends, and all of them are clamped.
LEMMA Closing ==
  ASSUME NEW s \in Seq(Session), Open(s), NEW out \in Instants,
         Clamped(out, s[FirstOpen(s)].in) = out
  PROVE  /\ Closes(s, FirstOpen(s), out, ClampAll(Close(s, out)))
         /\ Ends(s, FirstOpen(s), out, Close(s, out))
<1>1. PICK n \in OpenAt(s) : n = FirstOpen(s)
  BY FirstOpenIsOpen
<1>2. PICK e : e = Close(s, out) /\ Ends(s, n, out, e)
  BY <1>1, Ending DEF Close
<1>3. PICK k : k = ClampAll(e)
  OBVIOUS
<1>4. /\ k \in Seq(Session) /\ Len(k) = Len(s) /\ DOMAIN k = DOMAIN s
      /\ OpenAt(k) = OpenAt(s) \ {n}
      /\ \A i \in DOMAIN s : k[i].in = e[i].in /\ k[i].out = Clamped(e[i].out, e[i].in)
  BY <1>2, <1>3, ClampingAll DEF Ends
<1>5. \A i \in DOMAIN s :
        /\ k[i].in = s[i].in
        /\ k[i].out = IF i = n THEN out ELSE Clamped(s[i].out, s[i].in)
  BY <1>1, <1>2, <1>4 DEF Ends
<1>6. k # <<>>
  BY <1>4, ElementFields DEF OpenAt
<1>7. Closes(s, n, out, k)
  BY <1>4, <1>5, <1>6 DEF Closes
<1> QED BY <1>1, <1>2, <1>3, <1>7

\* One more stretch begins.
LEMMA Beginning ==
  ASSUME NEW s \in Seq(Session), NEW t \in Instants, NEW type \in {"WORK", "LUNCH"}
  PROVE  Begins(s, t, Append(s, Stretch(type, t, NoTime)))
<1> DEFINE x == Stretch(type, t, NoTime)
           a == Append(s, x)
<1>1. x \in Session /\ x.in = t /\ x.out = NoTime
  BY StretchIsSession, AttendanceAssumption DEF Times, NoTime
<1> HIDE DEF x
<1>2. PICK n \in Nat : n = Len(s) /\ DOMAIN s = 1..n
  BY ElementFields
<1>3. a \in Seq(Session) /\ Len(a) = n + 1 /\ DOMAIN a = 1..(n + 1) /\ a[n + 1] = x
        /\ \A i \in 1..n : a[i] = s[i]
  BY <1>1, <1>2
<1> HIDE DEF a
<1>4. DOMAIN a = 1..n \union {n + 1} /\ n + 1 \notin 1..n /\ a # <<>>
  BY <1>3
<1>5. OpenAt(a) = OpenAt(s) \union {n + 1}
  BY <1>1, <1>2, <1>3, <1>4 DEF OpenAt
<1>6. Begins(s, t, a)
  BY <1>1, <1>2, <1>3, <1>4, <1>5 DEF Begins
<1> QED BY <1>6 DEF a, x

\* The first stretch of a day.
LEMMA BeginningAnew ==
  ASSUME NEW t \in Instants
  PROVE  Begins(<<>>, t, <<Work(t, NoTime)>>)
<1>1. <<>> \in Seq(Session)
  OBVIOUS
<1>2. Append(<<>>, Work(t, NoTime)) = <<Work(t, NoTime)>>
  OBVIOUS
<1> QED BY <1>1, <1>2, Beginning DEF Work

-----------------------------------------------------------------------------
(* What each write makes of the row, whatever overlaps *)

\* No row, and no call.
LEMMA NothingTyped ==
  /\ NoRow \in Row
  /\ Idle \in [op : AllOperations \union {"none", "adjusted"}, at : Times, seen : Row]
<1>1. NoTime \in Times
  BY AttendanceAssumption DEF Times, NoTime
<1>2. NoRow \in Row
  BY <1>1 DEF NoRow, Row, NoHours
<1> QED BY <1>1, <1>2 DEF Idle

\* What a call under way has read.
LEMMA CallFacts ==
  ASSUME DayInv, NEW c \in Callers
  PROVE  /\ call[c].seen \in Row /\ call[c].at \in Times
         /\ Sessions(call[c].seen) \in Seq(Session)
         /\ call[c].op # "none" => call[c].at \in Instants
         /\ CallInv(call[c])
         /\ row \in Row /\ now \in Instants /\ now \in Times
<1>1. /\ call[c].seen \in Row /\ call[c].at \in Times /\ row \in Row /\ now \in Instants
      /\ CallInv(call[c])
  BY DEF DayInv, TypeOK
<1>2. now \in Times
  BY <1>1 DEF Instants, Times
<1> QED BY <1>1, <1>2, SessionsOfRow DEF CallInv

\* What is confirmed.
LEMMA Confirmed ==
  ASSUME DayInv, NEW kinds \in SUBSET {"in", "out"}, NEW t \in Instants, Confirm(kinds, t)
  PROVE  /\ punches' \subseteq ({"in", "out"} \X Instants)
         /\ Adjusted => punches' = {}
         /\ \A p \in punches' : ~Adjusted /\ (p \in punches \/ (p[1] \in kinds /\ p[2] = t))
  BY DEF Confirm, DayInv, TypeOK

\* A check-in begins a stretch: in a new row, after the others, or as the only one.
LEMMA CheckInWrites ==
  ASSUME DayInv, NEW c \in Callers, WriteCheckIn(c)
  PROVE  LET seen == call[c].seen
             t == call[c].at
         IN  \/ UNCHANGED <<row, punches>>
             \/ /\ t \in Instants /\ row' \in Row /\ row'.status = "PRESENT"
                /\ Confirm({"in"}, t)
                /\ \/ /\ seen.status = "NONE" /\ row.status = "NONE"
                      /\ row'.checkIn = t /\ row'.checkOut = NoTime /\ row'.hours = NoHours
                      /\ Begins(<<>>, t, row'.sessions)
                   \/ /\ seen.status # "NONE" /\ policy.multiple
                      /\ row'.checkIn = IF seen.checkIn # NoTime THEN seen.checkIn ELSE t
                      /\ row'.checkOut = NoTime /\ row'.hours = row.hours
                      /\ Begins(Sessions(seen), t, row'.sessions)
                   \/ /\ seen.status # "NONE" /\ ~policy.multiple
                      /\ row'.checkIn = t /\ row'.checkOut = row.checkOut
                      /\ row'.hours = row.hours
                      /\ Begins(<<>>, t, row'.sessions)
<1>1. PICK t, seen : t = call[c].at /\ seen = call[c].seen
  OBVIOUS
<1>2. /\ t \in Instants /\ t \in Times /\ seen \in Row /\ Sessions(seen) \in Seq(Session)
      /\ row \in Row /\ NoTime \in Times /\ seen.checkIn \in Times /\ row.checkOut \in Times
  <2>1. call[c].op # "none"
    BY DEF WriteCheckIn
  <2>2. t \in Instants /\ seen \in Row /\ Sessions(seen) \in Seq(Session) /\ row \in Row
    BY <1>1, <2>1, CallFacts
  <2>3. t \in Times /\ NoTime \in Times
    BY <2>2, AttendanceAssumption DEF Times, Instants, NoTime
  <2> QED BY <2>2, <2>3 DEF Row
<1>3. PICK one \in Seq(Session) : one = <<Work(t, NoTime)>> /\ Begins(<<>>, t, one)
  BY <1>2, BeginningAnew DEF Begins
<1>4. CASE seen.status = "NONE" /\ row.status # "NONE"
  BY <1>1, <1>4 DEF WriteCheckIn
<1>5. CASE seen.status = "NONE" /\ row.status = "NONE"
  <2>1. row' = [NoRow EXCEPT !.status = "PRESENT", !.checkIn = t, !.sessions = one]
        /\ Confirm({"in"}, t)
    BY <1>1, <1>3, <1>5 DEF WriteCheckIn
  <2>2. /\ row'.status = "PRESENT" /\ row'.checkIn = t /\ row'.checkOut = NoTime
        /\ row'.sessions = one /\ row'.hours = NoHours
    BY <2>1 DEF NoRow
  <2>3. row' \in Row
    BY <2>1, <1>2, <1>3, NothingTyped DEF Row
  <2> QED BY <1>1, <1>2, <1>3, <1>5, <2>1, <2>2, <2>3
<1>6. CASE seen.status # "NONE" /\ policy.multiple
  <2>1. PICK s \in Seq(Session) : /\ s = Append(Sessions(seen), Work(t, NoTime))
                                  /\ Begins(Sessions(seen), t, s)
    <3>1. Begins(Sessions(seen), t, Append(Sessions(seen), Work(t, NoTime)))
      BY <1>2, Beginning DEF Work
    <3>2. Append(Sessions(seen), Work(t, NoTime)) \in Seq(Session)
      BY <3>1 DEF Begins
    <3> QED BY <3>1, <3>2
  <2>2. PICK in \in Times : in = IF seen.checkIn # NoTime THEN seen.checkIn ELSE t
    BY <1>2
  <2>3. row' = [row EXCEPT !.status = "PRESENT", !.checkIn = in, !.checkOut = NoTime,
                           !.sessions = s] /\ Confirm({"in"}, t)
    BY <1>1, <1>6, <2>1, <2>2 DEF WriteCheckIn, Reopened
  <2>4. /\ row' \in Row /\ row'.status = "PRESENT" /\ row'.checkIn = in
        /\ row'.checkOut = NoTime /\ row'.sessions = s /\ row'.hours = row.hours
    BY <2>3, <1>2 DEF Row
  <2> QED BY <1>1, <1>2, <1>6, <2>1, <2>2, <2>3, <2>4
<1>7. CASE seen.status # "NONE" /\ ~policy.multiple
  <2>1. row' = [row EXCEPT !.status = "PRESENT", !.checkIn = t, !.checkOut = row.checkOut,
                           !.sessions = one] /\ Confirm({"in"}, t)
    BY <1>1, <1>3, <1>7 DEF WriteCheckIn, Reopened
  <2>2. /\ row' \in Row /\ row'.status = "PRESENT" /\ row'.checkIn = t
        /\ row'.checkOut = row.checkOut /\ row'.sessions = one /\ row'.hours = row.hours
    BY <2>1, <1>2, <1>3 DEF Row
  <2> QED BY <1>1, <1>2, <1>3, <1>7, <2>1, <2>2
<1> QED BY <1>4, <1>5, <1>6, <1>7

\* A check-out ends the first stretch under way, at the latest at the day's end, and
\* counts the hours anew.
LEMMA CheckOutWrites ==
  ASSUME DayInv, NEW c \in Callers, WriteCheckOut(c)
  PROVE  LET was == Sessions(call[c].seen)
             out == row'.checkOut
         IN  \E n \in OpenAt(was) :
               /\ n = FirstOpen(was)
               /\ out = Clamped(call[c].at, was[n].in) /\ out \in Instants
               /\ Clamped(out, was[n].in) = out
               /\ Closes(was, n, out, row'.sessions) /\ row'.sessions = ClampAll(Close(was, out))
               /\ Ends(was, n, out, Close(was, out))
               /\ row' \in Row /\ row'.status = row.status
               /\ row'.checkIn = First(call[c].seen, row'.sessions)
               /\ row'.checkIn \in Instants
               /\ row'.hours = Hours(row'.sessions, row'.checkIn)
               /\ Confirm({"out"}, out)
<1>1. PICK t, seen, was : t = call[c].at /\ seen = call[c].seen /\ was = Sessions(seen)
  OBVIOUS
<1>2. /\ t \in Instants /\ t \in Times /\ t # NoTime /\ seen \in Row /\ was \in Seq(Session)
      /\ row \in Row /\ Open(was)
  BY <1>1, CallFacts DEF WriteCheckOut, CallInv, Instants, NoTime
<1>3. PICK n \in OpenAt(was) : n = FirstOpen(was)
  BY <1>2, FirstOpenIsOpen
<1>4. was[n].in \in Times
  BY <1>2, <1>3, ElementFields DEF OpenAt, Times
<1>5. PICK out \in Instants : out = Clamped(t, was[n].in) /\ Clamped(out, was[n].in) = out
  BY <1>2, <1>4, ClampedTyped
<1>6. PICK s : /\ s = ClampAll(Close(was, out)) /\ Closes(was, n, out, s)
               /\ Ends(was, n, out, Close(was, out))
  BY <1>2, <1>3, <1>5, Closing
<1>7. PICK first \in Instants : first = First(seen, s)
  <2>1. s \in Seq(Session) /\ s # <<>> /\ seen.checkIn \in Times
    BY <1>2, <1>6 DEF Closes, Row
  <2>2. 1 \in DOMAIN s /\ s[1] \in Session
    BY <2>1, ElementFields
  <2>3. s[1].in \in Instants
    BY <2>2 DEF Session
  <2>4. seen.checkIn # NoTime => seen.checkIn \in Instants
    BY <2>1, AttendanceAssumption DEF Times, Instants, NoTime
  <2> QED BY <2>1, <2>3, <2>4 DEF First
<1>8. /\ row' = [row EXCEPT !.checkIn = first, !.checkOut = out, !.sessions = s,
                            !.hours = Hours(s, first)]
      /\ Confirm({"out"}, out)
  BY <1>1, <1>3, <1>5, <1>6, <1>7 DEF WriteCheckOut
<1>9. s \in Seq(Session) /\ Hours(s, first) \in Int /\ first \in Times /\ out \in Times
  BY <1>6, HoursWithinTotal DEF Closes, Instants, Times
<1>10. /\ row' \in Row /\ row'.status = row.status /\ row'.checkIn = first
       /\ row'.checkOut = out /\ row'.sessions = s /\ row'.hours = Hours(s, first)
  BY <1>2, <1>8, <1>9 DEF Row
<1> QED BY <1>1, <1>3, <1>5, <1>6, <1>7, <1>8, <1>10

\* s, of which the n-th stretch was under way, with the end of that one and the
\* beginning of the next.
Switches(s, n, t, a) ==
    /\ a \in Seq(Session) /\ a # <<>> /\ n \in OpenAt(s) /\ Len(a) \notin DOMAIN s
    /\ DOMAIN a = DOMAIN s \union {Len(a)}
    /\ OpenAt(a) = (OpenAt(s) \ {n}) \union {Len(a)}
    /\ a[Len(a)].in = t /\ a[Len(a)].out = NoTime
    /\ a[n].in = s[n].in /\ a[n].out = t
    /\ \A i \in DOMAIN s : i # n => a[i] = s[i]

\* An end and a beginning make it.
LEMMA Switching ==
  ASSUME NEW s \in Seq(Session), NEW t \in Instants, NEW n, NEW e, NEW a,
         Ends(s, n, t, e), Begins(e, t, a)
  PROVE  Switches(s, n, t, a)
<1>1. n \in DOMAIN s /\ a[n] = e[n]
  BY DEF Ends, Begins, OpenAt
<1> QED BY <1>1 DEF Ends, Begins, Switches

\* The beginning and the end of lunch.
LEMMA LunchWrites ==
  ASSUME DayInv, NEW c \in Callers, WriteLunchOut(c) \/ WriteLunchIn(c)
  PROVE  LET t == call[c].at
         IN  /\ t \in Instants /\ Open(Sessions(call[c].seen))
             /\ \E n \in OpenAt(Sessions(call[c].seen)) :
                  Switches(Sessions(call[c].seen), n, t, row'.sessions)
             /\ row' \in Row /\ row' = [row EXCEPT !.sessions = row'.sessions]
             /\ Confirm({"in", "out"}, t)
<1>1. PICK t, was : t = call[c].at /\ was = Sessions(call[c].seen)
  OBVIOUS
<1>2. t \in Instants /\ was \in Seq(Session) /\ row \in Row /\ CallInv(call[c])
  BY <1>1, CallFacts DEF WriteLunchOut, WriteLunchIn
<1>3. ASSUME NEW n \in OpenAt(was), NEW e, Ends(was, n, t, e), NEW type \in {"WORK", "LUNCH"},
             row' = [row EXCEPT !.sessions = Append(e, Stretch(type, t, NoTime))]
      PROVE  /\ Switches(was, n, t, row'.sessions) /\ row' \in Row
             /\ row' = [row EXCEPT !.sessions = row'.sessions]
  <2>1. PICK a : a = Append(e, Stretch(type, t, NoTime)) /\ Begins(e, t, a)
    BY <1>2, <1>3, Beginning DEF Ends
  <2>2. a \in Seq(Session)
    BY <2>1 DEF Begins
  <2>3. row' = [row EXCEPT !.sessions = a] /\ row' \in Row /\ row'.sessions = a
    BY <1>2, <1>3, <2>1, <2>2 DEF Row
  <2>4. Switches(was, n, t, a)
    BY <1>2, <1>3, <2>1, Switching
  <2> QED BY <2>3, <2>4
<1>4. CASE WriteLunchOut(c)
  <2>1. Open(was)
    BY <1>1, <1>2, <1>4 DEF WriteLunchOut, CallInv
  <2>2. PICK n \in OpenAt(was) : n = FirstOpen(was)
    BY <1>2, <2>1, FirstOpenIsOpen
  <2>3. Ends(was, n, t, Close(was, t))
    BY <1>2, <2>2, Ending DEF Close
  <2>4. row' = [row EXCEPT !.sessions = Append(Close(was, t), Stretch("LUNCH", t, NoTime))]
    BY <1>1, <1>4 DEF WriteLunchOut
  <2> QED BY <1>1, <1>2, <1>3, <1>4, <2>1, <2>3, <2>4 DEF WriteLunchOut
<1>5. CASE WriteLunchIn(c)
  <2>1. OpenLunch(was)
    BY <1>1, <1>2, <1>5 DEF WriteLunchIn, CallInv
  <2>2. PICK n \in OpenAt(was) : n = CHOOSE i \in OpenAt(was) : was[i].type = "LUNCH"
    BY <2>1 DEF OpenLunch
  <2>3. Ends(was, n, t, [was EXCEPT ![n].out = t])
    BY <1>2, Ending
  <2>4. row' = [row EXCEPT !.sessions =
                  Append([was EXCEPT ![n].out = t], Stretch("WORK", t, NoTime))]
    BY <1>1, <1>5, <2>2 DEF WriteLunchIn, Work
  <2>5. Open(was)
    BY <2>2 DEF Open
  <2> QED BY <1>1, <1>2, <1>3, <1>5, <2>3, <2>4, <2>5 DEF WriteLunchIn
<1> QED BY <1>4, <1>5

\* The job at the day's end flags the day, closes it, or finds nothing to close.
LEMMA AutoCheckoutWrites ==
  ASSUME DayInv, NEW c \in Callers, WriteAutoCheckout(c)
  PROVE  LET was == Sessions(call[c].seen)
             first == First(call[c].seen, was)
             out == row'.checkOut
         IN  \/ row' = row
             \/ /\ row' \in Row /\ row'.status = "MISSED_CHECKOUT"
                /\ row'.hours = Hours(ClampAll(Closed(was)), first)
                /\ row'.checkIn = row.checkIn /\ row'.checkOut = row.checkOut
                /\ row'.sessions = row.sessions
             \/ \E n \in OpenAt(was) :
                  /\ n = FirstOpen(was)
                  /\ out = Later(DayEnd, was[n].in) /\ out \in Instants
                  /\ Clamped(out, was[n].in) = out
                  /\ Closes(was, n, out, row'.sessions)
                  /\ row'.sessions = ClampAll(Close(was, out))
                  /\ Ends(was, n, out, Close(was, out))
                  /\ row' \in Row /\ row'.status = row.status
                  /\ row'.checkIn = row.checkIn
                  /\ row'.hours = Hours(row'.sessions, first)
<1>1. PICK was, first : was = Sessions(call[c].seen) /\ first = First(call[c].seen, was)
  OBVIOUS
<1>2. was \in Seq(Session) /\ row \in Row
  BY <1>1, CallFacts
<1>3. row' = IF policy.strict THEN Missed(was, first)
             ELSE IF Open(was) THEN ClosedAtDayEnd(was, first) ELSE row
  BY <1>1 DEF WriteAutoCheckout
<1>4. CASE policy.strict
  <2>1. Hours(ClampAll(Closed(was)), first) \in Int
    BY <1>2, ClosedTyped, ClampingAll, HoursWithinTotal
  <2>2. PICK h \in Int : h = Hours(ClampAll(Closed(was)), first)
    BY <2>1
  <2>3. row' = [row EXCEPT !.status = "MISSED_CHECKOUT", !.hours = h]
    BY <1>3, <1>4, <2>2 DEF Missed
  <2>4. /\ row' \in Row /\ row'.status = "MISSED_CHECKOUT" /\ row'.hours = h
        /\ row'.checkIn = row.checkIn /\ row'.checkOut = row.checkOut
        /\ row'.sessions = row.sessions
    BY <1>2, <2>3 DEF Row
  <2> QED BY <1>1, <2>2, <2>4
<1>5. CASE ~policy.strict /\ Open(was)
  <2>1. PICK n \in OpenAt(was) : n = FirstOpen(was)
    BY <1>2, <1>5, FirstOpenIsOpen
  <2>2. was[n].in \in Times
    BY <1>2, <2>1, ElementFields DEF OpenAt, Times
  <2>3. PICK out \in Instants : out = Later(DayEnd, was[n].in) /\ Clamped(out, was[n].in) = out
    BY <2>2, ClampedTyped
  <2>4. PICK s : /\ s = ClampAll(Close(was, out)) /\ Closes(was, n, out, s)
                 /\ Ends(was, n, out, Close(was, out))
    BY <1>2, <1>5, <2>1, <2>3, Closing
  <2>5. s \in Seq(Session) /\ Hours(s, first) \in Int /\ out \in Times
    BY <2>4, HoursWithinTotal DEF Closes, Instants, Times
  <2>6. row' = [row EXCEPT !.checkOut = out, !.sessions = s, !.hours = Hours(s, first)]
    BY <1>3, <1>5, <2>1, <2>3, <2>4 DEF ClosedAtDayEnd
  <2>7. /\ row' \in Row /\ row'.status = row.status /\ row'.checkIn = row.checkIn
        /\ row'.checkOut = out /\ row'.sessions = s /\ row'.hours = Hours(s, first)
    BY <1>2, <2>5, <2>6 DEF Row
  <2> QED BY <1>1, <2>1, <2>3, <2>4, <2>7
<1>6. CASE ~policy.strict /\ ~Open(was)
  BY <1>3, <1>6
<1> QED BY <1>4, <1>5, <1>6

-----------------------------------------------------------------------------
(* Types, and one stretch under way, whatever overlaps *)

\* A read keeps them.
LEMMA ReadKeepsDay ==
  ASSUME DayInv, NEW c \in Callers, NEW op \in AllOperations, Read(c, op),
         CallInv([op |-> op, at |-> now, seen |-> row]),
         op = "in" /\ policy.multiple => ~Open(Sessions(row))
  PROVE  DayInv'
<1>1. PICK k : k = [op |-> op, at |-> now, seen |-> row]
  OBVIOUS
<1>2. k \in [op : AllOperations \union {"none", "adjusted"}, at : Times, seen : Row]
  BY <1>1, CallFacts DEF DayInv, TypeOK
<1>3. call' = [call EXCEPT ![c] = k] /\ UNCHANGED <<policy, now, row, request, punches, odd>>
  BY <1>1 DEF Read
<1>4. TypeOK'
  BY <1>2, <1>3 DEF DayInv, TypeOK
<1>5. \A d \in Callers : call'[d] = IF d = c THEN k ELSE call[d]
  BY <1>3 DEF DayInv, TypeOK
<1>6. \A d \in Callers : CallInv(call'[d])
  BY <1>1, <1>5 DEF DayInv
<1>7. ASSUME "list" \notin odd'
      PROVE  OneOpen(row'.sessions) /\ (\A d \in Callers : OneRead(call[d]))'
  <2>1. row \in Row /\ "list" \notin odd /\ OneOpen(row.sessions)
    BY <1>3, <1>7 DEF DayInv, TypeOK
  <2>2. OneOpen(Sessions(row))
    BY <2>1, OneOfRow
  <2>3. OneRead(k) /\ \A d \in Callers : OneRead(call[d])
    BY <2>1, <2>2, <1>1 DEF OneRead, DayInv
  <2>4. \A d \in Callers : OneRead(call'[d])
    BY <2>3, <1>5
  <2> QED BY <2>1, <2>4, <1>3 DEF OneRead
<1> QED BY <1>4, <1>6, <1>7 DEF DayInv

\* So does a write when its call returns.
LEMMA WriteKeepsDay ==
  ASSUME DayInv, NEW c \in Callers, Return(c), UNCHANGED <<policy, now>>,
         request' \in Request, row' \in Row,
         punches' \subseteq ({"in", "out"} \X Instants),
         odd \subseteq odd', odd' \subseteq {"list", "ahead", "noCheckIn"},
         "list" \notin odd' => OneOpen(row'.sessions)
  PROVE  DayInv'
<1>1. TypeOK'
  BY NothingTyped DEF DayInv, TypeOK, Return
<1>2. \A d \in Callers : call'[d] = IF d = c THEN Idle ELSE call[d]
  BY DEF DayInv, TypeOK, Return
<1>3. CallInv(Idle) /\ OneRead(Idle)
  <2>1. Sessions(Idle.seen) = <<>>
    BY DEF Idle, NoRow, Sessions
  <2> QED BY <2>1 DEF CallInv, OneRead, OneOpen, OpenAt, Idle
<1>4. \A d \in Callers : CallInv(call'[d])
  BY <1>2, <1>3 DEF DayInv
<1>5. ASSUME "list" \notin odd'
      PROVE  (\A d \in Callers : OneRead(call[d]))'
  <2>1. \A d \in Callers : OneRead(call'[d])
    BY <1>2, <1>3, <1>5 DEF DayInv
  <2> QED BY <2>1 DEF OneRead
<1> QED BY <1>1, <1>4, <1>5 DEF DayInv

\* So does one beside the calls.
LEMMA EntryKeepsDay ==
  ASSUME DayInv, UNCHANGED <<policy, now, call>>,
         request' \in Request, row' \in Row,
         punches' \subseteq ({"in", "out"} \X Instants),
         odd \subseteq odd', odd' \subseteq {"list", "ahead", "noCheckIn"},
         "list" \notin odd' => OneOpen(row'.sessions)
  PROVE  DayInv'
<1>1. TypeOK'
  BY DEF DayInv, TypeOK
<1>2. ASSUME "list" \notin odd'
      PROVE  (\A d \in Callers : OneRead(call[d]))'
  BY <1>2 DEF DayInv, OneRead
<1> QED BY <1>1, <1>2 DEF DayInv

\* The reads of the day.
LEMMA ReadsKeepDay ==
  ASSUME DayInv, NEW c \in Callers,
         \/ ReadCheckIn(c) \/ ReadCheckOut(c) \/ ReadLunchOut(c) \/ ReadLunchIn(c)
         \/ ReadAutoCheckout(c) \/ ReadMarkAbsent(c) \/ ReadRemind(c) \/ ReadSync(c)
         \/ ReadRequest(c, "approve") \/ ReadRequest(c, "decline")
  PROVE  DayInv'
<1>1. ASSUME NEW op \in AllOperations, Read(c, op),
             op = "in" /\ policy.multiple => ~Open(Sessions(row)),
             op \in {"out", "lunchOut"} => Open(Sessions(row)),
             op = "lunchIn" => OpenLunch(Sessions(row)),
             op = "remind" => OpenLunch(row.sessions),
             op = "autoCheckout" => now >= DayEnd
      PROVE  DayInv'
  <2>1. CallInv([op |-> op, at |-> now, seen |-> row])
    BY <1>1, CallFacts DEF CallInv
  <2> QED BY <1>1, <2>1, ReadKeepsDay
<1>2. CASE ReadCheckIn(c)
  BY <1>1, <1>2 DEF ReadCheckIn, AllOperations
<1>3. CASE ReadCheckOut(c)
  BY <1>1, <1>3 DEF ReadCheckOut, AllOperations
<1>4. CASE ReadLunchOut(c)
  BY <1>1, <1>4 DEF ReadLunchOut, AllOperations
<1>5. CASE ReadLunchIn(c)
  BY <1>1, <1>5 DEF ReadLunchIn, AllOperations
<1>6. CASE ReadAutoCheckout(c)
  BY <1>1, <1>6 DEF ReadAutoCheckout, AllOperations
<1>7. CASE ReadMarkAbsent(c)
  BY <1>1, <1>7 DEF ReadMarkAbsent, AllOperations
<1>8. CASE ReadRemind(c)
  <2>1. OpenLunch(row.sessions)
    BY <1>8 DEF ReadRemind, DueLunch, OpenLunch
  <2> QED BY <1>1, <1>8, <2>1 DEF ReadRemind, AllOperations
<1>9. CASE ReadSync(c)
  BY <1>1, <1>9 DEF ReadSync, AllOperations
<1>10. CASE ReadRequest(c, "approve") \/ ReadRequest(c, "decline")
  BY <1>1, <1>10 DEF ReadRequest, AllOperations
<1> QED BY <1>2, <1>3, <1>4, <1>5, <1>6, <1>7, <1>8, <1>9, <1>10

\* What a call has read, without a list from the device.
LEMMA OneSeen ==
  ASSUME DayInv, NEW c \in Callers, "list" \notin odd
  PROVE  /\ OneOpen(row.sessions) /\ OneOpen(Sessions(call[c].seen))
         /\ call[c].op = "in" /\ policy.multiple => ~Open(Sessions(call[c].seen))
  BY DEF DayInv, OneRead

\* The punches.
LEMMA PunchesKeepDay ==
  ASSUME DayInv, NEW c \in Callers,
         WriteCheckIn(c) \/ WriteCheckOut(c) \/ WriteLunchOut(c) \/ WriteLunchIn(c)
  PROVE  DayInv'
<1>1. /\ Return(c) /\ UNCHANGED <<policy, now, request, odd>> /\ request \in Request
      /\ odd \subseteq {"list", "ahead", "noCheckIn"}
      /\ punches \subseteq ({"in", "out"} \X Instants) /\ row \in Row
  BY DEF WriteCheckIn, WriteCheckOut, WriteLunchOut, WriteLunchIn, DayInv, TypeOK
<1>2. PICK s : s = Sessions(call[c].seen)
  OBVIOUS
<1>3. CASE WriteCheckIn(c)
  <2>1. CASE UNCHANGED <<row, punches>>
    BY <2>1, <1>1, WriteKeepsDay DEF DayInv
  <2>2. CASE ~UNCHANGED <<row, punches>>
    <3>1. PICK was : /\ Begins(was, call[c].at, row'.sessions) /\ row' \in Row
                     /\ was = <<>> \/ (was = s /\ policy.multiple)
                     /\ call[c].at \in Instants /\ Confirm({"in"}, call[c].at)
      BY <2>2, <1>2, <1>3, CheckInWrites
    <3>2. punches' \subseteq ({"in", "out"} \X Instants)
      BY <3>1, Confirmed
    <3>3. ASSUME "list" \notin odd
          PROVE  OneOpen(row'.sessions)
      <4>1. ~Open(was)
        BY <3>1, <3>3, <1>2, <1>3, OneSeen DEF Open, OpenAt, WriteCheckIn
      <4> QED BY <4>1, <3>1 DEF Open, OneOpen, Begins
    <3> QED BY <3>1, <3>2, <3>3, <1>1, WriteKeepsDay
  <2> QED BY <2>1, <2>2
<1>4. CASE WriteCheckOut(c)
  <2>1. PICK out : out = row'.checkOut
    OBVIOUS
  <2>2. /\ \E n \in OpenAt(s) : Closes(s, n, out, row'.sessions)
        /\ out \in Instants /\ row' \in Row /\ Confirm({"out"}, out)
    BY <2>1, <1>2, <1>4, CheckOutWrites
  <2>3. punches' \subseteq ({"in", "out"} \X Instants)
    BY <2>2, Confirmed
  <2>4. "list" \notin odd => OneOpen(row'.sessions)
    BY <2>2, <1>2, OneSeen DEF Closes, OneOpen
  <2> QED BY <2>2, <2>3, <2>4, <1>1, WriteKeepsDay
<1>5. CASE WriteLunchOut(c) \/ WriteLunchIn(c)
  <2>1. PICK n \in OpenAt(s), t \in Instants :
          Switches(s, n, t, row'.sessions) /\ row' \in Row /\ Confirm({"in", "out"}, t)
    BY <1>2, <1>5, LunchWrites
  <2>2. punches' \subseteq ({"in", "out"} \X Instants)
    BY <2>1, Confirmed
  <2>3. "list" \notin odd => OneOpen(row'.sessions)
    BY <2>1, <1>2, OneSeen DEF OneOpen, Switches
  <2> QED BY <2>1, <2>2, <2>3, <1>1, WriteKeepsDay
<1> QED BY <1>3, <1>4, <1>5

\* The mark that lunch was reminded of changes no time.
LEMMA RemindWrites ==
  ASSUME DayInv, NEW c \in Callers, WriteRemind(c)
  PROVE  LET s == call[c].seen.sessions
             e == row'.sessions
         IN  /\ row' \in Row /\ row' = [row EXCEPT !.sessions = e]
             /\ DOMAIN e = DOMAIN s /\ s \in Seq(Session) /\ s # <<>> /\ e # <<>>
             /\ OpenAt(e) = OpenAt(s) /\ Open(s)
             /\ \A i \in DOMAIN s : e[i].in = s[i].in /\ e[i].out = s[i].out
<1>1. PICK s : s = call[c].seen.sessions
  OBVIOUS
<1>2. s \in Seq(Session) /\ OpenLunch(s) /\ row \in Row
  BY <1>1, CallFacts DEF WriteRemind, CallInv, Row
<1>3. PICK n \in OpenAt(s) : n = CHOOSE i \in OpenAt(s) : s[i].type = "LUNCH"
  BY <1>2 DEF OpenLunch
<1>4. n \in DOMAIN s /\ s[n] \in Session /\ s # <<>>
  BY <1>2, <1>3, ElementFields DEF OpenAt
<1>5. PICK x \in Session : /\ x = [s[n] EXCEPT !.reminded = TRUE]
                           /\ x.in = s[n].in /\ x.out = s[n].out
  <2>1. PICK x : x = [s[n] EXCEPT !.reminded = TRUE]
    OBVIOUS
  <2>2. x \in Session /\ x.in = s[n].in /\ x.out = s[n].out
    BY <2>1, <1>4 DEF Session
  <2> QED BY <2>1, <2>2
<1> DEFINE e == [s EXCEPT ![n] = x]
<1>6. e = [s EXCEPT ![n].reminded = TRUE]
  BY <1>5
<1>7. e \in Seq(Session) /\ DOMAIN e = DOMAIN s
      /\ e[n] = x /\ \A i \in DOMAIN s : i # n => e[i] = s[i]
  BY <1>2, <1>4
<1> HIDE DEF e
<1>8. \A i \in DOMAIN s : e[i].in = s[i].in /\ e[i].out = s[i].out
  BY <1>5, <1>7
<1>9. e # <<>> /\ OpenAt(e) = OpenAt(s)
  BY <1>2, <1>4, <1>7, <1>8, ElementFields DEF OpenAt
<1>10. row' = [row EXCEPT !.sessions = e]
  BY <1>1, <1>3, <1>6 DEF WriteRemind
<1>11. row' \in Row /\ row'.sessions = e
  BY <1>2, <1>7, <1>10 DEF Row
<1>12. Open(s)
  BY <1>3 DEF Open
<1> QED BY <1>1, <1>2, <1>4, <1>7, <1>8, <1>9, <1>10, <1>11, <1>12

\* A row without punches is created where there was none.
LEMMA CreatedWrites ==
  ASSUME DayInv, NEW c \in Callers, WriteMarkAbsent(c) \/ GrantLeave(c)
  PROVE  \/ row' = row
         \/ /\ row.status = "NONE" /\ row' \in Row /\ row'.status \in {"ABSENT", "LEAVE"}
            /\ row'.checkIn = NoTime /\ row'.checkOut = NoTime /\ row'.sessions = <<>>
            /\ row'.hours \in {NoHours, 0}
<1>1. CASE WriteMarkAbsent(c)
  <2>1. row' = row \/ (row.status = "NONE" /\ row' = [NoRow EXCEPT !.status = "ABSENT"])
    BY <1>1 DEF WriteMarkAbsent
  <2>2. PICK r : r = [NoRow EXCEPT !.status = "ABSENT"]
    OBVIOUS
  <2>3. r \in Row
    BY <2>2, NothingTyped DEF Row
  <2>4. /\ r.status = "ABSENT" /\ r.checkIn = NoTime /\ r.checkOut = NoTime
        /\ r.sessions = <<>> /\ r.hours = NoHours
    BY <2>2 DEF NoRow
  <2> QED BY <2>1, <2>2, <2>3, <2>4
<1>2. CASE GrantLeave(c)
  <2>1. PICK r : r = [NoRow EXCEPT !.status = "LEAVE", !.hours = 0, !.source = "LEAVE"]
    OBVIOUS
  <2>2. r \in Row
    <3>1. r = [status |-> "LEAVE", checkIn |-> NoTime, checkOut |-> NoTime,
               sessions |-> <<>>, hours |-> 0, source |-> "LEAVE"]
      BY <2>1 DEF NoRow
    <3>2. NoTime \in Times
      BY NothingTyped DEF NoRow, Row
    <3> QED BY <3>1, <3>2 DEF Row
  <2>3. /\ r.status = "LEAVE" /\ r.checkIn = NoTime /\ r.checkOut = NoTime
        /\ r.sessions = <<>> /\ r.hours = 0
    BY <2>1 DEF NoRow
  <2>4. row' = r /\ row.status = "NONE"
    BY <1>2, <2>1 DEF GrantLeave
  <2> QED BY <2>2, <2>3, <2>4
<1> QED BY <1>1, <1>2


\* The job at the day's end keeps them.
LEMMA AutoCheckoutKeepsDay ==
  ASSUME DayInv, NEW c \in Callers, WriteAutoCheckout(c)
  PROVE  DayInv'
<1>1. /\ Return(c) /\ UNCHANGED <<policy, now, request, odd>> /\ request \in Request
      /\ odd \subseteq {"list", "ahead", "noCheckIn"} /\ row \in Row
      /\ punches' \subseteq ({"in", "out"} \X Instants)
  BY DEF WriteAutoCheckout, DayInv, TypeOK
<1>2. PICK s : s = Sessions(call[c].seen)
  OBVIOUS
<1>3. CASE row' = row
  BY <1>1, <1>3, WriteKeepsDay DEF DayInv
<1>4. CASE row' # row
  <2>1. /\ row' \in Row
        /\ \/ row'.sessions = row.sessions
           \/ \E n \in OpenAt(s) : Closes(s, n, row'.checkOut, row'.sessions)
    BY <1>2, <1>4, AutoCheckoutWrites
  <2>2. "list" \notin odd => OneOpen(row'.sessions)
    BY <2>1, <1>2, OneSeen DEF Closes, OneOpen
  <2> QED BY <1>1, <2>1, <2>2, WriteKeepsDay
<1> QED BY <1>3, <1>4

\* So does that mark.
LEMMA RemindKeepsDay ==
  ASSUME DayInv, NEW c \in Callers, WriteRemind(c)
  PROVE  DayInv'
<1>1. /\ Return(c) /\ UNCHANGED <<policy, now, request, odd>> /\ request \in Request
      /\ odd \subseteq {"list", "ahead", "noCheckIn"}
      /\ punches' \subseteq ({"in", "out"} \X Instants)
  BY DEF WriteRemind, DayInv, TypeOK
<1>2. PICK s : s = call[c].seen.sessions
  OBVIOUS
<1>3. row' \in Row /\ s # <<>> /\ OpenAt(row'.sessions) = OpenAt(s)
  BY <1>2, RemindWrites
<1>4. Sessions(call[c].seen) = s
  BY <1>2, <1>3, CallFacts, SessionsOfRow
<1>5. "list" \notin odd => OneOpen(row'.sessions)
  BY <1>3, <1>4, OneSeen DEF OneOpen
<1> QED BY <1>1, <1>3, <1>5, WriteKeepsDay

\* The hours between two columns are a number.
LEMMA ColumnsHoursTyped ==
  ASSUME NEW in \in Times, NEW out \in Times
  PROVE  /\ ColumnsHours(in, out) \in Int
         /\ in = NoTime => ColumnsHours(in, out) = NoHours
         /\ in # NoTime /\ out # NoTime =>
              ColumnsHours(in, out) = Hours(<<Work(in, out)>>, in)
<1>1. CASE in = NoTime \/ out = NoTime
  BY <1>1 DEF ColumnsHours, NoHours
<1>2. CASE in # NoTime /\ out # NoTime
  <2>1. in \in Instants
    BY <1>2, AttendanceAssumption DEF Times, Instants, NoTime
  <2>2. PICK x \in Session : x = Work(in, out)
    BY <2>1, StretchIsSession DEF Work
  <2>3. <<x>> \in Seq(Session)
    OBVIOUS
  <2>4. Hours(<<Work(in, out)>>, in) \in Int
    BY <2>2, <2>3, HoursWithinTotal
  <2> QED BY <1>2, <2>4 DEF ColumnsHours
<1> QED BY <1>1, <1>2

\* What may be reported of a day.
Report ==
    {d \in [status : {"PRESENT", "ABSENT", "LEAVE", "HOLIDAY"}, in : Times, out : Times,
            list : Seq(Instants \X Times)] :
       d.out = NoTime \/ d.in <= d.out}

\* What HR and the device report are reports; HR never lists stretches.
LEMMA Reports ==
  /\ \A e \in Entries : Entered(e) \in Report /\ Entered(e).list = <<>>
  /\ \A d \in DeviceDays : d \in Report
<1>1. ASSUME NEW e \in Entries PROVE Entered(e) \in Report /\ Entered(e).list = <<>>
  <2>1. e.status \in {"PRESENT", "ABSENT", "LEAVE", "HOLIDAY"} /\ e.in \in Times /\ e.out \in Times
    BY AttendanceAssumption DEF Times
  <2>2. Later(e.in, DayEnd) \in Times /\ e.in <= Later(e.in, DayEnd)
    BY <2>1, AttendanceAssumption DEF Later, Times
  <2>3. PICK out \in Times :
          /\ out = IF NextMorning(e.in, e.out) THEN Later(e.in, DayEnd) ELSE e.out
          /\ out = NoTime \/ e.in <= out
    BY <2>1, <2>2, AttendanceAssumption DEF NextMorning, Times, NoTime
  <2>4. Entered(e) = [status |-> e.status, in |-> e.in, list |-> <<>>, out |-> out]
    BY <2>3 DEF Entered
  <2>5. <<>> \in Seq(Instants \X Times)
    OBVIOUS
  <2> QED BY <2>1, <2>3, <2>4, <2>5 DEF Report
<1>2. ASSUME NEW d \in DeviceDays PROVE d \in Report
  <2>1. d \in [status : {"PRESENT", "ABSENT"}, in : Times, out : Times,
               list : Seq(Instants \X Times)]
    BY AttendanceAssumption DEF Times, Instants
  <2>2. d.out = NoTime \/ d.in <= d.out
    BY AttendanceAssumption DEF NoTime
  <2> QED BY <2>1, <2>2 DEF Report
<1> QED BY <1>1, <1>2

\* The day r that was reported as d.
Reported(d, r) ==
    /\ r \in Row /\ r.status = d.status /\ r.checkIn = d.in
    /\ r.checkOut = Clamped(d.out, d.in)
    /\ d.list = <<>> =>
         /\ d.in = NoTime => r.sessions = <<>>
         /\ d.in # NoTime =>
              Work(d.in, r.checkOut) \in Session /\ r.sessions = <<Work(d.in, r.checkOut)>>
         /\ r.hours = ColumnsHours(d.in, r.checkOut)
    /\ Explained(r)

\* It replaces the row.
LEMMA ReplacedDay ==
  ASSUME NEW d \in Report, NEW source \in {"MANUAL", "other"}
  PROVE  Reported(d, Replaced(d, source))
<1>1. d.status \in {"PRESENT", "ABSENT", "LEAVE", "HOLIDAY"} /\ d.in \in Times /\ d.out \in Times
      /\ d.list \in Seq(Instants \X Times)
  BY DEF Report
<1>2. PICK out \in Times : out = Clamped(d.out, d.in)
  BY <1>1, ClampedTyped
<1>3. PICK list : list = [i \in DOMAIN d.list |->
                            Work(d.list[i][1], Clamped(d.list[i][2], d.list[i][1]))]
  OBVIOUS
<1>4. list \in Seq(Session) /\ Len(list) = Len(d.list) /\ (d.list # <<>> => list # <<>>)
  <2>1. PICK n \in Nat : n = Len(d.list) /\ DOMAIN d.list = 1..n
    BY <1>1
  <2>2. ASSUME NEW i \in 1..n
        PROVE  Work(d.list[i][1], Clamped(d.list[i][2], d.list[i][1])) \in Session
    <3>1. d.list[i] \in Instants \X Times
      BY <1>1, <2>1
    <3>2. d.list[i][1] \in Instants /\ d.list[i][2] \in Times /\ d.list[i][1] \in Times
      BY <3>1 DEF Instants, Times
    <3>3. Clamped(d.list[i][2], d.list[i][1]) \in Times
      BY <3>2, ClampedTyped
    <3> QED BY <3>2, <3>3, StretchIsSession DEF Work
  <2>3. list \in [1..n -> Session]
    BY <1>3, <2>1, <2>2
  <2>4. list \in Seq(Session) /\ Len(list) = n
    BY <2>3
  <2> QED BY <1>1, <2>1, <2>4
<1>5. ColumnsHours(d.in, out) \in Int /\ Hours(list, d.in) \in Int
  BY <1>1, <1>2, <1>4, ColumnsHoursTyped, HoursWithinTotal
<1>6. d.in # NoTime => Work(d.in, out) \in Session
  <2>1. d.in # NoTime => d.in \in Instants
    BY <1>1, AttendanceAssumption DEF Times, Instants, NoTime
  <2> QED BY <1>2, <2>1, StretchIsSession DEF Work
<1>7. PICK s \in Seq(Session) :
        s = IF d.list # <<>> THEN list ELSE IF d.in # NoTime THEN <<Work(d.in, out)>> ELSE <<>>
  <2>1. CASE d.list # <<>>
    BY <2>1, <1>4
  <2>2. CASE d.list = <<>> /\ d.in # NoTime
    <3>1. PICK x \in Session : x = Work(d.in, out)
      BY <2>2, <1>6
    <3>2. <<x>> \in Seq(Session)
      OBVIOUS
    <3> QED BY <2>2, <3>1, <3>2
  <2>3. CASE d.list = <<>> /\ d.in = NoTime
    <3>1. <<>> \in Seq(Session)
      OBVIOUS
    <3> QED BY <2>3, <3>1
  <2> QED BY <2>1, <2>2, <2>3
<1>8. PICK h \in Int : h = IF Len(d.list) > 1 THEN Hours(list, d.in) ELSE ColumnsHours(d.in, out)
  BY <1>5
<1>9. PICK r : r = Replaced(d, source)
  OBVIOUS
<1>10. r = [status |-> d.status, checkIn |-> d.in, checkOut |-> out, source |-> source,
            sessions |-> s, hours |-> h]
  BY <1>2, <1>3, <1>7, <1>8, <1>9 DEF Replaced
<1>11. /\ r.status = d.status /\ r.checkIn = d.in /\ r.checkOut = out
       /\ r.sessions = s /\ r.hours = h
  BY <1>10
<1>12. r \in Row
  BY <1>1, <1>2, <1>10 DEF Row
<1>13. d.list = <<>> => Len(d.list) = 0
  OBVIOUS
<1>14. d.list = <<>> => r.hours = ColumnsHours(d.in, r.checkOut)
  BY <1>8, <1>11, <1>13
<1>15. Explained(r)
  <2>1. CASE Len(d.list) > 1
    <3>1. s = list /\ list # <<>> /\ h = Hours(list, d.in)
      BY <2>1, <1>4, <1>7, <1>8, <1>13
    <3>2. Sessions(r) = list
      BY <3>1, <1>11 DEF Sessions
    <3> QED BY <3>1, <3>2, <1>11 DEF Explained
  <2>2. CASE ~(Len(d.list) > 1)
    BY <2>2, <1>8, <1>11 DEF Explained
  <2> QED BY <2>1, <2>2
<1>16. d.list = <<>> =>
         /\ d.in = NoTime => r.sessions = <<>>
         /\ d.in # NoTime =>
              Work(d.in, r.checkOut) \in Session /\ r.sessions = <<Work(d.in, r.checkOut)>>
  BY <1>6, <1>7, <1>11
<1> QED BY <1>2, <1>9, <1>11, <1>12, <1>14, <1>15, <1>16 DEF Reported

\* What replaces the day, and what is odd about it.
LEMMA ReplaceWrites ==
  ASSUME NEW c \in Callers, EnterManually(c) \/ WriteSync(c)
  PROVE  \/ WriteSync(c) /\ UNCHANGED <<row, punches, odd>>
         \/ \E d \in Report :
              /\ Reported(d, row') /\ punches' = {}
              /\ odd' = odd \union Oddities(row') \union (IF d.list # <<>> THEN {"list"} ELSE {})
<1>1. CASE EnterManually(c)
  <2>1. PICK e \in Entries : Replace(Entered(e), "MANUAL")
    BY <1>1 DEF EnterManually
  <2>2. Entered(e) \in Report
    BY Reports
  <2> QED BY <2>1, <2>2, ReplacedDay DEF Replace
<1>2. CASE WriteSync(c)
  <2>1. PICK d \in DeviceDays : UNCHANGED <<row, punches, odd>> \/ Replace(d, "other")
    BY <1>2 DEF WriteSync
  <2>2. d \in Report
    BY Reports
  <2> QED BY <1>2, <2>1, <2>2, ReplacedDay DEF Replace
<1> QED BY <1>1, <1>2

\* Reported without a list, a day has one stretch at most.
LEMMA ReportedOnce ==
  ASSUME NEW d \in Report, NEW r, Reported(d, r), d.list = <<>>
  PROVE  OneOpen(r.sessions)
<1>1. CASE d.in = NoTime
  BY <1>1 DEF Reported, OneOpen, OpenAt
<1>2. CASE d.in # NoTime
  <2>1. PICK x : r.sessions = <<x>>
    BY <1>2 DEF Reported
  <2>2. DOMAIN <<x>> = {1}
    OBVIOUS
  <2> QED BY <2>1, <2>2 DEF OneOpen, OpenAt
<1> QED BY <1>1, <1>2

\* A replaced day keeps them.
LEMMA ReplaceKeepsDay ==
  ASSUME DayInv, NEW c \in Callers, EnterManually(c) \/ WriteSync(c)
  PROVE  DayInv'
<1>1. /\ UNCHANGED <<policy, now, request>> /\ request \in Request /\ row \in Row
      /\ odd \subseteq {"list", "ahead", "noCheckIn"}
      /\ punches \subseteq ({"in", "out"} \X Instants)
      /\ Return(c) \/ UNCHANGED call
  BY DEF EnterManually, WriteSync, DayInv, TypeOK
<1>2. CASE UNCHANGED <<row, punches, odd>>
  BY <1>1, <1>2, WriteKeepsDay, EntryKeepsDay DEF DayInv
<1>3. CASE ~UNCHANGED <<row, punches, odd>>
  <2>1. PICK d \in Report :
          /\ Reported(d, row') /\ punches' = {}
          /\ odd' = odd \union Oddities(row') \union (IF d.list # <<>> THEN {"list"} ELSE {})
    BY <1>3, ReplaceWrites
  <2>2. odd \subseteq odd' /\ odd' \subseteq {"list", "ahead", "noCheckIn"}
    BY <1>1, <2>1 DEF Oddities
  <2>3. row' \in Row
    BY <2>1 DEF Reported
  <2>4. "list" \notin odd' => OneOpen(row'.sessions)
    BY <2>1, ReportedOnce
  <2> QED BY <1>1, <2>1, <2>2, <2>3, <2>4, WriteKeepsDay, EntryKeepsDay
<1> QED BY <1>2, <1>3

\* A row that was created has no stretch.
LEMMA CreatedKeepsDay ==
  ASSUME DayInv, NEW c \in Callers, WriteMarkAbsent(c) \/ GrantLeave(c)
  PROVE  DayInv'
<1>1. /\ UNCHANGED <<policy, now, request, odd, punches>> /\ request \in Request /\ row \in Row
      /\ odd \subseteq {"list", "ahead", "noCheckIn"}
      /\ punches \subseteq ({"in", "out"} \X Instants)
      /\ Return(c) \/ UNCHANGED call
  BY DEF WriteMarkAbsent, GrantLeave, DayInv, TypeOK
<1>2. row' \in Row /\ ("list" \notin odd => OneOpen(row'.sessions))
  <2>1. CASE row' = row
    BY <2>1, <1>1 DEF DayInv
  <2>2. CASE row' # row
    <3>1. row' \in Row /\ row'.sessions = <<>>
      BY <2>2, CreatedWrites
    <3> QED BY <3>1 DEF OneOpen, OpenAt
  <2> QED BY <2>1, <2>2
<1> QED BY <1>1, <1>2, WriteKeepsDay, EntryKeepsDay

\* What a correction asks for.
LEMMA WantedTimes ==
  ASSUME request \in Request
  PROVE  Wanted(request, 1) \in Times /\ Wanted(request, 2) \in Times /\ WantedOut(request) \in Times
<1>1. Wanted(request, 1) \in Times /\ Wanted(request, 2) \in Times
  BY DEF Request, Wanted
<1>2. PICK in \in Times, out \in Times : in = Wanted(request, 1) /\ out = Wanted(request, 2)
  BY <1>1
<1>3. Clamped(out, in) \in Times
  BY ClampedTyped
<1>4. Later(in, DayEnd) \in Times
  BY AttendanceAssumption DEF Later, Times
<1> QED BY <1>1, <1>2, <1>3, <1>4 DEF WantedOut

\* An approved correction writes the two columns and the hours.
LEMMA AdjustWrites ==
  ASSUME DayInv, NEW c \in Callers, Adjust(c)
  PROVE  /\ row' \in Row /\ row'.status = "PRESENT"
         /\ row'.checkIn = Wanted(request, 1) /\ row'.checkOut = WantedOut(request)
         /\ row'.sessions = row.sessions
         /\ row'.hours = ColumnsHours(row'.checkIn, row'.checkOut)
         /\ odd' = odd \union Oddities(row') /\ punches' = {}
<1>1. request \in Request /\ row \in Row
  BY DEF DayInv, TypeOK
<1>2. PICK in \in Times, out \in Times : in = Wanted(request, 1) /\ out = WantedOut(request)
  BY <1>1, WantedTimes
<1>3. PICK h \in Int : h = ColumnsHours(in, out)
  BY ColumnsHoursTyped
<1>4. /\ row' = [row EXCEPT !.status = "PRESENT", !.checkIn = in, !.checkOut = out, !.hours = h]
      /\ odd' = odd \union Oddities(row') /\ punches' = {}
  BY <1>2, <1>3 DEF Adjust
<1>5. /\ row' \in Row /\ row'.status = "PRESENT" /\ row'.checkIn = in /\ row'.checkOut = out
      /\ row'.sessions = row.sessions /\ row'.hours = h
  BY <1>1, <1>4 DEF Row
<1> QED BY <1>2, <1>3, <1>4, <1>5

\* It keeps them.
LEMMA AdjustKeepsDay ==
  ASSUME DayInv, NEW c \in Callers, Adjust(c)
  PROVE  DayInv'
<1>1. /\ row' \in Row /\ row'.sessions = row.sessions
      /\ odd' = odd \union Oddities(row') /\ punches' = {}
  BY AdjustWrites
<1>2. /\ UNCHANGED <<policy, now, request>> /\ call' = [call EXCEPT ![c].op = "adjusted"]
      /\ call[c].op = "approve"
  BY DEF Adjust
<1>3. PICK k : k = [call[c] EXCEPT !.op = "adjusted"]
  OBVIOUS
<1>4. /\ k \in [op : AllOperations \union {"none", "adjusted"}, at : Times, seen : Row]
      /\ k.op = "adjusted" /\ k.seen = call[c].seen /\ k.at = call[c].at
  BY <1>3 DEF DayInv, TypeOK
<1>5. \A d \in Callers : call'[d] = IF d = c THEN k ELSE call[d]
  BY <1>2, <1>3 DEF DayInv, TypeOK
<1>6. odd' \subseteq {"list", "ahead", "noCheckIn"}
  BY <1>1 DEF DayInv, TypeOK, Oddities
<1>7. TypeOK'
  <2>1. call' \in [Callers -> [op : AllOperations \union {"none", "adjusted"},
                               at : Times, seen : Row]]
    BY <1>2, <1>3, <1>4 DEF DayInv, TypeOK
  <2> QED BY <1>1, <1>2, <1>6, <2>1 DEF DayInv, TypeOK
<1>8. \A d \in Callers : CallInv(call'[d])
  <2>1. CallInv(k)
    BY <1>2, <1>4, CallFacts DEF CallInv
  <2> QED BY <1>5, <2>1 DEF DayInv
<1>9. ASSUME "list" \notin odd'
      PROVE  OneOpen(row'.sessions) /\ (\A d \in Callers : OneRead(call[d]))'
  <2>1. "list" \notin odd
    BY <1>1, <1>9
  <2>2. OneRead(k)
    BY <1>4, <2>1, OneSeen DEF OneRead
  <2>3. \A d \in Callers : OneRead(call'[d])
    BY <1>5, <2>1, <2>2 DEF DayInv
  <2> QED BY <1>1, <1>2, <2>1, <2>3 DEF DayInv, OneRead
<1> QED BY <1>7, <1>8, <1>9 DEF DayInv

\* Filing, deciding and the clock leave the row alone.
LEMMA OthersKeepDay ==
  ASSUME DayInv,
         \/ File \/ Tick
         \/ \E c \in Callers : Settle(c, "adjusted", 1) \/ Settle(c, "decline", 0)
  PROVE  DayInv'
<1>1. row \in Row /\ request \in Request /\ NoTime \in Times
      /\ odd \subseteq {"list", "ahead", "noCheckIn"}
      /\ punches \subseteq ({"in", "out"} \X Instants)
  BY NothingTyped DEF DayInv, TypeOK, NoRow, Row
<1>2. CASE File
  <2>1. PICK q \in Requests :
          request' = [status |-> "PENDING", requested |-> q,
                      original |-> <<row.checkIn, row.checkOut>>, approved |-> request.approved]
    BY <1>2 DEF File
  <2>2. q \in Times \X Times /\ <<row.checkIn, row.checkOut>> \in Times \X Times
        /\ request.approved \in Nat
    BY <1>1, AttendanceAssumption DEF Row, Request, Times
  <2>3. request' \in Request
    BY <2>1, <2>2 DEF Request
  <2>4. UNCHANGED <<policy, now, row, call, punches, odd>>
    BY <1>2 DEF File
  <2> QED BY <1>1, <2>3, <2>4, EntryKeepsDay DEF DayInv
<1>3. ASSUME NEW c \in Callers, NEW op, NEW more \in Nat, Settle(c, op, more)
      PROVE  DayInv'
  <2>1. request' = [NoRequest EXCEPT !.approved = request.approved + more]
    BY <1>3 DEF Settle
  <2>2. request' = [status |-> "NONE", original |-> <<NoTime, NoTime>>,
                    requested |-> <<NoTime, NoTime>>, approved |-> request.approved + more]
    BY <2>1 DEF NoRequest
  <2>3. request' \in Request
    BY <1>1, <2>2 DEF Request
  <2> QED BY <1>1, <1>3, <2>3, WriteKeepsDay DEF Settle, DayInv
<1>4. CASE Tick
  <2>1. now' \in Instants
    BY <1>4, AttendanceAssumption DEF Tick, DayInv, TypeOK, Instants
  <2>2. UNCHANGED <<policy, row, call, request, punches, odd>>
    BY <1>4 DEF Tick
  <2> QED BY <2>1, <2>2 DEF DayInv, TypeOK, OneRead
<1> QED BY <1>2, <1>3, <1>4

\* In the beginning.
LEMMA DayInit == ASSUME Init PROVE DayInv
<1>1. NoRow.sessions = <<>> /\ Sessions(NoRow) = <<>>
  BY DEF NoRow, Sessions
<1>2. request \in Request
  <2>1. NoTime \in Times
    BY NothingTyped DEF NoRow, Row
  <2> QED BY <2>1 DEF Init, NoRequest, Request
<1>3. now \in Instants
  BY AttendanceAssumption DEF Init, Instants
<1>4. TypeOK
  BY <1>2, <1>3, NothingTyped DEF Init, TypeOK
<1>5. CallInv(Idle) /\ OneRead(Idle) /\ OneOpen(NoRow.sessions)
  BY <1>1 DEF CallInv, OneRead, OneOpen, OpenAt, Idle
<1> QED BY <1>4, <1>5 DEF Init, DayInv

\* Each step.
LEMMA DayStep == ASSUME DayInv, [Next]_vars PROVE DayInv'
<1>1. CASE UNCHANGED vars
  BY <1>1 DEF vars, DayInv, TypeOK, OneRead
<1>2. CASE Next
  BY <1>2, ReadsKeepDay, PunchesKeepDay, AutoCheckoutKeepsDay, RemindKeepsDay, ReplaceKeepsDay,
     CreatedKeepsDay, AdjustKeepsDay, OthersKeepDay
     DEF Next, Punch, CronJob, Decide
<1> QED BY <1>1, <1>2

\* Every value stays within its type, whatever overlaps.
THEOREM AttendanceTypes == Spec => []TypeOK
<1>1. Init => DayInv
  BY DayInit
<1>2. DayInv /\ [Next]_vars => DayInv'
  BY DayStep
<1>3. DayInv => TypeOK
  BY DEF DayInv
<1> QED BY <1>1, <1>2, <1>3, PTL DEF Spec

\* However calls overlap, no day has two stretches under way, unless the device
\* reported them.
THEOREM OneStretchUnderWay == Spec => []OneOpenSession
<1>1. Init => DayInv
  BY DayInit
<1>2. DayInv /\ [Next]_vars => DayInv'
  BY DayStep
<1>3. DayInv => OneOpenSession
  BY DEF DayInv, OneOpenSession, OneOpen
<1> QED BY <1>1, <1>2, <1>3, PTL DEF Spec

-----------------------------------------------------------------------------
(* One worker: what it has read still stands *)

\* Beside a worker, others only create the row.
LEMMA OthersCreate ==
  ASSUME OneWorker, NEW c \in Callers, ~(Duties[c] \subseteq Creators),
         NEW d \in Callers, d # c, OnDuty(d)
  PROVE  call[d].op \in Creators \union {"none"}
<1>1. Duties[d] \subseteq Creators
  BY DEF OneWorker
<1> QED BY <1>1 DEF OnDuty, Creators

\* Such calls are no matter of what was read.
LEMMA CreatorsStand ==
  ASSUME NEW k, k.op \in Creators \union {"none"}
  PROVE  ReadStands(k) /\ ReadStands(k)'
  BY DEF ReadStands, Creators, Working, Deciding

\* Whether the day was adjusted changes with the decisions only.
LEMMA AdjustedKept ==
  ASSUME DayInv, NEW c \in Callers, NEW k, call' = [call EXCEPT ![c] = k],
         call[c].op # "adjusted", k.op # "adjusted",
         UNCHANGED request
  PROVE  Adjusted' = Adjusted
<1>1. \A d \in Callers : call'[d] = IF d = c THEN k ELSE call[d]
  BY DEF DayInv, TypeOK
<1>2. \A d \in Callers : call'[d].op = "adjusted" <=> call[d].op = "adjusted"
  BY <1>1
<1>3. Corrected' = Corrected
  BY DEF Corrected
<1> QED BY <1>2, <1>3 DEF Adjusted

\* A read leaves the day as it is.
LEMMA ReadKeepsWork ==
  ASSUME DayInv, WorkInv, NEW c \in Callers, NEW op \in AllOperations, Read(c, op),
         ReadStands([op |-> op, at |-> now, seen |-> row])
  PROVE  WorkInv'
<1>1. PICK k : k = [op |-> op, at |-> now, seen |-> row]
  OBVIOUS
<1>2. /\ k.op = op /\ op # "adjusted" /\ op \in Duties[c] /\ call[c] = Idle
      /\ call' = [call EXCEPT ![c] = k] /\ UNCHANGED <<policy, now, row, request, punches, odd>>
  BY <1>1 DEF Read, Free, AllOperations
<1>3. \A d \in Callers : call'[d] = IF d = c THEN k ELSE call[d]
  BY <1>2 DEF DayInv, TypeOK
<1>4. Adjusted' = Adjusted
  <2>1. call[c].op # "adjusted" /\ k.op # "adjusted" /\ request' = request
        /\ call' = [call EXCEPT ![c] = k]
    BY <1>2 DEF Idle
  <2> QED BY <2>1, AdjustedKept
<1>5. ASSUME NEW d \in Callers
      PROVE  (OnDuty(d) /\ ReadStands(call[d]))'
  <2>1. PICK l : l = call'[d]
    OBVIOUS
  <2>2. ReadStands(l)' <=> ReadStands(l)
    BY <1>2 DEF ReadStands
  <2>3. CASE d = c
    <3>1. l = k
      BY <2>1, <2>3, <1>3
    <3>2. ReadStands(l)'
      BY <3>1, <2>2, <1>1
    <3>3. OnDuty(d)'
      BY <3>1, <2>1, <2>3, <1>2 DEF OnDuty
    <3> QED BY <3>2, <3>3, <2>1
  <2>4. CASE d # c
    <3>1. call'[d] = call[d]
      BY <2>4, <1>3
    <3>2. OnDuty(d) /\ ReadStands(l)
      BY <3>1, <2>1 DEF WorkInv
    <3> QED BY <3>1, <3>2, <2>1, <2>2 DEF OnDuty
  <2> QED BY <2>3, <2>4
<1> QED BY <1>2, <1>4, <1>5 DEF WorkInv

\* A call that worked returns, the day is written.
LEMMA WriteKeepsWork ==
  ASSUME DayInv, WorkInv, OneWorker, NEW c \in Callers, call[c].op \in Working,
         Return(c), UNCHANGED request,
         DayIs(row', Adjusted, punches', odd')
  PROVE  WorkInv'
<1>1. \A d \in Callers : call'[d] = IF d = c THEN Idle ELSE call[d]
  BY DEF DayInv, TypeOK, Return
<1>2. Adjusted' = Adjusted
  <2>1. PICK k : k = Idle
    OBVIOUS
  <2>2. call[c].op # "adjusted" /\ k.op # "adjusted" /\ request' = request
        /\ call' = [call EXCEPT ![c] = k]
    BY <2>1 DEF Return, Idle, Working
  <2> QED BY <2>2, AdjustedKept
<1>3. ~(Duties[c] \subseteq Creators)
  BY DEF WorkInv, OnDuty, Working, Creators
<1>4. ASSUME NEW d \in Callers
      PROVE  (OnDuty(d) /\ ReadStands(call[d]))'
  <2>1. PICK l : l = call'[d] /\ l = IF d = c THEN Idle ELSE call[d]
    BY <1>1
  <2>2. l.op \in Creators \union {"none"}
    BY <2>1, <1>3, OthersCreate DEF WorkInv, Idle
  <2>3. ReadStands(l)'
    BY <2>2, CreatorsStand
  <2>4. OnDuty(d)'
    <3>1. CASE d = c
      BY <3>1, <2>1 DEF OnDuty, Idle
    <3>2. CASE d # c
      BY <3>2, <2>1 DEF OnDuty, WorkInv
    <3> QED BY <3>1, <3>2
  <2> QED BY <2>1, <2>3, <2>4
<1> QED BY <1>2, <1>4 DEF WorkInv

\* What a worker has read of the day is the day, unless there was none.
LEMMA SeenStands ==
  ASSUME WorkInv, NEW c \in Callers, call[c].op \in Working
  PROVE  /\ call[c].seen = row \/ call[c].seen = NoRow
         /\ call[c].seen.status # "NONE" => call[c].seen = row
         /\ Open(Sessions(call[c].seen)) => call[c].seen = row
         /\ call[c].seen.sessions # <<>> => call[c].seen = row
<1>1. call[c].seen \in {row, NoRow}
  BY DEF WorkInv, ReadStands
<1>2. Sessions(NoRow) = <<>> /\ NoRow.sessions = <<>>
  BY DEF Sessions, NoRow
<1> QED BY <1>1, <1>2 DEF NoRow, Open, OpenAt

\* Every read of the day leaves it as it is.
LEMMA ReadsKeepWork ==
  ASSUME DayInv, WorkInv, NEW c \in Callers,
         \/ ReadCheckIn(c) \/ ReadCheckOut(c) \/ ReadLunchOut(c) \/ ReadLunchIn(c)
         \/ ReadAutoCheckout(c) \/ ReadMarkAbsent(c) \/ ReadRemind(c) \/ ReadSync(c)
         \/ ReadRequest(c, "approve") \/ ReadRequest(c, "decline")
  PROVE  WorkInv'
<1>1. ASSUME NEW op \in AllOperations, Read(c, op),
             op = "in" /\ ~policy.multiple => row.checkIn = NoTime,
             op = "autoCheckout" => row.status = "PRESENT" /\ row.checkOut = NoTime,
             op = "remind" => row.checkOut = NoTime,
             op \in Deciding => request.status = "PENDING"
      PROVE  WorkInv'
  <2>1. PICK k : k = [op |-> op, at |-> now, seen |-> row]
    OBVIOUS
  <2>2. ReadStands(k)
    BY <2>1, <1>1 DEF ReadStands
  <2> QED BY <1>1, <2>1, <2>2, ReadKeepsWork
<1>2. CASE ReadCheckIn(c)
  BY <1>1, <1>2 DEF ReadCheckIn, AllOperations, Deciding
<1>3. CASE ReadCheckOut(c)
  BY <1>1, <1>3 DEF ReadCheckOut, AllOperations, Deciding
<1>4. CASE ReadLunchOut(c)
  BY <1>1, <1>4 DEF ReadLunchOut, AllOperations, Deciding
<1>5. CASE ReadLunchIn(c)
  BY <1>1, <1>5 DEF ReadLunchIn, AllOperations, Deciding
<1>6. CASE ReadAutoCheckout(c)
  BY <1>1, <1>6 DEF ReadAutoCheckout, AllOperations, Deciding
<1>7. CASE ReadMarkAbsent(c)
  BY <1>1, <1>7 DEF ReadMarkAbsent, AllOperations, Deciding
<1>8. CASE ReadRemind(c)
  BY <1>1, <1>8 DEF ReadRemind, AllOperations, Deciding
<1>9. CASE ReadSync(c)
  BY <1>1, <1>9 DEF ReadSync, AllOperations, Deciding
<1>10. CASE ReadRequest(c, "approve") \/ ReadRequest(c, "decline")
  BY <1>1, <1>10 DEF ReadRequest, AllOperations, Deciding
<1> QED BY <1>2, <1>3, <1>4, <1>5, <1>6, <1>7, <1>8, <1>9, <1>10

-----------------------------------------------------------------------------
(* One worker: what each write makes of the day *)

\* The day as it is.
LEMMA DayFacts ==
  ASSUME DayInv, WorkInv
  PROVE  /\ row \in Row /\ DayIs(row, Adjusted, punches, odd)
         /\ Explained(row) /\ WithoutCheckIn(row, Adjusted, odd) /\ FoundOpen(row, Adjusted, odd)
         /\ row.status = "NONE" => row = NoRow
         /\ \A p \in punches : p[1] \in {"in", "out"} /\ p[2] \in Times /\ p[2] # NoTime
  BY DEF DayInv, TypeOK, WorkInv, DayIs, Instants, Times, NoTime

\* A stretch begins: after the others, or as the first.
LEMMA BegunDayIs ==
  ASSUME NEW r, NEW adjusted, NEW ps, NEW o, NEW before,
         NEW s, NEW t \in Instants, Begins(s, t, r.sessions),
         r.status = "PRESENT", r.checkIn # NoTime,
         r.checkOut = NoTime \/ "noCheckIn" \in o,
         adjusted => ps = {},
         \A p \in ps : ~adjusted /\ (p \in before \/ (p[1] = "in" /\ p[2] = t)),
         ~adjusted /\ ("list" \notin o \/ "noCheckIn" \notin o) => ShowsAll(s, before)
  PROVE  DayIs(r, adjusted, ps, o)
<1>1. PICK a : a = r.sessions
  OBVIOUS
<1>2. /\ a # <<>> /\ Len(a) \in DOMAIN a /\ Len(a) \in OpenAt(a) /\ a[Len(a)].in = t
      /\ \A i \in DOMAIN s : i \in DOMAIN a /\ a[i] = s[i]
  BY <1>1 DEF Begins
<1>3. Sessions(r) = a /\ Open(a)
  BY <1>1, <1>2 DEF Sessions, Open
<1>4. Explained(r) /\ WithoutCheckIn(r, adjusted, o) /\ FoundOpen(r, adjusted, o)
  BY <1>3 DEF Explained, WithoutCheckIn, FoundOpen
<1>5. ASSUME "list" \notin o \/ "noCheckIn" \notin o, NEW p \in ps
      PROVE  \E i \in DOMAIN a : Shows(a[i], p)
  <2>1. CASE p[1] = "in" /\ p[2] = t
    <3>1. Shows(a[Len(a)], p)
      BY <2>1, <1>2 DEF Shows
    <3> QED BY <3>1, <1>2
  <2>2. CASE p \in before
    <3>1. \E i \in DOMAIN s : Shows(s[i], p)
      BY <2>2, <1>5 DEF ShowsAll
    <3> QED BY <3>1, <1>2
  <2> QED BY <2>1, <2>2, <1>5
<1> QED BY <1>1, <1>4, <1>5 DEF DayIs, ShowsAll

\* A check-in.
LEMMA CheckInKeepsWork ==
  ASSUME DayInv, WorkInv, OneWorker, NEW c \in Callers, WriteCheckIn(c)
  PROVE  WorkInv'
<1>1. /\ call[c].op = "in" /\ call[c].op \in Working /\ Return(c)
      /\ UNCHANGED <<request, odd>>
  BY DEF WriteCheckIn, Working
<1>2. PICK t, seen : t = call[c].at /\ seen = call[c].seen
  OBVIOUS
<1>3. seen.status # "NONE" => seen = row
  BY <1>1, <1>2, SeenStands
<1>4. PICK r, ps : r = row' /\ ps = punches'
  OBVIOUS
<1>5. CASE UNCHANGED <<row, punches>>
  BY <1>1, <1>5, WriteKeepsWork DEF WorkInv
<1>6. ASSUME t \in Instants, r.status = "PRESENT", Confirm({"in"}, t),
             NEW s, Begins(s, t, r.sessions),
             r.checkIn # NoTime, r.checkOut = NoTime \/ "noCheckIn" \in odd,
             ~Adjusted /\ ("list" \notin odd \/ "noCheckIn" \notin odd) => ShowsAll(s, punches)
      PROVE  WorkInv'
  <2>1. /\ Adjusted => ps = {}
        /\ \A p \in ps : ~Adjusted /\ (p \in punches \/ (p[1] = "in" /\ p[2] = t))
    BY <1>4, <1>6, Confirmed
  <2>2. PICK adjusted, o, before : adjusted = Adjusted /\ o = odd /\ before = punches
    OBVIOUS
  <2>3. DayIs(r, adjusted, ps, o)
    BY <1>6, <2>1, <2>2, BegunDayIs
  <2> QED BY <2>2, <2>3, <1>1, <1>4, WriteKeepsWork
<1>7. CASE ~UNCHANGED <<row, punches>>
  <2>1. /\ t \in Instants /\ r.status = "PRESENT" /\ Confirm({"in"}, t)
        /\ \/ /\ row.status = "NONE"
              /\ r.checkIn = t /\ r.checkOut = NoTime /\ Begins(<<>>, t, r.sessions)
           \/ /\ seen.status # "NONE" /\ policy.multiple
              /\ r.checkIn = IF seen.checkIn # NoTime THEN seen.checkIn ELSE t
              /\ r.checkOut = NoTime /\ Begins(Sessions(seen), t, r.sessions)
           \/ /\ seen.status # "NONE" /\ ~policy.multiple
              /\ r.checkIn = t /\ r.checkOut = row.checkOut /\ Begins(<<>>, t, r.sessions)
    BY <1>2, <1>4, <1>7, CheckInWrites
  <2>2. t # NoTime
    BY <2>1 DEF Instants, NoTime
  <2>3. "list" \notin odd \/ "noCheckIn" \notin odd => ShowsAll(row.sessions, punches)
    BY DEF WorkInv, DayIs
  <2>4. CASE row.status = "NONE" /\ r.checkIn = t /\ r.checkOut = NoTime
             /\ Begins(<<>>, t, r.sessions)
    <3>1. row.sessions = <<>>
      BY <2>4, DayFacts DEF NoRow
    <3> QED BY <2>1, <2>2, <2>3, <2>4, <3>1, <1>6
  <2>5. CASE seen.status # "NONE" /\ policy.multiple /\ r.checkOut = NoTime
             /\ r.checkIn = (IF seen.checkIn # NoTime THEN seen.checkIn ELSE t)
             /\ Begins(Sessions(seen), t, r.sessions)
    <3>1. r.checkIn # NoTime
      BY <2>2, <2>5
    <3>2. PICK s : s = Sessions(row)
      OBVIOUS
    <3>3. Begins(s, t, r.sessions)
      BY <2>5, <3>2, <1>3
    <3>4. row.sessions # <<>> => s = row.sessions
      BY <3>2 DEF Sessions
    <3>5. ShowsAll(row.sessions, punches) => ShowsAll(s, punches)
      BY <3>4 DEF ShowsAll
    <3> QED BY <2>1, <2>3, <2>5, <3>1, <3>3, <3>5, <1>6
  <2>6. CASE seen.status # "NONE" /\ ~policy.multiple /\ r.checkIn = t
             /\ r.checkOut = row.checkOut /\ Begins(<<>>, t, r.sessions)
    <3>1. row.checkIn = NoTime
      BY <2>6, <1>1, <1>2, <1>3 DEF WorkInv, ReadStands
    <3>2. /\ "noCheckIn" \notin odd => row.sessions = <<>> /\ row.checkOut = NoTime
          /\ "list" \notin odd /\ ~Adjusted => row.sessions = <<>>
      BY <3>1, DayFacts DEF WithoutCheckIn
    <3> QED BY <2>1, <2>2, <2>3, <2>6, <3>2, <1>6
  <2> QED BY <2>1, <2>4, <2>5, <2>6
<1> QED BY <1>5, <1>7

\* One stretch under way ends, and all are clamped.
LEMMA ClosedDayIs ==
  ASSUME DayInv, WorkInv, NEW n, NEW out \in Instants, NEW r,
         Closes(Sessions(row), n, out, r.sessions),
         r.status = row.status, r.checkOut = out,
         r.checkIn # NoTime => r.hours = Hours(r.sessions, r.checkIn),
         r.checkIn = NoTime =>
           row.checkIn = NoTime /\ row.status = "PRESENT" /\ row.checkOut = NoTime,
         NEW ps, Adjusted => ps = {},
         \A p \in ps : p \in punches \/ (p[1] = "out" /\ p[2] = out)
  PROVE  DayIs(r, Adjusted, ps, odd)
<1>1. PICK was, k : was = Sessions(row) /\ k = r.sessions
  OBVIOUS
<1>2. /\ k \in Seq(Session) /\ k # <<>> /\ DOMAIN k = DOMAIN was
      /\ n \in OpenAt(was) /\ OpenAt(k) = OpenAt(was) \ {n} /\ n \in DOMAIN was
      /\ \A i \in DOMAIN was :
           /\ k[i].in = was[i].in
           /\ k[i].out = IF i = n THEN out ELSE Clamped(was[i].out, was[i].in)
  BY <1>1 DEF Closes, OpenAt
<1>3. /\ was \in Seq(Session) /\ Open(was) /\ row # NoRow
      /\ \/ was = row.sessions /\ row.sessions # <<>>
         \/ row.sessions = <<>> /\ row.checkIn # NoTime
  <2>1. Open(was) /\ row \in Row
    BY <1>2, DayFacts DEF Open
  <2>2. was \in Seq(Session)
    BY <2>1, <1>1, SessionsOfRow
  <2> QED BY <2>1, <2>2, <1>1, SessionsUnderWay
<1>4. r.status # "NONE"
  BY <1>3, DayFacts
<1>5. Sessions(r) = k
  BY <1>1, <1>2 DEF Sessions
<1>6. Explained(r)
  BY <1>1, <1>5 DEF Explained
<1>7. WithoutCheckIn(r, Adjusted, odd)
  <2> SUFFICES ASSUME r.checkIn = NoTime PROVE "noCheckIn" \in odd /\ "list" \in odd
    BY DEF WithoutCheckIn
  <2>1. /\ row.checkIn = NoTime /\ row.status = "PRESENT" /\ row.checkOut = NoTime
        /\ row.sessions # <<>>
    BY <1>3
  <2> QED BY <2>1, DayFacts DEF WithoutCheckIn
<1>8. FoundOpen(r, Adjusted, odd)
  <2> SUFFICES ASSUME "list" \notin odd PROVE ~Open(r.sessions)
    BY DEF FoundOpen
  <2>1. OneOpen(was)
    BY <1>1, DayFacts, OneOfRow DEF DayInv
  <2> QED BY <2>1, <1>1, <1>2 DEF OneOpen, Open
<1>9. ASSUME "list" \notin odd \/ "noCheckIn" \notin odd, NEW p \in ps
      PROVE  \E i \in DOMAIN k : Shows(k[i], p)
  <2>1. CASE p[1] = "out" /\ p[2] = out
    <3>1. Shows(k[n], p)
      BY <2>1, <1>2 DEF Shows
    <3> QED BY <3>1, <1>2
  <2>2. CASE p \in punches
    <3>1. PICK i \in DOMAIN row.sessions : Shows(row.sessions[i], p)
      BY <2>2, <1>9, DayFacts DEF DayIs, ShowsAll
    <3>2. was = row.sessions
      BY <3>1, <1>3
    <3>3. /\ i \in DOMAIN was /\ Shows(was[i], p) /\ was[i].in \in Times /\ was[i].out \in Times
          /\ p[1] \in {"in", "out"} /\ p[2] \in Times /\ p[2] # NoTime
      BY <3>1, <3>2, <2>2, <1>3, ElementFields, DayFacts DEF Times
    <3>4. CASE p[1] = "in"
      BY <3>3, <3>4, <1>2 DEF Shows
    <3>5. CASE p[1] = "out"
      <4>1. was[i].out = Clamped(p[2], was[i].in) \/ was[i].out = p[2]
        BY <3>3, <3>5 DEF Shows
      <4>2. was[i].out # NoTime /\ Clamped(was[i].out, was[i].in) = Clamped(p[2], was[i].in)
        BY <4>1, <3>3, ClampedTyped
      <4>3. i # n
        BY <4>2, <1>2 DEF OpenAt
      <4>4. Shows(k[i], p)
        BY <4>2, <4>3, <3>3, <3>5, <1>2 DEF Shows
      <4> QED BY <4>4, <3>3, <1>2
    <3> QED BY <3>3, <3>4, <3>5
  <2> QED BY <2>1, <2>2, <1>9
<1> QED BY <1>1, <1>4, <1>6, <1>7, <1>8, <1>9 DEF DayIs, ShowsAll

\* A check-out.
LEMMA CheckOutKeepsWork ==
  ASSUME DayInv, WorkInv, OneWorker, NEW c \in Callers, WriteCheckOut(c)
  PROVE  WorkInv'
<1>1. /\ call[c].op = "out" /\ call[c].op \in Working /\ Return(c)
      /\ UNCHANGED <<request, odd>>
  BY DEF WriteCheckOut, Working
<1>2. PICK r, ps, out : r = row' /\ ps = punches' /\ out = row'.checkOut
  OBVIOUS
<1>3. PICK n \in OpenAt(Sessions(call[c].seen)) :
        /\ out \in Instants /\ Closes(Sessions(call[c].seen), n, out, r.sessions)
        /\ r.status = row.status /\ r.checkOut = out /\ r.checkIn \in Instants
        /\ r.hours = Hours(r.sessions, r.checkIn) /\ Confirm({"out"}, out)
  BY <1>2, CheckOutWrites
<1>4. call[c].seen = row
  BY <1>1, <1>3, SeenStands DEF Open
<1>5. /\ Adjusted => ps = {}
      /\ \A p \in ps : p \in punches \/ (p[1] = "out" /\ p[2] = out)
  BY <1>2, <1>3, Confirmed
<1>6. r.checkIn # NoTime
  BY <1>3 DEF Instants, NoTime
<1>7. DayIs(r, Adjusted, ps, odd)
  BY <1>3, <1>4, <1>5, <1>6, ClosedDayIs
<1> QED BY <1>1, <1>2, <1>7, WriteKeepsWork

\* One stretch ends and the next begins.
LEMMA SwitchedDayIs ==
  ASSUME DayInv, WorkInv, NEW n, NEW t \in Instants, NEW r,
         Switches(Sessions(row), n, t, r.sessions),
         r.status = row.status, r.checkIn = row.checkIn, r.checkOut = row.checkOut,
         r.hours = row.hours,
         NEW ps, Adjusted => ps = {},
         \A p \in ps : p \in punches \/ (p[1] \in {"in", "out"} /\ p[2] = t)
  PROVE  DayIs(r, Adjusted, ps, odd)
<1>1. PICK was, a : was = Sessions(row) /\ a = r.sessions
  OBVIOUS
<1>2. /\ a # <<>> /\ n \in OpenAt(was) /\ n \in DOMAIN was
      /\ Len(a) \in DOMAIN a /\ Len(a) \in OpenAt(a)
      /\ a[Len(a)].in = t /\ a[n].in = was[n].in /\ a[n].out = t
      /\ \A i \in DOMAIN was : i \in DOMAIN a /\ (i # n => a[i] = was[i])
  BY <1>1 DEF Switches, OpenAt
<1>3. /\ was \in Seq(Session) /\ Open(was) /\ row # NoRow
      /\ \/ was = row.sessions /\ row.sessions # <<>>
         \/ row.sessions = <<>> /\ row.checkIn # NoTime /\ row.checkOut = NoTime
  <2>1. Open(was) /\ row \in Row
    BY <1>2, DayFacts DEF Open
  <2>2. was \in Seq(Session)
    BY <2>1, <1>1, SessionsOfRow
  <2> QED BY <2>1, <2>2, <1>1, SessionsUnderWay
<1>4. r.status # "NONE"
  BY <1>3, DayFacts
<1>5. Open(Sessions(r))
  BY <1>1, <1>2 DEF Sessions, Open
<1>6. Explained(r)
  BY <1>5 DEF Explained
<1>7. WithoutCheckIn(r, Adjusted, odd)
  BY <1>3, DayFacts DEF WithoutCheckIn
<1>8. FoundOpen(r, Adjusted, odd)
  BY <1>3, DayFacts DEF FoundOpen
<1>9. ASSUME "list" \notin odd \/ "noCheckIn" \notin odd, NEW p \in ps
      PROVE  \E i \in DOMAIN a : Shows(a[i], p)
  <2>1. CASE p[1] = "in" /\ p[2] = t
    <3>1. Shows(a[Len(a)], p)
      BY <2>1, <1>2 DEF Shows
    <3> QED BY <3>1, <1>2
  <2>2. CASE p[1] = "out" /\ p[2] = t
    <3>1. Shows(a[n], p)
      BY <2>2, <1>2 DEF Shows
    <3> QED BY <3>1, <1>2
  <2>3. CASE p \in punches
    <3>1. PICK i \in DOMAIN row.sessions : Shows(row.sessions[i], p)
      BY <2>3, <1>9, DayFacts DEF DayIs, ShowsAll
    <3>2. was = row.sessions
      BY <3>1, <1>3
    <3>3. /\ i \in DOMAIN was /\ Shows(was[i], p) /\ was[i].in \in Times
          /\ p[1] \in {"in", "out"} /\ p[2] \in Times /\ p[2] # NoTime
      BY <3>1, <3>2, <2>3, <1>3, ElementFields, DayFacts DEF Times
    <3>4. CASE p[1] = "in"
      BY <3>3, <3>4, <1>2 DEF Shows
    <3>5. CASE p[1] = "out"
      <4>1. was[i].out # NoTime
        BY <3>3, <3>5, ClampedTyped DEF Shows
      <4>2. i # n
        BY <4>1, <1>2 DEF OpenAt
      <4> QED BY <4>2, <3>3, <1>2
    <3> QED BY <3>3, <3>4, <3>5
  <2> QED BY <2>1, <2>2, <2>3, <1>9
<1> QED BY <1>1, <1>4, <1>6, <1>7, <1>8, <1>9 DEF DayIs, ShowsAll

\* The beginning and the end of lunch.
LEMMA LunchKeepsWork ==
  ASSUME DayInv, WorkInv, OneWorker, NEW c \in Callers, WriteLunchOut(c) \/ WriteLunchIn(c)
  PROVE  WorkInv'
<1>1. call[c].op \in Working /\ Return(c) /\ UNCHANGED <<request, odd>>
  BY DEF WriteLunchOut, WriteLunchIn, Working
<1>2. PICK r, ps, s, t : r = row' /\ ps = punches' /\ s = row'.sessions /\ t = call[c].at
  OBVIOUS
<1>3. /\ t \in Instants /\ Open(Sessions(call[c].seen))
      /\ \E n \in OpenAt(Sessions(call[c].seen)) : Switches(Sessions(call[c].seen), n, t, s)
      /\ r = [row EXCEPT !.sessions = s] /\ Confirm({"in", "out"}, t)
  BY <1>2, LunchWrites
<1>4. call[c].seen = row
  BY <1>1, <1>3, SeenStands
<1>5. PICK n : Switches(Sessions(row), n, t, s)
  BY <1>3, <1>4
<1>6. /\ r.status = row.status /\ r.checkIn = row.checkIn /\ r.checkOut = row.checkOut
      /\ r.hours = row.hours /\ r.sessions = s
  BY <1>3, DayFacts DEF Row
<1>7. /\ Adjusted => ps = {}
      /\ \A p \in ps : p \in punches \/ (p[1] \in {"in", "out"} /\ p[2] = t)
  BY <1>2, <1>3, Confirmed
<1>8. DayIs(r, Adjusted, ps, odd)
  BY <1>3, <1>5, <1>6, <1>7, SwitchedDayIs
<1> QED BY <1>1, <1>2, <1>8, WriteKeepsWork

\* Where there are no sessions, none counts.
LEMMA NothingCounts ==
  ASSUME NEW first
  PROVE  Hours(ClampAll(Closed(<<>>)), first) <= 0
<1>1. PICK s \in Seq(Session) : s = <<>> /\ Len(s) = 0
  <2>1. <<>> \in Seq(Session) /\ Len(<<>>) = 0
    OBVIOUS
  <2> QED BY <2>1
<1>2. Closed(s) = <<>>
  <2>1. PICK f : Kept(s, f) /\ Closed(s) = f[0]
    BY <1>1, ClosedIsKept
  <2> QED BY <2>1, <1>1 DEF Kept
<1>3. ClampAll(s) = <<>>
  <2>1. ClampAll(s) \in Seq(Session) /\ Len(ClampAll(s)) = 0
    BY <1>1, ClampingAll
  <2> QED BY <2>1
<1>4. Total(s) = 0
  <2>1. PICK f : Sums(s, f) /\ Total(s) = f[0]
    BY <1>1, TotalIsSum
  <2> QED BY <2>1, <1>1 DEF Sums
<1>5. Hours(s, first) \in Int /\ (Hours(s, first) > 0 => Hours(s, first) <= Total(s))
  BY <1>1, HoursWithinTotal
<1> QED BY <1>1, <1>2, <1>3, <1>4, <1>5

\* The day is flagged, not closed.
LEMMA FlaggedDayIs ==
  ASSUME DayInv, WorkInv, row.status = "PRESENT", row.checkOut = NoTime,
         NEW r, r.status = "MISSED_CHECKOUT",
         r.checkIn = row.checkIn, r.checkOut = row.checkOut, r.sessions = row.sessions,
         NEW first, r.hours = Hours(ClampAll(Closed(Sessions(row))), first)
  PROVE  DayIs(r, Adjusted, punches, odd)
<1>1. Explained(r) /\ FoundOpen(r, Adjusted, odd)
  BY DEF Explained, FoundOpen
<1>2. WithoutCheckIn(r, Adjusted, odd)
  <2> SUFFICES ASSUME row.checkIn = NoTime PROVE WithoutCheckIn(r, Adjusted, odd)
    BY DEF WithoutCheckIn
  <2>1. "list" \notin odd => row.sessions = <<>>
    BY DayFacts DEF WithoutCheckIn
  <2>2. "list" \notin odd => r.hours <= 0
    BY <2>1, NothingCounts DEF Sessions
  <2> QED BY <2>1, <2>2, DayFacts DEF WithoutCheckIn
<1> QED BY <1>1, <1>2, DayFacts DEF DayIs

\* The job at the day's end.
LEMMA AutoCheckoutKeepsWork ==
  ASSUME DayInv, WorkInv, OneWorker, NEW c \in Callers, WriteAutoCheckout(c)
  PROVE  WorkInv'
<1>1. /\ call[c].op = "autoCheckout" /\ call[c].op \in Working /\ Return(c)
      /\ UNCHANGED <<request, odd, punches>>
  BY DEF WriteAutoCheckout, Working
<1>2. call[c].seen = row /\ row.status = "PRESENT" /\ row.checkOut = NoTime
  <2>1. call[c].seen.status = "PRESENT" /\ call[c].seen.checkOut = NoTime
    BY <1>1 DEF WorkInv, ReadStands
  <2> QED BY <2>1, <1>1, SeenStands
<1>3. PICK r, first, out : r = row' /\ first = First(row, Sessions(row)) /\ out = row'.checkOut
  OBVIOUS
<1>4. \/ r = row
      \/ /\ r.status = "MISSED_CHECKOUT"
         /\ r.hours = Hours(ClampAll(Closed(Sessions(row))), first)
         /\ r.checkIn = row.checkIn /\ r.checkOut = row.checkOut /\ r.sessions = row.sessions
      \/ \E n \in OpenAt(Sessions(row)) :
           /\ out \in Instants /\ Closes(Sessions(row), n, out, r.sessions)
           /\ r.status = row.status /\ r.checkIn = row.checkIn /\ r.checkOut = out
           /\ r.hours = Hours(r.sessions, first)
  BY <1>2, <1>3, AutoCheckoutWrites
<1>5. CASE r = row
  BY <1>1, <1>3, <1>5, DayFacts, WriteKeepsWork
<1>6. CASE /\ r.status = "MISSED_CHECKOUT"
           /\ r.hours = Hours(ClampAll(Closed(Sessions(row))), first)
           /\ r.checkIn = row.checkIn /\ r.checkOut = row.checkOut /\ r.sessions = row.sessions
  <2>1. DayIs(r, Adjusted, punches, odd)
    BY <1>2, <1>6, FlaggedDayIs
  <2> QED BY <2>1, <1>1, <1>3, WriteKeepsWork
<1>7. ASSUME NEW n \in OpenAt(Sessions(row)),
             out \in Instants, Closes(Sessions(row), n, out, r.sessions),
             r.status = row.status, r.checkIn = row.checkIn, r.checkOut = out,
             r.hours = Hours(r.sessions, first)
      PROVE  WorkInv'
  <2>1. r.checkIn # NoTime => first = r.checkIn
    BY <1>3, <1>7 DEF First
  <2>2. PICK ps : ps = punches
    OBVIOUS
  <2>3. Adjusted => ps = {}
    BY <2>2, DayFacts DEF DayIs
  <2>4. DayIs(r, Adjusted, ps, odd)
    BY <2>1, <2>2, <2>3, <1>2, <1>7, ClosedDayIs
  <2> QED BY <2>2, <2>4, <1>1, <1>3, WriteKeepsWork
<1> QED BY <1>4, <1>5, <1>6, <1>7

\* The reminder.
LEMMA RemindKeepsWork ==
  ASSUME DayInv, WorkInv, OneWorker, NEW c \in Callers, WriteRemind(c)
  PROVE  WorkInv'
<1>1. /\ call[c].op \in Working /\ Return(c) /\ UNCHANGED <<request, odd, punches>>
  BY DEF WriteRemind, Working
<1>2. PICK r, e, s : r = row' /\ e = row'.sessions /\ s = call[c].seen.sessions
  OBVIOUS
<1>3. /\ r = [row EXCEPT !.sessions = e] /\ DOMAIN e = DOMAIN s /\ s # <<>> /\ e # <<>>
      /\ OpenAt(e) = OpenAt(s) /\ Open(s)
      /\ \A i \in DOMAIN s : e[i].in = s[i].in /\ e[i].out = s[i].out
  BY <1>2, RemindWrites
<1>4. s = row.sessions
  BY <1>1, <1>2, <1>3, SeenStands
<1>5. /\ r.status = row.status /\ r.checkIn = row.checkIn /\ r.checkOut = row.checkOut
      /\ r.hours = row.hours /\ r.sessions = e
  BY <1>3, DayFacts DEF Row
<1>6. Open(e) /\ Sessions(r) = e
  BY <1>3, <1>5 DEF Open, Sessions
<1>7. row.status # "NONE"
  BY <1>3, <1>4, DayFacts DEF NoRow
<1>8. Explained(r) /\ WithoutCheckIn(r, Adjusted, odd) /\ FoundOpen(r, Adjusted, odd)
  BY <1>3, <1>4, <1>5, <1>6, DayFacts DEF Explained, WithoutCheckIn, FoundOpen
<1>9. ShowsAll(row.sessions, punches) => ShowsAll(e, punches)
  BY <1>3, <1>4 DEF ShowsAll, Shows
<1>10. DayIs(r, Adjusted, punches, odd)
  BY <1>5, <1>7, <1>8, <1>9, DayFacts DEF DayIs
<1> QED BY <1>1, <1>2, <1>10, WriteKeepsWork

\* A row without punches is created where there was none.
LEMMA CreatedDayIs ==
  ASSUME DayInv, WorkInv, row.status = "NONE", NEW r, r.status \in {"ABSENT", "LEAVE"},
         r.checkIn = NoTime, r.checkOut = NoTime, r.sessions = <<>>, r.hours \in {NoHours, 0}
  PROVE  DayIs(r, Adjusted, punches, odd)
<1>1. row.sessions = <<>>
  BY DayFacts DEF NoRow
<1>2. Explained(r) /\ WithoutCheckIn(r, Adjusted, odd) /\ FoundOpen(r, Adjusted, odd)
  BY DEF Explained, WithoutCheckIn, FoundOpen, NoHours
<1> QED BY <1>1, <1>2, DayFacts DEF DayIs

\* The job that creates rows of absence, and a leave request that is granted.
LEMMA CreatedKeepsWork ==
  ASSUME DayInv, WorkInv, NEW c \in Callers, WriteMarkAbsent(c) \/ GrantLeave(c)
  PROVE  WorkInv'
<1>1. PICK k : k = Idle
  OBVIOUS
<1>2. /\ \/ call' = [call EXCEPT ![c] = k] /\ call[c].op = "markAbsent"
         \/ call' = call
      /\ UNCHANGED <<policy, request, punches, odd>>
  BY <1>1 DEF WriteMarkAbsent, GrantLeave, Return
<1>3. Adjusted' = Adjusted
  <2>1. CASE call' = call
    BY <2>1, <1>2 DEF Adjusted, Corrected
  <2>2. CASE call' # call
    <3>1. /\ call' = [call EXCEPT ![c] = k] /\ call[c].op # "adjusted" /\ k.op # "adjusted"
          /\ request' = request
      BY <2>2, <1>1, <1>2 DEF Idle
    <3> QED BY <3>1, AdjustedKept
  <2> QED BY <2>1, <2>2
<1>4. PICK r : r = row'
  OBVIOUS
<1>5. /\ DayIs(r, Adjusted, punches, odd)
      /\ \A l : ReadStands(l) /\ l.op \in Working => l.seen \in {r, NoRow}
  <2>1. CASE r = row
    BY <2>1, DayFacts DEF ReadStands
  <2>2. CASE r # row
    <3>1. /\ row.status = "NONE" /\ r.status \in {"ABSENT", "LEAVE"}
          /\ r.checkIn = NoTime /\ r.checkOut = NoTime /\ r.sessions = <<>>
          /\ r.hours \in {NoHours, 0}
      BY <2>2, <1>4, CreatedWrites
    <3>2. row = NoRow
      BY <3>1, DayFacts
    <3> QED BY <3>1, <3>2, CreatedDayIs DEF ReadStands
  <2> QED BY <2>1, <2>2
<1>6. ASSUME NEW d \in Callers
      PROVE  (OnDuty(d) /\ ReadStands(call[d]))'
  <2>1. PICK l : l = call'[d]
    OBVIOUS
  <2>2. CASE l = Idle
    BY <2>1, <2>2, CreatorsStand DEF Idle, OnDuty
  <2>3. CASE l = call[d]
    <3>1. OnDuty(d)' /\ ReadStands(l)
      BY <2>1, <2>3 DEF OnDuty, WorkInv
    <3>2. ReadStands(l)'
      BY <3>1, <1>2, <1>4, <1>5 DEF ReadStands
    <3> QED BY <2>1, <3>1, <3>2
  <2>4. l = Idle \/ l = call[d]
    BY <2>1, <1>1, <1>2 DEF DayInv, TypeOK
  <2> QED BY <2>2, <2>3, <2>4
<1> QED BY <1>2, <1>3, <1>4, <1>5, <1>6 DEF WorkInv

\* What was reported is the day.
LEMMA ReportedDayIs ==
  ASSUME NEW d \in Report, NEW r, Reported(d, r), NEW adjusted, NEW o,
         r.checkIn = NoTime /\ "noCheckIn" \notin o =>
           r.checkOut = NoTime /\ r.status # "PRESENT" /\ r.sessions = <<>>,
         "list" \notin o => d.list = <<>>
  PROVE  DayIs(r, adjusted, {}, o)
<1>1. r.status # "NONE" /\ Explained(r)
  BY DEF Reported, Report
<1>2. WithoutCheckIn(r, adjusted, o)
  <2> SUFFICES ASSUME r.checkIn = NoTime, "list" \notin o
               PROVE  r.sessions = <<>> /\ r.hours <= 0
    BY DEF WithoutCheckIn
  <2>1. r.sessions = <<>> /\ r.hours = ColumnsHours(NoTime, r.checkOut)
    BY DEF Reported
  <2> QED BY <2>1 DEF ColumnsHours, NoHours
<1>3. FoundOpen(r, adjusted, o)
  <2> SUFFICES ASSUME Open(r.sessions), d.list = <<>> PROVE r.checkOut = NoTime
    BY DEF FoundOpen
  <2>1. r.checkIn # NoTime /\ r.checkIn \in Times /\ r.checkOut \in Times
    BY DEF Reported, Open, OpenAt, Row
  <2>2. r.checkIn \in Instants
    BY <2>1, AttendanceAssumption DEF Times, Instants, NoTime
  <2>3. PICK x : x = Work(r.checkIn, r.checkOut) /\ x.out = r.checkOut
    BY <2>1, <2>2, StretchIsSession DEF Work
  <2>4. r.sessions = <<x>> /\ DOMAIN <<x>> = {1} /\ <<x>>[1] = x
    BY <2>1, <2>3 DEF Reported
  <2> QED BY <2>3, <2>4 DEF Open, OpenAt
<1> QED BY <1>1, <1>2, <1>3 DEF DayIs, ShowsAll

\* What HR enters, and what the device reports.
LEMMA ReplaceKeepsWork ==
  ASSUME DayInv, WorkInv, OneWorker, NEW c \in Callers, EnterManually(c) \/ WriteSync(c)
  PROVE  WorkInv'
<1>1. DayIs(row', Adjusted, punches', odd')
  <2>1. CASE UNCHANGED <<row, punches, odd>>
    BY <2>1, DayFacts
  <2>2. CASE ~UNCHANGED <<row, punches, odd>>
    <3>1. PICK r, o : r = row' /\ o = odd'
      OBVIOUS
    <3>2. PICK d \in Report :
            /\ Reported(d, r) /\ punches' = {}
            /\ o = odd \union Oddities(r) \union (IF d.list # <<>> THEN {"list"} ELSE {})
      BY <2>2, <3>1, ReplaceWrites
    <3>3. r.checkIn = NoTime /\ "noCheckIn" \notin o =>
            r.checkOut = NoTime /\ r.status # "PRESENT" /\ r.sessions = <<>>
      BY <3>2 DEF Oddities
    <3>4. DayIs(r, Adjusted, {}, o)
      BY <3>2, <3>3, ReportedDayIs
    <3> QED BY <3>1, <3>2, <3>4
  <2> QED BY <2>1, <2>2
<1>2. CASE EnterManually(c)
  <2>1. UNCHANGED <<policy, call, request>> /\ call[c] = Idle /\ "manual" \in Duties[c]
    BY <1>2 DEF EnterManually, Free
  <2>2. Adjusted' = Adjusted
    BY <2>1 DEF Adjusted, Corrected
  <2>3. ~(Duties[c] \subseteq Creators)
    BY <2>1 DEF Creators
  <2>4. ASSUME NEW d \in Callers
        PROVE  (OnDuty(d) /\ ReadStands(call[d]))'
    <3>1. PICK l : l = call[d] /\ l = call'[d]
      BY <2>1
    <3>2. l.op \in Creators \union {"none"}
      BY <3>1, <2>1, <2>3, OthersCreate DEF WorkInv, Idle
    <3>3. ReadStands(l)'
      BY <3>2, CreatorsStand
    <3> QED BY <3>1, <3>3, <2>1 DEF OnDuty, WorkInv
  <2> QED BY <1>1, <2>1, <2>2, <2>4 DEF WorkInv
<1>3. CASE WriteSync(c)
  <2>1. call[c].op \in Working /\ Return(c) /\ UNCHANGED request
    BY <1>3 DEF WriteSync, Working
  <2> QED BY <1>1, <2>1, WriteKeepsWork
<1> QED BY <1>2, <1>3

\* A correction asks for one of the two times.
LEMMA SomethingWanted ==
  ASSUME request \in Request, request.requested # <<NoTime, NoTime>>
  PROVE  Wanted(request, 1) # NoTime \/ WantedOut(request) # NoTime
<1>1. request.requested[1] # NoTime \/ request.requested[2] # NoTime
  <2>1. request.requested \in Times \X Times
    BY DEF Request
  <2> QED BY <2>1
<1>2. Wanted(request, 1) # NoTime \/ Wanted(request, 2) # NoTime
  BY <1>1 DEF Wanted
<1> QED BY <1>2 DEF WantedOut, NextMorning

\* An approved correction writes the columns, and no punch is kept after it.
LEMMA AdjustKeepsWork ==
  ASSUME DayInv, WorkInv, OneWorker, NEW c \in Callers, Adjust(c)
  PROVE  WorkInv'
<1>1. /\ call[c].op = "approve" /\ request.status = "PENDING" /\ "approve" \in Duties[c]
      /\ request.requested # <<NoTime, NoTime>> /\ request \in Request
      /\ UNCHANGED <<policy, request>>
  BY DEF Adjust, WorkInv, OnDuty, ReadStands, Deciding, DayInv, TypeOK
<1>2. PICK r, o : r = row' /\ o = odd'
  OBVIOUS
<1>3. /\ r.status = "PRESENT"
      /\ r.checkIn # NoTime \/ r.checkOut # NoTime
      /\ r.hours = ColumnsHours(r.checkIn, r.checkOut)
      /\ o = odd \union Oddities(r) /\ punches' = {}
  BY <1>1, <1>2, AdjustWrites, SomethingWanted
<1>4. DayIs(r, TRUE, {}, o)
  <2>1. Explained(r) /\ FoundOpen(r, TRUE, o)
    BY <1>3 DEF Explained, FoundOpen
  <2>2. WithoutCheckIn(r, TRUE, o)
    <3> SUFFICES ASSUME r.checkIn = NoTime PROVE WithoutCheckIn(r, TRUE, o)
      BY DEF WithoutCheckIn
    <3>1. "noCheckIn" \in o
      BY <1>3 DEF Oddities
    <3>2. r.hours <= 0
      BY <1>3 DEF ColumnsHours, NoHours
    <3> QED BY <3>1, <3>2, <1>3 DEF WithoutCheckIn
  <2> QED BY <2>1, <2>2, <1>3 DEF DayIs, ShowsAll
<1>5. PICK j : j = [call[c] EXCEPT !.op = "adjusted"]
  OBVIOUS
<1>6. call' = [call EXCEPT ![c] = j] /\ j.op = "adjusted"
  BY <1>5 DEF Adjust, DayInv, TypeOK
<1>7. \A d \in Callers : call'[d] = IF d = c THEN j ELSE call[d]
  BY <1>6 DEF DayInv, TypeOK
<1>8. Adjusted' = TRUE
  BY <1>6, <1>7 DEF Adjusted
<1>9. ASSUME NEW d \in Callers
      PROVE  (OnDuty(d) /\ ReadStands(call[d]))'
  <2>1. PICK l : l = call'[d]
    OBVIOUS
  <2>2. CASE d = c
    <3>1. l = j /\ OnDuty(d)'
      BY <2>1, <2>2, <1>1, <1>6, <1>7 DEF OnDuty
    <3>2. ReadStands(l)'
      BY <3>1, <1>1, <1>6 DEF ReadStands, Working
    <3> QED BY <2>1, <3>1, <3>2
  <2>3. CASE d # c
    <3>1. l = call[d] /\ OnDuty(d) /\ OnDuty(d)'
      BY <2>1, <2>3, <1>7 DEF OnDuty, WorkInv
    <3>2. ~(Duties[c] \subseteq Creators)
      BY <1>1 DEF Creators
    <3>3. l.op \in Creators \union {"none"}
      BY <2>3, <3>1, <3>2, OthersCreate
    <3> QED BY <2>1, <3>1, <3>3, CreatorsStand
  <2> QED BY <2>2, <2>3
<1> QED BY <1>1, <1>2, <1>3, <1>4, <1>8, <1>9 DEF WorkInv

\* A request that is settled leaves the day as it is.
LEMMA SettleKeepsWork ==
  ASSUME DayInv, WorkInv, OneWorker, NEW c \in Callers,
         Settle(c, "adjusted", 1) \/ Settle(c, "decline", 0)
  PROVE  WorkInv'
<1>1. /\ call[c].op \in {"adjusted", "decline"} /\ request.approved \in Nat
      /\ UNCHANGED <<policy, now, row, punches, odd>> /\ Return(c)
      /\ request'.status = "NONE"
  BY DEF Settle, NoRequest, DayInv, TypeOK, Request
<1>2. \A d \in Callers : call'[d] = IF d = c THEN Idle ELSE call[d]
  BY <1>1 DEF Return, DayInv, TypeOK
<1>3. ~(Duties[c] \subseteq Creators)
  BY <1>1 DEF WorkInv, OnDuty, Creators
<1>4. ASSUME NEW d \in Callers
      PROVE  /\ (OnDuty(d) /\ ReadStands(call[d]))'
             /\ d # c => call[d].op # "adjusted"
             /\ call'[d].op # "adjusted"
  <2>1. PICK l : l = call'[d] /\ l = IF d = c THEN Idle ELSE call[d]
    BY <1>2
  <2>2. l.op \in Creators \union {"none"}
    BY <2>1, <1>3, OthersCreate DEF WorkInv, Idle
  <2>3. OnDuty(d)'
    BY <2>1, <2>2 DEF OnDuty, WorkInv, Idle
  <2> QED BY <2>1, <2>2, <2>3, CreatorsStand DEF Creators
<1>5. Adjusted' = Adjusted
  <2>1. CASE Settle(c, "adjusted", 1)
    <3>1. request'.approved = request.approved + 1
      BY <2>1 DEF Settle, NoRequest
    <3>2. Adjusted' /\ Adjusted
      BY <3>1, <2>1, <1>1 DEF Settle, Adjusted, Corrected
    <3> QED BY <3>2 DEF Adjusted
  <2>2. CASE Settle(c, "decline", 0)
    <3>1. request'.approved = request.approved /\ call[c].op = "decline"
      BY <2>2, <1>1 DEF Settle, NoRequest
    <3>2. \A d \in Callers : call[d].op # "adjusted" /\ call'[d].op # "adjusted"
      BY <3>1, <1>4
    <3> QED BY <3>1, <3>2 DEF Adjusted, Corrected
  <2> QED BY <2>1, <2>2
<1> QED BY <1>1, <1>4, <1>5 DEF WorkInv

\* A request that is filed asks for something.
LEMMA FileKeepsWork == ASSUME DayInv, WorkInv, File PROVE WorkInv'
<1>1. PICK q \in Requests :
        request' = [status |-> "PENDING", requested |-> q,
                    original |-> <<row.checkIn, row.checkOut>>, approved |-> request.approved]
  BY DEF File
<1>2. /\ request'.status = "PENDING" /\ request'.requested # <<NoTime, NoTime>>
      /\ request'.approved = request.approved
  BY <1>1, AttendanceAssumption DEF NoTime
<1>3. UNCHANGED <<policy, now, row, call, punches, odd>>
  BY DEF File
<1>4. Adjusted' = Adjusted
  BY <1>2, <1>3 DEF Adjusted, Corrected
<1>5. ASSUME NEW d \in Callers
      PROVE  (OnDuty(d) /\ ReadStands(call[d]))'
  <2>1. PICK l : l = call[d] /\ l = call'[d]
    BY <1>3
  <2>2. OnDuty(d)' /\ ReadStands(l)
    BY <2>1, <1>3 DEF OnDuty, WorkInv
  <2>3. ReadStands(l)'
    BY <2>2, <1>2, <1>3 DEF ReadStands
  <2> QED BY <2>1, <2>2, <2>3
<1> QED BY <1>2, <1>3, <1>4, <1>5 DEF WorkInv

\* Before anything has happened.
LEMMA WorkInit == ASSUME Init PROVE WorkInv
<1>1. /\ row = NoRow /\ call = [c \in Callers |-> Idle] /\ request = NoRequest
      /\ punches = {}
  BY DEF Init
<1>2. \A c \in Callers : OnDuty(c) /\ ReadStands(call[c])
  BY <1>1 DEF OnDuty, ReadStands, Idle, Working, Deciding
<1>3. request.status # "PENDING"
  BY <1>1 DEF NoRequest
<1>4. /\ row.status = "NONE" /\ row.checkIn = NoTime /\ row.checkOut = NoTime
      /\ row.sessions = <<>> /\ row.hours = NoHours
  BY <1>1 DEF NoRow
<1>5. Explained(row) /\ WithoutCheckIn(row, Adjusted, odd) /\ FoundOpen(row, Adjusted, odd)
  BY <1>4 DEF Explained, WithoutCheckIn, FoundOpen, NoHours
<1>6. DayIs(row, Adjusted, punches, odd)
  BY <1>1, <1>4, <1>5 DEF DayIs, ShowsAll
<1> QED BY <1>2, <1>3, <1>6 DEF WorkInv

\* What happens elsewhere, or merely later, is no matter.
LEMMA WorkUntouched ==
  ASSUME WorkInv, UNCHANGED <<policy, row, call, request, punches, odd>>
  PROVE  WorkInv'
<1>1. Adjusted' = Adjusted
  BY DEF Adjusted, Corrected
<1>2. ASSUME NEW d \in Callers
      PROVE  (OnDuty(d) /\ ReadStands(call[d]))'
  <2>1. PICK l : l = call[d] /\ l = call'[d]
    OBVIOUS
  <2>2. OnDuty(d)' /\ ReadStands(l)
    BY <2>1 DEF OnDuty, WorkInv
  <2>3. ReadStands(l)'
    BY <2>2 DEF ReadStands
  <2> QED BY <2>1, <2>2, <2>3
<1> QED BY <1>1, <1>2 DEF WorkInv

\* With one worker, every step keeps the day explained.
LEMMA WorkStep == ASSUME OneWorker, DayInv, WorkInv, [Next]_vars PROVE WorkInv'
<1>1. CASE UNCHANGED vars
  BY <1>1, WorkUntouched DEF vars
<1>2. ASSUME NEW c \in Callers, Punch(c) PROVE WorkInv'
  BY <1>2, ReadsKeepWork, CheckInKeepsWork, CheckOutKeepsWork, LunchKeepsWork DEF Punch
<1>3. ASSUME NEW c \in Callers, CronJob(c) PROVE WorkInv'
  BY <1>3, ReadsKeepWork, AutoCheckoutKeepsWork, CreatedKeepsWork, RemindKeepsWork,
     ReplaceKeepsWork DEF CronJob
<1>4. ASSUME NEW c \in Callers, Decide(c) PROVE WorkInv'
  BY <1>4, ReadsKeepWork, AdjustKeepsWork, SettleKeepsWork DEF Decide
<1>5. ASSUME NEW c \in Callers, EnterManually(c) \/ GrantLeave(c) PROVE WorkInv'
  BY <1>5, CreatedKeepsWork, ReplaceKeepsWork
<1>6. CASE Tick
  BY <1>6, WorkUntouched DEF Tick
<1> QED BY <1>1, <1>2, <1>3, <1>4, <1>5, <1>6, FileKeepsWork DEF Next

\* With one worker, the day is always explained.
LEMMA DayExplained == ASSUME OneWorker PROVE Spec => [](DayInv /\ WorkInv)
<1>1. Init => DayInv /\ WorkInv
  BY DayInit, WorkInit
<1>2. DayInv /\ WorkInv /\ [Next]_vars => (DayInv /\ WorkInv)'
  BY DayStep, WorkStep
<1> QED BY <1>1, <1>2, PTL DEF Spec

\* The hours of a day that has ended are those of its sessions or of its columns,
\* whatever the day went through, the device's lists and HR's odd entries included.
THEOREM HoursAreTheDays == ASSUME OneWorker PROVE Spec => []HoursExplained
<1>1. WorkInv => HoursExplained
  BY DEF WorkInv, DayIs, Explained, HoursExplained
<1> QED BY <1>1, DayExplained, PTL

\* Each confirmed punch stays in the sessions until the day is replaced or adjusted.
THEOREM PunchesKept == ASSUME OneWorker PROVE Spec => []PunchesRecorded
<1>1. WorkInv => PunchesRecorded
  BY DEF WorkInv, DayIs, ShowsAll, Shows, PunchesRecorded
<1> QED BY <1>1, DayExplained, PTL

\* The job at the day's end sees every day that is under way, unless a correction, a
\* list or an entry without a check-in set its check-out.
THEOREM OpenDaySeen == ASSUME OneWorker PROVE Spec => []OpenDayIsFound
<1>1. WorkInv => OpenDayIsFound
  BY DEF WorkInv, DayIs, FoundOpen, OpenDayIsFound
<1> QED BY <1>1, DayExplained, PTL

-----------------------------------------------------------------------------
(* Times are in order, whatever overlaps *)

\* Only the last of the sessions can be under way.
LEMMA OpenIsLast ==
  ASSUME NEW s \in Seq(Session), NEW t \in Times, Ordered(s, t), NEW i \in OpenAt(s)
  PROVE  i = Len(s) /\ Len(s) \in DOMAIN s /\ s[Len(s)].out = NoTime
<1>1. PICK n \in Nat : n = Len(s) /\ DOMAIN s = 1..n
  BY ElementFields
<1>2. i \in 1..n /\ s[i].out = NoTime
  BY <1>1 DEF OpenAt
<1>3. ~(i < n)
  BY <1>1, <1>2 DEF Ordered
<1>4. i = n
  BY <1>2, <1>3
<1> QED BY <1>1, <1>2, <1>4

\* An instant is clamped towards the day's end, and no further than the check-in.
LEMMA ClampedBetween ==
  ASSUME NEW in \in Times, NEW out \in Times, out = NoTime \/ in <= out
  PROVE  /\ Clamped(out, in) \in Times /\ (Clamped(out, in) = NoTime <=> out = NoTime)
         /\ Clamped(out, in) <= out
         /\ out # NoTime => in <= Clamped(out, in)
         /\ Clamped(Clamped(out, in), in) = Clamped(out, in)
         /\ in < Clamped(out, in) => Clamped(out, in) <= DayEnd
  BY AttendanceAssumption DEF Clamped, Later, Times, NoTime

\* Clamping keeps the order and what is under way.
LEMMA ClampedInOrder ==
  ASSUME NEW s \in Seq(Session), NEW t \in Times, Ordered(s, t)
  PROVE  /\ ClampAll(s) \in Seq(Session) /\ Len(ClampAll(s)) = Len(s)
         /\ DOMAIN ClampAll(s) = DOMAIN s
         /\ Ordered(ClampAll(s), t) /\ OpenAt(ClampAll(s)) = OpenAt(s)
         /\ \A i \in DOMAIN s :
              /\ ClampAll(s)[i].in = s[i].in /\ ClampAll(s)[i].type = s[i].type
              /\ ClampAll(s)[i].out = Clamped(s[i].out, s[i].in)
<1>1. PICK n \in Nat : n = Len(s) /\ DOMAIN s = 1..n
  BY ElementFields
<1> DEFINE x(i) == [s[i] EXCEPT !.out = Clamped(s[i].out, s[i].in)]
           k == ClampAll(s)
<1>2. \A i \in 1..n : /\ s[i] \in Session /\ s[i].in \in Times /\ s[i].out \in Times
                      /\ s[i].out = NoTime \/ s[i].in <= s[i].out
  BY <1>1, ElementFields DEF Ordered, Times, NoTime
<1>3. \A i \in 1..n : /\ x(i) \in Session /\ x(i).in = s[i].in /\ x(i).type = s[i].type
                      /\ x(i).out = Clamped(s[i].out, s[i].in)
  BY <1>2, ClampedBetween DEF Session
<1>4. k = [i \in 1..n |-> x(i)]
  BY <1>1 DEF ClampAll
<1> HIDE DEF x, k
<1>5. k \in Seq(Session) /\ Len(k) = n /\ DOMAIN k = 1..n
  BY <1>3, <1>4
<1>6. \A i \in 1..n : /\ k[i].in = s[i].in /\ k[i].type = s[i].type
                      /\ k[i].out = Clamped(s[i].out, s[i].in)
  BY <1>3, <1>4
<1>7. \A i \in 1..n : /\ k[i].out \in Times /\ (k[i].out = NoTime <=> s[i].out = NoTime)
                      /\ k[i].out <= s[i].out
                      /\ s[i].out # NoTime => s[i].in <= k[i].out
  BY <1>2, <1>6, ClampedBetween
<1>8. OpenAt(k) = OpenAt(s)
  BY <1>1, <1>5, <1>7 DEF OpenAt
<1>9. \A i \in 1..n : /\ k[i].in <= t /\ k[i].out <= t
                      /\ k[i].out # NoTime => k[i].in <= k[i].out
  <2> TAKE i \in 1..n
  <2>0. Times \subseteq Nat
    BY AttendanceAssumption DEF Times
  <2>1. s[i].in <= t /\ s[i].out <= t /\ s[i].out \in Nat /\ k[i].out \in Nat /\ t \in Nat
    BY <1>1, <1>2, <1>7, <2>0 DEF Ordered
  <2> QED BY <2>1, <1>6, <1>7
<1>10. ASSUME NEW i \in 1..n, NEW j \in 1..n, i < j
       PROVE  k[i].out # NoTime /\ k[i].out <= k[j].in
  <2>1. s[i].out # NoTime /\ s[i].out <= s[j].in
    BY <1>1, <1>10 DEF Ordered
  <2>2. s[i].out \in Nat /\ s[j].in \in Nat /\ k[i].out \in Nat /\ k[i].out <= s[i].out
    BY <1>2, <1>7, AttendanceAssumption DEF Times
  <2> QED BY <2>1, <2>2, <1>6, <1>7
<1>11. Ordered(k, t)
  BY <1>5, <1>9, <1>10 DEF Ordered
<1> QED BY <1>1, <1>5, <1>6, <1>8, <1>11 DEF k

-----------------------------------------------------------------------------

\* What a row counts as its sessions are sessions, in order.
LEMMA SessionsInOrder ==
  ASSUME NEW r \in Row, NEW t \in Times, InOrder(r, t)
  PROVE  Sessions(r) \in Seq(Session) /\ Ordered(Sessions(r), t)
<1>1. CASE r.sessions # <<>> \/ r.checkIn = NoTime
  BY <1>1 DEF Sessions, Row, InOrder
<1>2. CASE r.sessions = <<>> /\ r.checkIn # NoTime
  <2>1. r.checkIn \in Instants /\ r.checkOut \in Times
    BY <1>2, AttendanceAssumption DEF Row, Times, Instants, NoTime
  <2> DEFINE x == Work(r.checkIn, r.checkOut)
  <2>2. x \in Session /\ x.in = r.checkIn /\ x.out = r.checkOut
    BY <2>1, StretchIsSession DEF Work
  <2>3. Sessions(r) = <<x>>
    BY <1>2 DEF Sessions
  <2>4. <<x>> \in Seq(Session) /\ DOMAIN <<x>> = {1} /\ <<x>>[1] = x
    BY <2>2
  <2> HIDE DEF x
  <2>5. x.in <= t /\ x.out <= t /\ (x.out # NoTime => x.in <= x.out)
    BY <1>2, <2>2 DEF InOrder
  <2>6. Ordered(<<x>>, t)
    BY <2>4, <2>5 DEF Ordered
  <2> QED BY <2>3, <2>4, <2>6
<1> QED BY <1>1, <1>2


\* What was in order then is in order now.
LEMMA OrderedLater ==
  ASSUME NEW s \in Seq(Session), NEW t \in Times, NEW u \in Times, t <= u, Ordered(s, t)
  PROVE  Ordered(s, u)
<1>1. t \in Nat /\ u \in Nat /\ \A i \in DOMAIN s : s[i].in \in Nat /\ s[i].out \in Nat
  BY ElementFields, AttendanceAssumption DEF Times
<1> QED BY <1>1 DEF Ordered

\* A row in order remains so.
LEMMA InOrderLater ==
  ASSUME NEW r \in Row, NEW t \in Times, NEW u \in Times, t <= u, InOrder(r, t)
  PROVE  InOrder(r, u)
<1>1. r.sessions \in Seq(Session) /\ Ordered(r.sessions, u)
  BY OrderedLater DEF Row, InOrder
<1>2. /\ r.checkIn \in Nat /\ r.checkOut \in Nat /\ t \in Nat /\ u \in Nat
      /\ r.checkIn <= t /\ r.checkOut <= t
  BY AttendanceAssumption DEF Row, Times, InOrder
<1> QED BY <1>1, <1>2 DEF InOrder

\* The end of the stretch under way keeps the order.
LEMMA EndsInOrder ==
  ASSUME NEW s \in Seq(Session), NEW t \in Times, Ordered(s, t), NEW n \in OpenAt(s),
         NEW out \in Instants, NEW e, Ends(s, n, out, e), s[n].in <= out, out <= t
  PROVE  e \in Seq(Session) /\ Ordered(e, t)
<1>1. PICK m \in Nat : m = Len(s) /\ DOMAIN s = 1..m
  BY ElementFields
<1>2. n = m /\ m \in 1..m
  BY <1>1, OpenIsLast
<1>3. /\ e \in Seq(Session) /\ DOMAIN e = 1..m /\ e[m].in = s[m].in /\ e[m].out = out
      /\ \A i \in 1..m : i # m => e[i] = s[i]
  BY <1>1, <1>2 DEF Ends
<1>4. \A i \in 1..m : /\ e[i].in <= t /\ e[i].out <= t
                      /\ e[i].out # NoTime => e[i].in <= e[i].out
  BY <1>1, <1>2, <1>3 DEF Ordered
<1>5. \A i, j \in 1..m : i < j => e[i].out # NoTime /\ e[i].out <= e[j].in
  BY <1>1, <1>3 DEF Ordered
<1> QED BY <1>3, <1>4, <1>5 DEF Ordered

\* So does the beginning of one, when none is under way.
LEMMA BeginsInOrder ==
  ASSUME NEW s \in Seq(Session), NEW t \in Instants, Ordered(s, t), ~Open(s),
         NEW a, Begins(s, t, a)
  PROVE  a \in Seq(Session) /\ Ordered(a, t)
<1>1. PICK m \in Nat : m = Len(s) /\ DOMAIN s = 1..m
  BY ElementFields
<1>2. \A i \in 1..m : /\ s[i].out # NoTime /\ s[i].out <= t /\ s[i].in <= t
                      /\ s[i].in <= s[i].out
  BY <1>1 DEF Ordered, Open, OpenAt
<1>3. /\ a \in Seq(Session) /\ DOMAIN a = 1..m \union {m + 1}
      /\ a[m + 1].in = t /\ a[m + 1].out = NoTime /\ \A i \in 1..m : a[i] = s[i]
  BY <1>1 DEF Begins
<1>4. t \in Nat /\ NoTime <= t /\ t <= t
  BY DEF Instants, NoTime
<1>5. \A i \in DOMAIN a : /\ a[i].in <= t /\ a[i].out <= t
                          /\ a[i].out # NoTime => a[i].in <= a[i].out
  BY <1>2, <1>3, <1>4
<1>6. ASSUME NEW i \in DOMAIN a, NEW j \in DOMAIN a, i < j
      PROVE  a[i].out # NoTime /\ a[i].out <= a[j].in
  <2>1. i \in 1..m
    BY <1>3, <1>6
  <2>2. CASE j = m + 1
    BY <2>1, <2>2, <1>2, <1>3
  <2>3. CASE j \in 1..m
    BY <2>1, <2>3, <1>1, <1>3, <1>6 DEF Ordered
  <2> QED BY <2>2, <2>3, <1>3
<1> QED BY <1>3, <1>5, <1>6 DEF Ordered

\* And both at once.
LEMMA SwitchesInOrder ==
  ASSUME NEW s \in Seq(Session), NEW t \in Instants, Ordered(s, t), NEW n \in OpenAt(s),
         NEW a, Switches(s, n, t, a)
  PROVE  a \in Seq(Session) /\ Ordered(a, t)
<1>0. t \in Times /\ t \in Nat /\ t # NoTime /\ NoTime <= t
  BY DEF Times, Instants, NoTime
<1>1. PICK m \in Nat : m = Len(s) /\ DOMAIN s = 1..m
  BY ElementFields
<1>2. n = m /\ m \in 1..m
  BY <1>0, <1>1, OpenIsLast
<1>3. PICK k \in Nat : a \in Seq(Session) /\ k = Len(a) /\ DOMAIN a = 1..k /\ k # 0
  BY ElementFields DEF Switches
<1>4. DOMAIN a = 1..m \union {k} /\ k \notin 1..m
  BY <1>1, <1>3 DEF Switches
<1>5. k = m + 1
  <2>1. ~(k <= m)
    BY <1>3, <1>4
  <2>2. 1..k = 1..m \union {k}
    BY <1>3, <1>4
  <2>3. ASSUME m + 1 < k PROVE FALSE
    <3>1. m + 1 \in 1..k /\ m + 1 \notin 1..m /\ m + 1 # k
      BY <2>3
    <3> QED BY <3>1, <2>2
  <2> QED BY <2>1, <2>3
<1>6. /\ a[k].in = t /\ a[k].out = NoTime /\ a[m].in = s[m].in /\ a[m].out = t
      /\ \A i \in 1..m : i # m => a[i] = s[i]
  BY <1>1, <1>2, <1>3 DEF Switches
<1>7. \A i \in 1..m : s[i].in <= t /\ s[i].out <= t /\ (s[i].out # NoTime => s[i].in <= s[i].out)
  BY <1>1 DEF Ordered
<1>8. \A i \in 1..k : /\ a[i].in <= t /\ a[i].out <= t
                      /\ a[i].out # NoTime => a[i].in <= a[i].out
  <2> TAKE i \in 1..k
  <2>1. CASE i = k
    BY <2>1, <1>0, <1>6
  <2>2. CASE i = m
    BY <2>2, <1>0, <1>2, <1>6, <1>7
  <2>3. CASE i # k /\ i # m
    <3>1. i \in 1..m
      BY <2>3, <1>5
    <3> QED BY <3>1, <2>3, <1>6, <1>7
  <2> QED BY <2>1, <2>2, <2>3
<1>9. ASSUME NEW i \in 1..k, NEW j \in 1..k, i < j
      PROVE  a[i].out # NoTime /\ a[i].out <= a[j].in
  <2>1. i \in 1..m
    BY <1>5, <1>9
  <2>2. CASE i = m
    <3>1. j = k
      BY <2>2, <1>5, <1>9
    <3> QED BY <3>1, <2>2, <1>0, <1>6
  <2>3. CASE i # m /\ j = k
    <3>1. i < m /\ m \in 1..m
      BY <2>1, <2>3, <1>2
    <3>2. s[i].out # NoTime /\ s[i].out <= t
      BY <3>1, <2>1, <1>1, <1>7 DEF Ordered
    <3> QED BY <3>2, <2>1, <2>3, <1>6
  <2>4. CASE i # m /\ j # k
    <3>1. j \in 1..m
      BY <2>4, <1>5
    <3>2. s[i].out # NoTime /\ s[i].out <= s[j].in
      BY <3>1, <2>1, <1>1, <1>9 DEF Ordered
    <3>3. a[j].in = s[j].in
      BY <3>1, <1>6
    <3> QED BY <3>2, <3>3, <2>1, <2>4, <1>6
  <2> QED BY <2>2, <2>3, <2>4
<1> QED BY <1>3, <1>8, <1>9 DEF Ordered

\* The invariant needs to be shown of the row alone, when calls keep what they read or
\* return.
LEMMA OrderKept ==
  ASSUME DayInv, OrderInv, now' = now, odd \subseteq odd',
         \A d \in Callers : \E k \in {Idle, call[d]} :
           call'[d].at = k.at /\ call'[d].seen = k.seen,
         Straight(odd') => InOrder(row', now)
  PROVE  OrderInv'
<1>1. now \in Nat /\ NoTime <= now /\ NoTime <= NoTime
  BY DEF DayInv, TypeOK, Instants, NoTime
<1>2. Idle.at <= now /\ InOrder(Idle.seen, Idle.at)
  <2>1. Idle.at = NoTime /\ Idle.seen = NoRow /\ NoRow.sessions = <<>>
        /\ NoRow.checkIn = NoTime /\ NoRow.checkOut = NoTime
    BY DEF Idle, NoRow
  <2>2. Ordered(<<>>, NoTime)
    BY DEF Ordered
  <2> QED BY <2>1, <2>2, <1>1 DEF InOrder
<1>3. \A d \in Callers : call'[d].at <= now
  BY <1>2 DEF OrderInv
<1>4. ASSUME Straight(odd')
      PROVE  \A d \in Callers : InOrder(call'[d].seen, call'[d].at)
  <2>1. Straight(odd)
    BY <1>4 DEF Straight
  <2> QED BY <2>1, <1>2 DEF OrderInv
<1>5. (\A d \in Callers : call[d].at <= now)'
  BY <1>3
<1>6. Straight(odd)' => InOrder(row, now)' /\ (\A d \in Callers : InOrder(call[d].seen, call[d].at))'
  BY <1>4
<1> QED BY <1>5, <1>6 DEF OrderInv

\* A call that returns keeps nothing; others keep what they read.
LEMMA ReturnKeepsCalls ==
  ASSUME DayInv, NEW c \in Callers, Return(c) \/ UNCHANGED call
  PROVE  \A d \in Callers : \E k \in {Idle, call[d]} :
           call'[d].at = k.at /\ call'[d].seen = k.seen
<1>1. \A d \in Callers : call'[d] \in {Idle, call[d]}
  BY DEF Return, DayInv, TypeOK
<1> QED BY <1>1

\* What a call has read is in order, up to the instant of the read.
LEMMA SeenInOrder ==
  ASSUME DayInv, OrderInv, Straight(odd), NEW c \in Callers
  PROVE  /\ call[c].at <= now /\ InOrder(call[c].seen, call[c].at)
         /\ Ordered(Sessions(call[c].seen), call[c].at)
         /\ InOrder(row, now)
  BY CallFacts, SessionsInOrder DEF OrderInv

\* A row with sessions is in order with them.
LEMMA RowInOrder ==
  ASSUME NEW r \in Row, NEW t \in Times, NEW u \in Times, t <= u,
         r.sessions \in Seq(Session), Ordered(r.sessions, t), r.sessions # <<>>,
         r.checkIn <= u, r.checkOut <= u
  PROVE  InOrder(r, u)
  BY OrderedLater DEF InOrder

\* The columns of a row count from its first stretch, or from its check-in.
LEMMA FirstInTime ==
  ASSUME NEW r \in Row, NEW s \in Seq(Session), NEW t \in Times, Ordered(s, t), r.checkIn <= t
  PROVE  First(r, s) <= t
<1>1. CASE r.checkIn # NoTime \/ s = <<>>
  BY <1>1 DEF First
<1>2. CASE r.checkIn = NoTime /\ s # <<>>
  <2>1. 1 \in DOMAIN s
    BY <1>2, ElementFields
  <2> QED BY <2>1, <1>2 DEF First, Ordered
<1> QED BY <1>1, <1>2

\* The reads.
LEMMA ReadsInOrder ==
  ASSUME DayInv, OrderInv, NEW c \in Callers,
         \/ ReadCheckIn(c) \/ ReadCheckOut(c) \/ ReadLunchOut(c) \/ ReadLunchIn(c)
         \/ ReadAutoCheckout(c) \/ ReadMarkAbsent(c) \/ ReadRemind(c) \/ ReadSync(c)
         \/ ReadRequest(c, "approve") \/ ReadRequest(c, "decline")
  PROVE  OrderInv'
<1>1. PICK op \in AllOperations : Read(c, op)
  BY DEF ReadCheckIn, ReadCheckOut, ReadLunchOut, ReadLunchIn, ReadAutoCheckout, ReadMarkAbsent,
         ReadRemind, ReadSync, ReadRequest, AllOperations
<1>2. PICK k : k = [op |-> op, at |-> now, seen |-> row]
  OBVIOUS
<1>3. call' = [call EXCEPT ![c] = k] /\ UNCHANGED <<now, row, odd>> /\ k.at = now /\ k.seen = row
  BY <1>1, <1>2 DEF Read
<1>4. \A d \in Callers : call'[d] = IF d = c THEN k ELSE call[d]
  BY <1>3 DEF DayInv, TypeOK
<1>5. now <= now
  BY DEF DayInv, TypeOK, Instants
<1>6. \A d \in Callers : call'[d].at <= now
  BY <1>3, <1>4, <1>5 DEF OrderInv
<1>7. Straight(odd) =>
        InOrder(row, now) /\ \A d \in Callers : InOrder(call'[d].seen, call'[d].at)
  BY <1>3, <1>4 DEF OrderInv
<1>8. (\A d \in Callers : call[d].at <= now)'
  BY <1>3, <1>6
<1>9. Straight(odd)' => InOrder(row, now)' /\ (\A d \in Callers : InOrder(call[d].seen, call[d].at))'
  BY <1>3, <1>7
<1> QED BY <1>8, <1>9 DEF OrderInv

\* A check-in.
LEMMA CheckInInOrder ==
  ASSUME DayInv, OrderInv, NEW c \in Callers, WriteCheckIn(c)
  PROVE  OrderInv'
<1>1. Return(c) /\ UNCHANGED <<now, odd>>
  BY DEF WriteCheckIn
<1>2. PICK seen, t : seen = call[c].seen /\ t = call[c].at
  OBVIOUS
<1>3. ASSUME Straight(odd) PROVE InOrder(row', now)
  <2>1. /\ seen \in Row /\ t \in Times /\ now \in Times /\ t <= now
        /\ InOrder(seen, t) /\ Ordered(Sessions(seen), t) /\ InOrder(row, now)
        /\ Sessions(seen) \in Seq(Session) /\ row \in Row
    BY <1>2, <1>3, CallFacts, SeenInOrder
  <2>2. CASE row' = row
    BY <2>1, <2>2
  <2>3. CASE row' # row
    <3>1. /\ t \in Instants /\ row' \in Row
          /\ row'.checkIn \in {t, seen.checkIn} /\ row'.checkOut \in {NoTime, row.checkOut}
          /\ \E was : /\ Begins(was, t, row'.sessions)
                      /\ was = <<>> \/ (was = Sessions(seen) /\ policy.multiple)
      BY <2>3, <1>2, CheckInWrites
    <3>2. PICK was : /\ Begins(was, t, row'.sessions)
                     /\ was = <<>> \/ (was = Sessions(seen) /\ policy.multiple)
      BY <3>1
    <3>3. was \in Seq(Session) /\ Ordered(was, t) /\ ~Open(was)
      <4>1. CASE was = <<>>
        <5>1. <<>> \in Seq(Session)
          OBVIOUS
        <5> QED BY <4>1, <5>1 DEF Ordered, Open, OpenAt
      <4>2. CASE was = Sessions(seen) /\ policy.multiple
        <5>1. call[c].op = "in" /\ "list" \notin odd
          BY <1>3 DEF WriteCheckIn, Straight
        <5> QED BY <4>2, <5>1, <2>1, <1>2, OneSeen
      <4> QED BY <4>1, <4>2, <3>2
    <3>4. row'.sessions \in Seq(Session) /\ Ordered(row'.sessions, t) /\ row'.sessions # <<>>
      BY <3>1, <3>2, <3>3, BeginsInOrder DEF Begins
    <3>5. row'.checkIn <= now /\ row'.checkOut <= now
      <4>1. /\ seen.checkIn \in Nat /\ row.checkOut \in Nat /\ t \in Nat /\ now \in Nat
            /\ seen.checkIn <= t /\ row.checkOut <= now
        BY <2>1, AttendanceAssumption DEF Row, Times, InOrder
      <4> QED BY <4>1, <3>1, <2>1 DEF NoTime
    <3> QED BY <2>1, <3>1, <3>4, <3>5, RowInOrder
  <2> QED BY <2>2, <2>3
<1> QED BY <1>1, <1>3, OrderKept, ReturnKeepsCalls

\* The end of a stretch under way lies between its beginning and the instant of the call.
LEMMA EndInTime ==
  ASSUME NEW in \in Times, NEW t \in Times, in <= t, t # NoTime
  PROVE  /\ in <= Clamped(t, in) /\ Clamped(t, in) <= t
         /\ t >= DayEnd => in <= Later(DayEnd, in) /\ Later(DayEnd, in) <= t
  BY AttendanceAssumption DEF Clamped, Later, Times, NoTime

\* Stretches of which one ended and all were clamped.
LEMMA ClosedInOrder ==
  ASSUME NEW s \in Seq(Session), NEW t \in Times, Ordered(s, t), NEW n \in OpenAt(s),
         NEW out \in Instants, Ends(s, n, out, Close(s, out)), s[n].in <= out, out <= t
  PROVE  /\ ClampAll(Close(s, out)) \in Seq(Session) /\ Ordered(ClampAll(Close(s, out)), t)
         /\ Close(s, out) \in Seq(Session) /\ Ordered(Close(s, out), t)
<1>1. PICK e : e = Close(s, out) /\ Ends(s, n, out, e)
  OBVIOUS
<1>2. e \in Seq(Session) /\ Ordered(e, t)
  BY <1>1, EndsInOrder
<1> QED BY <1>1, <1>2, ClampedInOrder

\* A check-out.
LEMMA CheckOutInOrder ==
  ASSUME DayInv, OrderInv, NEW c \in Callers, WriteCheckOut(c)
  PROVE  /\ OrderInv'
         /\ Straight(odd) =>
              \E s \in Seq(Session) : /\ Ordered(s, now) /\ row'.sessions = ClampAll(s)
                                      /\ row'.hours = Hours(ClampAll(s), row'.checkIn)
<1>1. Return(c) /\ UNCHANGED <<now, odd>>
  BY DEF WriteCheckOut
<1>2. PICK seen, t, was, out : /\ seen = call[c].seen /\ t = call[c].at /\ was = Sessions(seen)
                               /\ out = row'.checkOut
  OBVIOUS
<1>3. ASSUME Straight(odd)
      PROVE  /\ InOrder(row', now)
             /\ \E s \in Seq(Session) : /\ Ordered(s, now) /\ row'.sessions = ClampAll(s)
                                        /\ row'.hours = Hours(ClampAll(s), row'.checkIn)
  <2>1. /\ seen \in Row /\ t \in Times /\ now \in Times /\ t <= now
        /\ InOrder(seen, t) /\ Ordered(was, t) /\ was \in Seq(Session)
    BY <1>2, <1>3, CallFacts, SeenInOrder
  <2>2. PICK n \in OpenAt(was) :
          /\ out = Clamped(t, was[n].in) /\ out \in Instants
          /\ Closes(was, n, out, row'.sessions) /\ row'.sessions = ClampAll(Close(was, out))
          /\ Ends(was, n, out, Close(was, out))
          /\ row' \in Row /\ row'.checkIn = First(seen, row'.sessions)
          /\ row'.hours = Hours(row'.sessions, row'.checkIn)
    BY <1>2, CheckOutWrites
  <2>3. was[n].in \in Times /\ was[n].in <= t /\ t # NoTime
    <3>1. t \in Instants
      BY <1>2, CallFacts DEF WriteCheckOut
    <3> QED BY <3>1, <2>1, ElementFields DEF OpenAt, Ordered, Times, Instants, NoTime
  <2>4. was[n].in <= out /\ out <= t
    BY <2>1, <2>2, <2>3, EndInTime
  <2>5. PICK e \in Seq(Session), s \in Seq(Session) :
          /\ e = Close(was, out) /\ s = row'.sessions /\ s = ClampAll(e)
          /\ Ordered(e, t) /\ Ordered(s, t) /\ s # <<>>
    BY <2>1, <2>2, <2>4, ClosedInOrder DEF Closes
  <2>6. row'.checkIn <= t
    BY <2>1, <2>2, <2>5, FirstInTime DEF InOrder
  <2>7. row'.checkIn <= now /\ row'.checkOut <= now
    <3>1. row'.checkIn \in Nat /\ out \in Nat /\ t \in Nat /\ now \in Nat
      BY <2>1, <2>2, AttendanceAssumption DEF Row, Times, Instants
    <3> QED BY <3>1, <2>1, <2>4, <2>6, <1>2
  <2>8. InOrder(row', now)
    BY <2>1, <2>2, <2>5, <2>7, RowInOrder
  <2>9. Ordered(e, now)
    BY <2>1, <2>5, OrderedLater
  <2> QED BY <2>2, <2>5, <2>8, <2>9
<1> QED BY <1>1, <1>3, OrderKept, ReturnKeepsCalls

\* Lunch.
LEMMA LunchInOrder ==
  ASSUME DayInv, OrderInv, NEW c \in Callers, WriteLunchOut(c) \/ WriteLunchIn(c)
  PROVE  OrderInv'
<1>1. Return(c) /\ UNCHANGED <<now, odd>>
  BY DEF WriteLunchOut, WriteLunchIn
<1>2. PICK t, was, a : t = call[c].at /\ was = Sessions(call[c].seen) /\ a = row'.sessions
  OBVIOUS
<1>3. ASSUME Straight(odd) PROVE InOrder(row', now)
  <2>1. /\ t \in Times /\ now \in Times /\ t <= now /\ Ordered(was, t) /\ was \in Seq(Session)
        /\ InOrder(row, now) /\ row \in Row
    BY <1>2, <1>3, CallFacts, SeenInOrder
  <2>2. PICK n \in OpenAt(was) :
          /\ Switches(was, n, t, a) /\ t \in Instants /\ row' \in Row
          /\ row' = [row EXCEPT !.sessions = a]
    BY <1>2, LunchWrites
  <2>3. a \in Seq(Session) /\ Ordered(a, t) /\ a # <<>>
    BY <2>1, <2>2, SwitchesInOrder DEF Switches
  <2>4. row'.checkIn <= now /\ row'.checkOut <= now
    <3>1. row'.checkIn = row.checkIn /\ row'.checkOut = row.checkOut
      BY <2>1, <2>2 DEF Row
    <3> QED BY <3>1, <2>1 DEF InOrder
  <2> QED BY <2>1, <2>2, <2>3, <2>4, <1>2, RowInOrder
<1> QED BY <1>1, <1>3, OrderKept, ReturnKeepsCalls

\* The job at the day's end.
LEMMA AutoCheckoutInOrder ==
  ASSUME DayInv, OrderInv, NEW c \in Callers, WriteAutoCheckout(c)
  PROVE  /\ OrderInv'
         /\ Straight(odd) =>
              \/ row' = row
              \/ row'.status = "MISSED_CHECKOUT"
              \/ \E s \in Seq(Session) : \E first :
                   /\ Ordered(s, now) /\ row'.sessions = ClampAll(s)
                   /\ row'.hours = Hours(ClampAll(s), first)
<1>1. Return(c) /\ UNCHANGED <<now, odd>>
  BY DEF WriteAutoCheckout
<1>2. PICK seen, t, was, out, first :
        /\ seen = call[c].seen /\ t = call[c].at /\ was = Sessions(seen) /\ out = row'.checkOut
        /\ first = First(seen, was)
  OBVIOUS
<1>3. ASSUME Straight(odd)
      PROVE  /\ InOrder(row', now)
             /\ \/ row' = row
                \/ row'.status = "MISSED_CHECKOUT"
                \/ \E s \in Seq(Session) : \E f :
                     /\ Ordered(s, now) /\ row'.sessions = ClampAll(s)
                     /\ row'.hours = Hours(ClampAll(s), f)
  <2>1. /\ seen \in Row /\ t \in Times /\ now \in Times /\ t <= now /\ InOrder(row, now)
        /\ row \in Row /\ InOrder(seen, t) /\ Ordered(was, t) /\ was \in Seq(Session)
        /\ t \in Instants /\ t >= DayEnd
    BY <1>2, <1>3, CallFacts, SeenInOrder DEF WriteAutoCheckout, CallInv
  <2>2. CASE row' = row
    BY <2>1, <2>2
  <2>3. CASE /\ row'.status = "MISSED_CHECKOUT" /\ row' \in Row
             /\ row'.checkIn = row.checkIn /\ row'.checkOut = row.checkOut
             /\ row'.sessions = row.sessions
    BY <2>1, <2>3 DEF InOrder
  <2>4. CASE \E n \in OpenAt(was) :
               /\ out = Later(DayEnd, was[n].in) /\ out \in Instants
               /\ Closes(was, n, out, row'.sessions) /\ row'.sessions = ClampAll(Close(was, out))
               /\ Ends(was, n, out, Close(was, out))
               /\ row' \in Row /\ row'.checkIn = row.checkIn
               /\ row'.hours = Hours(row'.sessions, first)
    <3>1. PICK n \in OpenAt(was) :
            /\ out = Later(DayEnd, was[n].in) /\ out \in Instants
            /\ Closes(was, n, out, row'.sessions) /\ row'.sessions = ClampAll(Close(was, out))
            /\ Ends(was, n, out, Close(was, out))
            /\ row' \in Row /\ row'.checkIn = row.checkIn
            /\ row'.hours = Hours(row'.sessions, first)
      BY <2>4
    <3>2. was[n].in \in Times /\ was[n].in <= t /\ t # NoTime
      BY <2>1, ElementFields DEF OpenAt, Ordered, Times, Instants, NoTime
    <3>3. was[n].in <= out /\ out <= t
      BY <2>1, <3>1, <3>2, EndInTime
    <3>4. PICK e \in Seq(Session), s \in Seq(Session) :
            /\ e = Close(was, out) /\ s = row'.sessions /\ s = ClampAll(e)
            /\ Ordered(e, t) /\ Ordered(s, t) /\ s # <<>>
      BY <2>1, <3>1, <3>3, ClosedInOrder DEF Closes
    <3>5. row'.checkIn <= now /\ row'.checkOut <= now
      <4>1. out \in Nat /\ t \in Nat /\ now \in Nat /\ row.checkIn <= now
        BY <2>1, <3>1, AttendanceAssumption DEF Times, Instants, InOrder
      <4> QED BY <4>1, <2>1, <3>1, <3>3, <1>2
    <3>6. InOrder(row', now)
      BY <2>1, <3>1, <3>4, <3>5, RowInOrder
    <3>7. Ordered(e, now)
      BY <2>1, <3>4, OrderedLater
    <3> QED BY <3>1, <3>4, <3>6, <3>7
  <2> QED BY <2>2, <2>3, <2>4, <1>2, AutoCheckoutWrites
<1> QED BY <1>1, <1>3, OrderKept, ReturnKeepsCalls

\* The reminder.
LEMMA RemindInOrder ==
  ASSUME DayInv, OrderInv, NEW c \in Callers, WriteRemind(c)
  PROVE  OrderInv'
<1>1. Return(c) /\ UNCHANGED <<now, odd>>
  BY DEF WriteRemind
<1>2. PICK seen, s, e : seen = call[c].seen /\ s = seen.sessions /\ e = row'.sessions
  OBVIOUS
<1>3. ASSUME Straight(odd) PROVE InOrder(row', now)
  <2>1. /\ seen \in Row /\ call[c].at \in Times /\ now \in Times /\ call[c].at <= now
        /\ InOrder(seen, call[c].at) /\ InOrder(row, now) /\ row \in Row
    BY <1>2, <1>3, CallFacts, SeenInOrder
  <2>2. /\ row' \in Row /\ row' = [row EXCEPT !.sessions = e] /\ DOMAIN e = DOMAIN s
        /\ s \in Seq(Session) /\ e # <<>>
        /\ \A i \in DOMAIN s : e[i].in = s[i].in /\ e[i].out = s[i].out
    BY <1>2, RemindWrites
  <2>3. Ordered(s, call[c].at)
    BY <2>1, <1>2 DEF InOrder
  <2>4. Ordered(e, call[c].at)
    BY <2>2, <2>3 DEF Ordered
  <2>5. /\ row'.checkIn = row.checkIn /\ row'.checkOut = row.checkOut /\ row'.sessions = e
        /\ e \in Seq(Session)
    BY <2>1, <2>2 DEF Row
  <2>6. row'.checkIn <= now /\ row'.checkOut <= now
    BY <2>1, <2>5 DEF InOrder
  <2> QED BY <2>1, <2>2, <2>4, <2>5, <2>6, RowInOrder
<1> QED BY <1>1, <1>3, OrderKept, ReturnKeepsCalls

\* A row that was created.
LEMMA CreatedInOrder ==
  ASSUME DayInv, OrderInv, NEW c \in Callers, WriteMarkAbsent(c) \/ GrantLeave(c)
  PROVE  OrderInv'
<1>1. (Return(c) \/ UNCHANGED call) /\ UNCHANGED <<now, odd>>
  BY DEF WriteMarkAbsent, GrantLeave
<1>2. ASSUME Straight(odd) PROVE InOrder(row', now)
  <2>1. InOrder(row, now) /\ NoTime <= now
    BY <1>2 DEF OrderInv, DayInv, TypeOK, Instants, NoTime
  <2> QED BY <2>1, CreatedWrites DEF InOrder, Ordered
<1> QED BY <1>1, <1>2, OrderKept, ReturnKeepsCalls

\* Columns that were reported, or wanted.
LEMMA ReportedInOrder ==
  ASSUME NEW d \in Report, NEW r, Reported(d, r), d.list = <<>>
  PROVE  /\ r.checkIn \in Times /\ r.checkOut \in Times
         /\ r.checkOut # NoTime => r.checkIn <= r.checkOut
         /\ Clamped(r.checkOut, r.checkIn) = r.checkOut
<1>1. /\ d.in \in Times /\ d.out \in Times /\ (d.out = NoTime \/ d.in <= d.out)
      /\ r.checkIn = d.in /\ r.checkOut = Clamped(d.out, d.in)
  BY DEF Report, Reported
<1> QED BY <1>1, ClampedBetween

\* A day that was replaced.
LEMMA ReplaceInOrder ==
  ASSUME DayInv, OrderInv, NEW c \in Callers, EnterManually(c) \/ WriteSync(c)
  PROVE  OrderInv'
<1>1. (Return(c) \/ UNCHANGED call) /\ UNCHANGED now /\ NoTime <= now /\ now \in Nat
  BY DEF EnterManually, WriteSync, DayInv, TypeOK, Instants, NoTime
<1>2. CASE UNCHANGED <<row, punches, odd>>
  <2>1. Straight(odd') => InOrder(row', now)
    BY <1>2 DEF OrderInv
  <2> QED BY <2>1, <1>1, <1>2, OrderKept, ReturnKeepsCalls
<1>3. CASE ~UNCHANGED <<row, punches, odd>>
  <2>1. PICK d \in Report :
          /\ Reported(d, row')
          /\ odd' = odd \union Oddities(row') \union (IF d.list # <<>> THEN {"list"} ELSE {})
    BY <1>3, ReplaceWrites
  <2>2. ASSUME Straight(odd') PROVE InOrder(row', now)
    <3>1. d.list = <<>> /\ "ahead" \notin Oddities(row')
      BY <2>1, <2>2 DEF Straight
    <3>2. ~(row'.checkIn > now) /\ ~(row'.checkOut > now)
      BY <3>1 DEF Oddities
    <3>3. /\ row'.checkIn \in Nat /\ row'.checkOut \in Nat
          /\ row'.checkOut # NoTime => row'.checkIn <= row'.checkOut
      BY <2>1, <3>1, ReportedInOrder, AttendanceAssumption DEF Times
    <3>4. row'.checkIn <= now /\ row'.checkOut <= now
      BY <3>2, <3>3, <1>1
    <3>5. Ordered(row'.sessions, now)
      <4>1. CASE d.in = NoTime
        BY <4>1, <2>1, <3>1 DEF Reported, Ordered
      <4>2. CASE d.in # NoTime
        <5>1. PICK x : x = Work(d.in, row'.checkOut)
          OBVIOUS
        <5>2. x.in = row'.checkIn /\ x.out = row'.checkOut /\ row'.sessions = <<x>>
          BY <4>2, <5>1, <2>1, <3>1 DEF Reported, Work, Stretch
        <5>3. DOMAIN <<x>> = {1} /\ <<x>>[1] = x
          OBVIOUS
        <5>4. Ordered(<<x>>, now)
          BY <5>2, <5>3, <3>3, <3>4 DEF Ordered
        <5> QED BY <5>2, <5>4
      <4> QED BY <4>1, <4>2
    <3> QED BY <3>3, <3>4, <3>5 DEF InOrder
  <2> QED BY <2>1, <2>2, <1>1, OrderKept, ReturnKeepsCalls
<1> QED BY <1>2, <1>3

\* What a correction wants is in order.
LEMMA WantedInOrder ==
  ASSUME request \in Request
  PROVE  /\ WantedOut(request) # NoTime => Wanted(request, 1) <= WantedOut(request)
         /\ Wanted(request, 1) # NoTime =>
              Clamped(WantedOut(request), Wanted(request, 1)) = WantedOut(request)
<1>1. PICK in \in Times, out \in Times : in = Wanted(request, 1) /\ out = Wanted(request, 2)
  BY WantedTimes
<1>2. in \in Nat /\ out \in Nat /\ DayEnd \in Nat /\ NoTime = 0
  BY AttendanceAssumption DEF Times, NoTime
<1>3. CASE NextMorning(in, out)
  <2>1. WantedOut(request) = Later(in, DayEnd) /\ Later(in, DayEnd) = Later(DayEnd, in)
    BY <1>1, <1>2, <1>3 DEF WantedOut, Later
  <2> QED BY <2>1, <1>1, <1>2, ClampedTyped DEF Later
<1>4. CASE ~NextMorning(in, out) /\ in # NoTime
  <2>1. WantedOut(request) = Clamped(out, in) /\ (out = NoTime \/ in <= out)
    BY <1>1, <1>2, <1>4 DEF WantedOut, NextMorning
  <2> QED BY <2>1, <1>1, ClampedBetween
<1>5. CASE in = NoTime
  BY <1>1, <1>2, <1>5 DEF WantedOut, NextMorning
<1> QED BY <1>3, <1>4, <1>5

\* An approved correction.
LEMMA AdjustInOrder ==
  ASSUME DayInv, OrderInv, NEW c \in Callers, Adjust(c)
  PROVE  OrderInv'
<1>1. UNCHANGED now /\ call' = [call EXCEPT ![c].op = "adjusted"]
  BY DEF Adjust
<1>2. \A d \in Callers : call'[d].at = call[d].at /\ call'[d].seen = call[d].seen
  BY <1>1 DEF DayInv, TypeOK
<1>3. /\ row' \in Row /\ row'.checkIn = Wanted(request, 1) /\ row'.checkOut = WantedOut(request)
      /\ row'.sessions = row.sessions /\ odd' = odd \union Oddities(row')
  BY AdjustWrites
<1>4. ASSUME Straight(odd') PROVE InOrder(row', now)
  <2>1. Straight(odd) /\ ~(row'.checkIn > now) /\ ~(row'.checkOut > now)
    BY <1>3, <1>4 DEF Straight, Oddities
  <2>2. /\ row'.checkIn \in Nat /\ row'.checkOut \in Nat /\ now \in Nat
        /\ row'.checkOut # NoTime => row'.checkIn <= row'.checkOut
    BY <1>3, WantedInOrder, AttendanceAssumption DEF DayInv, TypeOK, Row, Times, Instants
  <2>3. row'.checkIn <= now /\ row'.checkOut <= now
    BY <2>1, <2>2
  <2>4. Ordered(row'.sessions, now)
    BY <1>3, <2>1 DEF OrderInv, InOrder
  <2> QED BY <2>2, <2>3, <2>4 DEF InOrder
<1>5. odd \subseteq odd'
  BY <1>3
<1> QED BY <1>1, <1>2, <1>4, <1>5, OrderKept

\* Filing, deciding and the clock.
LEMMA OthersInOrder ==
  ASSUME DayInv, OrderInv,
         \/ File \/ Tick
         \/ \E c \in Callers : Settle(c, "adjusted", 1) \/ Settle(c, "decline", 0)
  PROVE  OrderInv'
<1>1. CASE File
  BY <1>1 DEF File, OrderInv
<1>2. ASSUME NEW c \in Callers, Settle(c, "adjusted", 1) \/ Settle(c, "decline", 0)
      PROVE  OrderInv'
  <2>1. Return(c) /\ UNCHANGED <<now, row, odd>>
    BY <1>2 DEF Settle
  <2>2. Straight(odd') => InOrder(row', now)
    BY <2>1 DEF OrderInv
  <2> QED BY <2>1, <2>2, OrderKept, ReturnKeepsCalls
<1>3. CASE Tick
  <2>1. now' = now + 1 /\ UNCHANGED <<row, call, odd>> /\ now < Horizon
    BY <1>3 DEF Tick
  <2>2. now \in Times /\ now' \in Times /\ now <= now' /\ row \in Row
    BY <2>1, AttendanceAssumption DEF DayInv, TypeOK, Times, Instants
  <2>3. \A d \in Callers : call[d].at <= now'
    <3>1. \A d \in Callers : call[d].at \in Nat /\ call[d].at <= now
      BY AttendanceAssumption DEF DayInv, TypeOK, Times, OrderInv
    <3> QED BY <3>1, <2>1, <2>2, AttendanceAssumption DEF Times
  <2>4. Straight(odd) =>
          InOrder(row, now') /\ \A d \in Callers : InOrder(call[d].seen, call[d].at)
    BY <2>2, InOrderLater DEF OrderInv
  <2>5. (\A d \in Callers : call[d].at <= now)'
    BY <2>1, <2>3
  <2>6. Straight(odd)' => InOrder(row, now)' /\ (\A d \in Callers : InOrder(call[d].seen, call[d].at))'
    BY <2>1, <2>4
  <2> QED BY <2>5, <2>6 DEF OrderInv
<1> QED BY <1>1, <1>2, <1>3

\* In the beginning.
LEMMA OrderInit == ASSUME Init PROVE OrderInv
<1>1. NoTime <= 1 /\ NoTime <= NoTime
  BY DEF NoTime
<1>2. Ordered(<<>>, 1) /\ Ordered(<<>>, NoTime)
  BY DEF Ordered
<1> QED BY <1>1, <1>2 DEF Init, OrderInv, InOrder, Idle, NoRow

\* Each step.
LEMMA OrderStep == ASSUME DayInv, OrderInv, [Next]_vars PROVE OrderInv'
<1>1. CASE UNCHANGED vars
  BY <1>1 DEF vars, OrderInv
<1>2. CASE Next
  BY <1>2, ReadsInOrder, CheckInInOrder, CheckOutInOrder, LunchInOrder, AutoCheckoutInOrder,
     RemindInOrder, ReplaceInOrder, CreatedInOrder, AdjustInOrder, OthersInOrder
     DEF Next, Punch, CronJob, Decide
<1> QED BY <1>1, <1>2

\* However calls overlap, the stretches of a day follow one another, each one ends
\* after it began, and none of them lies ahead, unless a report or a correction of the
\* day already named a time to come or a list of stretches.
THEOREM TimesInOrder == Spec => []OrderInv
<1>1. Init => DayInv /\ OrderInv
  BY DayInit, OrderInit
<1>2. (DayInv /\ OrderInv) /\ [Next]_vars => (DayInv /\ OrderInv)'
  BY DayStep, OrderStep
<1> QED BY <1>1, <1>2, PTL DEF Spec

-----------------------------------------------------------------------------
(* No hour is paid twice, or past the day's end: one worker *)

\* The length of a clamped session lies before the day's end.
LEMMA ClampedLength ==
  ASSUME NEW x \in Session, NEW in \in Times, NEW out \in Times, out = NoTime \/ in <= out,
         x.in = in, x.out = Clamped(out, in)
  PROVE  /\ Length(x) \in Nat
         /\ Length(x) > 0 => in + Length(x) <= DayEnd /\ in + Length(x) <= out /\ out # NoTime
<1>0. in \in Nat /\ out \in Nat /\ DayEnd \in Nat /\ x.out \in Nat
  BY AttendanceAssumption, SessionFields DEF Times
<1>1. /\ x.out <= out /\ (x.out = NoTime <=> out = NoTime)
      /\ out # NoTime => in <= x.out
      /\ in < x.out => x.out <= DayEnd
  BY ClampedBetween
<1>2. Length(x) = 0 \/ (Length(x) = x.out - in /\ x.out # NoTime)
  <2>1. CASE x.type = "WORK" /\ x.out # NoTime
    BY <1>1, <2>1 DEF Length
  <2>2. CASE ~(x.type = "WORK" /\ x.out # NoTime)
    BY <2>2 DEF Length
  <2> QED BY <2>1, <2>2
<1>3. CASE Length(x) = 0
  BY <1>3
<1>4. CASE Length(x) = x.out - in /\ x.out # NoTime
  <2>1. PICK n \in Nat, o \in Nat : n = Length(x) /\ o = x.out /\ n = o - in
    BY <1>0, <1>1, <1>4
  <2> QED BY <1>0, <1>1, <1>4, <2>1
<1> QED BY <1>2, <1>3, <1>4

\* No hour is counted past the day's end, nor twice.
LEMMA TotalWithinDay ==
  ASSUME NEW s \in Seq(Session), NEW t \in Times, Ordered(s, t)
  PROVE  Total(ClampAll(s)) > 0 => s # <<>> /\ Total(ClampAll(s)) <= DayEnd - s[1].in
<1>1. PICK n \in Nat : n = Len(s) /\ DOMAIN s = 1..n /\ (s = <<>> <=> n = 0)
  BY ElementFields
<1>2. PICK k \in Seq(Session) :
        /\ k = ClampAll(s) /\ Len(k) = n /\ DOMAIN k = 1..n
        /\ \A i \in 1..n : k[i].in = s[i].in /\ k[i].out = Clamped(s[i].out, s[i].in)
  BY <1>1, ClampedInOrder
<1>3. PICK f \in [0..n -> Int] : Sums(k, f) /\ Total(k) = f[n]
  BY <1>2, TotalIsSum
<1>4. \A i \in 0..n : f[i] = IF i = 0 THEN 0 ELSE f[i-1] + Length(k[i])
  BY <1>2, <1>3 DEF Sums
<1>5. \A i \in 1..n :
        /\ Length(k[i]) \in Nat /\ s[i].in \in Nat /\ s[i].out \in Nat
        /\ Length(k[i]) > 0 => /\ s[i].in + Length(k[i]) <= DayEnd
                               /\ s[i].in + Length(k[i]) <= s[i].out /\ s[i].out # NoTime
  <2> TAKE i \in 1..n
  <2>1. /\ k[i] \in Session /\ s[i].in \in Times /\ s[i].out \in Times
        /\ s[i].out = NoTime \/ s[i].in <= s[i].out
    BY <1>1, <1>2, ElementFields DEF Ordered, Times, NoTime
  <2>2. s[i].in \in Nat /\ s[i].out \in Nat
    BY <2>1, AttendanceAssumption DEF Times
  <2> QED BY <1>2, <2>1, <2>2, ClampedLength
<1> DEFINE begin == s[1].in
           Bounded(i) == /\ f[i] >= 0
                         /\ f[i] > 0 => f[i] <= DayEnd - begin
                         /\ \A j \in (i+1)..n : f[i] <= s[j].in - begin
           G == {i \in 0..n : i > 0 => Bounded(i)}
<1>6. 0 \in G
  OBVIOUS
<1>7. \A j \in 1..n : begin <= s[j].in
  <2> TAKE j \in 1..n
  <2>1. 1 \in 1..n
    OBVIOUS
  <2>2. PICK b \in Nat, z \in Nat, a \in Nat : b = begin /\ z = s[1].out /\ a = s[j].in
    BY <1>5, <2>1
  <2>3. CASE j = 1
    BY <2>2, <2>3
  <2>4. CASE j # 1
    <3>1. 1 < j
      BY <2>4
    <3>2. s[1].out # NoTime /\ s[1].out <= s[j].in /\ s[1].in <= s[1].out
      BY <1>1, <2>1, <3>1 DEF Ordered
    <3>3. b <= z /\ z <= a
      BY <2>2, <3>2
    <3>4. b <= a
      BY <3>3
    <3> QED BY <2>2, <3>4
  <2> QED BY <2>3, <2>4
<1>8. ASSUME NEW i \in 1..n, i-1 \in G PROVE i \in G
  <2>1. PICK len \in Nat : len = Length(k[i])
    BY <1>5
  <2>2. PICK a \in Nat, z \in Nat, b \in Nat : a = s[i].in /\ z = s[i].out /\ b = begin
    <3>1. 1 \in 1..n
      OBVIOUS
    <3> QED BY <1>5, <3>1
  <2>3. PICK w \in Int : w = f[i-1] /\ f[i] = w + len
    BY <1>4, <2>1
  <2>4. w >= 0 /\ w <= a - b /\ (w > 0 => w <= DayEnd - b)
    <3>1. CASE i = 1
      BY <3>1, <1>4, <1>7, <2>2, <2>3
    <3>2. CASE i # 1
      <4>1. Bounded(i-1) /\ i \in ((i-1)+1)..n
        BY <3>2, <1>8
      <4>2. f[i-1] >= 0 /\ f[i-1] <= s[i].in - begin
            /\ (f[i-1] > 0 => f[i-1] <= DayEnd - begin)
        BY <4>1
      <4> QED BY <4>2, <2>2, <2>3
    <3> QED BY <3>1, <3>2
  <2>5. len > 0 => a + len <= DayEnd /\ a + len <= z /\ z # NoTime
    BY <1>5, <2>1, <2>2
  <2>6. DayEnd \in Nat
    BY AttendanceAssumption
  <2>7. w + len >= 0 /\ (w + len > 0 => w + len <= DayEnd - b)
    BY <2>4, <2>5, <2>6
  <2>8. ASSUME NEW j \in (i+1)..n PROVE w + len <= s[j].in - b
    <3>0. j \in 1..n /\ i < j
      OBVIOUS
    <3>1. PICK c \in Nat : c = s[j].in
      BY <1>5, <3>0
    <3>2. z <= c /\ z # NoTime /\ a <= z
      <4>1. s[i].out # NoTime /\ s[i].out <= s[j].in /\ s[i].in <= s[i].out
        BY <1>1, <3>0 DEF Ordered
      <4> QED BY <3>1, <4>1, <2>2
    <3>3. w + len <= c - b
      <4>1. w <= a - b /\ a <= c
        BY <2>4, <3>2
      <4>2. len = 0 \/ a + len <= c
        BY <2>5, <2>6, <3>2
      <4> QED BY <4>1, <4>2
    <3> QED BY <3>1, <3>3
  <2>9. Bounded(i)
    BY <2>2, <2>3, <2>7, <2>8
  <2> QED BY <2>9
<1> HIDE DEF G
<1>9. \A i \in 0..n : i \in G
  BY <1>6, <1>8, PositionInduction
<1>10. n \in G
  BY <1>9
<1>11. CASE n = 0
  BY <1>2, <1>3, <1>4, <1>11
<1>12. CASE n # 0
  <2>1. Bounded(n)
    BY <1>10, <1>12 DEF G
  <2> QED BY <2>1, <1>1, <1>2, <1>3, <1>12
<1> QED BY <1>11, <1>12

\* Of sessions in order, the filter drops at most the last one.
LEMMA ClosedSessions ==
  ASSUME NEW s \in Seq(Session), NEW t \in Times, Ordered(s, t)
  PROVE  /\ Closed(s) \in Seq(Session) /\ Ordered(Closed(s), t)
         /\ Closed(s) # <<>> => s # <<>> /\ Closed(s)[1] = s[1]
<1>1. PICK n \in Nat : n = Len(s) /\ DOMAIN s = 1..n /\ (s = <<>> <=> n = 0)
                       /\ \A i \in 1..n : s[i] \in Session
  BY ElementFields
<1>2. PICK f : Kept(s, f) /\ Closed(s) = f[n]
  BY <1>1, ClosedIsKept
<1>3. \A i \in 0..n : f[i] = IF i = 0 THEN <<>>
                             ELSE IF s[i].out = NoTime THEN f[i-1] ELSE Append(f[i-1], s[i])
  BY <1>1, <1>2 DEF Kept
<1> DEFINE Prefix(p, m) == p \in Seq(Session) /\ Len(p) = m /\ \A j \in 1..m : p[j] = s[j]
           G == {i \in 0..n : (\A j \in 1..i : s[j].out # NoTime) => Prefix(f[i], i)}
<1>4. 0 \in G
  <2>1. f[0] = <<>>
    BY <1>3
  <2>2. Prefix(<<>>, 0)
    OBVIOUS
  <2> HIDE DEF Prefix
  <2>3. Prefix(f[0], 0)
    BY <2>1, <2>2
  <2> QED BY <2>3
<1>5. ASSUME NEW i \in 1..n, i-1 \in G PROVE i \in G
  <2> SUFFICES ASSUME \A j \in 1..i : s[j].out # NoTime PROVE Prefix(f[i], i)
    OBVIOUS
  <2>1. Prefix(f[i-1], i-1)
    BY <1>5
  <2>2. f[i] = Append(f[i-1], s[i])
    <3>1. i \in 0..n /\ i # 0 /\ s[i].out # NoTime
      OBVIOUS
    <3> QED BY <1>3, <3>1
  <2>3. PICK p \in Seq(Session) : p = f[i-1] /\ Len(p) = i-1 /\ \A j \in 1..(i-1) : p[j] = s[j]
    BY <2>1
  <2>4. PICK x \in Session : x = s[i]
    BY <1>1
  <2>5. PICK q \in Seq(Session) :
          q = Append(p, x) /\ Len(q) = i /\ q[i] = x /\ \A j \in 1..(i-1) : q[j] = p[j]
    <3> DEFINE q == Append(p, x)
    <3>1. q \in Seq(Session) /\ Len(q) = i /\ q[i] = x /\ \A j \in 1..(i-1) : q[j] = p[j]
      BY <2>3
    <3> QED BY <3>1
  <2>6. \A j \in 1..i : q[j] = s[j]
    <3> TAKE j \in 1..i
    <3>1. j = i \/ j \in 1..(i-1)
      OBVIOUS
    <3> QED BY <3>1, <2>3, <2>4, <2>5
  <2> QED BY <2>2, <2>3, <2>4, <2>5, <2>6
<1> HIDE DEF G
<1>6. \A i \in 0..n : i \in G
  BY <1>4, <1>5, PositionInduction
<1>7. PICK m \in 0..n : Closed(s) = f[m] /\ \A j \in 1..m : s[j].out # NoTime
  <2>1. CASE \A j \in 1..n : s[j].out # NoTime
    BY <2>1, <1>2
  <2>2. CASE \E j \in 1..n : s[j].out = NoTime
    <3>1. n \in 1..n /\ s[n].out = NoTime
      BY <2>2, <1>1, OpenIsLast DEF OpenAt
    <3>2. \A j \in 1..(n-1) : s[j].out # NoTime
      <4> TAKE j \in 1..(n-1)
      <4>1. j \in 1..n /\ j < n
        OBVIOUS
      <4> QED BY <4>1, <3>1, <1>1 DEF Ordered
    <3>3. f[n] = f[n-1] /\ n-1 \in 0..n
      BY <3>1, <1>3
    <3> QED BY <3>2, <3>3, <1>2
  <2> QED BY <2>1, <2>2
<1>8. PICK p \in Seq(Session) : p = Closed(s) /\ Len(p) = m /\ \A j \in 1..m : p[j] = s[j]
  BY <1>6, <1>7 DEF G
<1>9. DOMAIN p = 1..m /\ (p # <<>> => m # 0)
  BY <1>8
<1>10. \A j \in 1..m : j \in DOMAIN s
  BY <1>1
<1>11. Ordered(p, t)
  BY <1>8, <1>9, <1>10 DEF Ordered
<1>12. p # <<>> => s # <<>> /\ p[1] = s[1]
  <2> HAVE p # <<>>
  <2>1. 1 \in 1..m /\ n # 0
    BY <1>9
  <2> QED BY <2>1, <1>1, <1>8
<1> QED BY <1>8, <1>11, <1>12

\* The hours of sessions clamped to the day.
LEMMA ClampedHours ==
  ASSUME NEW s \in Seq(Session), NEW t \in Times, Ordered(s, t), NEW first
  PROVE  /\ Hours(ClampAll(s), first) \in Int
         /\ Hours(ClampAll(s), first) > 0 =>
              s # <<>> /\ Hours(ClampAll(s), first) <= DayEnd - s[1].in
<1>1. ClampAll(s) \in Seq(Session)
  BY ClampedInOrder
<1>2. PICK h \in Int, total \in Int :
        /\ h = Hours(ClampAll(s), first) /\ total = Total(ClampAll(s)) /\ (h > 0 => h <= total)
  BY <1>1, HoursWithinTotal
<1>3. total > 0 => s # <<>> /\ total <= DayEnd - s[1].in
  BY <1>2, TotalWithinDay
<1>4. CASE h <= 0
  BY <1>2, <1>4
<1>5. CASE h > 0
  <2>1. total > 0 /\ s # <<>>
    BY <1>2, <1>3, <1>5
  <2>2. PICK a \in Nat : a = s[1].in
    BY <2>1, ElementFields
  <2>3. h <= DayEnd - a
    BY <2>1, <2>2, <1>2, <1>3, <1>5, AttendanceAssumption
  <2> QED BY <1>2, <2>1, <2>2, <2>3
<1> QED BY <1>4, <1>5

\* The hours between two columns that were clamped.
LEMMA ColumnsWithinDay ==
  ASSUME NEW in \in Instants, NEW out \in Times, out = NoTime \/ in <= out,
         Clamped(out, in) = out
  PROVE  /\ Hours(<<Work(in, out)>>, in) \in Int
         /\ Hours(<<Work(in, out)>>, in) > 0 => Hours(<<Work(in, out)>>, in) <= DayEnd - in
<1>1. PICK x \in Session : x = Work(in, out) /\ x.in = in /\ x.out = out
  BY StretchIsSession DEF Work
<1>2. PICK s \in Seq(Session) : s = <<x>> /\ s[1] = x /\ DOMAIN s = {1} /\ s # <<>>
  <2>1. /\ <<x>> \in Seq(Session) /\ <<x>>[1] = x /\ DOMAIN <<x>> = {1} /\ <<x>> # <<>>
    OBVIOUS
  <2> QED BY <2>1
<1>3. in \in Nat /\ out \in Nat /\ Horizon \in Times /\ in <= Horizon /\ out <= Horizon
  BY AttendanceAssumption DEF Instants, Times
<1>4. Ordered(s, Horizon)
  BY <1>1, <1>2, <1>3 DEF Ordered
<1>5. ClampAll(s) = s
  <2>1. ClampAll(s) \in Seq(Session) /\ Len(ClampAll(s)) = 1 /\ DOMAIN ClampAll(s) = {1}
    BY <1>2, <1>3, <1>4, ClampedInOrder
  <2>2. ClampAll(s)[1] = [x EXCEPT !.out = Clamped(x.out, x.in)]
    BY <1>2 DEF ClampAll
  <2>3. [x EXCEPT !.out = Clamped(x.out, x.in)] = x
    BY <1>1 DEF Session
  <2> QED BY <1>2, <2>1, <2>2, <2>3
<1> QED BY <1>1, <1>2, <1>3, <1>4, <1>5, ClampedHours


\* So are the hours of a day that the columns make.
LEMMA ColumnsPaid ==
  ASSUME NEW in \in Times, NEW out \in Times, out # NoTime => in <= out,
         in # NoTime => Clamped(out, in) = out, ColumnsHours(in, out) > 0
  PROVE  in # NoTime /\ ColumnsHours(in, out) <= DayEnd - in
<1>1. in # NoTime /\ out # NoTime
  BY DEF ColumnsHours, NoHours
<1>2. in \in Instants
  BY <1>1, AttendanceAssumption DEF Times, Instants, NoTime
<1>3. ColumnsHours(in, out) = Hours(<<Work(in, out)>>, in)
  BY <1>1, ColumnsHoursTyped
<1> QED BY <1>1, <1>2, <1>3, ColumnsWithinDay

\* The day r pays for no more than what lies between an instant of its own and its end.
Paid(r) == r.hours > 0 => \E t \in Times : PaidFrom(r, t)

\* Other columns, or the same sessions with other ends, show the same.
LEMMA PaidKept ==
  ASSUME NEW r \in Row, NEW q \in Row, Paid(r), q.hours = r.hours,
         r.checkIn # NoTime => q.checkIn = r.checkIn,
         \A i \in DOMAIN r.sessions :
           i \in DOMAIN q.sessions /\ q.sessions[i].in = r.sessions[i].in
  PROVE  Paid(q)
<1>1. SUFFICES ASSUME q.hours > 0 PROVE \E t \in Times : PaidFrom(q, t)
  BY DEF Paid
<1>2. PICK t \in Times : PaidFrom(r, t)
  BY <1>1 DEF Paid
<1>3. PaidFrom(q, t)
  BY <1>2 DEF PaidFrom
<1> QED BY <1>3

\* Sessions in order, clamped, pay from the first one on.
LEMMA PaidFromFirst ==
  ASSUME NEW r \in Row, NEW s \in Seq(Session), NEW u \in Times, Ordered(s, u), NEW first,
         r.hours = Hours(ClampAll(s), first),
         s # <<>> => s[1].in = r.checkIn
                       \/ (r.sessions # <<>> /\ s[1].in = r.sessions[1].in)
  PROVE  Paid(r)
<1>1. SUFFICES ASSUME r.hours > 0 PROVE \E t \in Times : PaidFrom(r, t)
  BY DEF Paid
<1>2. s # <<>> /\ r.hours <= DayEnd - s[1].in
  BY <1>1, ClampedHours
<1>3. s[1].in \in Times /\ s[1].in # NoTime
  BY <1>2, ElementFields DEF Times, NoTime
<1>4. r.sessions # <<>> => 1 \in DOMAIN r.sessions
  BY ElementFields DEF Row
<1>5. PaidFrom(r, s[1].in)
  BY <1>2, <1>3, <1>4 DEF PaidFrom
<1> QED BY <1>3, <1>5

\* The invariant needs to be shown of the row alone.
LEMMA PaidNow ==
  ASSUME odd \subseteq odd', Straight(odd') => Paid(row')
  PROVE  PaidInv'
  BY DEF PaidInv, Paid, Straight, PaidFrom

\* What the row paid before.
LEMMA PaidBefore ==
  ASSUME PaidInv, Straight(odd) PROVE Paid(row)
  BY DEF PaidInv, Paid

\* A check-in pays nothing new, and takes nothing away.
LEMMA CheckInPays ==
  ASSUME DayInv, WorkInv, PaidInv, NEW c \in Callers, WriteCheckIn(c)
  PROVE  PaidInv'
<1>1. UNCHANGED odd /\ call[c].op = "in"
  BY DEF WriteCheckIn
<1>2. PICK seen, t : seen = call[c].seen /\ t = call[c].at
  OBVIOUS
<1>3. ASSUME Straight(odd), row' # row PROVE Paid(row')
  <2>1. row \in Row /\ Paid(row) /\ "list" \notin odd
    BY <1>3, PaidBefore DEF DayInv, TypeOK, Straight
  <2>2. seen.status # "NONE" => seen = row
    BY <1>1, <1>2, SeenStands DEF Working
  <2>3. CASE row'.hours = NoHours
    BY <2>3 DEF Paid, NoHours
  <2>4. CASE /\ seen.status # "NONE" /\ policy.multiple /\ row' \in Row
             /\ row'.checkIn = IF seen.checkIn # NoTime THEN seen.checkIn ELSE t
             /\ row'.hours = row.hours
             /\ Begins(Sessions(seen), t, row'.sessions)
    <3>1. seen = row
      BY <2>2, <2>4
    <3>2. \A i \in DOMAIN row.sessions :
            i \in DOMAIN row'.sessions /\ row'.sessions[i].in = row.sessions[i].in
      <4>1. CASE row.sessions = <<>>
        BY <4>1
      <4>2. CASE row.sessions # <<>>
        <5>1. Sessions(row) = row.sessions
          BY <4>2, <2>1, SessionsOfRow
        <5> QED BY <5>1, <3>1, <2>4 DEF Begins
      <4> QED BY <4>1, <4>2
    <3>3. row.checkIn # NoTime => row'.checkIn = row.checkIn
      BY <2>4, <3>1
    <3> QED BY <2>1, <2>4, <3>2, <3>3, PaidKept
  <2>5. CASE seen.status # "NONE" /\ ~policy.multiple /\ row'.hours = row.hours
    <3>1. seen = row /\ seen.checkIn = NoTime
      BY <2>2, <2>5, <1>1, <1>2 DEF WorkInv, ReadStands
    <3>2. ~(row.hours > 0)
      <4>1. row.hours <= 0 /\ row.hours \in Int
        BY <2>1, <3>1, DayFacts DEF WithoutCheckIn, Row
      <4> QED BY <4>1
    <3> QED BY <2>5, <3>2 DEF Paid
  <2> QED BY <2>3, <2>4, <2>5, <1>2, <1>3, CheckInWrites
<1>4. Straight(odd) => Paid(row')
  BY <1>3, PaidBefore
<1> QED BY <1>1, <1>4, PaidNow

\* A check-out pays for its sessions.
LEMMA CheckOutPays ==
  ASSUME DayInv, OrderInv, NEW c \in Callers, WriteCheckOut(c)
  PROVE  PaidInv'
<1>1. UNCHANGED odd /\ row' \in Row /\ now \in Times
  BY CheckOutWrites, CallFacts DEF WriteCheckOut
<1>2. ASSUME Straight(odd) PROVE Paid(row')
  <2>1. PICK s \in Seq(Session) : /\ Ordered(s, now) /\ row'.sessions = ClampAll(s)
                                  /\ row'.hours = Hours(ClampAll(s), row'.checkIn)
    BY <1>2, CheckOutInOrder
  <2>2. s # <<>> => ClampAll(s) # <<>> /\ s[1].in = ClampAll(s)[1].in
    BY <1>1, <2>1, ClampedInOrder, ElementFields
  <2>3. s # <<>> => row'.sessions # <<>> /\ s[1].in = row'.sessions[1].in
    BY <2>1, <2>2
  <2> QED BY <1>1, <2>1, <2>3, PaidFromFirst
<1> QED BY <1>1, <1>2, PaidNow

\* Lunch keeps the hours.
LEMMA LunchPays ==
  ASSUME DayInv, WorkInv, PaidInv, NEW c \in Callers, WriteLunchOut(c) \/ WriteLunchIn(c)
  PROVE  PaidInv'
<1>1. UNCHANGED odd /\ call[c].op \in Working /\ row \in Row
  BY DEF WriteLunchOut, WriteLunchIn, Working, DayInv, TypeOK
<1>2. PICK t, a : t = call[c].at /\ a = row'.sessions
  OBVIOUS
<1>3. /\ Open(Sessions(call[c].seen)) /\ row' \in Row /\ row' = [row EXCEPT !.sessions = a]
      /\ \E n : Switches(Sessions(call[c].seen), n, t, a)
  BY <1>2, LunchWrites
<1>4. call[c].seen = row
  BY <1>1, <1>3, SeenStands
<1>5. PICK n : Switches(Sessions(row), n, t, a)
  BY <1>3, <1>4
<1>6. \A i \in DOMAIN row.sessions : i \in DOMAIN a /\ a[i].in = row.sessions[i].in
  <2>1. CASE row.sessions = <<>>
    BY <2>1
  <2>2. CASE row.sessions # <<>>
    <3>1. Sessions(row) = row.sessions
      BY <2>2, <1>1, SessionsOfRow
    <3> QED BY <3>1, <1>5 DEF Switches
  <2> QED BY <2>1, <2>2
<1>7. row'.checkIn = row.checkIn /\ row'.hours = row.hours
  BY <1>1, <1>3 DEF Row
<1>8. Straight(odd) => Paid(row')
  BY <1>1, <1>2, <1>3, <1>6, <1>7, PaidBefore, PaidKept
<1> QED BY <1>1, <1>8, PaidNow

\* The job at the day's end pays for the sessions it closed, or for those that ended.
LEMMA AutoCheckoutPays ==
  ASSUME DayInv, WorkInv, OrderInv, PaidInv, NEW c \in Callers, WriteAutoCheckout(c)
  PROVE  PaidInv'
<1>1. UNCHANGED odd /\ call[c].op = "autoCheckout" /\ row \in Row /\ now \in Times
  BY CallFacts DEF WriteAutoCheckout
<1>2. call[c].seen = row
  <2>1. call[c].seen \in {row, NoRow} /\ call[c].seen.status = "PRESENT"
    BY <1>1 DEF WorkInv, ReadStands, Working
  <2> QED BY <2>1 DEF NoRow
<1>3. PICK was : was = Sessions(row)
  OBVIOUS
<1>4. ASSUME Straight(odd) PROVE Paid(row')
  <2>1. InOrder(row, now) /\ was \in Seq(Session) /\ Ordered(was, now)
    BY <1>1, <1>3, <1>4, SessionsInOrder DEF OrderInv
  <2>2. CASE row' = row
    BY <2>2, <1>4, PaidBefore
  <2>3. CASE /\ row'.status = "MISSED_CHECKOUT" /\ row' # row
    <3>1. \/ /\ row' \in Row /\ row'.hours = Hours(ClampAll(Closed(was)), First(row, was))
             /\ row'.checkIn = row.checkIn /\ row'.sessions = row.sessions
          \/ row'.status = row.status
      BY <2>3, <1>2, <1>3, AutoCheckoutWrites
    <3>2. row.status = "PRESENT"
      BY <1>1, <1>2 DEF WorkInv, ReadStands
    <3>3. PICK k \in Seq(Session) : k = Closed(was) /\ Ordered(k, now)
                                    /\ (k # <<>> => was # <<>> /\ k[1] = was[1])
      BY <2>1, <1>1, ClosedSessions
    <3>4. k # <<>> => k[1].in = row.checkIn
                        \/ (row.sessions # <<>> /\ k[1].in = row.sessions[1].in)
      <4>1. CASE row.sessions # <<>>
        BY <4>1, <3>3, <1>1, <1>3, SessionsOfRow
      <4>2. CASE row.sessions = <<>> /\ row.checkIn # NoTime
        BY <4>2, <3>3, <1>1, <1>3, SessionsOfRow
      <4>3. CASE row.sessions = <<>> /\ row.checkIn = NoTime
        BY <4>3, <3>3, <1>1, <1>3, SessionsOfRow
      <4> QED BY <4>1, <4>2, <4>3
    <3>5. /\ row' \in Row /\ row'.hours = Hours(ClampAll(k), First(row, was))
          /\ row'.checkIn = row.checkIn /\ row'.sessions = row.sessions
      BY <3>1, <3>2, <3>3, <2>3
    <3>6. k # <<>> => k[1].in = row'.checkIn
                        \/ (row'.sessions # <<>> /\ k[1].in = row'.sessions[1].in)
      BY <3>4, <3>5
    <3> QED BY <3>3, <3>5, <3>6, <1>1, PaidFromFirst
  <2>4. CASE row' \in Row /\ \E s \in Seq(Session) : \E first :
               /\ Ordered(s, now) /\ row'.sessions = ClampAll(s)
               /\ row'.hours = Hours(ClampAll(s), first)
    <3>1. PICK s \in Seq(Session) : \E first :
            /\ Ordered(s, now) /\ row'.sessions = ClampAll(s)
            /\ row'.hours = Hours(ClampAll(s), first)
      BY <2>4
    <3>2. PICK first : /\ Ordered(s, now) /\ row'.sessions = ClampAll(s)
                       /\ row'.hours = Hours(ClampAll(s), first)
      BY <3>1
    <3>3. s # <<>> => ClampAll(s) # <<>> /\ s[1].in = ClampAll(s)[1].in
      BY <1>1, <3>2, ClampedInOrder, ElementFields
    <3>4. s # <<>> => row'.sessions # <<>> /\ s[1].in = row'.sessions[1].in
      BY <3>2, <3>3
    <3> QED BY <2>4, <1>1, <3>2, <3>4, PaidFromFirst
  <2>5. row' \in Row
    BY <1>1, AutoCheckoutWrites
  <2> QED BY <2>2, <2>3, <2>4, <2>5, <1>4, AutoCheckoutInOrder
<1> QED BY <1>1, <1>4, PaidNow

\* The reminder changes no time.
LEMMA RemindPays ==
  ASSUME DayInv, WorkInv, PaidInv, NEW c \in Callers, WriteRemind(c)
  PROVE  PaidInv'
<1>1. UNCHANGED odd /\ call[c].op \in Working /\ row \in Row
  BY DEF WriteRemind, Working, DayInv, TypeOK
<1>2. PICK s, e : s = call[c].seen.sessions /\ e = row'.sessions
  OBVIOUS
<1>3. /\ row' \in Row /\ row' = [row EXCEPT !.sessions = e] /\ DOMAIN e = DOMAIN s /\ s # <<>>
      /\ \A i \in DOMAIN s : e[i].in = s[i].in
  BY <1>2, RemindWrites
<1>4. s = row.sessions
  BY <1>1, <1>2, <1>3, SeenStands
<1>5. row'.checkIn = row.checkIn /\ row'.hours = row.hours
  BY <1>1, <1>3 DEF Row
<1>6. Straight(odd) => Paid(row')
  BY <1>1, <1>2, <1>3, <1>4, <1>5, PaidBefore, PaidKept
<1> QED BY <1>1, <1>6, PaidNow

\* A row that was created pays nothing.
LEMMA CreatedPays ==
  ASSUME DayInv, PaidInv, NEW c \in Callers, WriteMarkAbsent(c) \/ GrantLeave(c)
  PROVE  PaidInv'
<1>1. UNCHANGED odd
  BY DEF WriteMarkAbsent, GrantLeave
<1>2. row' = row \/ row'.hours \in {NoHours, 0}
  BY CreatedWrites
<1>3. Straight(odd) => Paid(row')
  <2>1. CASE row' = row
    BY <2>1, PaidBefore
  <2>2. CASE row'.hours \in {NoHours, 0}
    BY <2>2 DEF Paid, NoHours
  <2> QED BY <1>2, <2>1, <2>2
<1> QED BY <1>1, <1>3, PaidNow

\* A day that was replaced, or adjusted, pays for what lies between its columns.
LEMMA ReportPays ==
  ASSUME DayInv, PaidInv, NEW c \in Callers, EnterManually(c) \/ WriteSync(c) \/ Adjust(c)
  PROVE  PaidInv'
<1>1. ASSUME NEW r, r.checkIn \in Times, r.checkOut \in Times,
             r.checkOut # NoTime => r.checkIn <= r.checkOut,
             r.checkIn # NoTime => Clamped(r.checkOut, r.checkIn) = r.checkOut,
             r.hours = ColumnsHours(r.checkIn, r.checkOut)
      PROVE  Paid(r)
  <2>1. SUFFICES ASSUME r.hours > 0 PROVE PaidFrom(r, r.checkIn)
    BY <1>1 DEF Paid
  <2>2. r.checkIn # NoTime /\ r.hours <= DayEnd - r.checkIn
    BY <1>1, <2>1, ColumnsPaid
  <2> QED BY <2>2 DEF PaidFrom
<1>2. CASE UNCHANGED <<row, punches, odd>>
  BY <1>2, PaidBefore, PaidNow
<1>3. CASE (EnterManually(c) \/ WriteSync(c)) /\ ~UNCHANGED <<row, punches, odd>>
  <2>1. PICK d \in Report :
          /\ Reported(d, row')
          /\ odd' = odd \union Oddities(row') \union (IF d.list # <<>> THEN {"list"} ELSE {})
    BY <1>3, ReplaceWrites
  <2>2. ASSUME Straight(odd') PROVE Paid(row')
    <3>1. d.list = <<>>
      BY <2>1, <2>2 DEF Straight
    <3>2. /\ row'.checkIn = d.in /\ row'.hours = ColumnsHours(row'.checkIn, row'.checkOut)
      BY <2>1, <3>1 DEF Reported
    <3> QED BY <2>1, <3>1, <3>2, <1>1, ReportedInOrder
  <2> QED BY <2>1, <2>2, PaidNow
<1>4. CASE Adjust(c)
  <2>1. /\ row' \in Row /\ row'.checkIn = Wanted(request, 1) /\ row'.checkOut = WantedOut(request)
        /\ row'.hours = ColumnsHours(row'.checkIn, row'.checkOut)
        /\ odd' = odd \union Oddities(row')
    BY <1>4, AdjustWrites
  <2>2. row'.checkIn \in Times /\ row'.checkOut \in Times /\ request \in Request
    BY <2>1 DEF Row, DayInv, TypeOK
  <2>3. Paid(row')
    BY <2>1, <2>2, <1>1, WantedInOrder
  <2> QED BY <2>1, <2>3, PaidNow
<1> QED BY <1>2, <1>3, <1>4

\* Each step.
LEMMA PaidStep ==
  ASSUME DayInv, WorkInv, OrderInv, PaidInv, [Next]_vars
  PROVE  PaidInv'
<1>1. CASE UNCHANGED <<row, odd>>
  BY <1>1, PaidBefore, PaidNow
<1>2. CASE Next /\ ~UNCHANGED <<row, odd>>
  <2>1. CASE \E c \in Callers : Punch(c)
    BY <2>1, <1>2, CheckInPays, CheckOutPays, LunchPays
       DEF Punch, ReadCheckIn, ReadCheckOut, ReadLunchOut, ReadLunchIn, Read
  <2>2. CASE \E c \in Callers : CronJob(c)
    BY <2>2, <1>2, AutoCheckoutPays, CreatedPays, RemindPays, ReportPays
       DEF CronJob, ReadAutoCheckout, ReadMarkAbsent, ReadRemind, ReadSync, Read
  <2>3. CASE \E c \in Callers : Decide(c)
    BY <2>3, <1>2, ReportPays DEF Decide, ReadRequest, Read, Settle
  <2>4. CASE \E c \in Callers : EnterManually(c) \/ GrantLeave(c)
    BY <2>4, ReportPays, CreatedPays
  <2>5. CASE File \/ Tick
    BY <2>5, <1>2 DEF File, Tick
  <2> QED BY <1>2, <2>1, <2>2, <2>3, <2>4, <2>5 DEF Next
<1>3. [Next]_vars => Next \/ UNCHANGED <<row, odd>>
  BY DEF vars
<1> QED BY <1>1, <1>2, <1>3

\* No hour of a day is paid twice, and none past the day's end, in both modes and
\* whatever is reported, unless it is a list of stretches or a time to come.
THEOREM NothingPastTheEnd == ASSUME OneWorker PROVE Spec => []PaidWithinDay
<1>1. Init => DayInv /\ WorkInv /\ OrderInv /\ PaidInv
  <2>1. ASSUME Init PROVE PaidInv
    BY <2>1 DEF Init, NoRow, NoHours, PaidInv
  <2> QED BY <2>1, DayInit, WorkInit, OrderInit
<1>2. (DayInv /\ WorkInv /\ OrderInv /\ PaidInv) /\ [Next]_vars
        => (DayInv /\ WorkInv /\ OrderInv /\ PaidInv)'
  BY DayStep, WorkStep, OrderStep, PaidStep
<1>3. PaidInv => PaidWithinDay
  BY DEF PaidInv, Straight, PaidFrom, PaidWithinDay
<1> QED BY <1>1, <1>2, <1>3, PTL DEF Spec
=============================================================================
