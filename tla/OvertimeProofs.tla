---------------------------- MODULE OvertimeProofs ----------------------------
(***************************************************************************)
(* Proofs about Overtime: for any number of requests and of calls that     *)
(* overlap, what the employee filed stays on the request, and no approval  *)
(* stands on a policy without overtime. Where calls do not overlap, a      *)
(* request ends with its chain, what an approval froze are the hours of    *)
(* its window counted one by one, and the requests that pay no more than   *)
(* when they were filed keep to the month they were filed under.           *)
(***************************************************************************)
EXTENDS Overtime, FiniteSetTheorems, TLAPS

\* What a call may rely on: the row it inserts is its own, the row it edits
\* keeps the filed window where the call read it, the policy it approves under
\* was asked.
CallInv(c) ==
    LET r == call[c].r
        row == call[c].row
    IN  /\ call[c].pc = "insert" => /\ request[r].status = "NONE" /\ call[c].to \in Window
                                    /\ \A d \in Callers \ {c} :
                                         call[d].pc = "insert" => call[d].r # r
        /\ call[c].pc \notin {"idle", "insert"} => request[r].status # "NONE"
        /\ call[c].pc = "edit" =>
             IF row.original = None THEN row.window = filed[r].window ELSE request[r].original = filed[r].window
        /\ call[c].pc = "approve" => row.policy.eligible /\ row.window \in Window

OvertimeInv ==
    /\ TypeOK
    /\ FiledIsKept
    /\ ApprovedIsEligible
    /\ \A r \in Requests : request[r].status # "NONE" =>
         filed[r].window # None /\ request[r].window \in Window
    /\ \A c \in Callers : CallInv(c)

-----------------------------------------------------------------------------
(* The operators *)

\* A window that was entered becomes a window on a running clock.
LEMMA CrossingIsWindow == \A w \in Windows : Crossing(w) \in Window
<1> TAKE w \in Windows
<1>1. w \in [start : Hour, end : Hour]
  BY OvertimeAssumption
<1>2. w.start \in 0..23 /\ w.end \in 0..23
  BY <1>1 DEF Hour
<1>3. CASE w.end <= w.start
  <2>1. [w EXCEPT !.end = w.end + 24] \in Window
    BY <1>1, <1>2, <1>3 DEF Window, Hour
  <2> QED BY <1>1, <1>3, <2>1 DEF Crossing
<1>4. CASE ~(w.end <= w.start)
  BY <1>1, <1>2, <1>4 DEF Crossing, Window, Hour
<1> QED BY <1>3, <1>4

\* None is no window.
LEMMA NoneIsNoWindow == None \notin Window
  BY OvertimeAssumption DEF Window, Hour

\* The tiers of a window: parts of a day.
LEMMA SplitIsTiers ==
  ASSUME NEW w \in Window, NEW p \in Policies
  PROVE  Split(w, p) \in Tiers
<1>1. w.start \in 0..23 /\ w.end \in 0..47 /\ p.late \in 0..23 /\ p.dayEnd \in 0..23
  BY OvertimeAssumption DEF Window, Hour, Policy
<1> DEFINE end == AtMost(w.end, AfterNoon(p.dayEnd))
           total == AtLeast(0, end - w.start)
           regular == AtMost(total, AtLeast(0, AtMost(end, AfterNoon(p.late)) - w.start))
<1>2. AfterNoon(p.dayEnd) \in 12..35 /\ AfterNoon(p.late) \in 12..35
  BY <1>1 DEF AfterNoon
<1>3. end \in 0..47
  BY <1>1, <1>2 DEF AtMost
<1> HIDE DEF end
<1>4. total \in 0..47
  BY <1>1, <1>3 DEF AtLeast
<1> HIDE DEF total
<1>5. AtLeast(0, AtMost(end, AfterNoon(p.late)) - w.start) \in Nat
  BY <1>1, <1>2, <1>3 DEF AtLeast, AtMost
<1>6. regular \in 0..47 /\ total - regular \in 0..47
  BY <1>4, <1>5 DEF AtMost
<1> HIDE DEF regular
<1>7. Split(w, p) = [hours |-> total, regular |-> regular, late |-> total - regular]
  BY DEF Split, end, total, regular
<1> QED BY <1>4, <1>6, <1>7 DEF Tiers

\* The rows a call starts from.
LEMMA NothingIsRequest == Nothing \in Request /\ Nothing.original = None /\ Nothing.status = "NONE"
  BY OvertimeAssumption DEF Nothing, Request, Tiers

\* A call that is not under way.
LEMMA IdleIsCall == Idle \in Call /\ Idle.pc = "idle"
  BY OvertimeAssumption, NothingIsRequest DEF Idle, Call, PCs, AllDuties

-----------------------------------------------------------------------------
(* What the steps of a call do to it *)

\* It goes on.
LEMMA GotoEffect ==
  ASSUME call \in [Callers -> Call], NEW c \in Callers, NEW pc \in PCs, Goto(c, pc)
  PROVE  /\ call' \in [Callers -> Call]
         /\ call'[c].pc = pc /\ call'[c].r = call[c].r /\ call'[c].row = call[c].row
         /\ call'[c].to = call[c].to /\ call'[c].op = call[c].op
         /\ \A d \in Callers \ {c} : call'[d] = call[d]
<1>1. [call[c] EXCEPT !.pc = pc] \in Call
  BY DEF Call
<1> QED BY <1>1 DEF Goto, Call

\* It ends.
LEMMA EndEffect ==
  ASSUME call \in [Callers -> Call], NEW c \in Callers, End(c)
  PROVE  /\ call' \in [Callers -> Call] /\ call'[c].pc = "idle"
         /\ \A d \in Callers \ {c} : call'[d] = call[d]
  BY IdleIsCall DEF End

\* It writes the row of its request.
LEMMA WriteEffect ==
  ASSUME request \in [Requests -> Request], call \in [Callers -> Call], NEW c \in Callers,
         NEW row \in Request, Write(c, row)
  PROVE  /\ request' \in [Requests -> Request]
         /\ call[c].r \in Requests
         /\ request'[call[c].r] = row
         /\ \A q \in Requests \ {call[c].r} : request'[q] = request[q]
<1>1. call[c].r \in Requests
  BY DEF Call
<1> QED BY <1>1 DEF Write

-----------------------------------------------------------------------------
(* OvertimeInv is inductive *)

\* Nothing was filed yet.
LEMMA InvInit == Init => OvertimeInv
<1> SUFFICES ASSUME Init PROVE OvertimeInv
  OBVIOUS
<1>1. TypeOK
  <2>1. [at |-> "none", left |-> 0] \in Chain
    BY OvertimeAssumption DEF Chain
  <2>2. policy \in Policies
    BY DEF Init
  <2>3. [window |-> None, policy |-> Nothing.policy] \in [window : Window \union {None}, policy : Policies]
    BY NothingIsRequest DEF Request
  <2> QED BY <2>1, <2>2, <2>3, NothingIsRequest, IdleIsCall DEF Init, TypeOK
<1>2. \A r \in Requests : request[r].status = "NONE"
  BY NothingIsRequest DEF Init
<1>3. \A c \in Callers : CallInv(c)
  BY IdleIsCall DEF Init, CallInv
<1> QED BY <1>1, <1>2, <1>3 DEF OvertimeInv, FiledIsKept, ApprovedIsEligible

\* Steps that write no request.
LEMMA CallMoves ==
  ASSUME OvertimeInv, NEW c \in Callers, UNCHANGED <<request, filed>>,
         chain' \in [Requests -> Chain], policy' \in Policies, call' \in [Callers -> Call],
         \A d \in Callers \ {c} : call'[d] = call[d], CallInv(c)'
  PROVE  OvertimeInv'
<1>1. TypeOK' /\ FiledIsKept' /\ ApprovedIsEligible'
  BY DEF OvertimeInv, TypeOK, FiledIsKept, ApprovedIsEligible
<1>2. ASSUME NEW d \in Callers \ {c} PROVE CallInv(d)'
  <2>1. call'[c].pc = "insert" => (call[d].pc = "insert" => call[d].r # call'[c].r)
    BY DEF CallInv
  <2> QED BY <2>1 DEF OvertimeInv, CallInv
<1> QED BY <1>1, <1>2 DEF OvertimeInv

\* A decision, an answer of the chain, a refusal: the call goes on or ends.
LEMMA CallEnds ==
  ASSUME OvertimeInv, NEW c \in Callers, UNCHANGED <<request, filed>>,
         chain' \in [Requests -> Chain], policy' = policy, End(c)
  PROVE  OvertimeInv'
<1>1. CallInv(c)'
  BY EndEffect DEF CallInv, OvertimeInv, TypeOK
<1> QED BY <1>1, EndEffect, CallMoves DEF OvertimeInv, TypeOK

\* A call that goes on to write, not yet knowing what.
LEMMA CallGoes ==
  ASSUME OvertimeInv, NEW c \in Callers, UNCHANGED <<request, filed>>,
         chain' \in [Requests -> Chain], policy' = policy, call[c].pc \notin {"idle", "insert"},
         NEW pc \in PCs \ {"insert", "edit", "approve"}, Goto(c, pc)
  PROVE  OvertimeInv'
<1>1. /\ call' \in [Callers -> Call] /\ \A d \in Callers \ {c} : call'[d] = call[d]
      /\ call'[c].pc = pc /\ call'[c].r = call[c].r
  BY GotoEffect DEF OvertimeInv, TypeOK
<1>2. CallInv(c)'
  BY <1>1 DEF CallInv, OvertimeInv
<1> QED BY <1>1, <1>2, CallMoves DEF OvertimeInv, TypeOK

\* The row of a call is written: what was filed stays on it.
LEMMA RowWritten ==
  ASSUME OvertimeInv, NEW c \in Callers, call[c].pc \notin {"idle", "insert"},
         NEW row \in Request, Write(c, row), UNCHANGED <<chain, policy, filed>>,
         row.window \in Window, row.status # "NONE", row.status = "APPROVED" => row.policy.eligible,
         filed[call[c].r].window = IF row.original = None THEN row.window ELSE row.original,
         request[call[c].r].original = filed[call[c].r].window => row.original = filed[call[c].r].window,
         NEW pc \in PCs \ {"insert", "edit", "approve"},
         (pc = "idle" /\ End(c)) \/ Goto(c, pc)
  PROVE  OvertimeInv'
<1> DEFINE r == call[c].r
<1>1. /\ request' \in [Requests -> Request] /\ r \in Requests /\ request'[r] = row
      /\ \A q \in Requests \ {r} : request'[q] = request[q]
  BY WriteEffect DEF OvertimeInv, TypeOK
<1>2. /\ call' \in [Callers -> Call] /\ \A d \in Callers \ {c} : call'[d] = call[d]
      /\ call'[c].pc = pc /\ (pc # "idle" => call'[c].r = r)
  BY GotoEffect, EndEffect DEF OvertimeInv, TypeOK
<1>3. request[r].status # "NONE" /\ filed[r].window # None
  BY <1>1 DEF OvertimeInv, CallInv
<1>4. TypeOK'
  BY <1>1, <1>2 DEF OvertimeInv, TypeOK
<1>5. FiledIsKept' /\ ApprovedIsEligible'
  BY <1>1 DEF OvertimeInv, FiledIsKept, ApprovedIsEligible
<1>6. \A q \in Requests : request'[q].status # "NONE" =>
        filed'[q].window # None /\ request'[q].window \in Window
  BY <1>1, <1>3 DEF OvertimeInv
<1>7. CallInv(c)'
  BY <1>1, <1>2 DEF CallInv
<1>8. ASSUME NEW d \in Callers \ {c} PROVE CallInv(d)'
  <2>1. call[d].r \in Requests /\ CallInv(d) /\ call'[d] = call[d]
    BY <1>2 DEF OvertimeInv, TypeOK, Call
  <2>2. CASE call[d].r = r
    BY <1>1, <1>2, <1>3, <2>1, <2>2 DEF CallInv
  <2>3. CASE call[d].r # r
    BY <1>1, <1>2, <2>1, <2>3 DEF CallInv
  <2> QED BY <2>2, <2>3
<1> QED BY <1>4, <1>5, <1>6, <1>7, <1>8 DEF OvertimeInv

\* create(): the row is new.
LEMMA FileSafe ==
  ASSUME OvertimeInv, NEW c \in Callers, NEW r \in Requests, NEW w \in Windows, File(c, r, w)
  PROVE  OvertimeInv'
<1> DEFINE row == [Nothing EXCEPT !.policy = policy]
           filing == [Idle EXCEPT !.pc = "insert", !.r = r, !.to = Crossing(w), !.row = row]
<1>1. row \in Request
  BY NothingIsRequest DEF OvertimeInv, TypeOK, Request
<1>2. Crossing(w) \in Window
  BY CrossingIsWindow
<1>3. filing \in Call /\ filing.pc = "insert" /\ filing.r = r /\ filing.to = Crossing(w)
  BY <1>1, <1>2, IdleIsCall DEF Call, PCs
<1>4. /\ call' = [call EXCEPT ![c] = filing] /\ request[r].status = "NONE"
      /\ \A d \in Callers : call[d].pc = "insert" => call[d].r # r
      /\ UNCHANGED <<request, chain, policy, filed>>
  BY DEF File
<1> HIDE DEF filing
<1>5. /\ call' \in [Callers -> Call] /\ call'[c] = filing
      /\ \A d \in Callers \ {c} : call'[d] = call[d]
  BY <1>3, <1>4 DEF OvertimeInv, TypeOK
<1>6. CallInv(c)'
  BY <1>2, <1>3, <1>4, <1>5 DEF CallInv
<1> QED BY <1>4, <1>5, <1>6, CallMoves DEF OvertimeInv, TypeOK

\* create(): the row is inserted, and remembered as filed.
LEMMA InsertSafe == ASSUME OvertimeInv, NEW c \in Callers, Insert(c) PROVE OvertimeInv'
<1> DEFINE r == call[c].r
           to == call[c].to
           row == [status |-> "PENDING", window |-> to, original |-> None,
                   pays |-> Split(to, call[c].row.policy), policy |-> call[c].row.policy]
<1>0. /\ call[c].pc = "insert" /\ request[r].status = "NONE" /\ to \in Window /\ r \in Requests
      /\ call[c].row.policy \in Policies
      /\ \A d \in Callers \ {c} : call[d].pc = "insert" => call[d].r # r
  BY DEF Insert, OvertimeInv, CallInv, TypeOK, Call, Request
<1>1. /\ Write(c, row) /\ filed' = [filed EXCEPT ![r] = [window |-> to, policy |-> call[c].row.policy]]
      /\ UNCHANGED <<chain, policy>> /\ Goto(c, "initiate")
  BY DEF Insert
<1>2. row \in Request /\ row.status = "PENDING" /\ row.window = to /\ row.original = None
  BY <1>0, SplitIsTiers DEF Request
<1> HIDE DEF row
<1>3. /\ request' \in [Requests -> Request] /\ request'[r] = row
      /\ \A q \in Requests \ {r} : request'[q] = request[q]
  BY <1>1, <1>2, WriteEffect DEF OvertimeInv, TypeOK
<1>4. /\ call' \in [Callers -> Call] /\ \A d \in Callers \ {c} : call'[d] = call[d]
      /\ call'[c].pc = "initiate" /\ call'[c].r = r
  BY <1>1, GotoEffect DEF OvertimeInv, TypeOK, PCs
<1>5. /\ filed' \in [Requests -> [window : Window \union {None}, policy : Policies]]
      /\ filed'[r].window = to
      /\ \A q \in Requests \ {r} : filed'[q] = filed[q]
  BY <1>0, <1>1 DEF OvertimeInv, TypeOK
<1>6. TypeOK'
  BY <1>1, <1>3, <1>4, <1>5 DEF OvertimeInv, TypeOK
<1>7. FiledIsKept' /\ ApprovedIsEligible'
  BY <1>2, <1>3, <1>5 DEF OvertimeInv, FiledIsKept, ApprovedIsEligible
<1>8. \A q \in Requests : request'[q].status # "NONE" =>
        filed'[q].window # None /\ request'[q].window \in Window
  BY <1>0, <1>2, <1>3, <1>5, NoneIsNoWindow DEF OvertimeInv
<1>9. CallInv(c)'
  BY <1>2, <1>3, <1>4 DEF CallInv
<1>10. ASSUME NEW d \in Callers \ {c} PROVE CallInv(d)'
  <2>1. call[d].r \in Requests /\ CallInv(d) /\ call'[d] = call[d]
    BY <1>4 DEF OvertimeInv, TypeOK, Call
  <2>2. CASE call[d].r = r
    BY <1>0, <1>2, <1>3, <1>4, <2>1, <2>2 DEF CallInv
  <2>3. CASE call[d].r # r
    BY <1>3, <1>4, <1>5, <2>1, <2>3 DEF CallInv
  <2> QED BY <2>2, <2>3
<1> QED BY <1>6, <1>7, <1>8, <1>9, <1>10 DEF OvertimeInv

\* A call reads the row and starts to decide, to edit or to cancel.
LEMMA LoadSafe ==
  ASSUME OvertimeInv, NEW c \in Callers, NEW r \in Requests, NEW op \in AllDuties,
         NEW pc \in {"decide", "edit", "cancel"}, Load(c, r, op, pc)
  PROVE  OvertimeInv'
<1> DEFINE loaded == [Idle EXCEPT !.pc = pc, !.op = op, !.r = r, !.row = request[r]]
<1>1. loaded \in Call /\ loaded.pc = pc /\ loaded.r = r /\ loaded.row = request[r]
  BY IdleIsCall DEF OvertimeInv, TypeOK, Call, PCs
<1>2. /\ call' = [call EXCEPT ![c] = loaded] /\ request[r].status = "PENDING"
      /\ UNCHANGED <<request, chain, policy, filed>>
  BY DEF Load
<1> HIDE DEF loaded
<1>3. /\ call' \in [Callers -> Call] /\ call'[c] = loaded
      /\ \A d \in Callers \ {c} : call'[d] = call[d]
  BY <1>1, <1>2 DEF OvertimeInv, TypeOK
<1>4. CallInv(c)'
  BY <1>1, <1>2, <1>3 DEF CallInv, OvertimeInv, FiledIsKept
<1> QED BY <1>2, <1>3, <1>4, CallMoves DEF OvertimeInv, TypeOK

\* Whatever the call is about to do.
LEMMA BeginSafe == ASSUME OvertimeInv, NEW c \in Callers, Begin(c) PROVE OvertimeInv'
<1>1. PICK r \in Requests : StartApprove(c, r) \/ StartEdit(c, r) \/ StartReject(c, r) \/ StartCancel(c, r)
  BY DEF Begin
<1> QED BY <1>1, LoadSafe DEF StartApprove, StartEdit, StartReject, StartCancel, AllDuties

\* The first edit keeps what was filed, each later one what is kept.
LEMMA EditSafe == ASSUME OvertimeInv, NEW c \in Callers, Edit(c) PROVE OvertimeInv'
<1> DEFINE r == call[c].r
           old == request[r]
           read == call[c].row
<1>1. PICK w \in Windows :
        Write(c, [Corrected(c, Crossing(w)) EXCEPT !.original =
                    IF read.original = None THEN read.window ELSE @])
  BY DEF Edit
<1> DEFINE kept == IF read.original = None THEN read.window ELSE old.original
           row == [old EXCEPT !.window = Crossing(w), !.original = kept]
<1>2. /\ call[c].pc = "edit" /\ r \in Requests /\ old \in Request /\ read \in Request
      /\ filed[r].window # None /\ old.status # "NONE"
      /\ IF read.original = None THEN read.window = filed[r].window ELSE old.original = filed[r].window
      /\ old.status = "APPROVED" => old.policy.eligible
  BY DEF Edit, OvertimeInv, TypeOK, Call, CallInv, ApprovedIsEligible
<1>3. kept = filed[r].window /\ kept \in Window \union {None}
  BY <1>2 DEF Request
<1> HIDE DEF kept
<1>4. Crossing(w) \in Window
  BY CrossingIsWindow
<1>5. /\ row \in Request /\ row.status = old.status /\ row.policy = old.policy
      /\ row.original = kept /\ row.window \in Window
  BY <1>2, <1>3, <1>4 DEF Request
<1>6. Write(c, row)
  BY <1>1, <1>2 DEF Corrected, kept, Request
<1>7. UNCHANGED <<chain, policy, filed>> /\ Goto(c, "decide") /\ "decide" \in PCs
  BY DEF Edit, PCs
<1> HIDE DEF row
<1> QED BY <1>2, <1>3, <1>5, <1>6, <1>7, RowWritten

\* The engine decides a step; the last one leads to the recheck.
LEMMA DecideSafe ==
  ASSUME OvertimeInv, NEW c \in Callers, Decide(c) \/ Initiate(c) \/ EditRefused(c) \/ Abandon(c)
  PROVE  OvertimeInv'
<1>1. UNCHANGED <<request, filed>> /\ policy' = policy /\ call[c].pc \notin {"idle", "insert"}
  BY DEF Decide, Initiate, EditRefused, Abandon
<1>2. chain' \in [Requests -> Chain]
  <2>1. call[c].r \in Requests /\ chain \in [Requests -> Chain]
    BY DEF OvertimeInv, TypeOK, Call
  <2>2. \A n \in 0..MaxSteps : \A at \in {"none", "running", "approved", "rejected", "abandoned"} :
          [at |-> at, left |-> n] \in Chain
    BY DEF Chain
  <2>3. \A n \in 1..MaxSteps : n \in 0..MaxSteps
    BY OvertimeAssumption
  <2>4. 0 \in 0..MaxSteps
    BY OvertimeAssumption
  <2>5. CASE Decide(c)
    <3>1. chain[call[c].r].left > 1 => [chain[call[c].r] EXCEPT !.left = @ - 1] \in Chain
      BY <2>1, OvertimeAssumption DEF Chain
    <3> QED BY <2>1, <2>2, <2>4, <2>5, <3>1 DEF Decide
  <2>6. CASE Initiate(c)
    <3>1. CASE UNCHANGED chain
      BY <2>1, <3>1
    <3>2. ASSUME NEW n \in 0..MaxSteps, NEW at \in {"running", "approved"},
                 chain' = [chain EXCEPT ![call[c].r] = [at |-> at, left |-> n]]
          PROVE  chain' \in [Requests -> Chain]
      BY <2>1, <2>2, <3>2
    <3> QED BY <2>3, <2>4, <2>6, <3>1, <3>2 DEF Initiate
  <2>7. CASE EditRefused(c) \/ Abandon(c)
    BY <2>1, <2>2, <2>4, <2>7 DEF EditRefused, Abandon
  <2> QED BY <2>5, <2>6, <2>7
<1>3. End(c) \/ \E pc \in {"reject", "recheck"} : Goto(c, pc)
  BY DEF Decide, Initiate, EditRefused, Abandon
<1>4. "reject" \in PCs /\ "recheck" \in PCs
  BY DEF PCs
<1> QED BY <1>1, <1>2, <1>3, <1>4, CallEnds, CallGoes

\* The final approval: the policy is asked, then the row is written.
LEMMA RecheckSafe == ASSUME OvertimeInv, NEW c \in Callers, Recheck(c) PROVE OvertimeInv'
<1> DEFINE r == call[c].r
           row == [request[r] EXCEPT !.policy = policy]
           checked == [call[c] EXCEPT !.pc = "approve", !.row = row]
<1>1. r \in Requests /\ request[r] \in Request /\ call[c] \in Call /\ policy \in Policies
      /\ request[r].status # "NONE" /\ request[r].window \in Window /\ chain \in [Requests -> Chain]
  BY DEF Recheck, OvertimeInv, TypeOK, Call, CallInv
<1>2. UNCHANGED <<request, chain, policy, filed>>
  BY DEF Recheck
<1>3. CASE End(c)
  BY <1>1, <1>2, <1>3, CallEnds
<1>4. CASE policy.eligible /\ call' = [call EXCEPT ![c].pc = "approve", ![c].row = row]
  <2>1. row \in Request /\ row.policy = policy /\ row.window = request[r].window
    BY <1>1 DEF Request
  <2>2. call' = [call EXCEPT ![c] = checked]
    BY <1>1, <1>4 DEF OvertimeInv, TypeOK, Call
  <2> HIDE DEF row
  <2>3. checked \in Call /\ checked.pc = "approve" /\ checked.r = r /\ checked.row = row
    BY <1>1, <2>1 DEF Call, PCs
  <2> HIDE DEF checked
  <2>4. /\ call' \in [Callers -> Call] /\ call'[c] = checked
        /\ \A d \in Callers \ {c} : call'[d] = call[d]
    BY <2>2, <2>3 DEF OvertimeInv, TypeOK
  <2>5. CallInv(c)'
    BY <1>1, <1>2, <1>4, <2>1, <2>3, <2>4 DEF CallInv
  <2> QED BY <1>1, <1>2, <2>4, <2>5, CallMoves
<1> QED BY <1>3, <1>4 DEF Recheck

\* The approval keeps the window and pays it under the policy that was asked.
LEMMA ApproveSafe == ASSUME OvertimeInv, NEW c \in Callers, Approve(c) PROVE OvertimeInv'
<1> DEFINE r == call[c].r
           old == request[r]
           read == call[c].row
           row == [old EXCEPT !.status = "APPROVED", !.policy = read.policy,
                              !.pays = Split(read.window, read.policy)]
<1>1. /\ call[c].pc = "approve" /\ r \in Requests /\ old \in Request /\ read.policy \in Policies
      /\ read.policy.eligible /\ read.window \in Window /\ old.status # "NONE"
      /\ old.window \in Window
      /\ filed[r].window = IF old.original = None THEN old.window ELSE old.original
  BY DEF Approve, OvertimeInv, TypeOK, Call, Request, CallInv, FiledIsKept
<1>2. Split(read.window, read.policy) \in Tiers
  BY <1>1, SplitIsTiers
<1>3. /\ row \in Request /\ row.status = "APPROVED" /\ row.policy = read.policy
      /\ row.window = old.window /\ row.original = old.original
  BY <1>1, <1>2 DEF Request
<1>4. Write(c, row) /\ End(c) /\ UNCHANGED <<chain, policy, filed>> /\ "idle" \in PCs
  BY DEF Approve, PCs
<1> HIDE DEF row
<1> QED BY <1>1, <1>3, <1>4, RowWritten

\* A rejection and a cancellation write the status only.
LEMMA StatusSafe == ASSUME OvertimeInv, NEW c \in Callers, Reject(c) \/ Cancel(c) PROVE OvertimeInv'
<1> DEFINE r == call[c].r
           old == request[r]
<1>1. /\ call[c].pc \notin {"idle", "insert"} /\ r \in Requests /\ old \in Request
      /\ old.status # "NONE" /\ old.window \in Window
      /\ filed[r].window = IF old.original = None THEN old.window ELSE old.original
  BY DEF Reject, Cancel, OvertimeInv, TypeOK, Call, CallInv, FiledIsKept
<1>2. PICK status \in {"REJECTED", "CANCELLED"} : Write(c, [old EXCEPT !.status = status])
  BY DEF Reject, Cancel
<1> DEFINE row == [old EXCEPT !.status = status]
<1>3. /\ row \in Request /\ row.status = status /\ row.window = old.window
      /\ row.original = old.original
  BY <1>1, <1>2 DEF Request
<1>4. Write(c, row)
  BY <1>2
<1>5. UNCHANGED <<chain, policy, filed>> /\ (End(c) \/ Goto(c, "abandon"))
  BY DEF Reject, Cancel
<1>6. "idle" \in PCs /\ "abandon" \in PCs
  BY DEF PCs
<1> HIDE DEF row
<1>7. CASE End(c)
  BY <1>1, <1>3, <1>4, <1>5, <1>6, <1>7, RowWritten
<1>8. CASE Goto(c, "abandon")
  BY <1>1, <1>3, <1>4, <1>5, <1>6, <1>8, RowWritten
<1> QED BY <1>5, <1>7, <1>8

\* Another policy governs: the calls under way keep what they asked.
LEMMA PolicySafe == ASSUME OvertimeInv, NEW c \in Callers, ChangePolicy(c) PROVE OvertimeInv'
<1>1. UNCHANGED <<request, chain, call, filed>> /\ policy' \in Policies
  BY DEF ChangePolicy
<1>2. CallInv(c)'
  BY <1>1 DEF OvertimeInv, CallInv
<1> QED BY <1>1, <1>2, CallMoves DEF OvertimeInv, TypeOK

\* Every step of every call keeps the invariant.
LEMMA InvStep == OvertimeInv /\ [Next]_vars => OvertimeInv'
<1> SUFFICES ASSUME OvertimeInv, [Next]_vars PROVE OvertimeInv'
  OBVIOUS
<1>1. CASE UNCHANGED vars
  BY <1>1 DEF vars, OvertimeInv, TypeOK, FiledIsKept, ApprovedIsEligible, CallInv
<1>2. ASSUME NEW c \in Callers, Create(c) PROVE OvertimeInv'
  BY <1>2, FileSafe, InsertSafe, DecideSafe DEF Create
<1>3. ASSUME NEW c \in Callers, Step(c) PROVE OvertimeInv'
  BY <1>3, EditSafe, DecideSafe, RecheckSafe, ApproveSafe, StatusSafe DEF Step
<1> QED BY <1>1, <1>2, <1>3, BeginSafe, PolicySafe DEF Next

\* Whatever the calls and however they overlap.
THEOREM Safe == Spec => []OvertimeInv
<1> QED BY InvInit, InvStep, PTL DEF Spec

-----------------------------------------------------------------------------
(* What follows from it *)

\* Types: every row, chain and call stays what its table and its code can hold,
\* the tiers of a window included.
THEOREM OvertimeTyped == Spec => []TypeOK
<1>1. OvertimeInv => TypeOK
  BY DEF OvertimeInv
<1> QED BY <1>1, Safe, PTL

\* However many approvers correct a request, what the employee filed stays on it.
THEOREM FiledStays == Spec => []FiledIsKept
<1>1. OvertimeInv => FiledIsKept
  BY DEF OvertimeInv
<1> QED BY <1>1, Safe, PTL

\* No approval names a policy under which the employee may do no overtime.
THEOREM ApprovedWasAllowed == Spec => []ApprovedIsEligible
<1>1. OvertimeInv => ApprovedIsEligible
  BY DEF OvertimeInv
<1> QED BY <1>1, Safe, PTL
-----------------------------------------------------------------------------
(* Calls that do not overlap *)

\* One call at a time, whatever it is about.
OneCaller == \A c, d \in Callers : c = d

\* What a call relies on until it ends: the status it read, and the answer the
\* chain gave it.
CallStands(c) ==
    LET r == call[c].r
    IN  /\ call[c].pc = "initiate" => request[r].status = "PENDING" /\ chain[r].at = "none"
        /\ call[c].pc \in {"edit", "decide", "recheck", "approve", "reject", "cancel"} =>
             request[r].status = "PENDING"
        /\ call[c].pc \in {"recheck", "approve"} => chain[r].at \in {"none", "approved"}
        /\ call[c].pc = "reject" => chain[r].at \in {"none", "rejected"}
        /\ call[c].pc = "abandon" => request[r].status = "CANCELLED"
        /\ call[c].pc = "approve" => call[c].row.window = request[r].window

Under(pc, r) == \E c \in Callers : call[c].pc = pc /\ call[c].r = r

\* Where the chain of a request may be, and which call is about to follow it.
ChainStands(r) ==
    /\ request[r].status = "NONE" => chain[r].at = "none"
    /\ request[r].status = "PENDING" =>
         chain[r].at \in {"none", "running", "approved"} \/ (chain[r].at = "rejected" /\ Under("reject", r))
    /\ request[r].status = "APPROVED" => chain[r].at \in {"none", "approved"}
    /\ request[r].status = "REJECTED" => chain[r].at \in {"none", "rejected"}
    /\ request[r].status = "CANCELLED" =>
         chain[r].at \in {"none", "approved", "abandoned"} \/ (chain[r].at = "running" /\ Under("abandon", r))

SerialInv ==
    /\ \A c \in Callers : CallStands(c)
    /\ \A r \in Requests : ChainStands(r)

\* A step of the only call, about the request r: the others stand where they stood.
LEMMA SerialMove ==
  ASSUME OneCaller, SerialInv, NEW c \in Callers, NEW r \in Requests,
         \A q \in Requests \ {r} : request'[q].status = request[q].status /\ chain'[q] = chain[q],
         call[c].pc \in {"reject", "abandon"} => call[c].r = r,
         CallStands(c)', ChainStands(r)'
  PROVE  SerialInv'
<1>1. ASSUME NEW q \in Requests \ {r} PROVE ChainStands(q)'
  <2>1. ~Under("reject", q) /\ ~Under("abandon", q)
    BY DEF OneCaller, Under
  <2>2. ChainStands(q)
    BY DEF SerialInv
  <2> QED BY <2>1, <2>2 DEF ChainStands
<1> QED BY <1>1 DEF SerialInv, OneCaller

\* No call is under way, and nothing was filed.
LEMMA SerialInit == Init => SerialInv
<1> SUFFICES ASSUME Init PROVE SerialInv
  OBVIOUS
<1>1. \A r \in Requests : request[r].status = "NONE" /\ chain[r].at = "none"
  BY NothingIsRequest DEF Init
<1>2. \A c \in Callers : call[c].pc = "idle"
  BY IdleIsCall DEF Init
<1> QED BY <1>1, <1>2 DEF SerialInv, CallStands, ChainStands

\* create(): nothing is decided about the row before it is there.
LEMMA SerialFile ==
  ASSUME OneCaller, OvertimeInv, SerialInv, NEW c \in Callers, NEW r \in Requests,
         NEW w \in Windows, File(c, r, w)
  PROVE  SerialInv'
<1>1. UNCHANGED <<request, chain>> /\ call[c].pc = "idle" /\ request[r].status = "NONE"
  BY DEF File
<1>2. call'[c].pc = "insert"
  BY IdleIsCall DEF File, OvertimeInv, TypeOK, Call
<1>3. CallStands(c)'
  BY <1>2 DEF CallStands
<1>4. ChainStands(r)'
  BY <1>1 DEF SerialInv, ChainStands
<1> QED BY <1>1, <1>3, <1>4, SerialMove

\* create(): the row waits for its chain.
LEMMA SerialInsert ==
  ASSUME OneCaller, OvertimeInv, SerialInv, NEW c \in Callers, Insert(c)
  PROVE  SerialInv'
<1>0. PICK r \in Requests : r = call[c].r
  BY DEF OvertimeInv, TypeOK, Call
<1>1. /\ call[c].pc = "insert" /\ r = call[c].r /\ request[r].status = "NONE"
      /\ chain[r].at = "none" /\ UNCHANGED chain /\ Goto(c, "initiate")
  BY <1>0 DEF Insert, OvertimeInv, TypeOK, Call, CallInv, SerialInv, ChainStands
<1>2. request'[r].status = "PENDING" /\ \A q \in Requests \ {r} : request'[q] = request[q]
  BY <1>1 DEF Insert, Write, OvertimeInv, TypeOK
<1>3. call'[c].pc = "initiate" /\ call'[c].r = r
  BY <1>1, GotoEffect DEF OvertimeInv, TypeOK, PCs
<1>4. CallStands(c)'
  BY <1>1, <1>2, <1>3 DEF CallStands
<1>5. ChainStands(r)'
  BY <1>1, <1>2 DEF ChainStands
<1> QED BY <1>1, <1>2, <1>4, <1>5, SerialMove

\* create(): the chain of the new request starts, or has nothing to ask.
LEMMA SerialInitiate ==
  ASSUME OneCaller, OvertimeInv, SerialInv, NEW c \in Callers, Initiate(c)
  PROVE  SerialInv'
<1>0. PICK r \in Requests : r = call[c].r
  BY DEF OvertimeInv, TypeOK, Call
<1>1. /\ call[c].pc = "initiate" /\ r = call[c].r /\ request[r].status = "PENDING"
      /\ chain[r].at = "none" /\ UNCHANGED request /\ call \in [Callers -> Call]
      /\ chain \in [Requests -> Chain]
  BY <1>0 DEF Initiate, OvertimeInv, TypeOK, Call, SerialInv, CallStands
<1>2. CASE End(c) /\ UNCHANGED chain
  <2>1. CallStands(c)'
    BY <1>1, <1>2, EndEffect DEF CallStands
  <2>2. ChainStands(r)'
    BY <1>1, <1>2 DEF ChainStands
  <2> QED BY <1>1, <1>2, <2>1, <2>2, SerialMove
<1>3. ASSUME NEW n \in 1..MaxSteps,
             chain' = [chain EXCEPT ![r] = [at |-> "running", left |-> n]], End(c)
      PROVE  SerialInv'
  <2>1. chain'[r].at = "running" /\ \A q \in Requests \ {r} : chain'[q] = chain[q]
    BY <1>1, <1>3
  <2>2. CallStands(c)'
    BY <1>1, <1>3, EndEffect DEF CallStands
  <2>3. ChainStands(r)'
    BY <1>1, <2>1 DEF ChainStands
  <2> QED BY <1>1, <2>1, <2>2, <2>3, SerialMove
<1>4. CASE chain' = [chain EXCEPT ![r] = [at |-> "approved", left |-> 0]] /\ Goto(c, "recheck")
  <2>1. chain'[r].at = "approved" /\ \A q \in Requests \ {r} : chain'[q] = chain[q]
    BY <1>1, <1>4
  <2>2. call'[c].pc = "recheck" /\ call'[c].r = r
    BY <1>1, <1>4, GotoEffect DEF PCs
  <2>3. CallStands(c)'
    BY <1>1, <2>1, <2>2 DEF CallStands
  <2>4. ChainStands(r)'
    BY <1>1, <2>1 DEF ChainStands
  <2> QED BY <1>1, <2>1, <2>3, <2>4, SerialMove
<1> QED BY <1>1, <1>2, <1>3, <1>4 DEF Initiate

\* A call reads a request that is pending.
LEMMA SerialLoad ==
  ASSUME OneCaller, OvertimeInv, SerialInv, NEW c \in Callers, NEW r \in Requests,
         NEW op \in AllDuties, NEW pc \in {"decide", "edit", "cancel"}, Load(c, r, op, pc)
  PROVE  SerialInv'
<1>1. /\ UNCHANGED <<request, chain>> /\ call[c].pc = "idle" /\ request[r].status = "PENDING"
      /\ call' = [call EXCEPT ![c] = [Idle EXCEPT !.pc = pc, !.op = op, !.r = r, !.row = request[r]]]
  BY DEF Load
<1>2. call'[c].pc = pc /\ call'[c].r = r
  BY <1>1, IdleIsCall DEF OvertimeInv, TypeOK, Call
<1>3. CallStands(c)'
  BY <1>1, <1>2 DEF CallStands
<1>4. ~Under("reject", r)
  BY <1>1 DEF OneCaller, Under
<1>5. ChainStands(r)'
  BY <1>1, <1>4 DEF SerialInv, ChainStands
<1> QED BY <1>1, <1>3, <1>5, SerialMove

\* Whatever the only call is about to do.
LEMMA SerialBegin ==
  ASSUME OneCaller, OvertimeInv, SerialInv, NEW c \in Callers, Begin(c)
  PROVE  SerialInv'
<1>1. PICK r \in Requests : \/ StartApprove(c, r) \/ StartEdit(c, r)
                            \/ StartReject(c, r) \/ StartCancel(c, r)
  BY DEF Begin
<1> QED BY <1>1, SerialLoad DEF StartApprove, StartEdit, StartReject, StartCancel, AllDuties

\* A correction changes no status and no chain.
LEMMA SerialEdit ==
  ASSUME OneCaller, OvertimeInv, SerialInv, NEW c \in Callers, Edit(c) \/ EditRefused(c)
  PROVE  SerialInv'
<1>0. PICK r \in Requests : r = call[c].r
  BY DEF OvertimeInv, TypeOK, Call
<1>1. /\ call[c].pc = "edit" /\ r = call[c].r /\ request[r].status = "PENDING" /\ UNCHANGED chain
      /\ request \in [Requests -> Request] /\ call \in [Callers -> Call] /\ ChainStands(r)
  BY <1>0 DEF Edit, EditRefused, OvertimeInv, TypeOK, Call, SerialInv, CallStands
<1>2. \A q \in Requests : request'[q].status = request[q].status
  <2>1. CASE Edit(c)
    <3>0. PICK w \in Windows :
            \E kept : Write(c, [Corrected(c, Crossing(w)) EXCEPT !.original = kept])
      BY <2>1 DEF Edit
    <3>1. PICK kept : Write(c, [Corrected(c, Crossing(w)) EXCEPT !.original = kept])
      BY <3>0
    <3>2. request[r] \in Request
      BY <1>1
    <3>3. request'[r].status = request[r].status
      BY <1>1, <3>1, <3>2 DEF Write, Corrected, Request
    <3>4. \A q \in Requests \ {r} : request'[q] = request[q]
      BY <1>1, <3>1 DEF Write
    <3> QED BY <3>3, <3>4
  <2> QED BY <2>1 DEF EditRefused
<1>3. call'[c].pc \in {"decide", "idle"} /\ (call'[c].pc = "decide" => call'[c].r = r)
  <2>1. Goto(c, "decide") \/ End(c)
    BY DEF Edit, EditRefused
  <2> QED BY <1>1, <2>1, GotoEffect, EndEffect DEF PCs
<1>4. CallStands(c)'
  BY <1>1, <1>2, <1>3 DEF CallStands
<1>5. ~Under("reject", r)
  BY <1>1 DEF OneCaller, Under
<1>6. ChainStands(r)'
  BY <1>1, <1>2, <1>5 DEF ChainStands
<1> QED BY <1>1, <1>2, <1>4, <1>6, SerialMove

\* The engine decides; the call goes on to write the answer.
LEMMA SerialDecide ==
  ASSUME OneCaller, OvertimeInv, SerialInv, NEW c \in Callers, Decide(c)
  PROVE  SerialInv'
<1>0. PICK r \in Requests : r = call[c].r
  BY DEF OvertimeInv, TypeOK, Call
<1>1. /\ call[c].pc = "decide" /\ r = call[c].r /\ request[r].status = "PENDING"
      /\ UNCHANGED request /\ call \in [Callers -> Call] /\ chain \in [Requests -> Chain]
      /\ ChainStands(r)
  BY <1>0 DEF Decide, OvertimeInv, TypeOK, Call, SerialInv, CallStands
<1>2. ~Under("reject", r)
  BY <1>1 DEF OneCaller, Under
<1>3. chain[r].at \in {"none", "running", "approved"}
  BY <1>1, <1>2 DEF ChainStands
<1>4. ASSUME End(c), chain'[r].at \in {"none", "running", "approved"},
             \A q \in Requests \ {r} : chain'[q] = chain[q]
      PROVE  SerialInv'
  <2>1. CallStands(c)'
    BY <1>1, <1>4, EndEffect DEF CallStands
  <2>2. ChainStands(r)'
    BY <1>1, <1>4 DEF ChainStands
  <2> QED BY <1>1, <1>4, <2>1, <2>2, SerialMove
<1>5. ASSUME Goto(c, "reject"), chain'[r].at \in {"none", "rejected"},
             \A q \in Requests \ {r} : chain'[q] = chain[q]
      PROVE  SerialInv'
  <2>1. call'[c].pc = "reject" /\ call'[c].r = r
    BY <1>1, <1>5, GotoEffect DEF PCs
  <2>2. CallStands(c)'
    BY <1>1, <1>5, <2>1 DEF CallStands
  <2>3. Under("reject", r)'
    BY <2>1 DEF Under
  <2>4. ChainStands(r)'
    BY <1>1, <1>5, <2>3 DEF ChainStands
  <2> QED BY <1>1, <1>5, <2>2, <2>4, SerialMove
<1>6. ASSUME Goto(c, "recheck"), chain'[r].at \in {"none", "approved"},
             \A q \in Requests \ {r} : chain'[q] = chain[q]
      PROVE  SerialInv'
  <2>1. call'[c].pc = "recheck" /\ call'[c].r = r
    BY <1>1, <1>6, GotoEffect DEF PCs
  <2>2. CallStands(c)'
    BY <1>1, <1>6, <2>1 DEF CallStands
  <2>3. ChainStands(r)'
    BY <1>1, <1>6 DEF ChainStands
  <2> QED BY <1>1, <1>6, <2>2, <2>3, SerialMove
<1>7. CASE UNCHANGED chain
  BY <1>3, <1>4, <1>5, <1>6, <1>7, <1>1 DEF Decide
<1>8. CASE chain' = [chain EXCEPT ![r] = [at |-> "rejected", left |-> 0]] /\ Goto(c, "reject")
  BY <1>1, <1>5, <1>8
<1>9. CASE chain' = [chain EXCEPT ![r] = [at |-> "approved", left |-> 0]] /\ Goto(c, "recheck")
  BY <1>1, <1>6, <1>9
<1>10. CASE chain' = [chain EXCEPT ![r].left = @ - 1] /\ End(c)
  <2>1. chain'[r].at = chain[r].at /\ \A q \in Requests \ {r} : chain'[q] = chain[q]
    BY <1>1, <1>10 DEF Chain
  <2> QED BY <1>3, <1>4, <1>10, <2>1
<1> QED BY <1>1, <1>7, <1>8, <1>9, <1>10 DEF Decide

\* The row the approval is about to freeze is the one it read.
LEMMA SerialRecheck ==
  ASSUME OneCaller, OvertimeInv, SerialInv, NEW c \in Callers, Recheck(c)
  PROVE  SerialInv'
<1>0. PICK r \in Requests : r = call[c].r
  BY DEF OvertimeInv, TypeOK, Call
<1> DEFINE row == [request[r] EXCEPT !.policy = policy]
<1>1. /\ call[c].pc = "recheck" /\ r = call[c].r /\ request[r].status = "PENDING"
      /\ chain[r].at \in {"none", "approved"} /\ UNCHANGED <<request, chain>>
      /\ call \in [Callers -> Call] /\ request[r] \in Request
  BY <1>0 DEF Recheck, OvertimeInv, TypeOK, Call, SerialInv, CallStands
<1>2. ChainStands(r)'
  BY <1>1 DEF ChainStands
<1>3. CallStands(c)'
  <2>1. CASE End(c)
    BY <1>1, <2>1, EndEffect DEF CallStands
  <2>2. CASE call' = [call EXCEPT ![c].pc = "approve", ![c].row = row]
    <3>1. row.window = request[r].window
      BY <1>1 DEF Request
    <3> HIDE DEF row
    <3>2. call'[c].pc = "approve" /\ call'[c].r = r /\ call'[c].row = row
      BY <1>1, <2>2 DEF Call
    <3> QED BY <1>1, <3>1, <3>2 DEF CallStands
  <2> QED BY <1>1, <2>1, <2>2 DEF Recheck
<1> QED BY <1>1, <1>2, <1>3, SerialMove

\* What the chain answered is written.
LEMMA SerialWrite ==
  ASSUME OneCaller, OvertimeInv, SerialInv, NEW c \in Callers, Approve(c) \/ Reject(c) \/ Cancel(c)
  PROVE  SerialInv'
<1>0. PICK r \in Requests : r = call[c].r
  BY DEF OvertimeInv, TypeOK, Call
<1>1. /\ r = call[c].r /\ request \in [Requests -> Request] /\ call \in [Callers -> Call]
      /\ UNCHANGED chain /\ ChainStands(r) /\ CallStands(c)
  BY <1>0 DEF Approve, Reject, Cancel, OvertimeInv, TypeOK, Call, SerialInv
<1>2. \A q \in Requests \ {r} : request'[q].status = request[q].status
  BY <1>1 DEF Approve, Reject, Cancel, Write
<1>3. CASE Approve(c) \/ Reject(c)
  <2>1. call'[c].pc = "idle"
    BY <1>1, <1>3, EndEffect DEF Approve, Reject
  <2>2. CallStands(c)'
    BY <2>1 DEF CallStands
  <2>3. ChainStands(r)'
    <3>1. CASE Approve(c)
      <4>1. request'[r].status = "APPROVED" /\ chain'[r].at \in {"none", "approved"}
        BY <1>1, <3>1 DEF Approve, Write, Request, CallStands
      <4> QED BY <4>1 DEF ChainStands
    <3>2. CASE Reject(c)
      <4>1. request'[r].status = "REJECTED" /\ chain'[r].at \in {"none", "rejected"}
        BY <1>1, <3>2 DEF Reject, Write, Request, CallStands
      <4> QED BY <4>1 DEF ChainStands
    <3> QED BY <1>3, <3>1, <3>2
  <2>4. call[c].pc # "abandon"
    BY <1>3 DEF Approve, Reject
  <2> QED BY <1>1, <1>2, <2>2, <2>3, <2>4, SerialMove
<1>4. CASE Cancel(c)
  <2>1. call[c].pc = "cancel" /\ request[r].status = "PENDING" /\ Goto(c, "abandon")
    BY <1>1, <1>4 DEF Cancel, CallStands
  <2>2. call'[c].pc = "abandon" /\ call'[c].r = r
    BY <1>1, <2>1, GotoEffect DEF PCs
  <2>3. request'[r].status = "CANCELLED"
    BY <1>1, <1>4 DEF Cancel, Write, Request
  <2>4. CallStands(c)'
    BY <2>2, <2>3 DEF CallStands
  <2>5. Under("abandon", r)' /\ ~Under("reject", r)
    BY <2>1, <2>2 DEF Under, OneCaller
  <2>6. ChainStands(r)'
    BY <1>1, <2>1, <2>3, <2>5 DEF ChainStands
  <2> QED BY <1>1, <1>2, <2>1, <2>4, <2>6, SerialMove
<1> QED BY <1>3, <1>4

\* A cancelled request is taken from its approvers.
LEMMA SerialAbandon ==
  ASSUME OneCaller, OvertimeInv, SerialInv, NEW c \in Callers, Abandon(c)
  PROVE  SerialInv'
<1>0. PICK r \in Requests : r = call[c].r
  BY DEF OvertimeInv, TypeOK, Call
<1>1. /\ call[c].pc = "abandon" /\ r = call[c].r /\ request[r].status = "CANCELLED"
      /\ UNCHANGED request /\ call \in [Callers -> Call] /\ chain \in [Requests -> Chain]
      /\ ChainStands(r) /\ End(c)
  BY <1>0 DEF Abandon, OvertimeInv, TypeOK, Call, SerialInv, CallStands
<1>2. /\ chain'[r].at \in {"none", "approved", "abandoned"}
      /\ \A q \in Requests \ {r} : chain'[q] = chain[q]
  BY <1>1 DEF Abandon, ChainStands
<1>3. CallStands(c)'
  BY <1>1, EndEffect DEF CallStands
<1>4. ChainStands(r)'
  BY <1>1, <1>2 DEF ChainStands
<1> QED BY <1>1, <1>2, <1>3, <1>4, SerialMove

\* Every step of the only call keeps the request and its chain together.
LEMMA SerialStep == OneCaller /\ OvertimeInv /\ SerialInv /\ [Next]_vars => SerialInv'
<1> SUFFICES ASSUME OneCaller, OvertimeInv, SerialInv, [Next]_vars PROVE SerialInv'
  OBVIOUS
<1>1. CASE UNCHANGED <<request, chain, call>>
  BY <1>1 DEF SerialInv, CallStands, ChainStands, Under
<1>2. ASSUME NEW c \in Callers, Create(c) PROVE SerialInv'
  BY <1>2, SerialFile, SerialInsert, SerialInitiate DEF Create
<1>3. ASSUME NEW c \in Callers, Step(c) PROVE SerialInv'
  BY <1>3, SerialEdit, SerialDecide, SerialRecheck, SerialWrite, SerialAbandon DEF Step
<1>4. ASSUME NEW c \in Callers, ChangePolicy(c) PROVE SerialInv'
  BY <1>1, <1>4 DEF ChangePolicy
<1> QED BY <1>1, <1>2, <1>3, <1>4, SerialBegin DEF Next, vars

\* Where calls do not overlap, a request and its chain end together: what the
\* chain decided is what the request says, and nobody holds a cancelled one.
THEOREM EndsTogether == ASSUME OneCaller PROVE Spec => []EndsWithItsChain
<1>1. SerialInv => EndsWithItsChain
  BY DEF SerialInv, ChainStands, Under, EndsWithItsChain
<1>2. OneCaller
  OBVIOUS
<1> QED BY <1>1, <1>2, SerialInit, SerialStep, Safe, PTL DEF Spec
-----------------------------------------------------------------------------
(* What an approval freezes *)

\* A clock hour, counted from noon, and on the running clock of a window.
LEMMA SinceNoonIs == \A h \in Hour : SinceNoon(h) = AfterNoon(h) - 12
<1> SUFFICES ASSUME NEW h \in 0..23 PROVE SinceNoon(h) = AfterNoon(h) - 12
  BY DEF Hour
<1>1. CASE h < 12
  <2>1. (h + 12) % 24 = h + 12
    BY <1>1
  <2> QED BY <1>1, <2>1 DEF SinceNoon, AfterNoon
<1>2. CASE ~(h < 12)
  <2>1. h + 12 = (h - 12) + 24 /\ h - 12 \in 0..11
    BY <1>2
  <2>2. (h + 12) % 24 = h - 12
    BY <1>2, <2>1
  <2> QED BY <1>2, <2>2 DEF SinceNoon, AfterNoon
<1> QED BY <1>1, <1>2

\* Of the hours from s to e, those before n and those from n on.
LEMMA LateRest ==
  ASSUME NEW s \in Int, NEW e \in Int, NEW n \in Int
  PROVE  LET first == AtLeast(s, n)
             total == AtLeast(0, e - s)
             regular == AtMost(total, AtLeast(0, AtMost(e, n) - s))
         IN  total - regular = IF first > e - 1 THEN 0 ELSE (e - 1) - first + 1
<1>1. CASE e <= n
  <2>1. AtMost(e, n) = e /\ AtLeast(s, n) >= n
    BY <1>1 DEF AtMost, AtLeast
  <2>2. AtLeast(0, e - s) \in Int
    BY DEF AtLeast
  <2>3. AtMost(AtLeast(0, e - s), AtLeast(0, e - s)) = AtLeast(0, e - s)
    BY DEF AtMost
  <2>4. AtLeast(s, n) \in Int
    BY DEF AtLeast
  <2>5. AtLeast(s, n) > e - 1
    BY <1>1, <2>1, <2>4
  <2>6. AtLeast(0, e - s) - AtLeast(0, e - s) = 0
    BY <2>2
  <2> QED BY <2>1, <2>3, <2>5, <2>6
<1>2. CASE n < e /\ s <= n
  <2>1. AtMost(e, n) = n /\ AtLeast(s, n) = n
    BY <1>2 DEF AtMost, AtLeast
  <2>2. AtLeast(0, e - s) = e - s /\ AtLeast(0, n - s) = n - s
    BY <1>2 DEF AtLeast
  <2>3. AtMost(e - s, n - s) = n - s
    BY <1>2 DEF AtMost
  <2> QED BY <1>2, <2>1, <2>2, <2>3
<1>3. CASE n < e /\ n < s
  <2>1. AtMost(e, n) = n /\ AtLeast(s, n) = s /\ AtLeast(0, n - s) = 0
    BY <1>3 DEF AtMost, AtLeast
  <2>2. AtMost(AtLeast(0, e - s), 0) = 0
    BY DEF AtMost, AtLeast
  <2>3. AtLeast(0, e - s) = IF s > e - 1 THEN 0 ELSE (e - 1) - s + 1
    BY DEF AtLeast
  <2>4. AtLeast(0, e - s) \in Int
    BY DEF AtLeast
  <2> QED BY <2>1, <2>2, <2>3, <2>4
<1> QED BY <1>1, <1>2, <1>3

\* The tiers of a window are its hours, counted one by one.
LEMMA SplitCounts ==
  ASSUME NEW w \in Window, NEW p \in Policies
  PROVE  /\ Split(w, p).hours = Cardinality(Payable(w, p))
         /\ Split(w, p).late = Cardinality(LateHours(w, p))
         /\ Split(w, p).regular = Split(w, p).hours - Split(w, p).late
<1> DEFINE close == AfterNoon(p.dayEnd)
           night == AfterNoon(p.late)
           end == AtMost(w.end, close)
           total == AtLeast(0, end - w.start)
           regular == AtMost(total, AtLeast(0, AtMost(end, night) - w.start))
<1>1. w.start \in 0..23 /\ w.end \in 0..47 /\ p.late \in Hour /\ p.dayEnd \in Hour
  BY OvertimeAssumption DEF Window, Hour, Policy
<1>2. close \in 12..35 /\ night \in 12..35
  BY <1>1 DEF AfterNoon, Hour
<1>3. SinceNoon(p.dayEnd) = close - 12 /\ SinceNoon(p.late) = night - 12
  BY <1>1, SinceNoonIs
<1> HIDE DEF close, night
<1>4. Payable(w, p) = w.start .. end - 1
  BY <1>1, <1>2, <1>3 DEF Payable, AtMost
<1>5. LateHours(w, p) = AtLeast(w.start, night) .. end - 1
  <2>1. LateHours(w, p) = {h \in w.start .. end - 1 : h - 12 >= night - 12}
    BY <1>3, <1>4 DEF LateHours
  <2>2. end \in Int
    BY <1>1, <1>2 DEF AtMost
  <2> HIDE DEF end
  <2> QED BY <1>1, <1>2, <2>1, <2>2 DEF AtLeast
<1>6. end \in 0..47
  BY <1>1, <1>2 DEF AtMost
<1>7. Split(w, p) = [hours |-> total, regular |-> regular, late |-> total - regular]
  BY DEF Split, close, night
<1> HIDE DEF end
<1>8. Cardinality(w.start .. end - 1) = total
  <2> DEFINE n == Cardinality(w.start .. end - 1)
  <2>1. w.start \in Int /\ end - 1 \in Int
    BY <1>1, <1>6
  <2>2. n = IF w.start > end - 1 THEN 0 ELSE (end - 1) - w.start + 1
    BY <2>1, FS_Interval
  <2> HIDE DEF n
  <2>3. n = total
    BY <1>1, <1>6, <2>2 DEF AtLeast
  <2> QED BY <2>3 DEF n
<1>9. Cardinality(AtLeast(w.start, night) .. end - 1) = total - regular
  <2> DEFINE first == AtLeast(w.start, night)
             n == Cardinality(first .. end - 1)
  <2>1. first \in Int /\ end - 1 \in Int
    BY <1>1, <1>2, <1>6 DEF AtLeast
  <2> HIDE DEF first
  <2>2. n = IF first > end - 1 THEN 0 ELSE (end - 1) - first + 1
    BY <2>1, FS_Interval
  <2> HIDE DEF n
  <2>3. w.start \in Int /\ end \in Int /\ night \in Int
    BY <1>1, <1>2, <1>6
  <2>4. n = total - regular
    BY <2>2, <2>3, LateRest DEF first
  <2> QED BY <2>4 DEF n, first
<1>10. total \in Int /\ regular \in Int
  BY <1>1, <1>2, <1>6 DEF AtLeast, AtMost
<1> HIDE DEF total, regular
<1> QED BY <1>4, <1>5, <1>7, <1>8, <1>9, <1>10

\* An approved row was written by its approval, and by nobody since.
LEMMA FrozenRow ==
  ASSUME OneCaller, OvertimeInv, SerialInv, [Next]_vars, NEW q \in Requests,
         request'[q].status = "APPROVED", request'[q] # request[q]
  PROVE  \E w \in Window, p \in Policies :
           request'[q].window = w /\ request'[q].policy = p /\ request'[q].pays = Split(w, p)
<1>1. PICK c \in Callers :
        Insert(c) \/ Edit(c) \/ Approve(c) \/ Reject(c) \/ Cancel(c)
  BY DEF Next, vars, Create, Begin, Step, File, Initiate, StartApprove, StartEdit, StartReject,
         StartCancel, Load, EditRefused, Decide, Recheck, Abandon, ChangePolicy
<1>2. request \in [Requests -> Request] /\ CallStands(c) /\ CallInv(c) /\ call[c] \in Call
  BY DEF OvertimeInv, TypeOK, SerialInv
<1>3. \A row : Write(c, row) => q = call[c].r /\ request'[q] = row
  BY <1>2 DEF Write
<1>4. CASE Insert(c)
  BY <1>3, <1>4 DEF Insert
<1>5. CASE Edit(c)
  <2>0. PICK w \in Windows :
          \E kept : Write(c, [Corrected(c, Crossing(w)) EXCEPT !.original = kept])
    BY <1>5 DEF Edit
  <2>1. PICK kept : Write(c, [Corrected(c, Crossing(w)) EXCEPT !.original = kept])
    BY <2>0
  <2>2. request[q] \in Request /\ q = call[c].r
    BY <1>2, <1>3, <2>1
  <2>3. request'[q] = [[request[q] EXCEPT !.window = Crossing(w)] EXCEPT !.original = kept]
    BY <1>3, <2>1, <2>2 DEF Corrected
  <2>4. request'[q].status = request[q].status
    BY <2>2, <2>3 DEF Request
  <2> QED BY <1>2, <1>5, <2>2, <2>4 DEF Edit, CallStands
<1>6. CASE Approve(c)
  <2> DEFINE row == call[c].row
  <2>1. /\ row.window = request[q].window /\ row.window \in Window /\ row.policy \in Policies
        /\ request[q] \in Request
        /\ request'[q] = [request[q] EXCEPT !.status = "APPROVED", !.policy = row.policy,
                                            !.pays = Split(row.window, row.policy)]
    BY <1>2, <1>3, <1>6 DEF Approve, CallStands, CallInv, Call, Request
  <2> HIDE DEF row
  <2>2. /\ request'[q].window = row.window /\ request'[q].policy = row.policy
        /\ request'[q].pays = Split(row.window, row.policy)
    BY <2>1 DEF Request
  <2> QED BY <2>1, <2>2
<1>7. CASE Reject(c) \/ Cancel(c)
  <2>1. PICK status \in {"REJECTED", "CANCELLED"} :
          Write(c, [request[call[c].r] EXCEPT !.status = status])
    BY <1>7 DEF Reject, Cancel
  <2>2. request[q] \in Request /\ request'[q] = [request[q] EXCEPT !.status = status]
    BY <1>2, <1>3, <2>1
  <2>3. request'[q].status = status
    BY <2>2 DEF Request
  <2> QED BY <2>3
<1> QED BY <1>1, <1>4, <1>5, <1>6, <1>7

\* Every step of the only call keeps what an approval froze.
LEMMA FrozenStep ==
  OneCaller /\ OvertimeInv /\ SerialInv /\ ApprovedIsFrozen /\ [Next]_vars => ApprovedIsFrozen'
<1> SUFFICES ASSUME OneCaller, OvertimeInv, SerialInv, ApprovedIsFrozen, [Next]_vars,
                    NEW q \in Requests, request'[q].status = "APPROVED"
             PROVE  /\ request'[q].pays.hours = Cardinality(Payable(request'[q].window, request'[q].policy))
                    /\ request'[q].pays.late = Cardinality(LateHours(request'[q].window, request'[q].policy))
                    /\ request'[q].pays.regular = request'[q].pays.hours - request'[q].pays.late
  BY DEF ApprovedIsFrozen
<1>1. CASE request'[q] = request[q]
  BY <1>1 DEF ApprovedIsFrozen
<1>2. CASE request'[q] # request[q]
  BY <1>2, FrozenRow, SplitCounts
<1> QED BY <1>1, <1>2

\* Where calls do not overlap, an approval freezes the hours of its own window,
\* counted one by one, under the policy it names: whatever windows, policies and
\* day ends a company works with.
THEOREM FrozenAsCounted == ASSUME OneCaller PROVE Spec => []ApprovedIsFrozen
<1>1. Init => ApprovedIsFrozen
  BY NothingIsRequest DEF Init, ApprovedIsFrozen
<1>2. OneCaller
  OBVIOUS
<1> QED BY <1>1, <1>2, SerialInit, SerialStep, FrozenStep, Safe, PTL DEF Spec
-----------------------------------------------------------------------------
(* Sums over finite sets *)

\* Finite sets, from smaller to larger ones.
LEMMA SetInduction ==
  ASSUME NEW X, IsFiniteSet(X), NEW G,
         \A s \in SUBSET X : (\A t \in SUBSET s : t # s => t \in G) => s \in G
  PROVE  \A s \in SUBSET X : s \in G
<1> SUFFICES ASSUME (SUBSET X) \ G # {} PROVE FALSE
  OBVIOUS
<1>1. IsWellFoundedOn(StrictSubsetOrdering(X), SUBSET X)
  <2>1. FiniteSubsetsOf(X) = SUBSET X
    BY FS_FiniteSubsetsOfFinite
  <2>2. IsWellFoundedOn(StrictSubsetOrdering(X), FiniteSubsetsOf(X))
    BY FS_StrictSubsetOrderingWellFounded
  <2> QED BY <2>1, <2>2
<1>2. PICK s \in (SUBSET X) \ G : \A t \in (SUBSET X) \ G : <<t, s>> \notin StrictSubsetOrdering(X)
  <2> DEFINE T == (SUBSET X) \ G
  <2>1. T \subseteq SUBSET X /\ T # {}
    OBVIOUS
  <2> HIDE DEF T
  <2>2. \E s \in T : \A t \in T : ~ (<<t, s>> \in StrictSubsetOrdering(X))
    BY <1>1, <2>1, WFMin
  <2> QED BY <2>2 DEF T
<1>3. \A t \in SUBSET s : t # s => t \in G
  BY <1>2 DEF StrictSubsetOrdering
<1> QED BY <1>2, <1>3

\* The sum of f over S, counted element by element.
SumBy(f, S) == MapThenSumSet(LAMBDA x : f[x], S)
Chosen(s) == CHOOSE x \in s : TRUE
IsSum(f, S, g) ==
    g = [s \in SUBSET S |-> IF s = {} THEN 0 ELSE f[Chosen(s)] + g[s \ {Chosen(s)}]]

\* What MapThenSumSet counts.
LEMMA SumByIs == ASSUME NEW f, NEW S PROVE SumBy(f, S) = (CHOOSE g : IsSum(f, S, g))[S]
  BY DEF SumBy, MapThenSumSet, MapThenFoldSet, IsSum, Chosen

\* There is one way to count.
LEMMA SumUnique ==
  ASSUME NEW f, NEW S, IsFiniteSet(S), NEW g, IsSum(f, S, g), NEW h, IsSum(f, S, h)
  PROVE  g[S] = h[S]
<1> DEFINE G == {s \in SUBSET S : g[s] = h[s]}
<1>1. ASSUME NEW s \in SUBSET S, \A t \in SUBSET s : t # s => t \in G
      PROVE  s \in G
  <2>1. CASE s = {}
    BY <2>1 DEF IsSum
  <2>2. CASE s # {}
    <3>1. Chosen(s) \in s
      BY <2>2 DEF Chosen
    <3>2. s \ {Chosen(s)} \in G
      BY <1>1, <3>1
    <3>3. /\ g[s] = f[Chosen(s)] + g[s \ {Chosen(s)}]
          /\ h[s] = f[Chosen(s)] + h[s \ {Chosen(s)}]
      BY <2>2 DEF IsSum
    <3> QED BY <3>2, <3>3
  <2> QED BY <2>1, <2>2
<1> HIDE DEF G
<1>2. \A s \in SUBSET S : s \in G
  BY <1>1, SetInduction
<1> QED BY <1>2 DEF G

\* It counts the elements it chooses.
LEMMA SumRec ==
  ASSUME NEW f, NEW X, IsFiniteSet(X)
  PROVE  \A S \in SUBSET X :
           SumBy(f, S) = IF S = {} THEN 0 ELSE f[Chosen(S)] + SumBy(f, S \ {Chosen(S)})
<1> DEFINE Counted(S) == IF S = {} THEN 0 ELSE f[Chosen(S)] + SumBy(f, S \ {Chosen(S)})
           G == {S \in SUBSET X : SumBy(f, S) = Counted(S)}
<1>1. ASSUME NEW S \in SUBSET X, \A t \in SUBSET S : t # S => t \in G
      PROVE  S \in G
  <2> DEFINE g == [s \in SUBSET S |-> IF s = S THEN Counted(S) ELSE SumBy(f, s)]
  <2>1. ASSUME NEW s \in SUBSET S
        PROVE  g[s] = IF s = {} THEN 0 ELSE f[Chosen(s)] + g[s \ {Chosen(s)}]
    <3>0. s # {} => Chosen(s) \in s
      BY DEF Chosen
    <3>1. s # {} => g[s \ {Chosen(s)}] = SumBy(f, s \ {Chosen(s)})
      BY <3>0
    <3>2. g[s] = Counted(s)
      BY <1>1
    <3> HIDE DEF g
    <3> QED BY <3>1, <3>2
  <2>2. IsSum(f, S, g)
    BY <2>1 DEF IsSum
  <2>3. g[S] = Counted(S)
    OBVIOUS
  <2> HIDE DEF g
  <2>4. IsSum(f, S, CHOOSE h : IsSum(f, S, h))
    BY <2>2
  <2>5. (CHOOSE h : IsSum(f, S, h))[S] = g[S]
    BY <2>2, <2>4, SumUnique, FS_Subset
  <2> QED BY <2>3, <2>5, SumByIs
<1> HIDE DEF G
<1>2. \A S \in SUBSET X : S \in G
  BY <1>1, SetInduction
<1> QED BY <1>2 DEF G

\* Nothing to count, and one element more, whichever.
LEMMA SumEmpty == ASSUME NEW f PROVE SumBy(f, {}) = 0
  BY SumRec, FS_EmptySet

\* One element more adds its number, whichever element the count begins with.
LEMMA SumAdd ==
  ASSUME NEW X, IsFiniteSet(X), NEW f \in [X -> Nat]
  PROVE  \A S \in SUBSET X :
           /\ SumBy(f, S) \in Nat
           /\ \A x \in S : SumBy(f, S) = f[x] + SumBy(f, S \ {x})
<1> DEFINE G == {S \in SUBSET X : /\ SumBy(f, S) \in Nat
                                  /\ \A x \in S : SumBy(f, S) = f[x] + SumBy(f, S \ {x})}
<1>1. ASSUME NEW S \in SUBSET X, \A t \in SUBSET S : t # S => t \in G
      PROVE  S \in G
  <2>1. CASE S = {}
    BY <2>1, SumEmpty
  <2>2. CASE S # {}
    <3> DEFINE y == Chosen(S)
    <3>1. y \in S
      BY <2>2 DEF Chosen
    <3>2. SumBy(f, S) = f[y] + SumBy(f, S \ {y})
      BY <2>2, SumRec
    <3> HIDE DEF y
    <3>3. \A x \in S : S \ {x} \in G
      BY <1>1
    <3>4. SumBy(f, S) \in Nat
      BY <3>1, <3>2, <3>3
    <3>5. ASSUME NEW x \in S, x # y PROVE SumBy(f, S) = f[x] + SumBy(f, S \ {x})
      <4>1. SumBy(f, S \ {y}) = f[x] + SumBy(f, (S \ {y}) \ {x})
        BY <3>1, <3>3, <3>5
      <4>2. SumBy(f, S \ {x}) = f[y] + SumBy(f, (S \ {x}) \ {y})
        BY <3>1, <3>3, <3>5
      <4>3. (S \ {y}) \ {x} = (S \ {x}) \ {y}
        OBVIOUS
      <4>4. (S \ {y}) \ {x} \in G
        BY <1>1
      <4>5. /\ f[x] \in Nat /\ f[y] \in Nat /\ SumBy(f, (S \ {y}) \ {x}) \in Nat
        BY <3>1, <4>4
      <4> QED BY <3>2, <4>1, <4>2, <4>3, <4>5
    <3> QED BY <3>2, <3>4, <3>5
  <2> QED BY <2>1, <2>2
<1> HIDE DEF G
<1>2. \A S \in SUBSET X : S \in G
  BY <1>1, SetInduction
<1> QED BY <1>2 DEF G

\* A part is no more than the whole.
LEMMA SumSubset ==
  ASSUME NEW X, IsFiniteSet(X), NEW f \in [X -> Nat]
  PROVE  \A S, T \in SUBSET X : S \subseteq T => SumBy(f, S) <= SumBy(f, T)
<1> DEFINE G == {T \in SUBSET X : \A S \in SUBSET T : SumBy(f, S) <= SumBy(f, T)}
<1>1. ASSUME NEW T \in SUBSET X, \A t \in SUBSET T : t # T => t \in G
      PROVE  T \in G
  <2>1. ASSUME NEW S \in SUBSET T, S # T PROVE SumBy(f, S) <= SumBy(f, T)
    <3>1. PICK x \in T : x \notin S
      BY <2>1
    <3>2. T \ {x} \in G
      BY <1>1
    <3>3. SumBy(f, S) <= SumBy(f, T \ {x})
      BY <3>1, <3>2
    <3>4. SumBy(f, T) = f[x] + SumBy(f, T \ {x}) /\ f[x] \in Nat
      BY SumAdd
    <3>5. SumBy(f, S) \in Nat /\ SumBy(f, T \ {x}) \in Nat
      BY SumAdd
    <3> QED BY <3>3, <3>4, <3>5
  <2>2. SumBy(f, T) \in Nat
    BY SumAdd
  <2> QED BY <2>1, <2>2
<1> HIDE DEF G
<1>2. \A T \in SUBSET X : T \in G
  BY <1>1, SetInduction
<1> QED BY <1>2 DEF G

\* The same numbers have the same sum.
LEMMA SumSame ==
  ASSUME NEW f, NEW g, NEW S, \A x \in S : f[x] = g[x]
  PROVE  SumBy(f, S) = SumBy(g, S)
<1>1. \A h : IsSum(f, S, h) <=> IsSum(g, S, h)
  <2> SUFFICES ASSUME NEW h, NEW s \in SUBSET S, s # {} PROVE f[Chosen(s)] = g[Chosen(s)]
    BY DEF IsSum
  <2> QED BY DEF Chosen
<1>2. (CHOOSE h : IsSum(f, S, h)) = (CHOOSE h : IsSum(g, S, h))
  BY <1>1
<1> QED BY <1>2, SumByIs

\* The hours of the requests, as a function.
PaidHours == [r \in Requests |-> request[r].pays.hours]

\* The hours the month is compared with are such a sum,
LEMMA HoursAreSum ==
  ASSUME NEW S \in SUBSET Requests
  PROVE  HoursOf(S) = SumBy(PaidHours, S)
  BY ZenonT(60) DEF HoursOf, SumBy, MapThenSumSet, MapThenFoldSet, PaidHours

\* in the next state too,
LEMMA HoursAreSumNext ==
  ASSUME NEW S \in SUBSET Requests
  PROVE  HoursOf(S)' = SumBy(PaidHours', S)
  BY ZenonT(60) DEF HoursOf, SumBy, MapThenSumSet, MapThenFoldSet, PaidHours

\* of natural numbers.
LEMMA HoursAreNat == TypeOK => PaidHours \in [Requests -> Nat]
<1> SUFFICES ASSUME TypeOK, NEW r \in Requests PROVE request[r].pays.hours \in Nat
  BY DEF PaidHours
<1>1. request[r] \in Request
  BY DEF TypeOK
<1>2. request[r].pays \in Tiers
  BY <1>1 DEF Request
<1> QED BY <1>2 DEF Tiers

\* Smaller numbers have a smaller sum.
LEMMA SumLess ==
  ASSUME NEW X, IsFiniteSet(X), NEW f \in [X -> Nat], NEW g \in [X -> Nat]
  PROVE  \A S \in SUBSET X : (\A x \in S : f[x] <= g[x]) => SumBy(f, S) <= SumBy(g, S)
<1> DEFINE G == {S \in SUBSET X : (\A x \in S : f[x] <= g[x]) => SumBy(f, S) <= SumBy(g, S)}
<1>1. ASSUME NEW S \in SUBSET X, \A t \in SUBSET S : t # S => t \in G
      PROVE  S \in G
  <2>1. CASE S = {}
    BY <2>1, SumEmpty
  <2>2. ASSUME NEW y \in S, \A x \in S : f[x] <= g[x]
        PROVE  SumBy(f, S) <= SumBy(g, S)
    <3>1. S \ {y} \in G
      BY <1>1
    <3>2. SumBy(f, S \ {y}) <= SumBy(g, S \ {y})
      BY <2>2, <3>1
    <3>3. SumBy(f, S) = f[y] + SumBy(f, S \ {y}) /\ SumBy(g, S) = g[y] + SumBy(g, S \ {y})
      BY SumAdd
    <3>4. SumBy(f, S \ {y}) \in Nat /\ SumBy(g, S \ {y}) \in Nat
      BY SumAdd
    <3>5. f[y] \in Nat /\ g[y] \in Nat /\ f[y] <= g[y]
      BY <2>2
    <3> QED BY <3>2, <3>3, <3>4, <3>5
  <2> QED BY <2>1, <2>2
<1> HIDE DEF G
<1>2. \A S \in SUBSET X : S \in G
  BY <1>1, SetInduction
<1> QED BY <1>2 DEF G

-----------------------------------------------------------------------------
(* The limit of the month *)

\* What a request paid when it was filed.
FiledHours(r) == Split(filed[r].window, filed[r].policy).hours

\* A request that waits pays what it paid when it was filed, and the one about to
\* be inserted was checked, with some slack, against all the others of the month.
MonthInv ==
    /\ KeptWithinMonth
    /\ \A r \in Requests : request[r].status = "PENDING" => request[r].pays.hours = FiledHours(r)
    /\ \A c \in Callers : call[c].pc = "insert" =>
         OtherHours(call[c].r) + Split(call[c].to, call[c].row.policy).hours
           <= call[c].row.policy.maxMonth + Slack

\* A window as entered is never shorter than what it pays, under any policy.
LEMMA EnteredCoversPaid ==
  ASSUME NEW w \in Windows, NEW p \in Policies
  PROVE  /\ Split(Crossing(w), p).hours \in Nat
         /\ Crossing(w).end - w.start \in Nat
         /\ Split(Crossing(w), p).hours <= Crossing(w).end - w.start
<1>1. w \in [start : Hour, end : Hour] /\ p.dayEnd \in 0..23
  BY OvertimeAssumption DEF Hour, Policy
<1>2. w.start \in 0..23 /\ w.end \in 0..23
  BY <1>1 DEF Hour
<1> DEFINE v == Crossing(w)
<1>3. v.start = w.start /\ v.start \in 0..23 /\ v.end \in 0..47 /\ v.start < v.end
  <2>1. CASE w.end <= w.start
    <3>1. v.start = w.start /\ v.end = w.end + 24
      BY <1>1, <2>1 DEF Crossing
    <3> QED BY <1>2, <2>1, <3>1
  <2>2. CASE ~(w.end <= w.start)
    <3>1. v = w
      BY <2>2 DEF Crossing
    <3> QED BY <1>2, <2>2, <3>1
  <2> QED BY <2>1, <2>2
<1> HIDE DEF v
<1> DEFINE end == AtMost(v.end, AfterNoon(p.dayEnd))
           n == AtLeast(0, end - v.start)
<1>4. end \in 0..47 /\ end <= v.end
  <2>1. AfterNoon(p.dayEnd) \in 0..47
    BY <1>1 DEF AfterNoon
  <2> QED BY <1>3, <2>1 DEF AtMost
<1>5. Split(v, p).hours = n
  BY DEF Split
<1> HIDE DEF end
<1>6. PICK a \in 0..23, b \in 0..47 : a = v.start /\ b = v.end /\ a < b
  BY <1>3
<1>7. n \in Nat /\ n <= b - a
  <2>1. CASE end < a
    <3>1. n = 0
      BY <1>4, <1>6, <2>1 DEF AtLeast
    <3> QED BY <1>6, <3>1
  <2>2. CASE end >= a
    <3>1. n = end - a
      BY <1>4, <1>6, <2>2 DEF AtLeast
    <3> QED BY <1>4, <1>6, <2>2, <3>1
  <2> QED BY <1>4, <1>6, <2>1, <2>2
<1>8. b - a \in Nat
  BY <1>6
<1> QED BY <1>3, <1>5, <1>6, <1>7, <1>8 DEF v

\* The hours of the rows are natural numbers, before and after a step.
LEMMA PaidAreNat ==
  ASSUME OvertimeInv, OvertimeInv'
  PROVE  PaidHours \in [Requests -> Nat] /\ PaidHours' \in [Requests -> Nat]
<1>1. \A q \in Requests : request'[q] \in Request
  BY DEF OvertimeInv, TypeOK
<1>2. \A q \in Requests : request'[q].pays.hours \in Nat
  BY <1>1 DEF Request, Tiers
<1>3. PaidHours' \in [Requests -> Nat]
  BY <1>2 DEF PaidHours
<1> QED BY <1>3, HoursAreNat DEF OvertimeInv

\* What a step other than an insertion does to a row: nothing, or another window
\* for a row that waits, or its end.
LEMMA RowMoves ==
  ASSUME OneCaller, OvertimeInv, SerialInv, MonthInv, [Next]_vars, ~\E c \in Callers : Insert(c),
         NEW q \in Requests, request'[q] # request[q]
  PROVE  /\ request[q].status = "PENDING"
         /\ request'[q].status = "PENDING" => request'[q].pays = request[q].pays
         /\ request'[q].status \in {"PENDING", "APPROVED", "REJECTED", "CANCELLED"}
<1>1. PICK c \in Callers : Edit(c) \/ Approve(c) \/ Reject(c) \/ Cancel(c)
  BY DEF Next, vars, Create, Begin, Step, File, Initiate, StartApprove, StartEdit, StartReject,
         StartCancel, Load, EditRefused, Decide, Recheck, Abandon, ChangePolicy
<1>2. request \in [Requests -> Request] /\ request[q] \in Request
  BY DEF OvertimeInv, TypeOK
<1>3. \A row : Write(c, row) => q = call[c].r /\ request'[q] = row
  BY <1>2 DEF Write
<1>4. CallStands(c)
  BY DEF SerialInv
<1>5. CASE Edit(c)
  <2>0. PICK w \in Windows :
          \E kept : Write(c, [Corrected(c, Crossing(w)) EXCEPT !.original = kept])
    BY <1>5 DEF Edit
  <2>1. PICK kept : Write(c, [Corrected(c, Crossing(w)) EXCEPT !.original = kept])
    BY <2>0
  <2>2. q = call[c].r
    BY <1>3, <2>1
  <2>3. request'[q] = [[request[q] EXCEPT !.window = Crossing(w)] EXCEPT !.original = kept]
    BY <1>3, <2>1, <2>2 DEF Corrected
  <2>4. request'[q].status = request[q].status /\ request'[q].pays = request[q].pays
    BY <1>2, <2>3 DEF Request
  <2>5. request[q].status = "PENDING"
    BY <1>4, <1>5, <2>2 DEF Edit, CallStands
  <2> QED BY <2>4, <2>5
<1>6. CASE Approve(c)
  <2> DEFINE pays == Split(call[c].row.window, call[c].row.policy)
             rule == call[c].row.policy
  <2>1. /\ q = call[c].r /\ request[q].status = "PENDING"
        /\ request'[q] = [request[q] EXCEPT !.status = "APPROVED", !.policy = rule, !.pays = pays]
    BY <1>3, <1>4, <1>6 DEF Approve, CallStands
  <2> HIDE DEF pays, rule
  <2>2. request'[q].status = "APPROVED"
    BY <1>2, <2>1 DEF Request
  <2> QED BY <2>1, <2>2
<1>7. CASE Reject(c) \/ Cancel(c)
  <2>1. PICK status \in {"REJECTED", "CANCELLED"} :
          Write(c, [request[call[c].r] EXCEPT !.status = status])
    BY <1>7 DEF Reject, Cancel
  <2>2. q = call[c].r /\ request'[q] = [request[q] EXCEPT !.status = status]
    BY <1>3, <2>1
  <2>3. request'[q].status = status
    BY <1>2, <2>2 DEF Request
  <2>4. request[q].status = "PENDING"
    BY <1>4, <1>7, <2>2 DEF Reject, Cancel, CallStands
  <2> QED BY <2>3, <2>4
<1> QED BY <1>1, <1>5, <1>6, <1>7

\* Only an insertion files.
LEMMA FiledStands ==
  ASSUME [Next]_vars, ~\E c \in Callers : Insert(c)
  PROVE  filed' = filed
  BY DEF Next, vars, Create, Begin, Step, File, Initiate, StartApprove, StartEdit, StartReject,
         StartCancel, Load, Edit, EditRefused, Decide, Recheck, Approve, Reject, Cancel, Abandon,
         ChangePolicy

\* Without a new request, those that keep to their hours were among those that
\* did, and pay no more.
LEMMA MonthShrinks ==
  ASSUME OneCaller, IsFiniteSet(Requests), OvertimeInv, OvertimeInv', SerialInv, MonthInv,
         [Next]_vars, ~\E c \in Callers : Insert(c)
  PROVE  KeptWithinMonth'
<1>1. filed' = filed
  BY FiledStands
<1>2. ASSUME NEW q \in Kept'
      PROVE  q \in Kept /\ request'[q].pays.hours <= request[q].pays.hours
  <2>1. q \in Requests /\ Live(request'[q].status) /\ request'[q].pays.hours <= FiledHours(q)
    BY <1>1 DEF Kept, FiledHours
  <2>2. request[q].pays.hours \in Nat
    BY HoursAreNat, <2>1 DEF PaidHours, OvertimeInv
  <2>3. CASE request'[q] = request[q]
    BY <2>1, <2>2, <2>3 DEF Kept, FiledHours
  <2>4. CASE request'[q] # request[q]
    <3>1. request[q].status = "PENDING" /\ request[q].pays.hours = FiledHours(q)
      BY <2>1, <2>4, RowMoves DEF MonthInv
    <3> QED BY <2>1, <2>2, <3>1 DEF Kept, FiledHours, Live
  <2> QED BY <2>3, <2>4
<1>3. SUFFICES ASSUME NEW S \in SUBSET Kept', S # {}
               PROVE  \E r \in S : HoursOf(S)' <= filed[r].policy.maxMonth + Slack
  BY <1>1 DEF KeptWithinMonth
<1>4. S \in SUBSET Kept /\ S \in SUBSET Requests
  BY <1>2 DEF Kept
<1>5. PICK r \in S : HoursOf(S) <= filed[r].policy.maxMonth + Slack
  BY <1>3, <1>4 DEF MonthInv, KeptWithinMonth
<1>6. HoursOf(S) = SumBy(PaidHours, S) /\ HoursOf(S)' = SumBy(PaidHours', S)
  BY <1>4, HoursAreSum, HoursAreSumNext
<1>7. PaidHours \in [Requests -> Nat] /\ PaidHours' \in [Requests -> Nat]
  BY PaidAreNat
<1>8. \A x \in S : PaidHours'[x] <= PaidHours[x]
  BY <1>2, <1>4 DEF PaidHours
<1>9. SumBy(PaidHours', S) <= SumBy(PaidHours, S)
  BY <1>4, <1>7, <1>8, SumLess
<1>10. SumBy(PaidHours', S) \in Nat /\ SumBy(PaidHours, S) \in Nat
  BY <1>4, <1>7, SumAdd
<1>11. filed[r].policy.maxMonth + Slack \in Nat
  BY <1>4, OvertimeAssumption DEF OvertimeInv, TypeOK, Policy
<1>12. HoursOf(S)' <= filed[r].policy.maxMonth + Slack
  BY <1>5, <1>6, <1>9, <1>10, <1>11
<1> QED BY <1>12

\* The new request was checked against all the others of the month, those that
\* were corrected among them.
LEMMA MonthInsert ==
  ASSUME OneCaller, IsFiniteSet(Requests), OvertimeInv, OvertimeInv', MonthInv, NEW c \in Callers,
         Insert(c)
  PROVE  KeptWithinMonth'
<1> DEFINE rule == call[c].row.policy
           pays == Split(call[c].to, rule)
<1>0. PICK r \in Requests : r = call[c].r
  BY DEF OvertimeInv, TypeOK, Call
<1>1. /\ request \in [Requests -> Request] /\ rule \in Policies
      /\ filed \in [Requests -> [window : Window \union {None}, policy : Policies]]
      /\ OtherHours(r) + pays.hours <= rule.maxMonth + Slack
  BY <1>0 DEF Insert, OvertimeInv, TypeOK, Call, Request, MonthInv
<1>2. /\ request'[r].pays = pays /\ filed'[r].policy = rule
      /\ \A q \in Requests \ {r} : request'[q] = request[q] /\ filed'[q] = filed[q]
  BY <1>0, <1>1 DEF Insert, Write
<1> HIDE DEF pays, rule
<1>3. PaidHours \in [Requests -> Nat] /\ PaidHours' \in [Requests -> Nat]
  BY PaidAreNat
<1>4. SUFFICES ASSUME NEW S \in SUBSET Kept', S # {}
               PROVE  \E q \in S : HoursOf(S)' <= filed'[q].policy.maxMonth + Slack
  BY DEF KeptWithinMonth
<1>5. S \in SUBSET Requests /\ HoursOf(S)' = SumBy(PaidHours', S)
  <2>1. S \in SUBSET Requests
    BY DEF Kept
  <2> QED BY <2>1, HoursAreSumNext
<1>6. SumBy(PaidHours', S \ {r}) = SumBy(PaidHours, S \ {r})
  <2>1. \A q \in S \ {r} : PaidHours'[q] = PaidHours[q]
    BY <1>2, <1>5 DEF PaidHours
  <2> QED BY <2>1, SumSame
<1>7. CASE r \notin S
  <2>1. S \in SUBSET Kept
    BY <1>2, <1>5, <1>7 DEF Kept
  <2>2. PICK q \in S : HoursOf(S) <= filed[q].policy.maxMonth + Slack
    BY <1>4, <2>1 DEF MonthInv, KeptWithinMonth
  <2>3. S \ {r} = S
    BY <1>7
  <2>4. HoursOf(S)' = HoursOf(S)
    BY <1>5, <1>6, <2>3, HoursAreSum
  <2>5. filed'[q] = filed[q]
    BY <1>2, <1>5, <1>7
  <2> QED BY <2>2, <2>4, <2>5
<1>8. CASE r \in S
  <2> DEFINE others == {q \in Requests : q # r /\ Live(request[q].status)}
  <2>1. S \ {r} \subseteq others
    BY <1>2, <1>5 DEF Kept
  <2>2. SumBy(PaidHours', S) = PaidHours'[r] + SumBy(PaidHours', S \ {r})
    BY <1>3, <1>5, <1>8, SumAdd
  <2>3. SumBy(PaidHours, S \ {r}) <= SumBy(PaidHours, others)
    BY <1>3, <2>1, SumSubset
  <2>4. SumBy(PaidHours, S \ {r}) \in Nat /\ SumBy(PaidHours, others) \in Nat
    BY <1>3, <1>5, SumAdd
  <2>5. OtherHours(r) = SumBy(PaidHours, others)
    BY HoursAreSum DEF OtherHours
  <2>6. PaidHours'[r] = pays.hours /\ PaidHours'[r] \in Nat
    BY <1>2, <1>3 DEF PaidHours
  <2>7. rule.maxMonth + Slack \in Nat
    BY <1>1, OvertimeAssumption DEF Policy
  <2>8. HoursOf(S)' <= rule.maxMonth + Slack
    BY <1>1, <1>5, <1>6, <2>2, <2>3, <2>4, <2>5, <2>6, <2>7
  <2> QED BY <1>2, <1>8, <2>8
<1> QED BY <1>7, <1>8

\* A row that waits pays what was filed.
LEMMA MonthRows ==
  ASSUME OneCaller, OvertimeInv, SerialInv, MonthInv, [Next]_vars,
         NEW q \in Requests, request'[q].status = "PENDING"
  PROVE  request'[q].pays.hours = FiledHours(q)'
<1>1. /\ request \in [Requests -> Request]
      /\ filed \in [Requests -> [window : Window \union {None}, policy : Policies]]
  BY DEF OvertimeInv, TypeOK
<1>2. CASE ~\E c \in Callers : Insert(c)
  <2>1. FiledHours(q)' = FiledHours(q)
    BY <1>2, FiledStands DEF FiledHours
  <2>2. request[q].status = "PENDING" /\ request'[q].pays = request[q].pays
    BY <1>2, RowMoves
  <2> QED BY <2>1, <2>2 DEF MonthInv
<1>3. ASSUME NEW c \in Callers, Insert(c) PROVE request'[q].pays.hours = FiledHours(q)'
  <2>1. CASE q = call[c].r
    <3>1. request'[q].pays = Split(call[c].to, call[c].row.policy)
      BY <1>1, <1>3, <2>1 DEF Insert, Write
    <3>2. filed'[q] = [window |-> call[c].to, policy |-> call[c].row.policy]
      BY <1>1, <1>3, <2>1 DEF Insert
    <3> QED BY <3>1, <3>2 DEF FiledHours
  <2>2. CASE q # call[c].r
    <3>1. request'[q] = request[q] /\ filed'[q] = filed[q]
      BY <1>1, <1>3, <2>2 DEF Insert, Write
    <3> QED BY <3>1 DEF MonthInv, FiledHours
  <2> QED BY <2>1, <2>2
<1> QED BY <1>2, <1>3

\* What create() checks before it inserts.
LEMMA MonthCalls ==
  ASSUME OneCaller, IsFiniteSet(Requests), OvertimeInv, MonthInv, [Next]_vars, NEW c \in Callers,
         call'[c].pc = "insert"
  PROVE  (OtherHours(call[c].r) + Split(call[c].to, call[c].row.policy).hours
            <= call[c].row.policy.maxMonth + Slack)'
<1>1. /\ call \in [Callers -> Call] /\ request \in [Requests -> Request] /\ policy \in Policies
      /\ Slack \in Nat
  BY OvertimeAssumption DEF OvertimeInv, TypeOK
<1>2. CASE UNCHANGED <<request, call>>
  <2>1. OtherHours(call[c].r)' = OtherHours(call[c].r)
    BY <1>2 DEF OtherHours, HoursOf, MapThenSumSet, MapThenFoldSet
  <2> QED BY <1>2, <2>1 DEF MonthInv
<1>3. ASSUME NEW d \in Callers, NEW r \in Requests, NEW w \in Windows, File(d, r, w)
      PROVE  (OtherHours(call[c].r) + Split(call[c].to, call[c].row.policy).hours
                <= call[c].row.policy.maxMonth + Slack)'
  <2>1. c = d
    BY DEF OneCaller
  <2>2. /\ call'[c].r = r /\ call'[c].to = Crossing(w) /\ UNCHANGED request
        /\ call'[c].row = [Nothing EXCEPT !.policy = policy]
    BY <1>1, <1>3, <2>1, IdleIsCall DEF File, Call
  <2>3. call'[c].row.policy = policy
    BY <2>2, NothingIsRequest DEF Request
  <2> DEFINE entered == Crossing(w).end - w.start
             pays == Split(Crossing(w), policy).hours
  <2>4. entered \in Nat /\ pays \in Nat /\ pays <= entered
    BY <1>1, EnteredCoversPaid
  <2>5. PICK stated \in entered - Slack .. entered + Slack : Allowed(r, stated)
    BY <1>3 DEF File
  <2>6. OtherHours(r) + stated <= policy.maxMonth
    BY <2>5 DEF Allowed
  <2> HIDE DEF entered, pays
  <2>7. OtherHours(r) \in Nat /\ policy.maxMonth \in Nat
    BY <1>1, HoursAreSum, HoursAreNat, SumAdd, OvertimeAssumption DEF OtherHours, OvertimeInv, Policy
  <2>8. OtherHours(r) + pays <= policy.maxMonth + Slack
    BY <1>1, <2>4, <2>5, <2>6, <2>7
  <2>9. OtherHours(call[c].r)' = OtherHours(r)
    <3>1. PICK S \in SUBSET Requests : S = {q \in Requests : q # r /\ Live(request[q].status)}
      OBVIOUS
    <3>2. S = {q \in Requests : q # call[c].r /\ Live(request[q].status)}'
      BY <2>2, <3>1
    <3>3. OtherHours(r) = HoursOf(S)
      BY <3>1 DEF OtherHours
    <3>4. OtherHours(call[c].r)' = HoursOf(S)'
      BY <3>2 DEF OtherHours, HoursOf, MapThenSumSet, MapThenFoldSet
    <3>5. PaidHours' = PaidHours
      BY <2>2 DEF PaidHours
    <3> QED BY <3>3, <3>4, <3>5, HoursAreSum, HoursAreSumNext
  <2> QED BY <2>2, <2>3, <2>8, <2>9 DEF pays
<1>4. ASSUME NEW d \in Callers,
             Insert(d) \/ Initiate(d) \/ Begin(d) \/ Step(d)
      PROVE  FALSE
  <2>1. c = d
    BY DEF OneCaller
  <2>2. \A pc \in PCs \ {"insert"} : ~Goto(d, pc)
    BY <1>1, <2>1, GotoEffect
  <2>3. ~End(d)
    BY <1>1, <2>1, EndEffect
  <2>4. CASE Insert(d) \/ Initiate(d) \/ Edit(d) \/ EditRefused(d) \/ Decide(d) \/ Approve(d)
             \/ Reject(d) \/ Cancel(d) \/ Abandon(d)
    BY <2>2, <2>3, <2>4
       DEF Insert, Initiate, Edit, EditRefused, Decide, Approve, Reject, Cancel, Abandon, PCs
  <2>5. CASE Begin(d)
    <3>1. PICK r \in Requests, op \in AllDuties, pc \in {"decide", "edit", "cancel"} : Load(d, r, op, pc)
      BY <2>5 DEF Begin, StartApprove, StartEdit, StartReject, StartCancel, AllDuties
    <3>2. call'[d].pc = pc
      BY <1>1, <3>1, IdleIsCall DEF Load, Call
    <3> QED BY <2>1, <3>2
  <2>6. CASE Recheck(d)
    <3>1. End(d) \/ call'[d].pc = "approve"
      BY <1>1, <2>6 DEF Recheck, Call
    <3> QED BY <2>1, <2>3, <3>1
  <2> QED BY <1>4, <2>4, <2>5, <2>6 DEF Step
<1> QED BY <1>2, <1>3, <1>4 DEF Next, Create, ChangePolicy, vars

\* Every step of the only call keeps the month.
LEMMA MonthStep ==
  OneCaller /\ IsFiniteSet(Requests) /\ OvertimeInv /\ OvertimeInv' /\ SerialInv /\ MonthInv
    /\ [Next]_vars => MonthInv'
<1> SUFFICES ASSUME OneCaller, IsFiniteSet(Requests), OvertimeInv, OvertimeInv', SerialInv, MonthInv,
                    [Next]_vars
             PROVE  MonthInv'
  OBVIOUS
<1>1. KeptWithinMonth'
  BY MonthInsert, MonthShrinks
<1>2. \A q \in Requests : request'[q].status = "PENDING" => request'[q].pays.hours = FiledHours(q)'
  BY MonthRows
<1>3. \A c \in Callers : call'[c].pc = "insert" =>
        (OtherHours(call[c].r) + Split(call[c].to, call[c].row.policy).hours
           <= call[c].row.policy.maxMonth + Slack)'
  BY MonthCalls
<1> QED BY <1>1, <1>2, <1>3 DEF MonthInv

\* A month without requests pays nothing.
LEMMA MonthInit == Init => MonthInv
<1> SUFFICES ASSUME Init PROVE MonthInv
  OBVIOUS
<1>1. \A r \in Requests : request[r].status = "NONE"
  BY NothingIsRequest DEF Init
<1>2. Kept = {}
  BY <1>1 DEF Kept, Live
<1>3. \A c \in Callers : call[c].pc = "idle"
  BY IdleIsCall DEF Init
<1> QED BY <1>1, <1>2, <1>3 DEF MonthInv, KeptWithinMonth

\* Where calls do not overlap, any requests that pay no more than when they were
\* filed are within the month of one of the policies they were filed under: however
\* many requests there are, and whatever rules their policies had, had later, or
\* will have.
THEOREM MonthKept ==
  ASSUME OneCaller, IsFiniteSet(Requests) PROVE Spec => []KeptWithinMonth
<1>1. MonthInv => KeptWithinMonth
  BY DEF MonthInv
<1>2. OneCaller /\ IsFiniteSet(Requests)
  OBVIOUS
<1> QED BY <1>1, <1>2, SerialInit, SerialStep, MonthInit, MonthStep, Safe, PTL DEF Spec
=============================================================================
