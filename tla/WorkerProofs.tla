----------------------------- MODULE WorkerProofs -----------------------------
(***************************************************************************)
(* The worker keeps its session in order whatever its host does, for any   *)
(* identifiers, lines, limits, reports of the device and pipe capacities.  *)
(*                                                                         *)
(* What it still has to write is at all times what its own validator waits *)
(* for (Due).  That is shown of the answers when they are made, and of the *)
(* rest of them when the first has been written.                           *)
(***************************************************************************)
EXTENDS AnyHost, WorkerSession, SessionRulesProofs, SequenceTheorems, FiniteSetTheorems

\* All that is written can be taken apart by the rules.
LEMMA WrittenIsReadable == \A m \in Written : Readable(m)
  BY DEF Written, DevicesTo, Readable, EventTypes

\* The fields of what is written.
LEMMA WrittenFields ==
  ASSUME NEW m \in Written
  PROVE  /\ m.type \in {"hello_ack", "devices", "started", "enroll_progress", "enrolled",
                       "match_result", "completed", "error"}
         /\ m.type = "error" => m.req \in AnyId \cup {NoId} /\ m.op \in AnyId \cup {NoId} /\ m.data \in Data
         /\ m.type = "enroll_progress" => m.completed \in Stages /\ m.total \in Stages
         /\ m.type = "devices" =>
              m.roster \in Rosters /\ m.data = IF FitList(m.roster) THEN "valid" ELSE "invalid"
<1>1. \A r \in AnyId, roster \in Rosters :
        LET d == DevicesTo(r, roster) IN
        d.type = "devices" /\ d.roster = roster
          /\ d.data = IF FitList(roster) THEN "valid" ELSE "invalid"
  BY DEF DevicesTo
<1>2. CASE m \in {DevicesTo(r, roster) : r \in AnyId, roster \in Rosters}
  BY <1>1, <1>2
<1>3. CASE m \notin {DevicesTo(r, roster) : r \in AnyId, roster \in Rosters}
  BY <1>3 DEF Written
<1>. QED BY <1>2, <1>3

\* What is left of a sequence of answers once the first is written.
LEMMA Rest1 ==
  ASSUME NEW p \in Seq(Written), p # <<>>
  PROVE  /\ Len(p) \in Nat \ {0} /\ Head(p) = p[1] /\ Head(p) \in Written
         /\ Tail(p) \in Seq(Written) /\ Len(Tail(p)) = Len(p) - 1
         /\ \A k \in 1..(Len(p) - 1) : Tail(p)[k] = p[k + 1]
         /\ Tail(p) = <<>> <=> Len(p) = 1
         /\ \A k \in 1..Len(p) : p[k] \in Written
<1>1. /\ Tail(p) \in Seq(Written) /\ Len(Tail(p)) = Len(p) - 1
      /\ \A k \in 1..Len(Tail(p)) : Tail(p)[k] = p[k + 1]
  BY HeadTailProperties
<1>2. Len(p) \in Nat \ {0} /\ Head(p) = p[1] /\ \A k \in 1..Len(p) : p[k] \in Written
  BY EmptySeq, ElementOfSeq, HeadTailProperties
<1>3. Tail(p) = <<>> <=> Len(p) = 1
  BY <1>1, <1>2, EmptySeq
<1>. QED BY <1>1, <1>2, <1>3
-----------------------------------------------------------------------------
(* One answer is written *)

\* The answers that end a request leave the validator at rest.
LEMMA EndsRest ==
  ASSUME NEW s \in Validators, NEW m, m.type \in {"hello_ack", "devices", "completed", "error"}
  PROVE  AtRest(AfterResponse(s, m))
<1>1. AfterResponse(s, m) \in {Rest(s, "NeedHello"), Rest(s, "Ready")}
  BY DEF AfterResponse
<1>. QED BY <1>1, RestEffect DEF AtRest

\* The start of an operation that does not capture.
LEMMA StartRuns ==
  ASSUME NEW s \in Validators, NEW m, m.type = "started", s.kind \in {"enroll", "verify"}
  PROVE  LET t == AfterResponse(s, m) IN
         /\ t.phase = IF s.kind = "enroll" THEN "Enrolling" ELSE "Verifying"
         /\ t.op = s.op /\ ~t.enrolled /\ ~t.reported
  BY DEF AfterResponse, Run, Await, PhaseOf

\* At rest nothing more is due.
LEMMA NothingDue ==
  ASSUME NEW s, AtRest(s)
  PROVE  Due(s, <<>>)
  BY DEF Due, AtRest

\* A stage written is no longer due, and the template, when it is its turn.
LEMMA TemplateGoesOn ==
  ASSUME NEW s \in Validators, NEW p \in Seq(Written), p # <<>>,
         s.phase = "Enrolling", ~s.enrolled, TemplateDue(s, p)
  PROVE  Due(AfterResponse(s, Head(p)), Tail(p))
<1> DEFINE t == AfterResponse(s, Head(p))
           q == Tail(p)
<1>1. /\ Len(p) \in Nat /\ Head(p) = p[1] /\ Head(p) \in Written
      /\ q \in Seq(Written) /\ Len(q) = Len(p) - 1
      /\ \A k \in 1..(Len(p) - 1) : q[k] = p[k + 1]
  BY Rest1
<1>2. Readable(p[1])
  BY <1>1, WrittenIsReadable
<1>3. CASE Len(p) = 2
  <2>1. p[1].type = "enrolled" /\ p[2].type = "completed" /\ p[2].op = s.op
    BY <1>3 DEF TemplateDue
  <2>2. t.phase = "Enrolling" /\ t.enrolled /\ t.op = s.op
    BY <1>1, <1>2, <2>1, ReadableEventEffect DEF EventTypes
  <2>3. Len(q) = 1 /\ q[1] = p[2]
    BY <1>1, <1>3
  <2>. HIDE DEF t, q
  <2>4. Due(t, q)
    BY <2>1, <2>2, <2>3 DEF Due, AtRest, CompletedDue
  <2>. QED BY <2>4 DEF t, q
<1>4. CASE Len(p) > 2
  <2>1. p[1].type = "enroll_progress"
    BY <1>1, <1>4 DEF TemplateDue
  <2>2. t.phase = "Enrolling" /\ ~t.enrolled /\ t.op = s.op
    BY <1>1, <1>2, <2>1, ReadableEventEffect DEF EventTypes
  <2>3. /\ Len(q) >= 2 /\ q[Len(q) - 1] = p[Len(p) - 1] /\ q[Len(q)] = p[Len(p)]
        /\ \A k \in 1..(Len(q) - 2) : q[k] = p[k + 1] /\ k + 1 \in 1..(Len(p) - 2)
    BY <1>1, <1>4
  <2>. HIDE DEF t, q
  <2>4. TemplateDue(t, q)
    BY <2>2, <2>3 DEF TemplateDue
  <2>5. Due(t, q)
    BY <2>2, <2>4 DEF Due, AtRest
  <2>. QED BY <2>5 DEF t, q
<1>. QED BY <1>1, <1>3, <1>4 DEF TemplateDue

\* When the first of what is due has been accepted the rest is due, and at
\* rest there is none.
LEMMA StaysDue ==
  ASSUME NEW s \in Validators, NEW p \in Seq(Written), p # <<>>,
         Due(s, p), AcceptsResponse(s, Head(p)), Coherent(s)
  PROVE  /\ Due(AfterResponse(s, Head(p)), Tail(p))
         /\ AtRest(AfterResponse(s, Head(p))) => Tail(p) = <<>>
<1> DEFINE t == AfterResponse(s, Head(p))
           q == Tail(p)
<1>1. /\ Len(p) \in Nat \ {0} /\ Head(p) = p[1] /\ Head(p) \in Written
      /\ q \in Seq(Written) /\ Len(q) = Len(p) - 1
      /\ \A k \in 1..(Len(p) - 1) : q[k] = p[k + 1]
      /\ q = <<>> <=> Len(p) = 1
  BY Rest1
<1>2. Readable(p[1])
  BY <1>1, WrittenIsReadable
<1>3. CASE Len(p) = 1 /\ p[1].type \in {"hello_ack", "devices", "completed", "error"}
  <2>1. q = <<>> /\ AtRest(t)
    BY <1>1, <1>3, EndsRest
  <2>. QED BY <2>1, NothingDue
<1>4. CASE s.phase = "AwaitStarted" /\ StartDue(s, p)
  <2>1. p[1].type = "started" /\ s.kind \in {"enroll", "verify"}
    BY <1>4 DEF StartDue
  <2>2. /\ t.phase = IF s.kind = "enroll" THEN "Enrolling" ELSE "Verifying"
        /\ t.op = s.op /\ ~t.enrolled /\ ~t.reported
    BY <1>1, <2>1, StartRuns
  <2>3. \/ s.kind = "enroll" /\ TemplateDue(s, q)
        \/ s.kind = "verify" /\ VerdictDue(s, q)
    BY <1>4 DEF StartDue
  <2>. HIDE DEF t, q
  <2>4. Due(t, q) /\ ~AtRest(t)
    BY <2>2, <2>3 DEF Due, AtRest, TemplateDue, VerdictDue, CompletedDue
  <2>. QED BY <2>4 DEF t, q
<1>5. CASE s.phase = "Enrolling" /\ ~s.enrolled
  <2>1. Due(t, q)
    BY <1>5, TemplateGoesOn DEF Due
  <2>2. TemplateDue(s, p)
    BY <1>5 DEF Due
  <2>3. p[1].type \in {"enrolled", "enroll_progress"}
    BY <1>1, <2>2, \A n \in Nat : n = 2 \/ n < 2 \/ 1 \in 1..(n - 2) DEF TemplateDue
  <2>4. t.phase = "Enrolling"
    BY <1>1, <1>2, <1>5, <2>3, ReadableEventEffect DEF EventTypes
  <2>. HIDE DEF t, q
  <2>5. ~AtRest(t)
    BY <2>4 DEF AtRest
  <2>. QED BY <2>1, <2>5 DEF t, q
<1>6. CASE s.phase = "Verifying" /\ ~s.reported
  <2>1. VerdictDue(s, p)
    BY <1>6 DEF Due
  <2>2. t.phase = "Verifying" /\ t.reported /\ t.op = s.op
    BY <1>1, <1>2, <1>6, <2>1, ReadableEventEffect DEF VerdictDue, EventTypes
  <2>3. CompletedDue(s, q)
    BY <2>1 DEF VerdictDue
  <2>. HIDE DEF t, q
  <2>4. Due(t, q) /\ ~AtRest(t)
    BY <2>2, <2>3 DEF Due, AtRest, CompletedDue
  <2>. QED BY <2>4 DEF t, q
<1>7. s.phase \in {"NeedHello", "Ready", "AwaitHelloAck", "AwaitDevices", "AwaitStarted",
                  "Enrolling", "Verifying"}
  BY DEF Due, Validators, Phases, Waiting, Running
<1>. QED BY <1>1, <1>3, <1>4, <1>5, <1>6, <1>7 DEF Due, AtRest, OneError, ErrorDue, CompletedDue

\* What is due is accepted, unless it is an error the worker has no request
\* for, an error with too long a text, a list of devices that is unfit, or a
\* stage that the device counted wrong.
LEMMA DueIsAccepted ==
  ASSUME NEW s \in Validators, Coherent(s), NEW p \in Seq(Written), p # <<>>,
         Due(s, p), ~AcceptsResponse(s, Head(p))
  PROVE  \/ Head(p).type = "error" /\ (AtRest(s) \/ Head(p).data = "invalid")
         \/ Head(p).type = "devices" /\ ~FitList(Head(p).roster)
         \/ Head(p).type = "enroll_progress"
<1>1. Head(p) = p[1] /\ p[1] \in Written /\ Len(p) \in Nat \ {0}
  BY Rest1
<1>2. /\ s.phase \in Waiting => s.req \in Ids
      /\ s.phase \in Engaged => s.op \in Ids
  BY DEF Coherent, Validators
<1>3. /\ p[1].type = "error" => p[1].data \in {"valid", "invalid"}
      /\ p[1].type = "devices" /\ FitList(p[1].roster) => p[1].data = "valid"
  BY <1>1, WrittenFields DEF Data
<1>4. CASE AtRest(s)
  BY <1>1, <1>4 DEF Due, OneError
<1>5. CASE s.phase = "AwaitHelloAck"
  BY <1>1, <1>2, <1>5 DEF Due, AcceptsResponse, ValidResponse, AnswerInOrder, Waiting
<1>6. CASE s.phase = "AwaitDevices"
  <2>1. s.op = NoId
    BY <1>6 DEF Coherent, Engaged, Running
  <2>. QED
    BY <1>1, <1>2, <1>3, <1>6, <2>1, IdsAssumption
    DEF Due, ErrorDue, OneError, AcceptsResponse, ValidResponse, AnswerInOrder, ErrorInOrder, Waiting
<1>7. CASE s.phase = "AwaitStarted"
  BY <1>1, <1>2, <1>3, <1>7, IdsAssumption
  DEF Due, ErrorDue, OneError, StartDue, AcceptsResponse, ValidResponse, AnswerInOrder,
      ErrorInOrder, Waiting, Engaged
<1>8. CASE s.phase = "Enrolling"
  <2>1. CASE s.enrolled
    BY <1>1, <1>2, <1>8, <2>1
    DEF Due, CompletedDue, AcceptsResponse, ValidResponse, MayComplete, Engaged, Running
  <2>2. CASE ~s.enrolled /\ Len(p) = 2
    BY <1>1, <1>2, <1>8, <2>2
    DEF Due, TemplateDue, AcceptsResponse, ValidResponse, EventInOrder, Engaged, Running
  <2>3. CASE ~s.enrolled /\ Len(p) # 2
    <3>1. TemplateDue(s, p)
      BY <1>8, <2>3 DEF Due
    <3>2. 1 \in 1..(Len(p) - 2)
      <4>1. Len(p) >= 2
        BY <3>1 DEF TemplateDue
      <4>2. \A n \in Nat : n >= 2 /\ n # 2 => 1 \in 1..(n - 2)
        OBVIOUS
      <4>. QED BY <1>1, <2>3, <4>1, <4>2
    <3>. QED BY <1>1, <3>1, <3>2 DEF TemplateDue
  <2>. QED BY <2>1, <2>2, <2>3
<1>9. CASE s.phase = "Verifying"
  BY <1>1, <1>2, <1>9
  DEF Due, VerdictDue, CompletedDue, AcceptsResponse, ValidResponse, EventInOrder, MayComplete,
      Engaged, Running
<1>. QED
  BY <1>4, <1>5, <1>6, <1>7, <1>8, <1>9 DEF Due, AtRest, Validators, Phases, Waiting, Running
-----------------------------------------------------------------------------
(* The answers are made *)

\* The answers to an enrollment: its start, its stages, its template, its end.
LEMMA EnrollAnswersMade ==
  ASSUME NEW m, m.req \in AnyId, m.op \in AnyId,
         NEW outcome, outcome.report \in Reports, outcome.template = m.op
  PROVE  LET p == EnrollAnswers(m, outcome) IN
         /\ p \in Seq(Written) /\ Len(p) >= 3
         /\ p[1] = Started(m) /\ p[Len(p)] = Completed(m)
         /\ p[Len(p) - 1] = [type |-> "enrolled", op |-> m.op, data |-> "valid",
                             template |-> m.op]
         /\ \A k \in 2..(Len(p) - 2) : p[k].type = "enroll_progress" /\ p[k].op = m.op
<1> DEFINE r == Progress(outcome.report)
           stages == [i \in DOMAIN r |->
                        [type |-> "enroll_progress", op |-> m.op,
                         completed |-> r[i].completed, total |-> r[i].total]]
           enrolled == [type |-> "enrolled", op |-> m.op, data |-> "valid", template |-> m.op]
           p == <<Started(m)>> \o stages \o <<enrolled, Completed(m)>>
<1>1. r \in Seq([completed : Stages, total : Stages, retry : BOOLEAN])
  BY ReportsAssumption
<1>2. m.req \in AnyId /\ m.op \in AnyId
  OBVIOUS
<1>3. Started(m) \in Written /\ enrolled \in Written /\ Completed(m) \in Written
  BY <1>2 DEF Started, Completed, Written, Data
<1>. HIDE DEF r
<1>4. /\ stages \in Seq(Written) /\ Len(stages) \in Nat
      /\ \A i \in 1..Len(stages) : stages[i].type = "enroll_progress" /\ stages[i].op = m.op
  <2>1. DOMAIN r = 1..Len(r) /\ Len(r) \in Nat
    BY <1>1
  <2>2. \A i \in 1..Len(r) : r[i].completed \in Stages /\ r[i].total \in Stages
    <3>1. \A i \in 1..Len(r) : r[i] \in [completed : Stages, total : Stages, retry : BOOLEAN]
      BY <1>1, ElementOfSeq
    <3>. QED BY <3>1
  <2>3. \A i \in 1..Len(r) : stages[i] \in Written
    BY <1>2, <2>1, <2>2 DEF Written
  <2>4. stages \in [1..Len(r) -> Written]
    BY <2>1, <2>3
  <2>. QED BY <2>1, <2>4
<1>. HIDE DEF stages, enrolled
<1>5. <<Started(m)>> \in Seq(Written) /\ <<enrolled, Completed(m)>> \in Seq(Written)
  BY <1>3
<1>6. /\ <<Started(m)>> \o stages \in Seq(Written)
      /\ Len(<<Started(m)>> \o stages) = Len(stages) + 1
      /\ (<<Started(m)>> \o stages)[1] = Started(m)
      /\ \A k \in 2..(Len(stages) + 1) : (<<Started(m)>> \o stages)[k] = stages[k - 1]
  BY <1>3, <1>4, <1>5, ConcatProperties
<1>7. /\ p \in Seq(Written) /\ Len(p) = Len(stages) + 3
      /\ p[1] = Started(m)
      /\ \A k \in 2..(Len(stages) + 1) : p[k] = stages[k - 1]
      /\ p[Len(stages) + 2] = enrolled /\ p[Len(stages) + 3] = Completed(m)
  BY <1>4, <1>5, <1>6, ConcatProperties
<1>8. \A k \in 2..(Len(p) - 2) : p[k].type = "enroll_progress" /\ p[k].op = m.op
  BY <1>4, <1>7
<1>9. EnrollAnswers(m, outcome) = p
  BY DEF EnrollAnswers, p, r, stages, enrolled
<1>. QED BY <1>4, <1>7, <1>8, <1>9 DEF enrolled

\* What the device may have done, by request.
LEMMA DeviceOutcomes ==
  ASSUME NEW m, m.type \in {"hello", "enumerate"} \cup StartRequests,
         NEW outcome \in DeviceDoes(m)
  PROVE  /\ outcome.what = "failed" =>
              outcome.text \in Data /\ m.type \in {"enumerate", "start_enroll", "start_verify"}
         /\ outcome.what # "failed" =>
              /\ m.type \in {"hello", "start_capture"} => outcome.what = "nothing"
              /\ m.type = "enumerate" => outcome.what = "listed" /\ outcome.roster \in Rosters
              /\ m.type = "start_enroll" =>
                   outcome.what = "enrolled" /\ outcome.report \in Reports
                     /\ outcome.template = m.op
              /\ m.type = "start_verify" =>
                   outcome.what = "decided" /\ outcome.matched \in BOOLEAN
<1>1. CASE m.type = "enumerate"
  BY <1>1, TextsAssumption DEF DeviceDoes, Failures
<1>2. CASE m.type = "start_enroll"
  BY <1>2, TextsAssumption DEF DeviceDoes, Failures
<1>3. CASE m.type = "start_verify"
  BY <1>3, TextsAssumption DEF DeviceDoes, Failures
<1>4. CASE m.type \in {"hello", "start_capture"}
  BY <1>4 DEF DeviceDoes
<1>. QED BY <1>1, <1>2, <1>3, <1>4 DEF StartRequests

\* The answers to the request the validator waits on are what it waits for.
LEMMA AnswersDue ==
  ASSUME NEW s \in Validators, Coherent(s), NEW m, Awaits(s, m),
         NEW outcome \in DeviceDoes(m)
  PROVE  Answers(m, outcome) \in Seq(Written) /\ Due(s, Answers(m, outcome))
<1> DEFINE p == Answers(m, outcome)
<1>1. m.type \in {"hello", "enumerate"} \cup StartRequests /\ m.req = s.req
  BY DEF Awaits
<1>2. m.req \in AnyId /\ (m.type \in StartRequests => m.op \in AnyId)
  <2>1. s.phase \in {"AwaitHelloAck", "AwaitDevices", "AwaitStarted"}
    BY <1>1 DEF Awaits
  <2>2. s.req \in Ids
    BY <2>1 DEF Coherent, Waiting, Validators
  <2>3. m.type \in StartRequests => m.op \in s.seenOp
    BY DEF Awaits
  <2>. QED BY <1>1, <2>2, <2>3 DEF AnyId, Validators
<1>3. CASE outcome.what = "failed" \/ m.type = "start_capture"
  <2>1. PICK text \in Data : p = <<ErrorTo(m.req, OperationOf(m), text)>>
    BY <1>1, <1>3, DeviceOutcomes DEF Answers, Data, StartRequests
  <2>2. /\ OperationOf(m) \in AnyId \cup {NoId}
        /\ m.type = "enumerate" => OperationOf(m) = NoId
        /\ m.type \in StartRequests => OperationOf(m) = m.op
    BY <1>1, <1>2 DEF OperationOf, StartRequests
  <2>3. ErrorTo(m.req, OperationOf(m), text) \in Written
    BY <1>2, <2>2 DEF ErrorTo, Written
  <2>4. /\ m.type = "enumerate" => s.phase = "AwaitDevices"
        /\ m.type \in StartRequests => s.phase = "AwaitStarted" /\ s.op = m.op
        /\ m.type \in {"enumerate"} \cup StartRequests
    BY <1>1, <1>3, DeviceOutcomes DEF Awaits, StartRequests
  <2>5. ErrorDue(s, p)
    BY <1>1, <2>1, <2>2, <2>4 DEF ErrorDue, OneError, ErrorTo
  <2>. HIDE DEF p
  <2>. QED BY <2>1, <2>3, <2>4, <2>5 DEF Due, AtRest, p
<1>4. CASE m.type = "hello" /\ outcome.what # "failed"
  <2>1. p = <<[type |-> "hello_ack", req |-> m.req, version |-> ProtocolVersion]>>
    BY <1>1, <1>4, DeviceOutcomes DEF Answers
  <2>2. s.phase = "AwaitHelloAck"
    BY <1>4 DEF Awaits
  <2>3. p[1] \in Written
    BY <1>2, <2>1, <2>2 DEF Written
  <2>. QED BY <1>1, <2>1, <2>2, <2>3 DEF Due, AtRest
<1>5. CASE m.type = "enumerate" /\ outcome.what # "failed"
  <2>1. p = <<DevicesTo(m.req, outcome.roster)>>
    BY <1>5, DeviceOutcomes DEF Answers
  <2>2. s.phase = "AwaitDevices" /\ outcome.roster \in Rosters
    BY <1>1, <1>5, DeviceOutcomes DEF Awaits
  <2>3. p[1] \in Written
    BY <1>2, <2>1, <2>2 DEF Written
  <2>. QED BY <1>1, <2>1, <2>2, <2>3 DEF Due, AtRest, DevicesTo
<1>6. CASE m.type = "start_enroll" /\ outcome.what # "failed"
  <2>1. p = EnrollAnswers(m, outcome) /\ outcome.report \in Reports /\ outcome.template = m.op
    BY <1>1, <1>6, DeviceOutcomes DEF Answers
  <2>2. s.phase = "AwaitStarted" /\ s.op = m.op /\ s.kind = "enroll"
    BY <1>6 DEF Awaits, StartRequests, KindOf
  <2>. HIDE DEF p
  <2>3. /\ p \in Seq(Written) /\ Len(p) >= 3
        /\ p[1] = Started(m) /\ p[Len(p)] = Completed(m)
        /\ p[Len(p) - 1] = [type |-> "enrolled", op |-> m.op, data |-> "valid",
                            template |-> m.op]
        /\ \A k \in 2..(Len(p) - 2) : p[k].type = "enroll_progress" /\ p[k].op = m.op
    BY <1>2, <1>6, <2>1, EnrollAnswersMade DEF StartRequests
  <2>4. /\ Len(p) \in Nat /\ Len(Tail(p)) = Len(p) - 1
        /\ \A k \in 1..(Len(p) - 1) : Tail(p)[k] = p[k + 1]
    BY <2>3, Rest1, EmptySeq
  <2>5. /\ Len(Tail(p)) >= 2
        /\ Tail(p)[Len(Tail(p)) - 1] = p[Len(p) - 1] /\ Tail(p)[Len(Tail(p))] = p[Len(p)]
        /\ \A k \in 1..(Len(Tail(p)) - 2) : Tail(p)[k] = p[k + 1] /\ k + 1 \in 2..(Len(p) - 2)
    BY <2>3, <2>4
  <2>6. TemplateDue(s, Tail(p))
    BY <2>2, <2>3, <2>5 DEF TemplateDue, Completed
  <2>7. StartDue(s, p)
    BY <1>1, <2>2, <2>3, <2>4, <2>6 DEF StartDue, Started
  <2>. QED BY <2>2, <2>3, <2>7 DEF Due, AtRest, p
<1>7. CASE m.type = "start_verify" /\ outcome.what # "failed"
  <2> DEFINE verdict == [type |-> "match_result", op |-> m.op, matched |-> outcome.matched]
  <2>1. p = <<Started(m), verdict, Completed(m)>> /\ outcome.matched \in BOOLEAN
    BY <1>1, <1>7, DeviceOutcomes DEF Answers, VerifyAnswers
  <2>2. s.phase = "AwaitStarted" /\ s.op = m.op /\ s.kind = "verify"
    BY <1>7 DEF Awaits, StartRequests, KindOf
  <2>3. m.op \in AnyId
    BY <1>2, <1>7 DEF StartRequests
  <2>4. Started(m) \in Written /\ verdict \in Written /\ Completed(m) \in Written
    BY <1>2, <2>1, <2>3 DEF Started, Completed, Written
  <2>5. Tail(p) = <<verdict, Completed(m)>> /\ Tail(Tail(p)) = <<Completed(m)>>
    BY <2>1
  <2>. HIDE DEF p
  <2>6. VerdictDue(s, Tail(p))
    <3>1. CompletedDue(s, <<Completed(m)>>)
      BY <2>2 DEF CompletedDue, Completed
    <3>2. verdict.type = "match_result" /\ verdict.op = s.op
      BY <2>2
    <3>. HIDE DEF verdict
    <3>3. Len(<<verdict, Completed(m)>>) = 2 /\ <<verdict, Completed(m)>>[1] = verdict
      OBVIOUS
    <3>4. Len(Tail(p)) = 2 /\ Tail(p)[1] = verdict
      BY <2>5, <3>3
    <3>. QED BY <2>5, <3>1, <3>2, <3>4 DEF VerdictDue
  <2>7. StartDue(s, p)
    BY <1>1, <2>1, <2>2, <2>6 DEF StartDue, Started
  <2>. QED BY <2>1, <2>2, <2>4, <2>7 DEF Due, AtRest, p
<1>. QED BY <1>1, <1>3, <1>4, <1>5, <1>6, <1>7 DEF StartRequests
-----------------------------------------------------------------------------
(* The worker's steps, whoever its host is *)

\* Only a validator at rest has nothing to wait for.
LEMMA NothingDueAtRest ==
  ASSUME NEW s \in Validators, Due(s, <<>>)
  PROVE  AtRest(s)
<1>1. Len(<<>>) = 0
  OBVIOUS
<1>. QED
  BY <1>1 DEF Due, AtRest, ErrorDue, OneError, StartDue, CompletedDue, TemplateDue, VerdictDue,
              Validators, Phases, Waiting, Running

\* No answer brings a new identifier.
LEMMA AnswersSpendNothing ==
  ASSUME NEW s \in Validators, NEW m, Readable(m)
  PROVE  AfterResponse(s, m).seenOp = s.seenOp /\ AfterResponse(s, m).seenReq = s.seenReq
<1>1. CASE m.type \in EventTypes
  BY <1>1, ReadableEventEffect
<1>2. CASE m.type \notin EventTypes
  BY <1>2 DEF AfterResponse, Rest, Run, Await, Readable
<1>. QED BY <1>1, <1>2

\* A worker that has just started.
LEMMA StartsInOrder == DriverInit => WorkerInOrder
<1> SUFFICES ASSUME DriverInit PROVE WorkerInOrder
  OBVIOUS
<1>. USE DEF DriverInit
<1>1. driver \in Validators /\ Coherent(driver) /\ AtRest(driver)
  BY DEF NewValidator, Validators, Phases, Coherent, Waiting, Engaged, Running, AtRest
<1>2. Due(driver, pending)
  BY <1>1, NothingDue
<1>3. pending \in Seq(Written) /\ DOMAIN did = Ids
  OBVIOUS
<1>4. WorkIsSeen
  BY DEF WorkIsSeen
<1>. QED BY <1>1, <1>2, <1>3, <1>4 DEF WorkerInOrder

\* What others do, and the end of the process, leave the session alone.
LEMMA StaysInOrder ==
  ASSUME WorkerInOrder, UNCHANGED <<process, did>> \/ Die \/ EndOfInput
  PROVE  WorkerInOrder'
<1>1. CASE UNCHANGED <<process, did>>
  BY <1>1 DEF WorkerInOrder, process, WorkIsSeen, Awaits
<1>2. CASE Die
  BY <1>2 DEF Die, WorkerInOrder, Exits, WorkIsSeen, Awaits
<1>3. CASE EndOfInput
  BY <1>3 DEF EndOfInput, WorkerInOrder, Exits, WorkIsSeen, Awaits
<1>. QED BY <1>1, <1>2, <1>3

\* A line is answered with an error, skipped, or not read at all, by a worker
\* at rest.
LEMMA RefusesInOrder ==
  ASSUME WorkerInOrder, SkipBlank \/ RefuseMalformed \/ FailRead \/ RefuseOutOfOrder,
         Line \notin NoRequests => Line.req \in AnyId
  PROVE  WorkerInOrder'
<1>. USE DEF WorkerInOrder
<1>1. Reads /\ UNCHANGED <<driver, serving>> /\ exit' \in {exit, "io"}
  BY DEF SkipBlank, RefuseMalformed, FailRead, RefuseOutOfOrder, process
<1>2. AtRest(driver) /\ driver \in Validators
  BY <1>1, NothingDueAtRest DEF Reads
<1>3. pending' \in Seq(Written) /\ Due(driver, pending')
  <2>1. CASE SkipBlank \/ FailRead
    BY <1>1, <2>1 DEF SkipBlank, FailRead, process, Reads
  <2>2. CASE RefuseMalformed \/ RefuseOutOfOrder
    <3>1. PICK r \in AnyId \cup {NoId} : pending' = <<ErrorTo(r, NoId, "valid")>>
      BY <2>2 DEF RefuseMalformed, RefuseOutOfOrder
    <3>2. ErrorTo(r, NoId, "valid") \in Written
      BY DEF ErrorTo, Written, Data
    <3>3. OneError(driver, pending')
      BY <3>1 DEF OneError, ErrorTo
    <3>. QED BY <1>2, <3>1, <3>2, <3>3 DEF Due, AtRest
  <2>. QED BY <2>1, <2>2
<1>4. WorkIsSeen'
  BY <1>1 DEF Reads, WorkIsSeen
<1>. QED BY <1>1, <1>3, <1>4 DEF Reads, Exits

\* A request taken is the one the validator then waits on.
LEMMA TakesInOrder ==
  ASSUME WorkerInOrder, Take, Line.type \in RequestTypes
  PROVE  WorkerInOrder'
<1>. USE DEF WorkerInOrder
<1>1. /\ exit = "running" /\ serving = Nothing /\ pending = <<>> /\ UNCHANGED <<did, pending>>
      /\ AcceptsRequest(driver, Line) /\ driver' = AfterRequest(driver, Line)
      /\ driver \in Validators /\ Coherent(driver)
  BY DEF Take, Reads
<1>2. AtRest(driver)
  BY <1>1, NothingDueAtRest
<1>3. Line.type \in {"hello", "enumerate", "shutdown"} \cup StartRequests
  BY <1>1, <1>2 DEF AcceptsRequest, RequestInOrder, AtRest, Running
<1>4. /\ driver' \in Validators /\ Coherent(driver')
      /\ driver'.seenOp =
           IF Line.type \in StartRequests THEN driver.seenOp \cup {Line.op} ELSE driver.seenOp
  BY <1>1, RequestCoherent, RequestEffect
<1>5. WorkIsSeen'
  BY <1>1, <1>4 DEF WorkIsSeen
<1>6. CASE Line.type = "shutdown"
  BY <1>1, <1>4, <1>5, <1>6 DEF Take, Exits
<1>7. CASE Line.type # "shutdown"
  <2>1. serving' = Line /\ exit' = exit
    BY <1>7 DEF Take
  <2>2. /\ Line.type = "hello" =>
             driver'.phase = "AwaitHelloAck" /\ driver'.req = Line.req
               /\ Line.version = ProtocolVersion
        /\ Line.type = "enumerate" => driver'.phase = "AwaitDevices" /\ driver'.req = Line.req
        /\ Line.type \in StartRequests =>
             /\ driver'.phase = "AwaitStarted" /\ driver'.req = Line.req
             /\ driver'.op = Line.op /\ driver'.kind = KindOf(Line.type)
             /\ Line.op \in driver'.seenOp /\ Line.op \in Ids /\ Line.op \notin driver.seenOp
    <3>1. /\ Line.type = "hello" => Line.version = ProtocolVersion
          /\ Line.type \in StartRequests => Line.op \in Ids /\ Line.op \notin driver.seenOp
      BY <1>1 DEF AcceptsRequest, RequestInOrder, ValidRequest, FreshIds, StartRequests
    <3>. QED BY <1>1, <1>4, <3>1, RequestEffect
  <2>3. Line.type \in StartRequests => did'[Line.op] = <<>>
    BY <1>1, <2>2 DEF WorkIsSeen
  <2>4. Awaits(driver, serving)'
    BY <1>3, <1>7, <2>1, <2>2, <2>3 DEF Awaits, StartRequests
  <2>5. Line # Nothing
    BY <1>3 DEF Nothing, StartRequests
  <2>. QED BY <1>1, <1>4, <1>5, <2>1, <2>4, <2>5
<1>. QED BY <1>6, <1>7

\* What the device did for a start is recorded under its operation.
LEMMA ServeRecords ==
  ASSUME WorkerInOrder, serving # Nothing, serving.type \in StartRequests, NEW outcome,
         did' = [did EXCEPT ![serving.op] = Append(@, [request |-> serving,
                                                       outcome |-> outcome])]
  PROVE  /\ serving.op \in driver.seenOp /\ serving.op \in Ids /\ did[serving.op] = <<>>
         /\ did' = [did EXCEPT ![serving.op] = <<[request |-> serving, outcome |-> outcome]>>]
         /\ DOMAIN did' = Ids
         /\ did'[serving.op] = <<[request |-> serving, outcome |-> outcome]>>
         /\ \A o \in Ids : o # serving.op => did'[o] = did[o]
<1> DEFINE work == [request |-> serving, outcome |-> outcome]
<1>1. /\ did[serving.op] = <<>> /\ serving.op \in driver.seenOp /\ driver.seenOp \subseteq Ids
      /\ DOMAIN did = Ids
  BY DEF WorkerInOrder, Awaits, Validators
<1>2. did' = [did EXCEPT ![serving.op] = Append(did[serving.op], work)]
  OBVIOUS
<1>3. Append(<<>>, work) = <<work>>
  OBVIOUS
<1>. HIDE DEF work
<1>4. did' = [did EXCEPT ![serving.op] = <<work>>]
  BY <1>1, <1>2, <1>3
<1>5. /\ DOMAIN did' = Ids /\ did'[serving.op] = <<work>>
      /\ \A o \in Ids : o # serving.op => did'[o] = did[o]
  BY <1>1, <1>4
<1>. QED BY <1>1, <1>4, <1>5 DEF work

\* The device has carried the request out: the answers to it are due.
LEMMA ServesInOrder ==
  ASSUME WorkerInOrder, Serve
  PROVE  WorkerInOrder'
<1>1. /\ exit = "running" /\ serving # Nothing /\ serving' = Nothing
      /\ UNCHANGED <<driver, exit>>
      /\ driver \in Validators /\ Coherent(driver) /\ Awaits(driver, serving)
      /\ DOMAIN did = Ids /\ WorkIsSeen
  BY DEF Serve, WorkerInOrder
<1>2. PICK outcome \in DeviceDoes(serving) :
        /\ pending' = Answers(serving, outcome)
        /\ did' = IF serving.type \in StartRequests
                    THEN [did EXCEPT ![serving.op] = Append(@, [request |-> serving,
                                                                outcome |-> outcome])]
                    ELSE did
  BY DEF Serve
<1>3. pending' \in Seq(Written) /\ Due(driver, pending')
  BY <1>1, <1>2, AnswersDue
<1>4. WorkIsSeen' /\ DOMAIN did' = Ids
  <2>1. CASE serving.type \in StartRequests
    <3>1. /\ serving.op \in driver.seenOp /\ DOMAIN did' = Ids
          /\ did'[serving.op] = <<[request |-> serving, outcome |-> outcome]>>
          /\ \A o \in Ids : o # serving.op => did'[o] = did[o]
      BY <1>1, <1>2, <2>1, ServeRecords
    <3>2. \A w : Len(<<w>>) <= 1
      OBVIOUS
    <3>. QED BY <1>1, <3>1, <3>2 DEF WorkIsSeen
  <2>2. CASE serving.type \notin StartRequests
    BY <1>1, <1>2, <2>2 DEF WorkIsSeen
  <2>. QED BY <2>1, <2>2
<1>. QED BY <1>1, <1>3, <1>4 DEF WorkerInOrder

\* The first of what is due is accepted and no longer pending.
LEMMA EmitEffect ==
  ASSUME WorkerInOrder, Emit
  PROVE  /\ exit = "running" /\ serving = Nothing /\ pending # <<>>
         /\ AcceptsResponse(driver, Head(pending))
         /\ driver' = AfterResponse(driver, Head(pending))
         /\ driver' \in Validators /\ Coherent(driver')
         /\ driver'.seenOp = driver.seenOp /\ driver'.seenReq = driver.seenReq
         /\ Head(pending) \in Written /\ Tail(pending) \in Seq(Written)
         /\ Due(driver', Tail(pending))
         /\ AtRest(driver') => Tail(pending) = <<>>
         /\ driver'.phase # "NeedHello"
         /\ ~hostGone => /\ Len(toHost) < Capacity /\ toHost' = Append(toHost, Head(pending))
                         /\ pending' = Tail(pending) /\ exit' = exit
         /\ hostGone => exit' = "io" /\ UNCHANGED <<toHost, pending>>
         /\ UNCHANGED <<toDriver, hostGone, serving, did>>
<1>1. /\ exit = "running" /\ pending # <<>> /\ serving = Nothing
      /\ AcceptsResponse(driver, Head(pending))
      /\ driver' = AfterResponse(driver, Head(pending))
      /\ UNCHANGED <<toDriver, hostGone, serving, did>>
      /\ driver \in Validators /\ Coherent(driver) /\ Due(driver, pending)
      /\ pending \in Seq(Written)
  BY DEF Emit, WorkerInOrder
<1>2. Head(pending) \in Written /\ Tail(pending) \in Seq(Written)
  BY <1>1, Rest1
<1>3. Readable(Head(pending))
  BY <1>2, WrittenIsReadable
<1>4. driver' \in Validators /\ Coherent(driver')
  BY <1>1, <1>3, ReadableCoherent
<1>5. driver'.seenOp = driver.seenOp /\ driver'.seenReq = driver.seenReq
  BY <1>1, <1>3, AnswersSpendNothing
<1>6. Due(driver', Tail(pending)) /\ (AtRest(driver') => Tail(pending) = <<>>)
  BY <1>1, StaysDue
<1>7. /\ ~hostGone => /\ Len(toHost) < Capacity /\ toHost' = Append(toHost, Head(pending))
                      /\ pending' = Tail(pending) /\ exit' = exit
      /\ hostGone => exit' = "io" /\ UNCHANGED <<toHost, pending>>
  BY DEF Emit
<1>8. driver'.phase # "NeedHello"
  <2>1. Head(pending) = pending[1]
    BY <1>1, Rest1
  <2>2. driver.phase # "NeedHello" /\ (driver.phase = "AwaitHelloAck" => pending[1].type # "error")
    BY <1>1 DEF AcceptsResponse, AnswerInOrder, EventInOrder, MayComplete, ErrorInOrder, Running,
                Due
  <2>3. CASE pending[1].type \in EventTypes
    BY <1>1, <1>3, <2>1, <2>2, <2>3, ReadableEventEffect
  <2>4. CASE pending[1].type = "started"
    BY <1>1, <2>1, <2>4 DEF AfterResponse, Run, Await, PhaseOf, AcceptsResponse, AnswerInOrder,
                            Coherent, EventTypes, Validators, Kinds
  <2>5. CASE pending[1].type \notin EventTypes \cup {"started"}
    <3>1. driver' = Rest(driver, "Ready")
      BY <1>1, <1>3, <2>1, <2>2, <2>5 DEF AfterResponse, Readable
    <3>. QED BY <1>1, <3>1, RestEffect
  <2>. QED BY <2>3, <2>4, <2>5
<1>. QED BY <1>1, <1>2, <1>4, <1>5, <1>6, <1>7, <1>8

\* The first of what is due is written, or refused by the worker itself.
LEMMA EmitsInOrder ==
  ASSUME WorkerInOrder, Emit \/ FailSelfCheck
  PROVE  WorkerInOrder'
<1>1. CASE FailSelfCheck
  BY <1>1 DEF FailSelfCheck, WorkerInOrder, Exits, WorkIsSeen
<1>2. CASE Emit
  <2>1. WorkIsSeen' /\ DOMAIN did' = Ids
    BY <1>2, EmitEffect DEF WorkIsSeen, WorkerInOrder
  <2>2. CASE ~hostGone
    BY <1>2, <2>1, <2>2, EmitEffect DEF WorkerInOrder, Exits
  <2>3. CASE hostGone
    BY <1>2, <2>1, <2>3, EmitEffect DEF WorkerInOrder, Exits
  <2>. QED BY <2>2, <2>3
<1>. QED BY <1>1, <1>2
-----------------------------------------------------------------------------
(* The worker facing any host *)

\* A line is a request, or one of those that are none.
LEMMA LinesRead ==
  ASSUME toDriver \in Seq(Lines), toDriver # <<>>
  PROVE  /\ Line \in Lines
         /\ Line \notin NoRequests => Line \in Requests /\ Line.req \in AnyId /\ Line # Nothing
         /\ Tail(toDriver) \in Seq(Lines)
         /\ Len(Tail(toDriver)) = Len(toDriver) - 1 /\ Len(toDriver) \in Nat
<1>1. Line \in Lines
  BY HeadTailProperties DEF Line
<1>2. \A m \in Requests : m.type # "nothing" /\ m.req \in AnyId
  BY DEF Requests, StartRequests
<1>3. Nothing.type = "nothing"
  BY DEF Nothing
<1>4. Tail(toDriver) \in Seq(Lines) /\ Len(Tail(toDriver)) = Len(toDriver) - 1
  BY HeadTailProperties
<1>5. Len(toDriver) \in Nat
  BY LenProperties
<1>. QED BY <1>1, <1>2, <1>3, <1>4, <1>5, LinesAssumption

\* A worker starts with nothing to serve or to write.
LEMMA ServedInit == AnyInit => Served
<1> SUFFICES ASSUME AnyInit PROVE Served
  OBVIOUS
<1>1. WorkerInOrder
  BY StartsInOrder DEF AnyInit
<1>2. Len(<<>>) = 0
  OBVIOUS
<1>3. Len(toDriver) <= Backlog /\ Len(toHost) <= Capacity
  BY <1>2, BacklogAssumption, CapacityAssumption DEF AnyInit
<1>4. toDriver \in Seq(Lines) /\ toHost \in Seq(Written)
  BY DEF AnyInit
<1>. QED BY <1>1, <1>3, <1>4 DEF AnyInit, DriverInit, Served, AnyTypeOK, WorkerInOrder

\* What the host does leaves the worker alone.
LEMMA HostServed ==
  ASSUME Served, [(\E line \in Lines : Write(line)) \/ Read \/ Leave]_anyVars
  PROVE  Served'
<1>. USE DEF Served
<1>1. WorkerInOrder'
  BY StaysInOrder DEF Write, Read, Leave, anyVars
<1>2. CASE \E line \in Lines : Write(line)
  <2>1. PICK line \in Lines : Write(line)
    BY <1>2
  <2>2. toDriver' \in Seq(Lines) /\ Len(toDriver') <= Backlog
    <3>1. Len(toDriver) \in Nat /\ Len(toDriver) < Backlog
      BY <2>1, LenProperties DEF AnyTypeOK, Write
    <3>2. toDriver' \in Seq(Lines) /\ Len(toDriver') = Len(toDriver) + 1
      BY <2>1, AppendProperties DEF AnyTypeOK, Write
    <3>. QED BY <3>1, <3>2, BacklogAssumption
  <2>. QED BY <1>1, <2>1, <2>2 DEF AnyTypeOK, Write, process
<1>3. CASE Read
  <2>1. toHost' \in Seq(Written) /\ Len(toHost') = Len(toHost) - 1
    BY <1>3, HeadTailProperties DEF Read
  <2>2. Len(toHost) \in Nat
    BY LenProperties
  <2>3. Len(toHost') <= Capacity
    BY <2>1, <2>2, CapacityAssumption DEF AnyTypeOK
  <2>. QED BY <1>1, <1>3, <2>1, <2>3 DEF Read, AnyTypeOK, process
<1>4. CASE Leave
  BY <1>1, <1>4 DEF Leave, AnyTypeOK, process
<1>5. CASE UNCHANGED anyVars
  BY <1>1, <1>5 DEF anyVars, pipes, process, AnyTypeOK
<1>. QED BY <1>2, <1>3, <1>4, <1>5

\* What the worker does keeps its session in order and its pipe to the host
\* within its capacity.
LEMMA WorkServed ==
  ASSUME Served, DriverWorks \/ Die
  PROVE  Served'
<1>. USE DEF Served
<1>1. CASE SkipBlank \/ RefuseMalformed \/ FailRead \/ RefuseOutOfOrder \/ Take
  <2>1. Reads
    BY <1>1 DEF SkipBlank, RefuseMalformed, FailRead, RefuseOutOfOrder, Take
  <2>2. /\ Line \in Lines
        /\ Line \notin NoRequests =>
             Line.req \in AnyId /\ Line.type \in RequestTypes /\ Line # Nothing
        /\ toDriver' \in Seq(Lines) /\ Len(toDriver') <= Backlog
    BY <2>1, LinesRead, RequestsHaveTypes, BacklogAssumption DEF Reads, AnyTypeOK
  <2>3. WorkerInOrder'
    BY <1>1, <2>2, RefusesInOrder, TakesInOrder DEF Take
  <2>4. serving' = serving \/ (serving' = Line /\ Line \notin NoRequests)
    BY <1>1 DEF SkipBlank, RefuseMalformed, FailRead, RefuseOutOfOrder, Take, process
  <2>. QED BY <2>1, <2>2, <2>3, <2>4 DEF Reads, AnyTypeOK, WorkerInOrder
<1>2. CASE Serve
  BY <1>2, ServesInOrder DEF Serve, AnyTypeOK, pipes, WorkerInOrder
<1>3. CASE FailSelfCheck
  BY <1>3, EmitsInOrder DEF FailSelfCheck, AnyTypeOK, pipes, WorkerInOrder
<1>4. CASE Emit
  <2>1. WorkerInOrder'
    BY <1>4, EmitsInOrder
  <2>2. toHost' \in Seq(Written) /\ Len(toHost') <= Capacity
    <3>1. CASE hostGone
      BY <1>4, <3>1, EmitEffect DEF AnyTypeOK
    <3>2. CASE ~hostGone
      <4>1. Head(pending) \in Written /\ Len(toHost) < Capacity
            /\ toHost' = Append(toHost, Head(pending))
        BY <1>4, <3>2, EmitEffect
      <4>2. toHost' \in Seq(Written) /\ Len(toHost') = Len(toHost) + 1 /\ Len(toHost) \in Nat
        BY <4>1, AppendProperties, LenProperties
      <4>. QED BY <4>1, <4>2, CapacityAssumption
    <3>. QED BY <3>1, <3>2
  <2>. QED BY <1>4, <2>1, <2>2 DEF Emit, AnyTypeOK, WorkerInOrder
<1>5. CASE EndOfInput
  BY <1>5, StaysInOrder DEF EndOfInput, AnyTypeOK, pipes, WorkerInOrder
<1>6. CASE Die
  BY <1>6, StaysInOrder DEF Die, AnyTypeOK, pipes, WorkerInOrder
<1>. QED BY <1>1, <1>2, <1>3, <1>4, <1>5, <1>6 DEF DriverWorks

\* Whatever the host does, what the worker still has to write is what its own
\* validator waits for (dispatch decides on answers, emit lets each pass).
THEOREM AlwaysServed == AnySpec => []Served
<1>1. Served /\ [AnyNext]_anyVars => Served'
  BY HostServed, WorkServed DEF AnyNext
<1>. QED BY <1>1, ServedInit, PTL DEF AnySpec

\* The pipes stay within their capacities and the worker's state well typed.
THEOREM WorkerTypes == AnySpec => []AnyTypeOK
<1>1. Served => AnyTypeOK
  BY DEF Served
<1>. QED BY <1>1, AlwaysServed, PTL

\* When the worker takes a line no operation is left running.
THEOREM WorkerRests == AnySpec => []AtRestBetweenLines
<1>1. Served => AtRestBetweenLines
  BY NothingDueAtRest DEF Served, WorkerInOrder, AtRestBetweenLines, AtRest
<1>. QED BY <1>1, AlwaysServed, PTL

\* No host makes the device carry out an operation twice.
THEOREM WorkOnce == AnySpec => []OncePerOperation
<1>1. Served => OncePerOperation
  BY DEF Served, WorkerInOrder, WorkIsSeen, OncePerOperation
<1>. QED BY <1>1, AlwaysServed, PTL

\* emit refuses no answer but an error to a line that was not served, an
\* error with too long a text, a list of devices that is too long or names
\* one badly, and a stage that the device counted wrong.
THEOREM SelfCheckCause == AnySpec => []SelfCheckHasACause
<1>1. Served => SelfCheckHasACause
  BY DueIsAccepted DEF Served, WorkerInOrder, SelfCheckHasACause, AtRest
<1>. QED BY <1>1, AlwaysServed, PTL
-----------------------------------------------------------------------------
(* A session of a WorkerDevice: the lines between its two validators *)

\* Between equal validators there are no lines.
LEMMA LeadsNowhere ==
  ASSUME NEW s \in Validators
  PROVE  Leads(s, <<>>, s)
<1>1. /\ <<s>> \in Seq(Validators) /\ Len(<<s>>) = 1 /\ <<s>>[1] = s
      /\ Len(<<>>) = 0 /\ 1..0 = {}
  OBVIOUS
<1> DEFINE chain == <<s>>
<1>2. /\ Len(chain) = Len(<<>>) + 1 /\ chain[1] = s /\ chain[Len(chain)] = s
      /\ \A i \in 1..Len(<<>>) : FALSE
  BY <1>1
<1>. QED BY <1>1, <1>2 DEF Leads

\* No lines lead from a validator to itself only.
LEMMA NothingLeadsNowhere ==
  ASSUME NEW s, NEW t, Leads(s, <<>>, t)
  PROVE  s = t
<1>1. PICK chain \in Seq(Validators) :
        Len(chain) = Len(<<>>) + 1 /\ chain[1] = s /\ chain[Len(chain)] = t
  BY DEF Leads
<1>2. Len(<<>>) + 1 = 1
  OBVIOUS
<1>. QED BY <1>1, <1>2

\* A line written lengthens the way.
LEMMA LeadsOn ==
  ASSUME NEW s, NEW q \in Seq(Written), NEW t, Leads(s, q, t),
         NEW m \in Written, AcceptsResponse(t, m), AfterResponse(t, m) \in Validators
  PROVE  Leads(s, Append(q, m), AfterResponse(t, m))
<1>1. PICK chain \in Seq(Validators) :
        /\ Len(chain) = Len(q) + 1
        /\ chain[1] = s /\ chain[Len(chain)] = t
        /\ \A i \in 1..Len(q) :
             AcceptsResponse(chain[i], q[i]) /\ chain[i + 1] = AfterResponse(chain[i], q[i])
  BY DEF Leads
<1> DEFINE n == Len(q)
           u == AfterResponse(t, m)
           longer == Append(chain, u)
           lines == Append(q, m)
<1>2. n \in Nat
  BY LenProperties
<1>3. /\ longer \in Seq(Validators) /\ Len(longer) = n + 2
      /\ longer[n + 2] = u
      /\ \A i \in 1..(n + 1) : longer[i] = chain[i]
  BY <1>1, <1>2, AppendProperties
<1>4. /\ Len(lines) = n + 1 /\ lines[n + 1] = m
      /\ \A i \in 1..n : lines[i] = q[i]
  BY <1>2, AppendProperties
<1>. HIDE DEF longer, lines, n, u
<1>5. longer[1] = s /\ longer[Len(longer)] = u
  BY <1>1, <1>2, <1>3
<1>6. ASSUME NEW i \in 1..Len(lines)
      PROVE  AcceptsResponse(longer[i], lines[i])
             /\ longer[i + 1] = AfterResponse(longer[i], lines[i])
  <2>1. CASE i = n + 1
    <3>1. longer[i] = t /\ longer[i + 1] = u /\ lines[i] = m
      BY <1>1, <1>2, <1>3, <1>4, <2>1 DEF n
    <3>. QED BY <3>1 DEF u
  <2>2. CASE i # n + 1
    <3>1. i \in 1..n /\ i + 1 \in 1..(n + 1) /\ i \in 1..(n + 1)
      BY <1>2, <1>4, <2>2
    <3>2. longer[i] = chain[i] /\ longer[i + 1] = chain[i + 1] /\ lines[i] = q[i]
      BY <1>3, <1>4, <3>1
    <3>. QED BY <1>1, <3>1, <3>2 DEF n
  <2>. QED BY <2>1, <2>2
<1>7. Len(longer) = Len(lines) + 1
  BY <1>2, <1>3, <1>4
<1>8. Leads(s, lines, u)
  BY <1>3, <1>5, <1>6, <1>7 DEF Leads
<1>. QED BY <1>8 DEF lines, u

\* The first line on the way is in order, and leads on to the rest of them.
LEMMA LeadsFirst ==
  ASSUME NEW s, NEW q \in Seq(Written), q # <<>>, NEW t, Leads(s, q, t)
  PROVE  AcceptsResponse(s, Head(q)) /\ Leads(AfterResponse(s, Head(q)), Tail(q), t)
<1>1. PICK chain \in Seq(Validators) :
        /\ Len(chain) = Len(q) + 1
        /\ chain[1] = s /\ chain[Len(chain)] = t
        /\ \A i \in 1..Len(q) :
             AcceptsResponse(chain[i], q[i]) /\ chain[i + 1] = AfterResponse(chain[i], q[i])
  BY DEF Leads
<1> DEFINE n == Len(q)
           shorter == Tail(chain)
           lines == Tail(q)
<1>2. /\ n \in Nat \ {0} /\ Head(q) = q[1]
      /\ Len(lines) = n - 1 /\ \A i \in 1..(n - 1) : lines[i] = q[i + 1]
  BY Rest1
<1>3. chain # <<>>
  BY <1>1, <1>2, EmptySeq
<1>4. /\ shorter \in Seq(Validators) /\ Len(shorter) = n
      /\ \A i \in 1..n : shorter[i] = chain[i + 1]
  BY <1>1, <1>2, <1>3, HeadTailProperties
<1>. HIDE DEF shorter, lines, n
<1>5. AcceptsResponse(s, Head(q)) /\ chain[2] = AfterResponse(s, Head(q))
  BY <1>1, <1>2 DEF n
<1>6. /\ Len(shorter) = Len(lines) + 1 /\ shorter[1] = chain[2]
      /\ shorter[Len(shorter)] = t
  BY <1>1, <1>2, <1>4 DEF n
<1>7. ASSUME NEW i \in 1..Len(lines)
      PROVE  AcceptsResponse(shorter[i], lines[i])
             /\ shorter[i + 1] = AfterResponse(shorter[i], lines[i])
  <2>1. i \in 1..(n - 1) /\ i \in 1..n /\ i + 1 \in 1..n
    BY <1>2
  <2>2. shorter[i] = chain[i + 1] /\ shorter[i + 1] = chain[(i + 1) + 1] /\ lines[i] = q[i + 1]
    BY <1>2, <1>4, <2>1
  <2>. QED BY <1>1, <2>1, <2>2 DEF n
<1>8. Leads(chain[2], lines, t)
  BY <1>4, <1>6, <1>7 DEF Leads
<1>. QED BY <1>5, <1>8 DEF lines

\* At rest a validator takes no response.
LEMMA RestAcceptsNothing == \A s, m : AtRest(s) => ~AcceptsResponse(s, m)
BY DEF AtRest, AcceptsResponse, AnswerInOrder, EventInOrder, MayComplete, ErrorInOrder, Running

\* At rest a validator takes no answer, so there is none on the way to it.
LEMMA NothingLeadsFromRest ==
  ASSUME NEW s, AtRest(s), NEW q \in Seq(Written), NEW t, Leads(s, q, t)
  PROVE  q = <<>> /\ s = t
<1>2. q = <<>>
  BY RestAcceptsNothing, LeadsFirst
<1>. QED BY <1>2, NothingLeadsNowhere
-----------------------------------------------------------------------------
(* A session of a WorkerDevice: what the worker does in it *)

\* Identifiers are numbers, and a validator has spent finitely many of them.
LEMMA IdsAreNumbers ==
  /\ Ids \subseteq Nat \ {0} /\ \A n \in Nat : n + 1 \in Ids => \A k \in 1..(n + 1) : k \in Ids
  /\ 1 \in Ids /\ 2 \in Ids /\ 3 \in Ids
  /\ \A s \in Validators : IsFiniteSet(s.seenReq) /\ Cardinality(s.seenReq) \in Nat
<1>1. Cardinality(Ids) \in Nat /\ Ids = 1..Cardinality(Ids) /\ Cardinality(Ids) >= 3
  BY MintAssumption, FS_CardinalityType
<1>2. \A s \in Validators : IsFiniteSet(s.seenReq)
  BY MintAssumption, FS_Subset DEF Validators
<1>3. \A s \in Validators : Cardinality(s.seenReq) \in Nat
  BY <1>2, FS_CardinalityType
<1>. QED BY <1>1, <1>2, <1>3

\* A request taken spends one identifier of those that are left.
LEMMA TakingCounts ==
  ASSUME NEW s \in Validators, NEW m, m.type \in RequestTypes, AcceptsRequest(s, m)
  PROVE  /\ AfterRequest(s, m).seenReq = s.seenReq \cup {m.req}
         /\ Cardinality(AfterRequest(s, m).seenReq) <= MaxTracked
<1>1. AfterRequest(s, m).seenReq = s.seenReq \cup {m.req}
  BY RequestEffect
<1>2. m.req \notin s.seenReq /\ Cardinality(s.seenReq) < MaxTracked
  BY DEF AcceptsRequest, FreshIds
<1>3. IsFiniteSet(s.seenReq) /\ Cardinality(s.seenReq) \in Nat
  BY IdsAreNumbers
<1>4. Cardinality(s.seenReq \cup {m.req}) = Cardinality(s.seenReq) + 1
  BY <1>2, <1>3, FS_AddElement
<1>. QED BY <1>1, <1>2, <1>3, <1>4, TrackedAssumption

\* The request under way, by what the host is doing.
LEMMA AskedIs ==
  ASSUME Minted, doing \in Awaiting
  PROVE  /\ Asked.type \in {"hello", "enumerate", "start_enroll", "start_verify"}
         /\ Asked.type \in RequestTypes
         /\ Asked \notin {Nothing} \cup NoRequests
         /\ Asked.req \in Int /\ Asked.req <= nextId
         /\ InCall <=> Asked.type \in StartRequests
         /\ InCall => Asked.op = nextId /\ Asked.op = call.op
         /\ doing = "enroll" <=> Asked.type = "start_enroll"
         /\ doing = "verify" <=> Asked.type = "start_verify"
         /\ doing = "verify" => Asked.template = call.blob
         /\ InCall => Asked.device = bound.id
<1>1. nextId \in Nat
  BY DEF Minted
<1>2. Asked.type \in {"hello", "enumerate", "start_enroll", "start_verify"}
  BY DEF Asked, Awaiting
<1>3. Asked \notin {Nothing} \cup NoRequests
  BY <1>2 DEF Nothing, NoRequests, Blank, Malformed, Unreadable
<1>4. Asked.req \in Int /\ Asked.req <= nextId
  BY <1>1 DEF Asked, Awaiting
<1>5. /\ InCall <=> Asked.type \in StartRequests
      /\ InCall => Asked.op = nextId /\ Asked.op = call.op
      /\ doing = "enroll" <=> Asked.type = "start_enroll"
      /\ doing = "verify" <=> Asked.type = "start_verify"
      /\ doing = "verify" => Asked.template = call.blob
      /\ InCall => Asked.device = bound.id
  BY DEF Asked, Awaiting, InCall, StartRequests, Minted
<1>. QED BY <1>2, <1>3, <1>4, <1>5 DEF RequestTypes, StartRequests

\* All the answers to a start tell what the device did.
LEMMA AnswersTell ==
  ASSUME NEW m, m.type \in {"start_enroll", "start_verify"}, m.req \in AnyId, m.op \in AnyId,
         NEW outcome \in DeviceDoes(m)
  PROVE  \A i \in DOMAIN Answers(m, outcome) : Tells(Answers(m, outcome)[i], outcome)
<1> DEFINE p == Answers(m, outcome)
<1>1. CASE outcome.what = "failed"
  <2>1. p = <<ErrorTo(m.req, OperationOf(m), outcome.text)>>
    BY <1>1 DEF Answers
  <2>. QED BY <1>1, <2>1 DEF Tells, ErrorTo
<1>2. CASE m.type = "start_enroll" /\ outcome.what # "failed"
  <2>1. outcome.what = "enrolled" /\ outcome.report \in Reports /\ outcome.template = m.op
    BY <1>2, DeviceOutcomes DEF StartRequests
  <2>2. p = EnrollAnswers(m, outcome)
    BY <1>2, <2>1 DEF Answers
  <2>. HIDE DEF p
  <2>3. /\ p \in Seq(Written) /\ Len(p) >= 3
        /\ p[1] = Started(m) /\ p[Len(p)] = Completed(m)
        /\ p[Len(p) - 1] = [type |-> "enrolled", op |-> m.op, data |-> "valid",
                            template |-> m.op]
        /\ \A k \in 2..(Len(p) - 2) : p[k].type = "enroll_progress" /\ p[k].op = m.op
    BY <2>1, <2>2, EnrollAnswersMade
  <2>4. DOMAIN p = 1..Len(p) /\ Len(p) \in Nat
    BY <2>3, LenProperties
  <2>5. ASSUME NEW i \in DOMAIN p
        PROVE  Tells(p[i], outcome)
    <3>1. i = 1 \/ i \in 2..(Len(p) - 2) \/ i = Len(p) - 1 \/ i = Len(p)
      BY <2>3, <2>4
    <3>. QED BY <2>1, <2>3, <3>1 DEF Tells, Started, Completed
  <2>. QED BY <2>5 DEF p
<1>3. CASE m.type = "start_verify" /\ outcome.what # "failed"
  <2>1. outcome.what = "decided"
    BY <1>3, DeviceOutcomes DEF StartRequests
  <2>2. p = VerifyAnswers(m, outcome)
    BY <1>3, <2>1 DEF Answers
  <2>. QED BY <2>1, <2>2 DEF Tells, Started, Completed, VerifyAnswers
<1>. QED BY <1>1, <1>2, <1>3

\* What the worker can do depends on where the call under way is.
LEMMA WorkerFollows ==
  ASSUME SessionInv, DriverWorks
  PROVE  /\ exit = "running" /\ ~hostGone
         /\ \/ /\ doing \in Awaiting /\ HostWaits
               /\ \/ Asking /\ Take
                  \/ BeingServed /\ Serve
                  \/ Answering /\ (Emit \/ FailSelfCheck)
            \/ /\ doing \in {"dropping", "waiting"} /\ Winding
               /\ \/ Emit \/ FailSelfCheck
                  \/ doing = "waiting" /\ toDriver = <<Shutdown>> /\ (Take \/ RefuseOutOfOrder)
<1>1. exit = "running"
  BY DEF DriverWorks, SkipBlank, RefuseMalformed, FailRead, RefuseOutOfOrder, Take, Reads,
         Serve, FailSelfCheck, Emit, EndOfInput
<1>2. ~hostGone
  BY <1>1 DEF SessionInv
<1>3. /\ SkipBlank \/ RefuseMalformed \/ FailRead \/ RefuseOutOfOrder \/ Take => Reads
      /\ Reads => serving = Nothing /\ pending = <<>> /\ toDriver # <<>>
      /\ Serve => serving # Nothing
      /\ Emit \/ FailSelfCheck => pending # <<>>
      /\ EndOfInput => hostGone
  BY DEF SkipBlank, RefuseMalformed, FailRead, RefuseOutOfOrder, Take, Reads, Serve,
         FailSelfCheck, Emit, EndOfInput
<1>4. CASE doing \in {"greet", "list", "idle"}
  BY <1>1, <1>2, <1>3, <1>4 DEF SessionInv, Situation, Quiet, PipesEmpty, DriverWorks
<1>5. CASE doing \in Awaiting
  <2>1. HostWaits /\ (Asking \/ BeingServed \/ Answering) /\ Asked \notin {Nothing} \cup NoRequests
    BY <1>5, AskedIs DEF SessionInv, Situation
  <2>2. CASE Asking
    <3>1. toDriver = <<Asked>> /\ AcceptsRequest(driver, Asked) /\ serving = Nothing /\ pending = <<>>
      BY <2>2 DEF Asking
    <3>2. Line = Asked
      BY <3>1 DEF Line
    <3>3. Take
      BY <1>2, <1>3, <2>1, <3>1, <3>2
      DEF DriverWorks, NoRequests, SkipBlank, RefuseMalformed, FailRead, RefuseOutOfOrder
    <3>. QED BY <1>1, <1>2, <1>5, <2>1, <2>2, <3>3
  <2>3. CASE BeingServed
    <3>1. serving = Asked /\ pending = <<>>
      BY <2>1, <2>3 DEF BeingServed, SessionInv, WorkerInOrder
    <3>. QED BY <1>1, <1>2, <1>3, <1>5, <2>1, <2>3, <3>1 DEF DriverWorks
  <2>4. CASE Answering
    BY <1>1, <1>2, <1>3, <1>5, <2>1, <2>4 DEF Answering, DriverWorks
  <2>. QED BY <2>1, <2>2, <2>3, <2>4
<1>6. CASE doing \in {"dropping", "waiting"}
  <2>1. Winding
    BY <1>1, <1>6 DEF SessionInv, Situation
  <2>2. ASSUME Reads PROVE doing = "waiting" /\ toDriver = <<Shutdown>> /\ (Take \/ RefuseOutOfOrder)
    <3>1. doing = "waiting" /\ toDriver = <<Shutdown>>
      BY <1>3, <2>1, <2>2 DEF Winding
    <3>2. Line = Shutdown
      BY <3>1 DEF Line
    <3>3. Shutdown \notin NoRequests
      BY DEF Shutdown, NoRequests, Blank, Malformed, Unreadable
    <3>. QED BY <1>2, <1>3, <2>1, <2>2, <3>1, <3>2, <3>3
         DEF DriverWorks, NoRequests, SkipBlank, RefuseMalformed, FailRead, Winding
  <2>. QED BY <1>1, <1>2, <1>3, <1>6, <2>1, <2>2 DEF DriverWorks, Winding
<1>7. CASE doing = "gone"
  BY <1>1, <1>7 DEF SessionInv
<1>. QED BY <1>4, <1>5, <1>6, <1>7 DEF SessionInv, TypeOK, Doings

\* What the host is doing does not change with what the worker does.
LEMMA HostStays ==
  ASSUME SessionInv, UNCHANGED hostVars, UNCHANGED hostGone
  PROVE  /\ Asked' = Asked /\ Shutdown' = Shutdown
         /\ InCall' = InCall /\ HostWaits' = HostWaits /\ (doing \in Awaiting)' = (doing \in Awaiting)
         /\ host' = host /\ doing' = doing /\ call' = call /\ nextId' = nextId
         /\ answers' = answers /\ bound' = bound /\ hostGone' = hostGone
BY DEF hostVars, Asked, Shutdown, InCall, HostWaits, Awaiting

\* The parts of the invariant that only the host can disturb.
LEMMA WorkerKeepsTypes ==
  ASSUME SessionInv, UNCHANGED hostVars, UNCHANGED hostGone, WorkerInOrder', toHost' \in Seq(Written),
         Len(toHost') <= Capacity
  PROVE  /\ TypeOK' /\ Coherent(host)'
         /\ (doing \in {"greet", "await_hello", "list", "await_devices"} => bound = Nothing)'
         /\ (hostGone <=> doing = "gone")'
BY HostStays DEF SessionInv, TypeOK, WorkerInOrder

\* A step of the worker that spends no identifier beyond those handed out.
LEMMA WorkerKeepsMinted ==
  ASSUME SessionInv, UNCHANGED hostVars, UNCHANGED hostGone,
         exit' = "running" => driver'.seenReq \subseteq 1..nextId,
         Cardinality(driver'.seenReq) <= MaxTracked
  PROVE  Minted'
BY HostStays DEF SessionInv, Minted, InCall

\* The worker takes the request.
LEMMA TakeKeeps ==
  ASSUME SessionInv, UNCHANGED hostVars, exit = "running", doing \in Awaiting, HostWaits, Asking, Take
  PROVE  SessionInv'
<1>1. /\ toDriver = <<Asked>> /\ Line = Asked /\ toHost = <<>> /\ pending = <<>>
      /\ AcceptsRequest(driver, Asked) /\ host = AfterRequest(driver, Asked)
      /\ InCall => call.got = None
  BY DEF Asking, Line
<1>2. /\ Asked.type \in RequestTypes /\ Asked.type # "shutdown" /\ Asked.req <= nextId
      /\ nextId \in Nat /\ driver \in Validators
  BY AskedIs DEF SessionInv, Minted, WorkerInOrder
<1>3. /\ toDriver' = <<>> /\ UNCHANGED <<toHost, hostGone, did, pending, exit>>
      /\ driver' = host /\ serving' = Asked
  <2>1. Tail(<<Asked>>) = <<>>
    OBVIOUS
  <2>. QED BY <1>1, <1>2, <2>1 DEF Take, Reads
<1>4. WorkerInOrder'
  BY <1>1, <1>2, TakesInOrder DEF SessionInv
<1>5. Minted'
  <2>1. /\ driver'.seenReq = driver.seenReq \cup {Asked.req}
        /\ Cardinality(driver'.seenReq) <= MaxTracked
    BY <1>1, <1>2, <1>3, TakingCounts
  <2>2. Asked.req \in 1..nextId
    <3>1. Asked.req \in Ids
      BY <1>1 DEF AcceptsRequest, ValidRequest
    <3>2. Asked.req \in Nat \ {0}
      BY <3>1, IdsAreNumbers
    <3>. QED BY <1>2, <3>2
  <2>3. driver'.seenReq \subseteq 1..nextId
    BY <2>1, <2>2 DEF SessionInv, Minted
  <2>. QED BY <1>3, <2>1, <2>3, WorkerKeepsMinted
<1>6. BeingServed'
  BY <1>1, <1>3, HostStays DEF BeingServed, PipesEmpty
<1>7. Situation'
  BY <1>3, <1>6, HostStays DEF Situation, Awaiting
<1>8. toHost' \in Seq(Written) /\ Len(toHost') <= Capacity
  BY <1>3 DEF SessionInv, TypeOK
<1>9. TypeOK' /\ Coherent(host)'
      /\ (doing \in {"greet", "await_hello", "list", "await_devices"} => bound = Nothing)'
      /\ (hostGone <=> doing = "gone")'
  BY <1>3, <1>4, <1>8, WorkerKeepsTypes
<1>10. WorkerFailsForACause' /\ (doing = "gone" => exit # "running")'
  BY <1>3, HostStays DEF WorkerFailsForACause, SessionInv
<1>. QED BY <1>4, <1>5, <1>7, <1>8, <1>9, <1>10 DEF SessionInv

\* The device carries the request out.
LEMMA ServeKeeps ==
  ASSUME SessionInv, UNCHANGED hostVars, exit = "running", doing \in Awaiting, HostWaits, BeingServed,
         Serve
  PROVE  SessionInv'
<1>1. /\ toDriver = <<>> /\ toHost = <<>> /\ serving = Asked /\ host = driver
      /\ InCall => call.got = None
  BY DEF BeingServed, PipesEmpty
<1>2. PICK outcome \in DeviceDoes(Asked) :
        /\ pending' = Answers(Asked, outcome)
        /\ did' = IF serving.type \in StartRequests
                    THEN [did EXCEPT ![serving.op] = Append(@, [request |-> serving,
                                                                outcome |-> outcome])]
                    ELSE did
  BY <1>1 DEF Serve
<1>3. serving' = Nothing /\ UNCHANGED <<toDriver, toHost, hostGone, driver, exit>>
  BY DEF Serve, pipes
<1>4. WorkerInOrder'
  BY ServesInOrder DEF SessionInv
<1>5. /\ Asked # Nothing /\ (InCall <=> Asked.type \in StartRequests)
      /\ InCall => Asked.op = call.op /\ Asked.type \in {"start_enroll", "start_verify"}
      /\ driver \in Validators /\ Coherent(driver) /\ Awaits(driver, Asked)
  BY <1>1, AskedIs DEF SessionInv, WorkerInOrder, StartRequests
<1>6. driver.phase \in {"AwaitHelloAck", "AwaitDevices", "AwaitStarted"} /\ driver.req = Asked.req
  BY <1>5 DEF Awaits
<1>7. Minted'
  BY <1>3, WorkerKeepsMinted DEF SessionInv, Minted
<1>8. ASSUME InCall PROVE Answered'
  <2>1. did'[call.op] = <<[request |-> Asked, outcome |-> outcome]>>
    BY <1>1, <1>2, <1>5, <1>8, ServeRecords DEF SessionInv
  <2>2. Asked.req \in AnyId /\ Asked.op \in AnyId
    <3>1. Asked.op \in driver.seenOp /\ driver.req # NoId
      BY <1>5, <1>6, <1>8 DEF Awaits, Coherent, Waiting
    <3>. QED BY <1>5, <1>6, <3>1 DEF Validators, AnyId
  <2>3. \A i \in DOMAIN pending' : Tells(pending'[i], outcome)
    BY <1>2, <1>5, <1>8, <2>2, AnswersTell
  <2>4. toHost' = <<>> /\ DOMAIN <<>> = {}
    BY <1>1, <1>3
  <2>5. call.got = None /\ host.phase = "AwaitStarted"
    BY <1>1, <1>5, <1>8 DEF Awaits
  <2>. QED BY <1>3, <2>1, <2>3, <2>4, <2>5, HostStays DEF Answered
<1>9. Answering'
  <2>1. Leads(host', toHost', driver')
    BY <1>1, <1>3, <1>5, LeadsNowhere, HostStays
  <2>2. driver'.phase # "NeedHello" /\ ~AtRest(driver')
    BY <1>3, <1>6 DEF AtRest
  <2>. QED BY <1>1, <1>3, <1>8, <2>1, <2>2, HostStays DEF Answering
<1>10. Situation'
  BY <1>3, <1>9, HostStays DEF Situation, Awaiting
<1>11. toHost' \in Seq(Written) /\ Len(toHost') <= Capacity
  BY <1>3 DEF SessionInv, TypeOK
<1>12. TypeOK' /\ Coherent(host)'
       /\ (doing \in {"greet", "await_hello", "list", "await_devices"} => bound = Nothing)'
       /\ (hostGone <=> doing = "gone")'
  BY <1>3, <1>4, <1>11, WorkerKeepsTypes
<1>13. WorkerFailsForACause' /\ (doing = "gone" => exit # "running")'
  BY <1>3, HostStays DEF WorkerFailsForACause, SessionInv
<1>. QED BY <1>4, <1>7, <1>10, <1>11, <1>12, <1>13 DEF SessionInv

\* A line still tells what it told when others are added to it or taken away.
LEMMA TellsOn ==
  ASSUME NEW q \in Seq(Written), NEW p \in Seq(Written), p # <<>>, NEW outcome,
         \A i \in DOMAIN q : Tells(q[i], outcome),
         \A i \in DOMAIN p : Tells(p[i], outcome)
  PROVE  /\ \A i \in DOMAIN Append(q, Head(p)) : Tells(Append(q, Head(p))[i], outcome)
         /\ \A i \in DOMAIN Tail(p) : Tells(Tail(p)[i], outcome)
         /\ Tells(Head(p), outcome)
<1>1. /\ Len(p) \in Nat \ {0} /\ Head(p) = p[1] /\ Head(p) \in Written
      /\ Tail(p) \in Seq(Written) /\ Len(Tail(p)) = Len(p) - 1
      /\ \A k \in 1..(Len(p) - 1) : Tail(p)[k] = p[k + 1]
  BY Rest1
<1>2. DOMAIN p = 1..Len(p) /\ DOMAIN q = 1..Len(q) /\ Len(q) \in Nat
      /\ DOMAIN Tail(p) = 1..(Len(p) - 1)
  BY <1>1, LenProperties
<1> DEFINE r == Append(q, Head(p))
<1>3. /\ DOMAIN r = 1..(Len(q) + 1) /\ r[Len(q) + 1] = p[1]
      /\ \A i \in 1..Len(q) : r[i] = q[i]
  BY <1>1, <1>2, AppendProperties
<1>. HIDE DEF r
<1>4. Tells(Head(p), outcome)
  BY <1>1, <1>2
<1>5. ASSUME NEW i \in DOMAIN r PROVE Tells(r[i], outcome)
  <2>1. i \in 1..Len(q) \/ i = Len(q) + 1
    BY <1>2, <1>3
  <2>. QED BY <1>1, <1>2, <1>3, <1>4, <2>1
<1>6. ASSUME NEW i \in DOMAIN Tail(p) PROVE Tells(Tail(p)[i], outcome)
  <2>1. i \in 1..(Len(p) - 1) /\ i + 1 \in 1..Len(p)
    BY <1>1, <1>2
  <2>. QED BY <1>1, <1>2, <2>1
<1>. QED BY <1>4, <1>5, <1>6 DEF r

\* The worker writes an answer.
LEMMA EmitKeeps ==
  ASSUME SessionInv, UNCHANGED hostVars, exit = "running", ~hostGone, Emit,
         \/ doing \in Awaiting /\ HostWaits /\ Answering
         \/ doing \in {"dropping", "waiting"} /\ Winding
  PROVE  SessionInv'
<1> DEFINE m == Head(pending)
<1>1. /\ pending # <<>> /\ pending \in Seq(Written) /\ toHost \in Seq(Written)
      /\ AcceptsResponse(driver, m) /\ driver' = AfterResponse(driver, m)
      /\ driver' \in Validators /\ driver'.seenReq = driver.seenReq
      /\ driver'.phase # "NeedHello" /\ (AtRest(driver') => Tail(pending) = <<>>)
      /\ m \in Written /\ Tail(pending) \in Seq(Written)
      /\ Len(toHost) < Capacity /\ toHost' = Append(toHost, m) /\ pending' = Tail(pending)
      /\ UNCHANGED <<toDriver, hostGone, serving, did, exit>>
  BY EmitEffect DEF SessionInv, WorkerInOrder
<1>2. WorkerInOrder'
  BY EmitsInOrder DEF SessionInv
<1>3. Minted'
  BY <1>1, WorkerKeepsMinted DEF SessionInv, Minted
<1>4. toHost' \in Seq(Written) /\ Len(toHost') <= Capacity
  <2>1. toHost' \in Seq(Written) /\ Len(toHost') = Len(toHost) + 1 /\ Len(toHost) \in Nat
    BY <1>1, AppendProperties, LenProperties
  <2>. QED BY <1>1, <2>1, CapacityAssumption
<1>5. Situation'
  <2>1. CASE doing \in Awaiting /\ HostWaits /\ Answering
    <3>1. Leads(host, toHost', driver')
      BY <1>1, <2>1, LeadsOn DEF Answering
    <3>2. ASSUME InCall PROVE Answered'
      <4>1. PICK outcome \in DeviceDoes(Asked) :
              /\ did[call.op] = <<[request |-> Asked, outcome |-> outcome]>>
              /\ \A i \in DOMAIN toHost : Tells(toHost[i], outcome)
              /\ \A i \in DOMAIN pending : Tells(pending[i], outcome)
              /\ call.got # None =>
                   outcome.what # "failed" /\ call.got = Result(Asked, outcome)
              /\ host.phase = "Enrolling" /\ host.enrolled => call.got # None
              /\ host.phase = "Verifying" /\ host.reported => call.got # None
        BY <2>1, <3>2 DEF Answering, Answered
      <4>2. /\ \A i \in DOMAIN toHost' : Tells(toHost'[i], outcome)
            /\ \A i \in DOMAIN pending' : Tells(pending'[i], outcome)
        BY <1>1, <4>1, TellsOn
      <4>. QED BY <1>1, <4>1, <4>2, HostStays DEF Answered
    <3>3. Answering'
      BY <1>1, <2>1, <3>1, <3>2, HostStays DEF Answering
    <3>. QED BY <1>1, <2>1, <3>3, HostStays DEF Situation, Awaiting
  <2>2. CASE doing \in {"dropping", "waiting"} /\ Winding
    <3>1. Panicked
      BY <1>1, <2>2, RestAcceptsNothing DEF Winding
    <3>2. Panicked'
      BY <3>1 DEF Panicked, hostVars
    <3>3. Winding'
      BY <1>1, <2>2, <3>2, HostStays DEF Winding
    <3>. QED BY <1>1, <2>2, <3>3, HostStays DEF Situation, Awaiting
  <2>. QED BY <2>1, <2>2
<1>6. TypeOK' /\ Coherent(host)'
      /\ (doing \in {"greet", "await_hello", "list", "await_devices"} => bound = Nothing)'
      /\ (hostGone <=> doing = "gone")'
  BY <1>1, <1>2, <1>4, WorkerKeepsTypes
<1>7. WorkerFailsForACause' /\ (doing = "gone" => exit # "running")'
  BY <1>1, HostStays DEF WorkerFailsForACause, SessionInv
<1>. QED BY <1>2, <1>3, <1>4, <1>5, <1>6, <1>7 DEF SessionInv

\* The worker refuses its own answer.
LEMMA SelfCheckKeeps ==
  ASSUME SessionInv, UNCHANGED hostVars, exit = "running", FailSelfCheck,
         \/ doing \in Awaiting /\ HostWaits /\ Answering
         \/ doing \in {"dropping", "waiting"} /\ Winding
  PROVE  SessionInv'
<1>1. /\ pending # <<>> /\ ~AcceptsResponse(driver, Head(pending)) /\ exit' = "self_check"
      /\ UNCHANGED <<toDriver, toHost, hostGone, driver, serving, pending, did>>
  BY DEF FailSelfCheck, pipes
<1>2. WorkerInOrder'
  BY EmitsInOrder DEF SessionInv
<1>3. Minted'
  BY <1>1, WorkerKeepsMinted DEF SessionInv, Minted
<1>4. toHost' \in Seq(Written) /\ Len(toHost') <= Capacity
  BY <1>1 DEF SessionInv, TypeOK
<1>5. WorkerFailsForACause'
  <2>1. /\ driver \in Validators /\ Coherent(driver) /\ pending \in Seq(Written)
        /\ Due(driver, pending)
    BY <1>1 DEF SessionInv, WorkerInOrder, FailSelfCheck, Answering, Winding
  <2>2. \/ AtRest(driver) \/ Head(pending).type = "enroll_progress"
        \/ Head(pending).type = "error" /\ Head(pending).data = "invalid"
        \/ Head(pending).type = "devices" /\ ~FitList(Head(pending).roster)
    BY <1>1, <2>1, DueIsAccepted
  <2>3. AtRest(driver) => Cardinality(driver.seenReq) = MaxTracked
    BY <1>1 DEF Answering, Winding
  <2>. QED BY <1>1, <2>2, <2>3 DEF WorkerFailsForACause
<1>6. Situation'
  <2>1. CASE doing \in Awaiting /\ HostWaits /\ Answering
    <3>1. InCall => Answered'
      BY <1>1, <2>1, HostStays DEF Answering, Answered
    <3>2. Answering'
      BY <1>1, <2>1, <3>1, HostStays DEF Answering
    <3>. QED BY <1>1, <2>1, <3>2, HostStays DEF Situation, Awaiting
  <2>2. CASE doing \in {"dropping", "waiting"} /\ Winding
    BY <1>1, <2>2, HostStays DEF Situation, Awaiting
  <2>. QED BY <2>1, <2>2
<1>7. TypeOK' /\ Coherent(host)'
      /\ (doing \in {"greet", "await_hello", "list", "await_devices"} => bound = Nothing)'
      /\ (hostGone <=> doing = "gone")'
  BY <1>1, <1>2, <1>4, WorkerKeepsTypes
<1>. QED BY <1>1, <1>2, <1>3, <1>4, <1>5, <1>6, <1>7, HostStays DEF SessionInv

\* The worker reads that it is to leave.
LEMMA LeaveKeeps ==
  ASSUME SessionInv, UNCHANGED hostVars, exit = "running", Take \/ RefuseOutOfOrder,
         doing = "waiting", toDriver = <<Shutdown>>, Winding
  PROVE  SessionInv'
<1>1. /\ Line = Shutdown /\ toDriver' = <<>> /\ UNCHANGED <<toHost, hostGone, did>>
      /\ serving = Nothing /\ pending = <<>> /\ Shutdown.type = "shutdown"
      /\ Shutdown.req = nextId + 1
  <2>1. Tail(<<Shutdown>>) = <<>>
    OBVIOUS
  <2>. QED BY <2>1 DEF Take, RefuseOutOfOrder, Reads, Line, Shutdown
<1>2. driver \in Validators /\ nextId \in Nat /\ nextId + 1 \in Ids
  BY DEF SessionInv, WorkerInOrder, Minted
<1>3. WorkerInOrder'
  BY <1>1, <1>2, TakesInOrder, RefusesInOrder DEF SessionInv, RequestTypes, AnyId
<1>4. toHost' \in Seq(Written) /\ Len(toHost') <= Capacity
  BY <1>1 DEF SessionInv, TypeOK
<1>5. TypeOK' /\ Coherent(host)'
      /\ (doing \in {"greet", "await_hello", "list", "await_devices"} => bound = Nothing)'
      /\ (hostGone <=> doing = "gone")'
  BY <1>1, <1>3, <1>4, WorkerKeepsTypes
<1>6. CASE Take
  <2>1. exit' = "success" /\ AcceptsRequest(driver, Shutdown) /\ driver' = AfterRequest(driver, Shutdown)
    BY <1>1, <1>6 DEF Take
  <2>2. Cardinality(driver'.seenReq) <= MaxTracked
    BY <1>1, <1>2, <2>1, TakingCounts DEF RequestTypes
  <2>3. Minted'
    BY <1>1, <2>1, <2>2, WorkerKeepsMinted
  <2>4. WorkerFailsForACause' /\ Situation' /\ (doing = "gone" => exit # "running")'
    BY <2>1, <1>1, HostStays DEF WorkerFailsForACause, Situation, Awaiting
  <2>. QED BY <1>3, <1>4, <1>5, <2>3, <2>4 DEF SessionInv
<1>7. CASE RefuseOutOfOrder
  <2>1. ~AcceptsRequest(driver, Shutdown) /\ UNCHANGED <<driver, serving, exit>>
    BY <1>1, <1>7 DEF RefuseOutOfOrder
  <2>2. Minted'
    BY <1>1, <2>1, WorkerKeepsMinted DEF SessionInv, Minted
  <2>3. AtRest(driver) => Cardinality(driver.seenReq) = MaxTracked
    <3>1. /\ driver.seenReq \subseteq 1..nextId /\ Cardinality(driver.seenReq) <= MaxTracked
          /\ Cardinality(driver.seenReq) \in Nat
      BY <1>2, IdsAreNumbers DEF SessionInv, Minted
    <3>2. nextId + 1 \notin driver.seenReq
      BY <1>2, <3>1
    <3>3. ValidRequest(Shutdown)
      BY <1>1, <1>2 DEF ValidRequest, StartRequests
    <3>4. driver.phase = "Ready" => ~(Cardinality(driver.seenReq) < MaxTracked)
      BY <1>1, <2>1, <3>2, <3>3 DEF AcceptsRequest, FreshIds, RequestInOrder, StartRequests
    <3>5. driver.phase = "NeedHello" => MaxTracked = 0
      BY DEF Winding
    <3>. QED BY <3>1, <3>4, <3>5, TrackedAssumption DEF AtRest
  <2>4. Winding'
    <3>1. pending' # <<>>
      BY <1>7 DEF RefuseOutOfOrder
    <3>2. Panicked' <=> Panicked
      BY DEF Panicked, hostVars
    <3>. QED BY <1>1, <2>1, <2>3, <3>1, <3>2, HostStays DEF Winding
  <2>5. WorkerFailsForACause' /\ Situation' /\ (doing = "gone" => exit # "running")'
    BY <2>1, <2>4, <1>1, HostStays DEF WorkerFailsForACause, Situation, Awaiting
  <2>. QED BY <1>3, <1>4, <1>5, <2>2, <2>5 DEF SessionInv
<1>. QED BY <1>6, <1>7

\* The worker dies.
LEMMA DeathKeeps ==
  ASSUME SessionInv, UNCHANGED hostVars, Die
  PROVE  SessionInv'
<1>1. /\ exit = "running" /\ exit' = "killed"
      /\ UNCHANGED <<toDriver, toHost, hostGone, driver, serving, pending, did>>
  BY DEF Die, pipes
<1>2. WorkerInOrder'
  BY StaysInOrder DEF SessionInv
<1>3. Minted'
  BY <1>1, WorkerKeepsMinted DEF SessionInv, Minted
<1>4. toHost' \in Seq(Written) /\ Len(toHost') <= Capacity
  BY <1>1 DEF SessionInv, TypeOK
<1>5. WorkerFailsForACause'
  BY <1>1 DEF WorkerFailsForACause
<1>6. Situation'
  <2>1. CASE doing \in Awaiting
    <3>1. HostWaits /\ (Asking \/ BeingServed \/ Answering)
      BY <2>1 DEF SessionInv, Situation
    <3>2. Asking' \/ BeingServed' \/ Answering'
      BY <1>1, <3>1, HostStays DEF Asking, BeingServed, Answering, Answered, PipesEmpty
    <3>. QED BY <1>1, <2>1, <3>1, <3>2, HostStays DEF Situation, Awaiting
  <2>2. CASE doing \notin Awaiting
    BY <1>1, <2>2, HostStays DEF Situation
  <2>. QED BY <2>1, <2>2
<1>7. TypeOK' /\ Coherent(host)'
      /\ (doing \in {"greet", "await_hello", "list", "await_devices"} => bound = Nothing)'
      /\ (hostGone <=> doing = "gone")'
  BY <1>1, <1>2, <1>4, WorkerKeepsTypes
<1>. QED BY <1>1, <1>2, <1>3, <1>4, <1>5, <1>6, <1>7, HostStays DEF SessionInv

\* The worker's steps keep the invariant of the session.
LEMMA WorkerKeeps ==
  ASSUME SessionInv, UNCHANGED hostVars, DriverWorks \/ Die
  PROVE  SessionInv'
BY WorkerFollows, TakeKeeps, ServeKeeps, EmitKeeps, SelfCheckKeeps, LeaveKeeps, DeathKeeps
-----------------------------------------------------------------------------
(* A session of a WorkerDevice: what the host does in it *)

\* Before spawn nothing is under way.
LEMMA SessionStarts == Init => SessionInv
<1> SUFFICES ASSUME Init PROVE SessionInv
  OBVIOUS
<1>1. WorkerInOrder
  BY StartsInOrder DEF Init
<1>2. /\ host = NewValidator /\ driver = NewValidator /\ exit = "running" /\ serving = Nothing
      /\ pending = <<>> /\ toDriver = <<>> /\ toHost = <<>> /\ hostGone = FALSE
      /\ nextId = 0 /\ bound = Nothing /\ doing = "greet" /\ call = NoCall
      /\ answers = [o \in Ids |-> None]
  BY DEF Init, DriverInit
<1>3. /\ NewValidator \in Validators /\ Coherent(NewValidator)
      /\ NewValidator.phase = "NeedHello" /\ NewValidator.seenReq = {}
  BY DEF NewValidator, Validators, Phases, Coherent, Waiting, Engaged, Running
<1>4. toHost \in Seq(Written) /\ Len(toHost) <= Capacity
  <2>1. Len(<<>>) = 0
    OBVIOUS
  <2>. QED BY <1>2, <2>1, CapacityAssumption
<1>5. TypeOK
  <2>1. /\ answers \in [Ids -> Value]
        /\ call \in [op : Ids \cup {NoId}, blob : Ids \cup {NoId, Foreign}, got : Value]
    BY <1>2 DEF NoCall, Value
  <2>. QED BY <1>2, <1>3, <1>4, <2>1 DEF TypeOK, Doings
<1>6. Minted
  <2>1. Cardinality({}) = 0
    BY FS_EmptySet
  <2>2. driver.seenReq \subseteq 1..nextId /\ Cardinality(driver.seenReq) <= MaxTracked
    BY <1>2, <1>3, <2>1, TrackedAssumption
  <2>. QED BY <1>2, <2>2, IdsAreNumbers DEF Minted, InCall
<1>7. Situation
  BY <1>2, <1>3 DEF Situation, Quiet, PipesEmpty, Awaiting
<1>. QED BY <1>1, <1>2, <1>3, <1>4, <1>5, <1>6, <1>7 DEF SessionInv, WorkerFailsForACause

\* The parts of the invariant that only the worker can disturb.
LEMMA HostKeepsWorker ==
  ASSUME SessionInv, UNCHANGED <<process, did>>
  PROVE  /\ WorkerInOrder' /\ WorkerFailsForACause'
         /\ UNCHANGED <<driver, serving, pending, exit, did>>
         /\ driver \in Validators /\ exit \in Exits \cup {"running"}
BY StaysInOrder DEF SessionInv, WorkerInOrder, WorkerFailsForACause, process

\* A request is sent into an empty pipe, to a worker at rest.
LEMMA SendEffect ==
  ASSUME SessionInv, doing \in {"greet", "list", "idle"}, NEW m, m.type \in RequestTypes, Send(m)
  PROVE  /\ UNCHANGED <<toHost, hostGone, process, did>>
         /\ host' \in Validators /\ Coherent(host')
         /\ Sent(m) =>
              /\ exit = "running" /\ toHost = <<>> /\ toDriver' = <<m>>
              /\ serving = Nothing /\ pending = <<>>
              /\ AcceptsRequest(driver, m) /\ host' = AfterRequest(driver, m)
         /\ ~Sent(m) /\ exit = "running" =>
              Quiet /\ ~AcceptsRequest(driver, m) /\ UNCHANGED <<toDriver, host>>
<1>1. host \in Validators /\ Coherent(host)
  BY DEF SessionInv, TypeOK
<1>2. host' \in Validators /\ Coherent(host')
  BY <1>1, RequestCoherent DEF Send
<1>3. exit = "running" => Quiet /\ host = driver /\ toDriver = <<>>
  BY DEF SessionInv, Situation, Quiet, PipesEmpty
<1>4. CASE Sent(m)
  <2>1. Append(<<>>, m) = <<m>>
    OBVIOUS
  <2>. QED BY <1>2, <1>3, <1>4, <2>1 DEF Send, Sent, Quiet, PipesEmpty
<1>5. CASE ~Sent(m)
  BY <1>2, <1>3, <1>5 DEF Send, Sent
<1>. QED BY <1>4, <1>5

\* spawn says hello.
LEMMA GreetKeeps ==
  ASSUME SessionInv, Greet
  PROVE  SessionInv'
<1> DEFINE m == [type |-> "hello", req |-> nextId + 1, version |-> ProtocolVersion]
<1>1. /\ doing = "greet" /\ nextId = 0 /\ nextId' = 1 /\ Send(m)
      /\ doing' = IF Sent(m) THEN "await_hello" ELSE "dropping"
      /\ UNCHANGED <<bound, call, answers>>
      /\ m.type = "hello" /\ m.type \in RequestTypes /\ m.req = 1 /\ m.version = ProtocolVersion
  BY DEF Greet, Exchange, SessionInv, Minted, RequestTypes
<1>2. m = [type |-> "hello", req |-> 1, version |-> ProtocolVersion]
  BY <1>1
<1>. HIDE DEF m
<1>3. /\ UNCHANGED <<toHost, hostGone, process, did>>
      /\ host' \in Validators /\ Coherent(host')
      /\ Sent(m) =>
           /\ exit = "running" /\ toHost = <<>> /\ toDriver' = <<m>>
           /\ serving = Nothing /\ pending = <<>>
           /\ AcceptsRequest(driver, m) /\ host' = AfterRequest(driver, m)
      /\ ~Sent(m) /\ exit = "running" =>
           Quiet /\ ~AcceptsRequest(driver, m) /\ UNCHANGED <<toDriver, host>>
  BY <1>1, SendEffect
<1>4. /\ WorkerInOrder' /\ WorkerFailsForACause'
      /\ UNCHANGED <<driver, serving, pending, exit, did>>
      /\ driver \in Validators /\ exit \in Exits \cup {"running"}
  BY <1>3, HostKeepsWorker
<1>5. Minted'
  <2>1. exit = "running" => driver.seenReq \subseteq 1..1
    BY <1>1 DEF SessionInv, Minted
  <2>2. \A o \in Ids : o > 1 => answers[o] = None
    BY <1>1, IdsAreNumbers DEF SessionInv, Minted
  <2>. QED BY <1>1, <1>4, <2>1, <2>2, IdsAreNumbers DEF SessionInv, Minted, InCall
<1>6. TypeOK' /\ toHost' \in Seq(Written)
  BY <1>1, <1>3, <1>4, IdsAreNumbers DEF SessionInv, TypeOK, Doings, Awaiting
<1>7. Situation'
  <2>1. CASE Sent(m)
    <3>1. Asked' = m
      BY <1>1, <1>2, <2>1 DEF Asked
    <3>2. host'.phase = "AwaitHelloAck"
      <4>1. driver \in Validators /\ AcceptsRequest(driver, m)
        BY <1>3, <1>4, <2>1
      <4>2. AfterRequest(driver, m).phase = "AwaitHelloAck"
        BY <1>1, <4>1, RequestEffect
      <4>. QED BY <1>3, <2>1, <4>2
    <3>3. Asking' /\ HostWaits'
      BY <1>1, <1>3, <1>4, <2>1, <3>1, <3>2 DEF Asking, HostWaits, InCall
    <3>. QED BY <1>1, <2>1, <3>3 DEF Situation, Awaiting
  <2>2. CASE ~Sent(m)
    <3>1. ASSUME exit = "running" PROVE Winding'
      <4>1. /\ toDriver' = <<>> /\ serving' = Nothing /\ pending' = <<>>
            /\ driver.phase = "NeedHello" /\ ~AcceptsRequest(driver, m)
            /\ toHost' = <<>> /\ driver' = driver
        BY <1>1, <1>3, <1>4, <2>2, <3>1 DEF Quiet, PipesEmpty
      <4>2. driver.seenReq = {}
        BY <1>1, <3>1 DEF SessionInv, Minted
      <4>3. ValidRequest(m) /\ RequestInOrder(driver, m)
        BY <1>1, <4>1, IdsAreNumbers DEF ValidRequest, RequestInOrder, StartRequests
      <4>4. ~(Cardinality({}) < MaxTracked)
        BY <1>1, <4>1, <4>2, <4>3 DEF AcceptsRequest, FreshIds, StartRequests
      <4>5. MaxTracked = 0
        BY <4>4, FS_EmptySet, TrackedAssumption
      <4>. QED BY <1>1, <2>2, <4>1, <4>5 DEF Winding, AtRest
    <3>. QED BY <1>1, <1>4, <2>2, <3>1 DEF Situation, Awaiting
  <2>. QED BY <2>1, <2>2
<1>. QED BY <1>1, <1>3, <1>4, <1>5, <1>6, <1>7 DEF SessionInv

\* spawn asks for the devices.
LEMMA ListKeeps ==
  ASSUME SessionInv, List
  PROVE  SessionInv'
<1> DEFINE m == [type |-> "enumerate", req |-> nextId + 1]
<1>1. /\ doing = "list" /\ nextId = 1 /\ nextId' = 2 /\ Send(m)
      /\ doing' = IF Sent(m) THEN "await_devices" ELSE "dropping"
      /\ UNCHANGED <<bound, call, answers>>
      /\ m.type = "enumerate" /\ m.type \in RequestTypes /\ m.req = 2
  BY DEF List, Exchange, SessionInv, Minted, RequestTypes
<1>2. m = [type |-> "enumerate", req |-> 2]
  BY <1>1
<1>. HIDE DEF m
<1>3. /\ UNCHANGED <<toHost, hostGone, process, did>>
      /\ host' \in Validators /\ Coherent(host')
      /\ Sent(m) =>
           /\ exit = "running" /\ toHost = <<>> /\ toDriver' = <<m>>
           /\ serving = Nothing /\ pending = <<>>
           /\ AcceptsRequest(driver, m) /\ host' = AfterRequest(driver, m)
      /\ ~Sent(m) /\ exit = "running" =>
           Quiet /\ ~AcceptsRequest(driver, m) /\ UNCHANGED <<toDriver, host>>
  BY <1>1, SendEffect
<1>4. /\ WorkerInOrder' /\ WorkerFailsForACause'
      /\ UNCHANGED <<driver, serving, pending, exit, did>>
      /\ driver \in Validators /\ exit \in Exits \cup {"running"}
  BY <1>3, HostKeepsWorker
<1>5. Minted'
  BY <1>1, <1>4, IdsAreNumbers DEF SessionInv, Minted, InCall
<1>6. TypeOK' /\ toHost' \in Seq(Written)
  BY <1>1, <1>3, <1>4, IdsAreNumbers DEF SessionInv, TypeOK, Doings, Awaiting
<1>7. Situation'
  <2>1. CASE Sent(m)
    <3>1. Asked' = m
      BY <1>1, <1>2, <2>1 DEF Asked
    <3>2. host'.phase = "AwaitDevices"
      <4>1. /\ driver \in Validators /\ m.type \in RequestTypes /\ m.type = "enumerate"
            /\ AcceptsRequest(driver, m) /\ host' = AfterRequest(driver, m)
        BY <1>1, <1>3, <1>4, <2>1
      <4>. QED BY <4>1, RequestEffect
    <3>3. Asking' /\ HostWaits'
      BY <1>1, <1>3, <1>4, <2>1, <3>1, <3>2 DEF Asking, HostWaits, InCall
    <3>. QED BY <1>1, <2>1, <3>3 DEF Situation, Awaiting
  <2>2. CASE ~Sent(m)
    <3>1. exit = "running" => Winding'
      BY <1>1, <1>3, <1>4, <2>2 DEF Quiet, PipesEmpty, Winding, AtRest
    <3>. QED BY <1>1, <1>4, <2>2, <3>1 DEF Situation, Awaiting
  <2>. QED BY <2>1, <2>2
<1>. QED BY <1>1, <1>3, <1>4, <1>5, <1>6, <1>7 DEF SessionInv

\* The templates a caller holds are those of calls, or of an earlier session.
LEMMA HeldTemplates ==
  ASSUME TypeOK
  PROVE  Held \subseteq Ids \cup {Foreign}
<1>1. \A v \in Value : v.what = "template" => v.template \in Ids
  BY DEF Value, None, Failed
<1>. QED BY <1>1 DEF Held, TypeOK

\* enroll or verify begins, or fails at once.
LEMMA BeginKeeps ==
  ASSUME SessionInv, NEW what \in {"enroll", "verify"}, NEW m, Begin(m, what),
         m.type = (IF what = "enroll" THEN "start_enroll" ELSE "start_verify"),
         m.req = nextId + 1, m.op = nextId + 2,
         NEW blob \in Ids \cup {NoId, Foreign}, what = "verify" => blob \in Ids \cup {Foreign},
         call' = [op |-> m.op, blob |-> blob, got |-> None],
         doing' = what => Asked' = m
  PROVE  SessionInv'
<1>1. /\ doing = "idle" /\ nextId + 3 \in Ids /\ nextId' = nextId + 2 /\ Send(m)
      /\ doing' = IF Sent(m) THEN what ELSE "idle"
      /\ answers' = IF Sent(m) THEN answers ELSE [answers EXCEPT ![m.op] = Failed]
      /\ bound' = bound /\ nextId \in Nat
  BY DEF Begin, SessionInv, Minted
<1>2. /\ nextId + 2 \in Ids /\ nextId' + 1 \in Ids
      /\ call'.op = m.op /\ call'.blob = blob /\ call'.got = None
  <2>1. nextId + 2 \in Nat /\ (nextId + 2) + 1 = nextId + 3
        /\ nextId + 2 \in 1..((nextId + 2) + 1)
    BY <1>1
  <2>. QED BY <1>1, <2>1, IdsAreNumbers
<1>3. /\ UNCHANGED <<toHost, hostGone, process, did>>
      /\ host' \in Validators /\ Coherent(host')
      /\ Sent(m) =>
           /\ exit = "running" /\ toHost = <<>> /\ toDriver' = <<m>>
           /\ serving = Nothing /\ pending = <<>>
           /\ AcceptsRequest(driver, m) /\ host' = AfterRequest(driver, m)
      /\ ~Sent(m) /\ exit = "running" =>
           Quiet /\ ~AcceptsRequest(driver, m) /\ UNCHANGED <<toDriver, host>>
  BY <1>1, SendEffect DEF RequestTypes, StartRequests
<1>4. /\ WorkerInOrder' /\ WorkerFailsForACause'
      /\ UNCHANGED <<driver, serving, pending, exit, did>>
      /\ driver \in Validators /\ exit \in Exits \cup {"running"}
  BY <1>3, HostKeepsWorker
<1>5. /\ answers' \in [Ids -> Value]
      /\ \A o \in Ids : o # nextId + 2 => answers'[o] = answers[o]
      /\ Sent(m) => answers' = answers
  BY <1>1, <1>2 DEF SessionInv, TypeOK, Value
<1>6. Minted'
  <2>1. exit = "running" => driver.seenReq \subseteq 1..(nextId + 2)
    BY <1>1 DEF SessionInv, Minted
  <2>2. \A o \in Ids : o > nextId => answers[o] = None
    BY DEF SessionInv, Minted
  <2>3. \A o \in Ids : o > nextId + 2 => answers'[o] = None
    BY <1>1, <1>5, <2>2, IdsAreNumbers
  <2>4. nextId' \in Nat /\ nextId' > nextId
    BY <1>1
  <2>. QED BY <1>1, <1>2, <1>4, <1>5, <2>1, <2>2, <2>3, <2>4 DEF SessionInv, Minted, InCall
<1>7. TypeOK' /\ toHost' \in Seq(Written)
  <2>1. /\ nextId' \in Ids \cup {0}
        /\ call' \in [op : Ids \cup {NoId}, blob : Ids \cup {NoId, Foreign}, got : Value]
    BY <1>1, <1>2 DEF Value
  <2>2. bound # Nothing /\ (bound # Nothing => bound.stages # 0)
    BY <1>1 DEF SessionInv, TypeOK
  <2>. QED BY <1>1, <1>3, <1>4, <1>5, <2>1, <2>2 DEF SessionInv, TypeOK, Doings, Awaiting
<1>8. Situation'
  <2>1. CASE Sent(m)
    <3>1. Asked' = m
      BY <1>1, <2>1
    <3>2. /\ host'.phase = "AwaitStarted" /\ host'.op = m.op
          /\ host'.kind = what
      <4>1. driver \in Validators /\ AcceptsRequest(driver, m) /\ m.type \in RequestTypes
        BY <1>3, <1>4, <2>1 DEF RequestTypes, StartRequests
      <4>2. LET t == AfterRequest(driver, m) IN
            t.phase = "AwaitStarted" /\ t.op = m.op /\ t.kind = KindOf(m.type)
        BY <4>1, RequestEffect DEF StartRequests
      <4>3. KindOf(m.type) = what
        BY DEF KindOf
      <4>. QED BY <1>3, <2>1, <4>2, <4>3
    <3>3. Asking' /\ HostWaits'
      BY <1>1, <1>2, <1>3, <1>4, <2>1, <3>1, <3>2 DEF Asking, HostWaits, InCall
    <3>. QED BY <1>1, <2>1, <3>3 DEF Situation, Awaiting
  <2>2. CASE ~Sent(m)
    <3>1. exit = "running" => Quiet'
      BY <1>1, <1>3, <1>4, <2>2 DEF Quiet, PipesEmpty
    <3>. QED BY <1>1, <1>4, <2>2, <3>1 DEF Situation, Awaiting
  <2>. QED BY <2>1, <2>2
<1>. QED BY <1>1, <1>3, <1>4, <1>6, <1>7, <1>8 DEF SessionInv

\* enroll begins.
LEMMA EnrollKeeps ==
  ASSUME SessionInv, Enroll
  PROVE  SessionInv'
<1> DEFINE m == [type |-> "start_enroll", req |-> nextId + 1, op |-> nextId + 2,
                 data |-> "valid", device |-> bound.id]
<1>1. Begin(m, "enroll") /\ call' = [op |-> m.op, blob |-> NoId, got |-> None]
  BY DEF Enroll
<1>2. nextId' = nextId + 2 /\ bound' = bound /\ nextId \in Nat
  BY <1>1 DEF Begin, SessionInv, Minted
<1>3. doing' = "enroll" => Asked' = m
  BY <1>2 DEF Asked
<1>4. /\ m.type = "start_enroll" /\ m.req = nextId + 1 /\ m.op = nextId + 2
  OBVIOUS
<1>. HIDE DEF m
<1>. QED BY <1>1, <1>3, <1>4, BeginKeeps

\* verify begins, with a template the caller holds.
LEMMA VerifyKeeps ==
  ASSUME SessionInv, NEW blob \in Held, Verify(blob)
  PROVE  SessionInv'
<1> DEFINE m == [type |-> "start_verify", req |-> nextId + 1, op |-> nextId + 2,
                 data |-> "valid", device |-> bound.id, template |-> blob]
<1>1. Begin(m, "verify") /\ call' = [op |-> m.op, blob |-> blob, got |-> None]
  BY DEF Verify
<1>2. nextId' = nextId + 2 /\ bound' = bound /\ nextId \in Nat
  BY <1>1 DEF Begin, SessionInv, Minted
<1>3. doing' = "verify" => Asked' = m
  BY <1>1, <1>2 DEF Asked
<1>4. /\ m.type = "start_verify" /\ m.req = nextId + 1 /\ m.op = nextId + 2
  OBVIOUS
<1>. HIDE DEF m
<1>5. blob \in Ids \cup {Foreign}
  BY HeldTemplates DEF SessionInv
<1>. QED BY <1>1, <1>3, <1>4, <1>5, BeginKeeps

\* A template that cannot be sent fails between calls.
LEMMA UnsendableKeeps ==
  ASSUME SessionInv, VerifyUnsendable
  PROVE  SessionInv'
<1>1. /\ doing = "idle" /\ nextId + 3 \in Ids /\ nextId' = nextId + 2 /\ nextId \in Nat
      /\ answers' = [answers EXCEPT ![nextId + 2] = Failed]
      /\ UNCHANGED <<toDriver, toHost, hostGone, process, did, host, bound, doing, call>>
  BY DEF VerifyUnsendable, SessionInv, Minted, pipes
<1>2. nextId + 2 \in Ids /\ nextId' + 1 \in Ids
  <2>1. nextId + 2 \in Nat /\ (nextId + 2) + 1 = nextId + 3
        /\ nextId + 2 \in 1..((nextId + 2) + 1)
    BY <1>1
  <2>. QED BY <1>1, <2>1, IdsAreNumbers
<1>3. /\ WorkerInOrder' /\ WorkerFailsForACause'
      /\ UNCHANGED <<driver, serving, pending, exit, did>>
      /\ driver \in Validators /\ exit \in Exits \cup {"running"}
  BY <1>1, HostKeepsWorker
<1>4. /\ answers' \in [Ids -> Value]
      /\ \A o \in Ids : o # nextId + 2 => answers'[o] = answers[o]
  BY <1>1, <1>2 DEF SessionInv, TypeOK, Value
<1>5. Minted'
  <2>1. exit = "running" => driver.seenReq \subseteq 1..(nextId + 2)
    BY <1>1 DEF SessionInv, Minted
  <2>2. \A o \in Ids : o > nextId + 2 => answers'[o] = None
    BY <1>1, <1>4, IdsAreNumbers DEF SessionInv, Minted
  <2>. QED BY <1>1, <1>2, <1>3, <2>1, <2>2 DEF SessionInv, Minted, InCall
<1>6. TypeOK' /\ toHost' \in Seq(Written)
  BY <1>1, <1>2, <1>3, <1>4 DEF SessionInv, TypeOK
<1>7. Situation'
  BY <1>1, <1>3 DEF SessionInv, Situation, Quiet, PipesEmpty, Awaiting
<1>. QED BY <1>1, <1>3, <1>5, <1>6, <1>7 DEF SessionInv

\* What the host may read next, by what it is doing.
LEMMA HeadIsExpected ==
  ASSUME SessionInv, doing \in Awaiting, HostWaits, NEW m \in Written, AcceptsResponse(host, m)
  PROVE  m.type \in Expected \cup {"error"}
<1>1. m.type \in {"hello_ack", "devices", "started", "enroll_progress", "enrolled",
                  "match_result", "completed", "error"}
  BY WrittenFields
<1>2. host.phase \notin {"Capturing", "AwaitCancelled"}
  BY DEF HostWaits, Awaiting
<1>3. /\ m.type = "hello_ack" => host.phase = "AwaitHelloAck"
      /\ m.type = "devices" => host.phase = "AwaitDevices"
      /\ m.type = "started" => host.phase = "AwaitStarted"
      /\ m.type \in {"enroll_progress", "enrolled"} => host.phase = "Enrolling"
      /\ m.type = "match_result" => host.phase = "Verifying"
      /\ m.type = "completed" => host.phase \in {"Enrolling", "Verifying"}
  BY <1>2 DEF AcceptsResponse, AnswerInOrder, EventInOrder, MayComplete
<1>4. CASE doing = "await_hello"
  BY <1>1, <1>3, <1>4 DEF HostWaits, Expected
<1>5. CASE doing = "await_devices"
  BY <1>1, <1>3, <1>5 DEF HostWaits, Expected
<1>6. CASE doing = "enroll"
  BY <1>1, <1>3, <1>6 DEF HostWaits, Expected
<1>7. CASE doing = "verify"
  BY <1>1, <1>3, <1>7 DEF HostWaits, Expected
<1>. QED BY <1>4, <1>5, <1>6, <1>7 DEF Awaiting

\* A line for the host to read is an answer on its way, and is in order.
LEMMA ReadEffect ==
  ASSUME SessionInv, doing \in Awaiting, toHost # <<>>
  PROVE  LET m == Head(toHost)
             t == AfterResponse(host, m)
         IN /\ HostWaits /\ Answering
            /\ m \in Written /\ m.type \in Expected \cup {"error"}
            /\ AcceptsResponse(host, m)
            /\ t \in Validators /\ Coherent(t)
            /\ Leads(t, Tail(toHost), driver)
            /\ Tail(toHost) \in Seq(Written) /\ Len(Tail(toHost)) <= Capacity
            /\ m.type \in {"hello_ack", "devices", "completed", "error"} =>
                 /\ Tail(toHost) = <<>> /\ t = driver
                 /\ toDriver = <<>> /\ serving = Nothing /\ pending = <<>>
                 /\ driver.phase = "Ready"
<1> DEFINE m == Head(toHost)
           t == AfterResponse(host, m)
<1>1. HostWaits /\ Answering
  BY DEF SessionInv, Situation, Asking, BeingServed, PipesEmpty
<1>2. toHost \in Seq(Written) /\ host \in Validators /\ Coherent(host) /\ Len(toHost) <= Capacity
  BY DEF SessionInv, TypeOK
<1>3. /\ m \in Written /\ Tail(toHost) \in Seq(Written) /\ Len(Tail(toHost)) <= Capacity
  <2>1. /\ Len(toHost) \in Nat \ {0} /\ m \in Written
        /\ Tail(toHost) \in Seq(Written) /\ Len(Tail(toHost)) = Len(toHost) - 1
    BY <1>2, Rest1
  <2>. QED BY <1>2, <2>1, CapacityAssumption
<1>4. AcceptsResponse(host, m) /\ Leads(t, Tail(toHost), driver)
  BY <1>1, <1>2, LeadsFirst DEF Answering
<1>5. t \in Validators /\ Coherent(t)
  BY <1>2, <1>3, <1>4, WrittenIsReadable, ReadableCoherent
<1>6. m.type \in Expected \cup {"error"}
  BY <1>1, <1>3, <1>4, HeadIsExpected
<1>. HIDE DEF m
<1>7. ASSUME m.type \in {"hello_ack", "devices", "completed", "error"}
      PROVE  /\ Tail(toHost) = <<>> /\ t = driver
             /\ toDriver = <<>> /\ serving = Nothing /\ pending = <<>>
             /\ driver.phase = "Ready"
  <2>1. AtRest(t)
    BY <1>2, <1>7, EndsRest
  <2>. HIDE DEF t
  <2>2. Tail(toHost) = <<>> /\ t = driver
    BY <1>3, <1>4, <2>1, NothingLeadsFromRest
  <2>. QED BY <1>1, <2>1, <2>2 DEF Answering, AtRest
<1>. QED BY <1>1, <1>3, <1>4, <1>5, <1>6, <1>7 DEF m

\* An answer that ends a call leaves nothing under way.
LEMMA EndKeeps ==
  ASSUME SessionInv, doing \in Awaiting, toHost # <<>>,
         Head(toHost).type \in {"hello_ack", "devices", "completed", "error"},
         host' = AfterResponse(host, Head(toHost)), toHost' = Tail(toHost),
         UNCHANGED <<toDriver, hostGone, process, did, nextId, call>>,
         doing' \in {"list", "idle", "dropping"},
         doing' = "list" => doing = "await_hello" /\ bound' = bound,
         doing' = "idle" => bound' # Nothing /\ bound'.stages # 0,
         doing' = "dropping" => bound' = bound,
         answers' \in [Ids -> Value],
         \A o \in Ids : o > nextId => answers'[o] = answers[o]
  PROVE  SessionInv'
<1>1. /\ WorkerInOrder' /\ WorkerFailsForACause'
      /\ UNCHANGED <<driver, serving, pending, exit, did>>
      /\ driver \in Validators /\ exit \in Exits \cup {"running"}
  BY HostKeepsWorker
<1>2. /\ host' \in Validators /\ Coherent(host')
      /\ toHost' = <<>> /\ host' = driver
      /\ toDriver = <<>> /\ serving = Nothing /\ pending = <<>> /\ driver.phase = "Ready"
      /\ toHost' \in Seq(Written) /\ Len(toHost') <= Capacity
  BY ReadEffect
<1>3. Minted'
  BY <1>1 DEF SessionInv, Minted, InCall
<1>4. TypeOK'
  BY <1>1, <1>2 DEF SessionInv, TypeOK, Doings
<1>5. Situation'
  BY <1>1, <1>2 DEF Situation, Quiet, PipesEmpty, Winding, AtRest, Awaiting
<1>6. (doing \in {"greet", "await_hello", "list", "await_devices"} => bound = Nothing)'
  BY DEF SessionInv
<1>. QED BY <1>1, <1>2, <1>3, <1>4, <1>5, <1>6 DEF SessionInv, Awaiting

\* An answer in the middle of a call.
LEMMA GoesOnKeeps ==
  ASSUME SessionInv, InCall, toHost # <<>>,
         NEW m, m = Head(toHost), m.type \in Expected,
         m.type \notin {"hello_ack", "devices", "completed", "error"},
         host' = AfterResponse(host, m), toHost' = Tail(toHost),
         UNCHANGED <<toDriver, hostGone, process, did, nextId>>,
         Handle(m)
  PROVE  SessionInv'
<1>1. /\ WorkerInOrder' /\ WorkerFailsForACause'
      /\ UNCHANGED <<driver, serving, pending, exit, did>>
      /\ driver \in Validators /\ exit \in Exits \cup {"running"}
  BY HostKeepsWorker
<1>2. doing \in Awaiting
  BY DEF InCall, Awaiting
<1>3. /\ HostWaits /\ Answering
      /\ m \in Written /\ AcceptsResponse(host, m)
      /\ host' \in Validators /\ Coherent(host') /\ Leads(host', toHost', driver)
      /\ toHost' \in Seq(Written) /\ Len(toHost') <= Capacity
      /\ host \in Validators /\ Readable(m)
  BY <1>2, ReadEffect, WrittenIsReadable DEF SessionInv, TypeOK
<1>4. m.type \in {"started", "enroll_progress", "enrolled", "match_result"}
  BY <1>3, WrittenFields
<1>5. /\ UNCHANGED <<bound, doing, answers>>
      /\ call' = CASE m.type = "enrolled" ->
                        [call EXCEPT !.got = [what |-> "template", template |-> m.template]]
                   [] m.type = "match_result" ->
                        [call EXCEPT !.got = [what |-> "verdict", blob |-> call.blob,
                                              matched |-> m.matched]]
                   [] OTHER -> call
  BY <1>4 DEF Handle, Keep
<1>6. PICK outcome \in DeviceDoes(Asked) :
        /\ did[call.op] = <<[request |-> Asked, outcome |-> outcome]>>
        /\ \A i \in DOMAIN toHost : Tells(toHost[i], outcome)
        /\ \A i \in DOMAIN pending : Tells(pending[i], outcome)
        /\ call.got # None =>
             outcome.what # "failed" /\ call.got = Result(Asked, outcome)
        /\ host.phase = "Enrolling" /\ host.enrolled => call.got # None
        /\ host.phase = "Verifying" /\ host.reported => call.got # None
  BY <1>3 DEF Answering, Answered
<1>7. /\ Tells(m, outcome)
      /\ \A i \in DOMAIN toHost' : Tells(toHost'[i], outcome)
  BY <1>6, TellsOn DEF SessionInv
<1>8. /\ Asked.type \in {"start_enroll", "start_verify"} /\ Asked.op = call.op
      /\ call.op = nextId /\ nextId \in Ids
      /\ doing = "enroll" <=> Asked.type = "start_enroll"
      /\ doing = "verify" <=> Asked.type = "start_verify"
      /\ doing = "verify" => Asked.template = call.blob /\ call.blob \in Ids \cup {Foreign}
  <2>1. Minted /\ nextId \in Ids \cup {0}
    BY DEF SessionInv, TypeOK
  <2>2. /\ Asked.type \in {"start_enroll", "start_verify"} /\ Asked.op = call.op
        /\ call.op = nextId
        /\ doing = "enroll" <=> Asked.type = "start_enroll"
        /\ doing = "verify" <=> Asked.type = "start_verify"
        /\ doing = "verify" => Asked.template = call.blob /\ call.blob \in Ids \cup {Foreign}
    BY <1>2, <2>1, AskedIs DEF Minted, StartRequests, InCall
  <2>3. Asked.op \in Ids
    <3>1. Asked.op = host.op /\ host.op # NoId
      BY <1>3, <2>2 DEF HostWaits, SessionInv, Coherent, Engaged, Running, InCall
    <3>. QED BY <1>3, <3>1 DEF Validators
  <2>. QED BY <2>2, <2>3
<1>9. /\ m.type = "enrolled" =>
           /\ doing = "enroll" /\ outcome.what = "enrolled"
           /\ m.template = outcome.template /\ outcome.template = call.op
      /\ m.type = "match_result" =>
           /\ doing = "verify" /\ outcome.what = "decided"
           /\ m.matched = outcome.matched /\ outcome.matched \in BOOLEAN
  <2>1. /\ m.type = "enrolled" => doing = "enroll"
        /\ m.type = "match_result" => doing = "verify"
    BY <1>2 DEF Expected, InCall, Awaiting
  <2>2. /\ m.type = "enrolled" => outcome.what = "enrolled" /\ m.template = outcome.template
        /\ m.type = "match_result" => outcome.what = "decided" /\ m.matched = outcome.matched
    BY <1>7 DEF Tells
  <2>. QED BY <1>8, <2>1, <2>2, DeviceOutcomes DEF StartRequests
<1>10. /\ call'.op = call.op /\ call'.blob = call.blob
       /\ call'.got = IF m.type \in {"enrolled", "match_result"}
                        THEN Result(Asked, outcome) ELSE call.got
       /\ m.type \in {"enrolled", "match_result"} =>
            call'.got # None /\ call'.got \in Value /\ outcome.what # "failed"
  <2>1. CASE m.type = "enrolled"
    <3>1. call' = [call EXCEPT !.got = [what |-> "template", template |-> m.template]]
      BY <1>5, <2>1
    <3>2. Result(Asked, outcome) = [what |-> "template", template |-> m.template]
      BY <1>9, <2>1 DEF Result
    <3>3. [what |-> "template", template |-> m.template] \in Value
          /\ [what |-> "template", template |-> m.template] # None
      BY <1>8, <1>9, <2>1 DEF Value, None
    <3>4. call'.op = call.op /\ call'.blob = call.blob
          /\ call'.got = [what |-> "template", template |-> m.template]
      BY <3>1 DEF SessionInv, TypeOK
    <3>. QED BY <1>9, <2>1, <3>2, <3>3, <3>4
  <2>2. CASE m.type = "match_result"
    <3>1. call' = [call EXCEPT !.got = [what |-> "verdict", blob |-> call.blob,
                                        matched |-> m.matched]]
      BY <1>5, <2>2
    <3>2. Result(Asked, outcome) = [what |-> "verdict", blob |-> call.blob,
                                    matched |-> m.matched]
      BY <1>8, <1>9, <2>2 DEF Result
    <3>3. [what |-> "verdict", blob |-> call.blob, matched |-> m.matched] \in Value
          /\ [what |-> "verdict", blob |-> call.blob, matched |-> m.matched] # None
      BY <1>8, <1>9, <2>2 DEF Value, None
    <3>4. call'.op = call.op /\ call'.blob = call.blob
          /\ call'.got = [what |-> "verdict", blob |-> call.blob, matched |-> m.matched]
      BY <3>1 DEF SessionInv, TypeOK
    <3>. QED BY <1>9, <2>2, <3>2, <3>3, <3>4
  <2>3. CASE m.type \notin {"enrolled", "match_result"}
    BY <1>4, <1>5, <2>3
  <2>. QED BY <2>1, <2>2, <2>3
<1>11. Asked' = Asked
  BY <1>5, <1>10 DEF Asked, InCall
<1>12. /\ host'.op = host.op
       /\ m.type = "started" =>
            /\ host'.phase = IF doing = "enroll" THEN "Enrolling" ELSE "Verifying"
            /\ ~host'.enrolled /\ ~host'.reported
       /\ m.type # "started" =>
            /\ host'.phase = host.phase /\ host'.kind = host.kind
            /\ host'.enrolled => host.enrolled \/ m.type = "enrolled"
            /\ host'.reported => host.reported \/ m.type = "match_result"
  <2>1. CASE m.type = "started"
    <3>1. host.phase = "AwaitStarted"
      BY <1>3, <2>1 DEF AcceptsResponse, AnswerInOrder
    <3>2. host.kind = doing /\ doing \in {"enroll", "verify"}
      BY <1>3, <3>1 DEF HostWaits, InCall
    <3>. QED BY <1>3, <2>1, <3>2, StartRuns
  <2>2. CASE m.type # "started"
    BY <1>3, <1>4, <2>2, ReadableEventEffect DEF EventTypes
  <2>. QED BY <2>1, <2>2
<1>13. HostWaits'
  BY <1>3, <1>5, <1>10, <1>12 DEF HostWaits, InCall
<1>14. Answered'
  <2>1. /\ host'.phase = "Enrolling" /\ host'.enrolled => call'.got # None
        /\ host'.phase = "Verifying" /\ host'.reported => call'.got # None
    BY <1>6, <1>10, <1>12
  <2>2. call'.got # None => outcome.what # "failed" /\ call'.got = Result(Asked, outcome)
    BY <1>6, <1>10
  <2>. QED BY <1>1, <1>6, <1>7, <1>10, <1>11, <2>1, <2>2 DEF Answered
<1>15. Answering'
  BY <1>1, <1>3, <1>14 DEF Answering
<1>16. Situation'
  BY <1>2, <1>5, <1>13, <1>15 DEF Situation, Awaiting, InCall
<1>17. Minted'
  BY <1>1, <1>5, <1>10 DEF SessionInv, Minted, InCall
<1>18. TypeOK'
  BY <1>1, <1>3, <1>5, <1>10 DEF SessionInv, TypeOK
<1>. QED BY <1>1, <1>3, <1>5, <1>16, <1>17, <1>18 DEF SessionInv, InCall

\* An error, or any other end of a call that makes it fail.
LEMMA FailEffect ==
  ASSUME SessionInv, doing \in Awaiting, Fail
  PROVE  /\ doing' \in {"idle", "dropping"} /\ UNCHANGED <<bound, call>>
         /\ doing' = "idle" <=> InCall
         /\ InCall => answers' = [answers EXCEPT ![call.op] = Failed]
         /\ ~InCall => answers' = answers
         /\ answers' \in [Ids -> Value]
         /\ \A o \in Ids : o > nextId => answers'[o] = answers[o]
<1>1. /\ doing' \in {"idle", "dropping"} /\ UNCHANGED <<bound, call>>
      /\ doing' = "idle" <=> InCall
      /\ InCall => answers' = [answers EXCEPT ![call.op] = Failed]
      /\ ~InCall => answers' = answers
  BY DEF Fail, Return, InCall
<1>2. answers' \in [Ids -> Value]
  BY <1>1 DEF SessionInv, TypeOK, Value
<1>3. \A o \in Ids : o > nextId => answers'[o] = answers[o]
  BY <1>1, IdsAreNumbers DEF SessionInv, TypeOK, Minted
<1>. QED BY <1>1, <1>2, <1>3

\* A device of a list.
LEMMA RostersHaveDevices ==
  ASSUME NEW roster \in Rosters, NEW d \in FirstChip(roster)
  PROVE  d # Nothing /\ \E i \in DOMAIN roster : d = roster[i]
<1>1. PICK i \in DOMAIN roster : d = roster[i]
  BY DEF FirstChip
<1>2. DOMAIN d = {"id", "profile", "capability", "stages"}
  BY <1>1, RostersAssumption
<1>3. DOMAIN Nothing = {"type"}
  BY DEF Nothing
<1>. QED BY <1>1, <1>2, <1>3

\* An answer is read.
LEMMA ReceiveKeeps ==
  ASSUME SessionInv, Receive
  PROVE  SessionInv'
<1> DEFINE m == Head(toHost)
<1>1. /\ doing \in Awaiting /\ toHost # <<>> /\ toHost' = Tail(toHost)
      /\ UNCHANGED <<toDriver, hostGone, process, did, nextId>>
  BY DEF Receive
<1>2. /\ AcceptsResponse(host, m) /\ m.type \in Expected \cup {"error"} /\ m \in Written
      /\ host' = AfterResponse(host, m)
  BY <1>1, ReadEffect DEF Receive
<1>3. IF m.type \in Expected THEN Handle(m) ELSE Fail
  BY <1>1, <1>2 DEF Receive
<1>. HIDE DEF m
<1>4. m.type \in Expected => /\ m.type = "hello_ack" <=> doing = "await_hello"
                             /\ m.type = "devices" <=> doing = "await_devices"
                             /\ m.type # "error"
  BY <1>1 DEF Expected, Awaiting
<1>5. answers \in [Ids -> Value] /\ call.got \in Value /\ call.op \in Ids \cup {NoId}
  BY DEF SessionInv, TypeOK
<1>6. CASE m.type \notin Expected
  <2>1. Fail /\ m.type = "error"
    BY <1>2, <1>3, <1>6
  <2>2. InCall => bound # Nothing /\ bound.stages # 0
    BY DEF SessionInv, TypeOK, InCall
  <2>. QED BY <1>1, <1>2, <2>1, <2>2, FailEffect, EndKeeps DEF m
<1>7. CASE m.type \in Expected /\ m.type = "hello_ack"
  <2>1. doing' = "list" /\ UNCHANGED <<bound, call, answers>>
    BY <1>3, <1>7 DEF Handle
  <2>. QED BY <1>1, <1>2, <1>4, <1>5, <1>7, <2>1, EndKeeps DEF m
<1>8. CASE m.type \in Expected /\ m.type = "devices"
  <2>1. Bind(m.roster) /\ m.roster \in Rosters /\ doing = "await_devices"
    BY <1>2, <1>3, <1>4, <1>8, WrittenFields DEF Handle
  <2>2. CASE \E d \in FirstChip(m.roster) : d.stages # 0 /\ BindTo(d)
    <3>1. PICK d \in FirstChip(m.roster) : d.stages # 0 /\ BindTo(d)
      BY <2>2
    <3>2. /\ bound' = d /\ d # Nothing /\ d.stages # 0 /\ doing' = "idle"
          /\ UNCHANGED <<call, answers>>
      BY <2>1, <3>1, RostersHaveDevices DEF BindTo
    <3>. QED BY <1>1, <1>2, <1>5, <1>8, <3>2, EndKeeps DEF m
  <2>3. CASE Fail
    <3>1. ~InCall
      BY <2>1 DEF InCall
    <3>. QED BY <1>1, <1>2, <1>8, <2>3, <3>1, FailEffect, EndKeeps DEF m
  <2>. QED BY <2>1, <2>2, <2>3 DEF Bind
<1>9. CASE m.type \in Expected /\ m.type = "completed"
  <2> DEFINE value == IF call.got = None THEN Failed ELSE call.got
  <2>1. Return(value)
    BY <1>3, <1>9 DEF Handle
  <2>2. value \in Value
    BY <1>5 DEF Value
  <2>. HIDE DEF value
  <2>3. /\ doing' = "idle" /\ UNCHANGED <<bound, call>>
        /\ answers' = [answers EXCEPT ![call.op] = value]
    BY <2>1 DEF Return
  <2>4. InCall
    BY <1>1, <1>4, <1>9 DEF InCall, Awaiting
  <2>5. answers' \in [Ids -> Value]
    BY <1>5, <2>2, <2>3
  <2>6. \A o \in Ids : o > nextId => answers'[o] = answers[o]
    BY <1>5, <2>3, <2>4, IdsAreNumbers DEF SessionInv, Minted
  <2>7. bound # Nothing /\ bound.stages # 0
    BY <2>4 DEF SessionInv, TypeOK, InCall
  <2>. QED BY <1>1, <1>2, <1>9, <2>3, <2>5, <2>6, <2>7, EndKeeps DEF m
<1>10. CASE m.type \in Expected /\ m.type \notin {"hello_ack", "devices", "completed"}
  <2>1. InCall
    BY <1>1, <1>10, <1>4 DEF InCall, Awaiting
  <2>. QED BY <1>1, <1>2, <1>3, <1>4, <1>10, <2>1, GoesOnKeeps DEF m
<1>. QED BY <1>6, <1>7, <1>8, <1>9, <1>10

\* The worker is gone, and with it the call.
LEMMA ReadEndKeeps ==
  ASSUME SessionInv, ReadEnd
  PROVE  SessionInv'
<1>1. /\ doing \in Awaiting /\ exit # "running" /\ Fail
      /\ UNCHANGED <<toDriver, toHost, hostGone, process, did, host, nextId>>
  BY DEF ReadEnd, pipes
<1>2. /\ WorkerInOrder' /\ WorkerFailsForACause'
      /\ UNCHANGED <<driver, serving, pending, exit, did>>
      /\ driver \in Validators /\ exit \in Exits \cup {"running"}
  BY <1>1, HostKeepsWorker
<1>3. /\ doing' \in {"idle", "dropping"} /\ UNCHANGED <<bound, call>>
      /\ doing' = "idle" <=> InCall
      /\ answers' \in [Ids -> Value]
      /\ \A o \in Ids : o > nextId => answers'[o] = answers[o]
  BY <1>1, FailEffect
<1>4. Minted'
  BY <1>1, <1>2, <1>3 DEF SessionInv, Minted, InCall
<1>5. TypeOK'
  BY <1>1, <1>2, <1>3 DEF SessionInv, TypeOK, Doings, InCall
<1>6. Situation'
  BY <1>1, <1>2, <1>3 DEF Situation, Awaiting
<1>. QED BY <1>1, <1>2, <1>3, <1>4, <1>5, <1>6 DEF SessionInv, Awaiting

\* The host waits for the operation of the call, so it has an identifier.
LEMMA CallHasId ==
  ASSUME SessionInv, InCall
  PROVE  nextId \in Ids /\ call.op = nextId /\ HostWaits
<1>1. HostWaits /\ call.op = nextId /\ host \in Validators /\ Coherent(host)
  BY DEF SessionInv, Situation, InCall, Awaiting, Minted, TypeOK
<1>2. host.phase \in Engaged /\ host.op = call.op
  BY <1>1 DEF HostWaits, InCall, Engaged, Running
<1>3. host.op # NoId /\ host.op \in Ids \cup {NoId}
  BY <1>1, <1>2 DEF Coherent, Validators
<1>. QED BY <1>1, <1>2, <1>3

\* The callback panics, and the answers that are left stay in the pipe.
LEMMA PanicKeeps ==
  ASSUME SessionInv, Panic
  PROVE  SessionInv'
<1>1. /\ doing = "enroll" /\ toHost # <<>>
      /\ host' = AfterResponse(host, Head(toHost)) /\ toHost' = Tail(toHost)
      /\ doing' = "dropping"
      /\ answers' = [answers EXCEPT ![call.op] = [what |-> "panicked"]]
      /\ UNCHANGED <<toDriver, hostGone, process, did, nextId, bound, call>>
  BY DEF Panic
<1>2. /\ Answering /\ host' \in Validators /\ Coherent(host')
      /\ toHost' \in Seq(Written) /\ Len(toHost') <= Capacity
  BY <1>1, ReadEffect DEF Awaiting
<1>3. /\ WorkerInOrder' /\ WorkerFailsForACause'
      /\ UNCHANGED <<driver, serving, pending, exit, did>>
      /\ driver \in Validators /\ exit \in Exits \cup {"running"}
  BY <1>1, HostKeepsWorker
<1>4. /\ answers' \in [Ids -> Value]
      /\ \A o \in Ids : o > nextId => answers'[o] = answers[o]
  <2>1. answers \in [Ids -> Value] /\ call.op = nextId
    BY <1>1 DEF SessionInv, TypeOK, Minted, InCall
  <2>2. answers' \in [Ids -> Value]
    BY <1>1, <2>1 DEF Value
  <2>3. nextId \in Nat /\ \A o \in Ids : o > nextId => o # call.op
    BY <2>1, IdsAreNumbers DEF SessionInv, Minted
  <2>. QED BY <1>1, <2>1, <2>2, <2>3
<1>5. Minted'
  BY <1>1, <1>3, <1>4 DEF SessionInv, Minted, InCall
<1>6. TypeOK'
  BY <1>1, <1>2, <1>3, <1>4 DEF SessionInv, TypeOK, Doings, InCall
<1>7. Winding'
  <2>1. Panicked'
    BY <1>1, CallHasId DEF Panicked, InCall, SessionInv, TypeOK
  <2>. QED BY <1>1, <1>2, <1>3, <2>1 DEF Answering, Winding
<1>8. Situation'
  BY <1>1, <1>7 DEF Situation, Awaiting
<1>. QED BY <1>1, <1>2, <1>3, <1>5, <1>6, <1>8 DEF SessionInv, Awaiting

\* The worker is told to leave.
LEMMA DropKeeps ==
  ASSUME SessionInv, Drop
  PROVE  SessionInv'
<1>1. /\ doing \in {"idle", "dropping"} /\ doing' = "waiting"
      /\ toDriver' = IF exit = "running" THEN Append(toDriver, Shutdown) ELSE toDriver
      /\ UNCHANGED <<toHost, hostGone, process, did, host, nextId, bound, call, answers>>
  BY DEF Drop, Shutdown
<1>2. /\ WorkerInOrder' /\ WorkerFailsForACause'
      /\ UNCHANGED <<driver, serving, pending, exit, did>>
      /\ driver \in Validators /\ exit \in Exits \cup {"running"}
  BY <1>1, HostKeepsWorker
<1>3. Minted'
  BY <1>1, <1>2 DEF SessionInv, Minted, InCall
<1>4. TypeOK'
  BY <1>1, <1>2 DEF SessionInv, TypeOK, Doings, InCall
<1>5. exit = "running" => Winding'
  <2>1. Append(<<>>, Shutdown) = <<Shutdown>>
    OBVIOUS
  <2>2. exit = "running" => /\ toDriver = <<>> /\ serving = Nothing
                            /\ driver.phase = "NeedHello" => MaxTracked = 0
                            /\ AtRest(driver) /\ pending # <<>> =>
                                 Cardinality(driver.seenReq) = MaxTracked
                            /\ ~Panicked => toHost = <<>> /\ AtRest(driver)
    BY <1>1 DEF SessionInv, Situation, Quiet, PipesEmpty, Winding, AtRest
  <2>3. Shutdown' = Shutdown
    BY <1>1 DEF Shutdown
  <2>4. Panicked' <=> Panicked
    BY <1>1 DEF Panicked
  <2>. QED BY <1>1, <1>2, <2>1, <2>2, <2>3, <2>4 DEF Winding
<1>6. Situation'
  BY <1>1, <1>2, <1>5 DEF Situation, Awaiting
<1>. QED BY <1>1, <1>2, <1>3, <1>4, <1>6 DEF SessionInv, Awaiting

\* The worker has exited, and the drop is over.
LEMMA WaitReturnsKeeps ==
  ASSUME SessionInv, WaitReturns
  PROVE  SessionInv'
<1>1. /\ doing = "waiting" /\ exit # "running" /\ doing' = "gone" /\ hostGone' = TRUE
      /\ UNCHANGED <<toDriver, toHost, process, did, host, nextId, bound, call, answers>>
  BY DEF WaitReturns
<1>2. /\ WorkerInOrder' /\ WorkerFailsForACause'
      /\ UNCHANGED <<driver, serving, pending, exit, did>>
      /\ driver \in Validators /\ exit \in Exits \cup {"running"}
  BY <1>1, HostKeepsWorker
<1>3. Minted'
  BY <1>1, <1>2 DEF SessionInv, Minted, InCall
<1>4. TypeOK'
  BY <1>1, <1>2 DEF SessionInv, TypeOK, Doings, InCall
<1>5. Situation'
  BY <1>1, <1>2 DEF Situation, Awaiting
<1>. QED BY <1>1, <1>2, <1>3, <1>4, <1>5 DEF SessionInv, Awaiting

\* A step of somebody else.
LEMMA SessionStutters ==
  ASSUME SessionInv, UNCHANGED vars
  PROVE  SessionInv'
<1>1. /\ UNCHANGED <<toDriver, toHost, hostGone, process, did>>
      /\ UNCHANGED <<host, nextId, bound, doing, call, answers>>
  BY DEF vars, pipes, hostVars
<1>2. /\ WorkerInOrder' /\ WorkerFailsForACause'
      /\ UNCHANGED <<driver, serving, pending, exit, did>>
  BY <1>1, HostKeepsWorker
<1>3. Minted' /\ TypeOK'
  BY <1>1, <1>2 DEF SessionInv, Minted, InCall, TypeOK
<1>4. Situation'
  <2>1. (HostWaits' <=> HostWaits) /\ (PipesEmpty' <=> PipesEmpty) /\ (Panicked' <=> Panicked)
        /\ Shutdown' = Shutdown
    BY <1>1, <1>2 DEF HostWaits, InCall, PipesEmpty, Panicked, Shutdown
  <2>2. (Quiet' <=> Quiet) /\ (Winding' <=> Winding)
    BY <1>1, <1>2, <2>1 DEF Quiet, Winding
  <2>3. (Asking' <=> Asking) /\ (BeingServed' <=> BeingServed) /\ (Answering' <=> Answering)
    <3>1. Asked' = Asked /\ (InCall' <=> InCall)
      BY <1>1 DEF Asked, InCall
    <3>2. Answered' <=> Answered
      BY <1>1, <1>2, <3>1 DEF Answered
    <3>3. Asking' <=> Asking
      BY <1>1, <1>2, <3>1 DEF Asking
    <3>4. BeingServed' <=> BeingServed
      BY <1>1, <1>2, <2>1, <3>1 DEF BeingServed
    <3>5. Answering' <=> Answering
      BY <1>1, <1>2, <3>1, <3>2 DEF Answering
    <3>. QED BY <3>3, <3>4, <3>5
  <2>. QED BY <1>1, <1>2, <2>1, <2>2, <2>3 DEF SessionInv, Situation, Awaiting
<1>. QED BY <1>1, <1>2, <1>3, <1>4 DEF SessionInv

\* Every step of the two processes keeps the invariant.
LEMMA SessionKeeps ==
  ASSUME SessionInv, [Next]_vars
  PROVE  SessionInv'
BY GreetKeeps, ListKeeps, EnrollKeeps, VerifyKeeps, UnsendableKeeps, ReceiveKeeps, ReadEndKeeps,
   PanicKeeps, DropKeeps, WaitReturnsKeeps, WorkerKeeps, SessionStutters
DEF Next, HostWorks

\* Whatever calls are made, callbacks panic and workers die, the two ends of a
\* session are in one of the situations of SessionInv (worker.rs, main.rs).
THEOREM AlwaysInOrder == Spec => []SessionInv
<1>1. Init => SessionInv
  BY SessionStarts
<1>2. SessionInv /\ [Next]_vars => SessionInv'
  BY SessionKeeps
<1>. QED BY <1>1, <1>2, PTL DEF Spec

\* From the end of spawn on a device is bound, and it can enroll.
THEOREM SessionTypes == Spec => []TypeOK
<1>1. SessionInv => TypeOK
  BY DEF SessionInv
<1>. QED BY <1>1, AlwaysInOrder, PTL

\* The host reads nothing its validator refuses or the call cannot use.
THEOREM ReadsAreExpected == Spec => []NothingUnexpected
<1>1. SessionInv => NothingUnexpected
  BY ReadEffect DEF NothingUnexpected
<1>. QED BY <1>1, AlwaysInOrder, PTL

\* A call leaves no line, request or answer behind, and equal validators.
THEOREM CallsCleanUp == Spec => []NothingLeftBehind
<1>1. SessionInv => NothingLeftBehind
  BY DEF SessionInv, Situation, Quiet, PipesEmpty, NothingLeftBehind
<1>. QED BY <1>1, AlwaysInOrder, PTL

\* The worker refuses its own output only for a stage counted wrong, too long
\* an error text, or a session at its limit.
THEOREM WorkerCause == Spec => []WorkerFailsForACause
<1>1. SessionInv => WorkerFailsForACause
  BY DEF SessionInv
<1>. QED BY <1>1, AlwaysInOrder, PTL

\* The two ends never wait for each other, but in a drop after a panic
\* (receive and drop in worker.rs have no timeout, and the pipes are finite).
THEOREM NeverEmbraced == Spec => []NoEmbrace
<1>1. ASSUME SessionInv PROVE NoEmbrace
  <2>1. /\ doing \in Doings /\ exit \in Exits \cup {"running"}
        /\ doing = "gone" => exit # "running"
        /\ Situation /\ (exit = "running" => ~hostGone)
        /\ driver \in Validators /\ Coherent(driver)
        /\ serving = Nothing /\ exit = "running" => Due(driver, pending)
    BY <1>1 DEF SessionInv, TypeOK, WorkerInOrder
  <2>2. CASE exit # "running"
    BY <2>1, <2>2 DEF NoEmbrace, HostMoves, Doings
  <2>3. CASE exit = "running" /\ doing \in Awaiting
    <3>1. HostWaits /\ (Asking \/ BeingServed \/ Answering)
      BY <2>1, <2>3 DEF Situation
    <3>2. CASE Asking
      BY <2>3, <3>2 DEF NoEmbrace, WorkerMoves, Asking
    <3>3. CASE BeingServed
      <4>1. serving = Asked /\ Minted
        BY <1>1, <3>3 DEF BeingServed, SessionInv
      <4>2. serving # Nothing
        BY <2>3, <4>1, AskedIs
      <4>. QED BY <2>3, <4>2 DEF NoEmbrace, WorkerMoves
    <3>4. CASE Answering /\ toHost = <<>>
      <4>1. host = driver
        BY <3>4, LeadsNowhere, NothingLeadsNowhere, <1>1 DEF Answering, SessionInv, TypeOK
      <4>2. ~AtRest(driver)
        BY <2>3, <3>1, <4>1 DEF HostWaits, AtRest, Awaiting
      <4>3. pending # <<>>
        BY <2>1, <2>3, <3>4, <4>2, NothingDueAtRest DEF Answering
      <4>4. Len(toHost) < Capacity
        BY <3>4, CapacityAssumption
      <4>. QED BY <2>3, <4>3, <4>4 DEF NoEmbrace, WorkerMoves
    <3>5. CASE Answering /\ toHost # <<>>
      BY <2>3, <3>5 DEF NoEmbrace, HostMoves
    <3>. QED BY <3>1, <3>2, <3>3, <3>4, <3>5
  <2>4. CASE exit = "running" /\ doing = "waiting" /\ ~Panicked
    <3>1. Winding
      BY <2>1, <2>4 DEF Situation
    <3>2. pending # <<>> => ~AcceptsResponse(driver, Head(pending))
      BY <2>4, <3>1, RestAcceptsNothing DEF Winding
    <3>. QED BY <2>4, <3>1, <3>2 DEF NoEmbrace, WorkerMoves, Winding
  <2>. QED BY <2>1, <2>2, <2>3, <2>4 DEF NoEmbrace, HostMoves, Doings
<1>. QED BY <1>1, AlwaysInOrder, PTL
-----------------------------------------------------------------------------
(* A session of a WorkerDevice is one sensor that is called *)

PendingEnroll == [what |-> "pending", ask |-> [kind |-> "enroll"]]
PendingVerify == [what |-> "pending", ask |-> [kind |-> "verify", blob |-> call.blob]]

\* A call has returned, waits, or has not been made.
LEMMA CallsAre ==
  ASSUME SessionInv, NEW o \in Ids
  PROVE  /\ CallsMade[o] = IF answers[o] # None THEN answers[o]
                           ELSE IF doing = "enroll" /\ o = nextId THEN PendingEnroll
                           ELSE IF doing = "verify" /\ o = nextId THEN PendingVerify
                           ELSE None
         /\ answers[o].what # "pending"
<1>1. answers[o] \in Value
  BY DEF SessionInv, TypeOK
<1>2. answers[o].what # "pending"
  BY <1>1 DEF Value, None, Failed
<1>3. InCall => call.op = nextId
  BY DEF SessionInv, Minted
<1>4. doing = "enroll" => doing # "verify"
  OBVIOUS
<1>5. CASE answers[o] # None
  BY <1>2, <1>5 DEF CallsMade
<1>6. CASE answers[o] = None /\ doing = "enroll" /\ o = nextId
  BY <1>2, <1>3, <1>6 DEF CallsMade, InCall, PendingEnroll
<1>7. CASE answers[o] = None /\ doing = "verify" /\ o = nextId
  BY <1>2, <1>3, <1>7 DEF CallsMade, InCall, PendingVerify
<1>8. CASE answers[o] = None /\ ~(InCall /\ o = nextId)
  BY <1>2, <1>3, <1>8 DEF CallsMade, InCall
<1>. QED BY <1>5, <1>6, <1>7, <1>8 DEF InCall

\* A step that answers nothing, and begins or ends no call.
LEMMA SameCalls ==
  ASSUME SessionInv, answers' = answers,
         \/ ~InCall /\ ~InCall'
         \/ doing' = doing /\ call'.op = call.op /\ call'.blob = call.blob
  PROVE  CallsMade' = CallsMade
BY DEF CallsMade, InCall

\* A step in which the device does nothing.
LEMMA SameWorks ==
  ASSUME did' = did
  PROVE  WorksDone' = WorksDone
BY DEF WorksDone

\* What is seen of a device that did nothing for a call, or one thing.
LEMMA SeenIs ==
  /\ Seen(<<>>) = <<>>
  /\ \A request, outcome :
       Seen(<<[request |-> request, outcome |-> outcome]>>)
         = <<[on |-> request.device, made |-> Result(request, outcome)]>>
<1>1. Seen(<<>>) = <<>>
  <2>1. DOMAIN <<>> = {} /\ <<>> = [i \in {} |-> 0]
    OBVIOUS
  <2>. QED BY <2>1 DEF Seen
<1>2. ASSUME NEW request, NEW outcome
      PROVE  Seen(<<[request |-> request, outcome |-> outcome]>>)
               = <<[on |-> request.device, made |-> Result(request, outcome)]>>
  <2> DEFINE w == <<[request |-> request, outcome |-> outcome]>>
             e == [on |-> request.device, made |-> Result(request, outcome)]
  <2>1. DOMAIN w = 1..1 /\ w[1].request = request /\ w[1].outcome = outcome
    OBVIOUS
  <2>2. Seen(w) = [i \in 1..1 |-> e]
    BY <2>1 DEF Seen
  <2>. HIDE DEF e, w
  <2>3. [i \in 1..1 |-> e] = <<e>>
    OBVIOUS
  <2>. QED BY <2>2, <2>3 DEF e, w
<1>. QED BY <1>1, <1>2

\* What is made of an outcome is one of the things the sensor may make.
LEMMA ResultIsMade ==
  ASSUME SessionInv, InCall, NEW outcome \in DeviceDoes(Asked)
  PROVE  /\ doing = "enroll" => Result(Asked, outcome) \in Device!Makes(nextId, [kind |-> "enroll"])
         /\ doing = "verify" =>
              Result(Asked, outcome) \in Device!Makes(nextId, [kind |-> "verify", blob |-> call.blob])
         /\ Result(Asked, outcome) = Failed <=> outcome.what = "failed"
<1>1. /\ Asked.type \in {"start_enroll", "start_verify"} /\ Asked.op = nextId
      /\ doing = "enroll" <=> Asked.type = "start_enroll"
      /\ doing = "verify" <=> Asked.type = "start_verify"
      /\ doing = "verify" => Asked.template = call.blob
  BY AskedIs DEF SessionInv, InCall, Awaiting, StartRequests
<1>2. /\ outcome.what # "failed" /\ doing = "enroll" =>
           outcome.what = "enrolled" /\ outcome.template = nextId
      /\ outcome.what # "failed" /\ doing = "verify" =>
           outcome.what = "decided" /\ outcome.matched \in BOOLEAN
  BY <1>1, DeviceOutcomes DEF StartRequests
<1>3. CASE outcome.what = "failed"
  BY <1>3 DEF Result, Device!Makes, Device!Failed, Failed
<1>4. CASE outcome.what # "failed" /\ doing = "enroll"
  <2>1. Result(Asked, outcome) = [what |-> "template", template |-> nextId]
    BY <1>2, <1>4 DEF Result
  <2>. QED BY <1>4, <2>1 DEF Device!Makes, Failed
<1>5. CASE outcome.what # "failed" /\ doing = "verify"
  <2>1. Result(Asked, outcome) = [what |-> "verdict", blob |-> call.blob,
                                  matched |-> outcome.matched]
    BY <1>1, <1>2, <1>5 DEF Result
  <2>. QED BY <1>2, <1>5, <2>1 DEF Device!Makes, Failed
<1>. QED BY <1>3, <1>4, <1>5 DEF InCall

\* Nothing is seen of a step that leaves the calls and the device alone.
LEMMA Unseen ==
  ASSUME bound' = bound, exit' = exit, CallsMade' = CallsMade, WorksDone' = WorksDone
  PROVE  [Device!Next]_(Device!vars)
BY DEF Device!vars

\* Before spawn no sensor is bound and no call is made.
LEMMA DeviceStarts == Init => Device!Init
<1> SUFFICES ASSUME Init PROVE Device!Init
  OBVIOUS
<1>1. /\ bound = Nothing /\ (exit = "running") = TRUE /\ doing = "greet"
      /\ answers = [o \in Ids |-> None] /\ did = [o \in Ids |-> <<>>]
  BY DEF Init, DriverInit
<1>2. CallsMade = [o \in Ids |-> None]
  BY <1>1 DEF CallsMade
<1>3. WorksDone = [o \in Ids |-> <<>>]
  <2>1. \A o \in Ids : WorksDone[o] = <<>>
    BY <1>1, SeenIs DEF WorksDone
  <2>2. WorksDone = [o \in Ids |-> WorksDone[o]]
    BY DEF WorksDone
  <2>. QED BY <2>1, <2>2
<1>. QED BY <1>1, <1>2, <1>3 DEF Device!Init, Device!None, None

\* A step of the worker is seen as work, as a break, or not at all.
LEMMA WorkerRefines ==
  ASSUME SessionInv, UNCHANGED hostVars, DriverWorks \/ Die
  PROVE  [Device!Next]_(Device!vars)
<1>1. /\ bound' = bound /\ answers' = answers /\ doing' = doing /\ call' = call
      /\ exit = "running" /\ CallsMade' = CallsMade
  BY WorkerFollows, SameCalls DEF hostVars, Die
<1>2. CASE did' = did /\ exit' = exit
  BY <1>1, <1>2, SameWorks, Unseen
<1>3. CASE did' = did /\ exit' # exit
  <2>1. Device!Break
    BY <1>1, <1>3, SameWorks DEF Device!Break
  <2>. QED BY <2>1 DEF Device!Next
<1>4. CASE doing \in Awaiting /\ BeingServed /\ Serve /\ did' # did
  <2>1. serving = Asked /\ exit' = exit
    BY <1>4 DEF BeingServed, Serve
  <2>2. PICK outcome \in DeviceDoes(Asked) :
          did' = IF serving.type \in StartRequests
                   THEN [did EXCEPT ![serving.op] = Append(@, [request |-> serving,
                                                               outcome |-> outcome])]
                   ELSE did
    BY <1>4, <2>1 DEF Serve
  <2>3. /\ serving # Nothing /\ serving.type \in StartRequests /\ InCall
        /\ serving.op = nextId /\ serving.device = bound.id
    BY <1>4, <2>1, <2>2, AskedIs DEF SessionInv
  <2>4. /\ nextId \in Ids /\ did[nextId] = <<>> /\ DOMAIN did' = Ids
        /\ did'[nextId] = <<[request |-> Asked, outcome |-> outcome]>>
        /\ \A o \in Ids : o # nextId => did'[o] = did[o]
    BY <2>1, <2>2, <2>3, ServeRecords DEF SessionInv
  <2> DEFINE made == Result(Asked, outcome)
             work == [on |-> bound.id, made |-> made]
  <2>5. WorksDone[nextId] = <<>> /\ WorksDone' = [WorksDone EXCEPT ![nextId] = <<work>>]
    <3>1. WorksDone[nextId] = <<>>
      BY <2>4, SeenIs DEF WorksDone
    <3>2. WorksDone'[nextId] = <<work>>
      <4>1. WorksDone'[nextId] = Seen(did'[nextId])
        BY <2>4 DEF WorksDone
      <4>. QED BY <2>1, <2>3, <2>4, <4>1, SeenIs
    <3>3. \A o \in Ids : o # nextId => WorksDone'[o] = WorksDone[o]
      BY <2>4 DEF WorksDone
    <3>4. DOMAIN WorksDone = Ids /\ DOMAIN WorksDone' = Ids
          /\ WorksDone' = [o \in Ids |-> WorksDone'[o]] /\ WorksDone = [o \in Ids |-> WorksDone[o]]
      BY DEF WorksDone
    <3>. QED BY <2>4, <3>1, <3>2, <3>3, <3>4
  <2>6. CallsMade[nextId] = IF doing = "enroll" THEN PendingEnroll ELSE PendingVerify
    BY <2>3, <2>4, CallsAre DEF SessionInv, Minted, InCall
  <2>7. made \in Device!Makes(nextId, CallsMade[nextId].ask)
    BY <2>3, <2>6, ResultIsMade DEF InCall, PendingEnroll, PendingVerify
  <2>. HIDE DEF made
  <2>8. Device!Work(nextId)
    <3>1. CallsMade[nextId].what = "pending"
      BY <2>6 DEF PendingEnroll, PendingVerify
    <3>2. \E x \in Device!Makes(nextId, CallsMade[nextId].ask) :
            WorksDone' = [WorksDone EXCEPT ![nextId] = <<[on |-> bound.id, made |-> x]>>]
      BY <2>5, <2>7
    <3>. QED BY <1>1, <2>1, <2>5, <3>1, <3>2 DEF Device!Work, Device!Waits
  <2>. QED BY <2>4, <2>8 DEF Device!Next
<1>5. did' = did \/ (doing \in Awaiting /\ BeingServed /\ Serve)
  BY WorkerFollows DEF Die, Take, RefuseOutOfOrder, Reads, Emit, FailSelfCheck
<1>6. Serve => exit' = exit
  BY DEF Serve
<1>. QED BY <1>2, <1>3, <1>4, <1>5, <1>6
\* Between calls nothing waits.
LEMMA NoneWaits ==
  ASSUME SessionInv, ~InCall
  PROVE  CallsMade = answers /\ Device!Held = Held
<1>1. answers \in [Ids -> Value]
  BY DEF SessionInv, TypeOK
<1>2. \A o \in Ids : CallsMade[o] = answers[o]
  BY CallsAre DEF InCall
<1>3. CallsMade = [o \in Ids |-> CallsMade[o]]
  BY DEF CallsMade
<1>4. CallsMade = answers
  BY <1>1, <1>2, <1>3
<1>. QED BY <1>4 DEF Device!Held, Held

\* A step between calls that binds nothing and answers nothing.
LEMMA BetweenCalls ==
  ASSUME SessionInv, UNCHANGED <<process, did, bound, answers>>, ~InCall, ~InCall'
  PROVE  [Device!Next]_(Device!vars)
<1>1. bound' = bound /\ exit' = exit /\ answers' = answers /\ did' = did
  BY DEF process
<1>2. CallsMade' = CallsMade /\ WorksDone' = WorksDone
  BY <1>1, SameCalls, SameWorks
<1>. QED BY <1>1, <1>2, Unseen

\* A call that is refused, in the validator or before it.
LEMMA RefusalRefines ==
  ASSUME SessionInv, doing = "idle", doing' = "idle", nextId + 3 \in Ids,
         UNCHANGED <<process, did, bound>>,
         answers' = [answers EXCEPT ![nextId + 2] = Failed]
  PROVE  [Device!Next]_(Device!vars)
<1>1. nextId + 2 \in Ids /\ nextId + 2 > nextId
  <2>1. /\ nextId \in Nat /\ nextId + 2 \in Nat /\ (nextId + 2) + 1 = nextId + 3
        /\ nextId + 2 \in 1..((nextId + 2) + 1) /\ nextId + 2 > nextId
    BY DEF SessionInv, Minted
  <2>. QED BY <2>1, IdsAreNumbers
<1>2. answers \in [Ids -> Value] /\ answers[nextId + 2] = None
  BY <1>1 DEF SessionInv, TypeOK, Minted
<1>3. CallsMade = answers
  BY NoneWaits DEF InCall
<1>4. CallsMade' = answers'
  <2>1. \A o \in Ids : CallsMade'[o] = answers'[o]
    BY DEF CallsMade
  <2>2. CallsMade' = [o \in Ids |-> CallsMade'[o]]
    BY DEF CallsMade
  <2>3. answers' = [o \in Ids |-> answers'[o]]
    BY <1>2
  <2>. QED BY <2>1, <2>2, <2>3
<1>5. /\ bound' = bound /\ exit' = exit /\ WorksDone' = WorksDone
  BY SameWorks DEF process
<1>6. Device!Refuse(nextId + 2)
  BY <1>2, <1>3, <1>4, <1>5 DEF Device!Refuse, Device!Returns, Device!None, Device!Failed, None, Failed
<1>. QED BY <1>1, <1>6 DEF Device!Next

\* A call that is made, or refused.
LEMMA BeginRefines ==
  ASSUME SessionInv, NEW what \in {"enroll", "verify"}, NEW m, Begin(m, what),
         m.op = nextId + 2, NEW blob, what = "verify" => blob \in Held,
         call' = [op |-> m.op, blob |-> blob, got |-> None]
  PROVE  [Device!Next]_(Device!vars)
<1>1. /\ doing = "idle" /\ nextId + 3 \in Ids
      /\ doing' = IF Sent(m) THEN what ELSE "idle"
      /\ answers' = IF Sent(m) THEN answers ELSE [answers EXCEPT ![m.op] = Failed]
      /\ UNCHANGED <<process, did, bound>>
  BY DEF Begin, Send
<1>2. CASE ~Sent(m)
  BY <1>1, <1>2, RefusalRefines
<1>3. CASE Sent(m)
  <2> DEFINE ask == IF what = "enroll" THEN [kind |-> "enroll"]
                    ELSE [kind |-> "verify", blob |-> blob]
             o == nextId + 2
  <2>1. o \in Ids /\ o > nextId
    <3>1. /\ nextId \in Nat /\ nextId + 2 \in Nat /\ (nextId + 2) + 1 = nextId + 3
          /\ nextId + 2 \in 1..((nextId + 2) + 1) /\ nextId + 2 > nextId
      BY DEF SessionInv, Minted
    <3>. QED BY <1>1, <3>1, IdsAreNumbers
  <2>2. /\ answers' = answers /\ answers \in [Ids -> Value] /\ answers[o] = None
        /\ \A p \in Ids : answers[p].what # "pending"
    BY <1>1, <1>3, <2>1, CallsAre DEF SessionInv, TypeOK, Minted
  <2>3. CallsMade = answers /\ Device!Held = Held
    BY <1>1, NoneWaits DEF InCall
  <2>4. doing' = what /\ call'.op = o /\ call'.blob = blob
    BY <1>1, <1>3
  <2>. HIDE DEF o
  <2>5. CallsMade' = [CallsMade EXCEPT ![o] = [what |-> "pending", ask |-> ask]]
    <3>1. \A p \in Ids : p # o => CallsMade'[p] = answers[p]
      BY <2>2, <2>4 DEF CallsMade
    <3>2. CallsMade'[o] = [what |-> "pending", ask |-> ask]
      BY <2>1, <2>2, <2>4 DEF CallsMade
    <3>3. CallsMade' = [p \in Ids |-> CallsMade'[p]]
      BY DEF CallsMade
    <3>. HIDE DEF ask
    <3>. QED BY <2>1, <2>2, <2>3, <3>1, <3>2, <3>3
  <2>6. /\ bound' = bound /\ exit' = exit /\ WorksDone' = WorksDone
    BY <1>1, SameWorks DEF process
  <2>7. bound # Nothing
    BY <1>1 DEF SessionInv, TypeOK
  <2>8. Device!Ask(o, ask)
    <3>. HIDE DEF ask
    <3>1. CallsMade[o] = Device!None /\ \A p \in Ids : ~Device!Waits(p)
      BY <2>2, <2>3 DEF Device!None, None, Device!Waits
    <3>. QED BY <2>5, <2>6, <2>7, <3>1 DEF Device!Ask, Device!Returns, Device!Pending
  <2>9. CASE what = "enroll"
    <3>1. Device!Ask(o, Device!EnrollAsk)
      BY <2>8, <2>9 DEF Device!EnrollAsk
    <3>. QED BY <2>1, <3>1 DEF Device!Next
  <2>10. CASE what = "verify"
    <3>1. Device!Ask(o, Device!VerifyAsk(blob)) /\ blob \in Device!Held
      BY <2>3, <2>8, <2>10 DEF Device!VerifyAsk
    <3>. QED BY <2>1, <3>1 DEF Device!Next
  <2>. QED BY <2>9, <2>10
<1>. QED BY <1>2, <1>3

\* A call that ends: it was waiting, and only what it returns is seen.
LEMMA EndsACall ==
  ASSUME SessionInv, InCall, ~InCall', UNCHANGED <<process, did, bound>>,
         NEW value, answers' = [answers EXCEPT ![call.op] = value]
  PROVE  /\ nextId \in Ids /\ call.op = nextId
         /\ Device!Returns(nextId, value) /\ Device!Waits(nextId)
         /\ doing = "enroll" => CallsMade[nextId].ask = Device!EnrollAsk
<1>1. /\ call.op = nextId /\ answers[nextId] = None /\ answers \in [Ids -> Value]
      /\ nextId \in Nat /\ nextId + 1 \in Ids
  BY DEF SessionInv, Minted, TypeOK
<1>2. nextId \in Ids
  BY CallHasId
<1>3. CallsMade[nextId] = IF doing = "enroll" THEN PendingEnroll ELSE PendingVerify
  BY <1>1, <1>2, CallsAre DEF InCall
<1>4. Device!Waits(nextId) /\ (doing = "enroll" => CallsMade[nextId].ask = Device!EnrollAsk)
  BY <1>3 DEF Device!Waits, Device!EnrollAsk, PendingEnroll, PendingVerify
<1>5. CallsMade' = [CallsMade EXCEPT ![nextId] = value]
  <2>1. \A o \in Ids : CallsMade'[o] = answers'[o]
    BY DEF CallsMade, InCall
  <2>2. \A o \in Ids : o # nextId => CallsMade[o] = answers[o]
    BY CallsAre
  <2>3. /\ CallsMade' = [o \in Ids |-> CallsMade'[o]]
        /\ CallsMade = [o \in Ids |-> CallsMade[o]]
    BY DEF CallsMade
  <2>. QED BY <1>1, <1>2, <2>1, <2>2, <2>3
<1>6. bound' = bound /\ exit' = exit /\ WorksDone' = WorksDone
  BY SameWorks DEF process
<1>. QED BY <1>1, <1>2, <1>4, <1>5, <1>6 DEF Device!Returns

\* What the device did for a call that is being answered, seen from outside.
LEMMA AnsweredIsSeen ==
  ASSUME SessionInv, InCall, nextId \in Ids, NEW outcome \in DeviceDoes(Asked),
         did[nextId] = <<[request |-> Asked, outcome |-> outcome]>>
  PROVE  /\ WorksDone[nextId] # <<>>
         /\ WorksDone[nextId][1].made = Result(Asked, outcome)
         /\ Result(Asked, outcome) = Device!Failed <=> outcome.what = "failed"
<1>1. WorksDone[nextId] = <<[on |-> Asked.device, made |-> Result(Asked, outcome)]>>
  BY SeenIs DEF WorksDone
<1>2. Result(Asked, outcome) = Failed <=> outcome.what = "failed"
  BY ResultIsMade
<1>. QED BY <1>1, <1>2 DEF Device!Failed, Failed

\* A line that is read in a call goes on with it, or ends it as the device did.
LEMMA CallRefines ==
  ASSUME SessionInv, InCall, Receive
  PROVE  [Device!Next]_(Device!vars)
<1> DEFINE m == Head(toHost)
<1>1. /\ doing \in Awaiting /\ toHost # <<>> /\ UNCHANGED <<process, did>>
  BY DEF Receive
<1>2. /\ AcceptsResponse(host, m) /\ m.type \in Expected \cup {"error"} /\ HostWaits
      /\ Answering /\ m = toHost[1] /\ 1 \in DOMAIN toHost
  <2>1. toHost \in Seq(Written)
    BY DEF SessionInv
  <2>2. m = toHost[1] /\ 1 \in DOMAIN toHost
    BY <1>1, <2>1, Rest1
  <2>. QED BY <1>1, <2>2, ReadEffect
<1>3. IF m.type \in Expected THEN Handle(m) ELSE Fail
  BY <1>2 DEF Receive
<1>4. PICK outcome \in DeviceDoes(Asked) :
        /\ did[call.op] = <<[request |-> Asked, outcome |-> outcome]>>
        /\ \A i \in DOMAIN toHost : Tells(toHost[i], outcome)
        /\ call.got # None => outcome.what # "failed" /\ call.got = Result(Asked, outcome)
        /\ host.phase = "Enrolling" /\ host.enrolled => call.got # None
        /\ host.phase = "Verifying" /\ host.reported => call.got # None
  BY <1>2 DEF Answering, Answered
<1>5. Tells(m, outcome)
  BY <1>2, <1>4
<1>6. nextId \in Ids /\ call.op = nextId
  BY CallHasId
<1>7. /\ WorksDone[nextId] # <<>> /\ WorksDone[nextId][1].made = Result(Asked, outcome)
      /\ Result(Asked, outcome) = Device!Failed <=> outcome.what = "failed"
  BY <1>4, <1>6, AnsweredIsSeen
<1>8. m.type \in Expected => m.type \notin {"error", "hello_ack", "devices"}
  BY DEF Expected, InCall
<1>. HIDE DEF m
<1>9. CASE m.type \notin Expected
  <2>1. m.type = "error" /\ Fail
    BY <1>2, <1>3, <1>9
  <2>2. /\ ~InCall' /\ answers' = [answers EXCEPT ![call.op] = Failed] /\ bound' = bound
    BY <1>1, <2>1, FailEffect DEF InCall
  <2>3. Device!Returns(nextId, Failed) /\ Device!Waits(nextId)
    BY <1>1, <2>2, EndsACall
  <2>4. WorksDone[nextId][1].made = Device!Failed
    BY <1>5, <1>7, <2>1 DEF Tells
  <2>5. Device!Fail(nextId)
    BY <1>7, <2>3, <2>4 DEF Device!Fail, Device!Failed, Failed
  <2>. QED BY <1>6, <2>5 DEF Device!Next
<1>10. CASE m.type \in Expected /\ m.type = "completed"
  <2>1. call.got # None
    <3>1. MayComplete(host)
      BY <1>2, <1>10 DEF AcceptsResponse, AnswerInOrder, EventInOrder
    <3>2. host.phase \notin {"Capturing", "AwaitCancelled"}
      BY <1>2 DEF HostWaits, InCall
    <3>. QED BY <1>4, <3>1, <3>2 DEF MayComplete
  <2>2. /\ doing' = "idle" /\ bound' = bound
        /\ answers' = [answers EXCEPT ![call.op] = call.got]
    BY <1>3, <1>10, <2>1 DEF Handle, Return
  <2>3. Device!Returns(nextId, call.got) /\ Device!Waits(nextId)
    BY <1>1, <2>2, EndsACall DEF InCall
  <2>4. Device!Answer(nextId)
    BY <1>4, <1>7, <2>1, <2>3 DEF Device!Answer
  <2>. QED BY <1>6, <2>4 DEF Device!Next
<1>11. CASE m.type \in Expected /\ m.type # "completed"
  <2>1. doing' = doing /\ bound' = bound /\ answers' = answers
        /\ call'.op = call.op /\ call'.blob = call.blob
    <3>1. call \in [op : Ids \cup {NoId}, blob : Ids \cup {NoId, Foreign}, got : Value]
      BY DEF SessionInv, TypeOK
    <3>2. /\ doing' = doing /\ bound' = bound /\ answers' = answers
          /\ call' = call \/ \E v : call' = [call EXCEPT !.got = v]
      BY <1>3, <1>8, <1>11 DEF Handle, Keep
    <3>. QED BY <3>1, <3>2
  <2>2. exit' = exit /\ CallsMade' = CallsMade /\ WorksDone' = WorksDone
    BY <1>1, <2>1, SameCalls, SameWorks DEF process
  <2>. QED BY <2>1, <2>2, Unseen
<1>. QED BY <1>9, <1>10, <1>11

\* A line that is read in spawn is the version, the list, or an error.
LEMMA SpawnRefines ==
  ASSUME SessionInv, ~InCall, Receive
  PROVE  [Device!Next]_(Device!vars)
<1> DEFINE m == Head(toHost)
<1>1. /\ doing \in {"await_hello", "await_devices"} /\ doing \in Awaiting /\ toHost # <<>>
      /\ UNCHANGED <<process, did>>
  BY DEF Receive, Awaiting, InCall
<1>2. /\ AcceptsResponse(host, m) /\ m.type \in Expected \cup {"error"} /\ m \in Written
  BY <1>1, ReadEffect
<1>3. IF m.type \in Expected THEN Handle(m) ELSE Fail
  BY <1>2 DEF Receive
<1>. HIDE DEF m
<1>4. CASE Fail
  BY <1>1, <1>4, FailEffect, BetweenCalls DEF InCall
<1>5. CASE m.type \in Expected /\ doing = "await_hello"
  <2>1. doing' = "list" /\ UNCHANGED <<bound, answers>>
    BY <1>3, <1>5 DEF Handle, Expected
  <2>. QED BY <1>1, <2>1, BetweenCalls DEF InCall
<1>6. CASE m.type \in Expected /\ doing = "await_devices"
  <2>1. Bind(m.roster) /\ m.roster \in Rosters
    BY <1>2, <1>3, <1>6, WrittenFields DEF Handle, Expected
  <2>2. ASSUME NEW d \in FirstChip(m.roster), d.stages # 0, BindTo(d)
        PROVE  [Device!Next]_(Device!vars)
    <3>1. d \in Sensors /\ bound = Nothing
      BY <1>6, <2>1, RostersHaveDevices DEF Sensors, SessionInv
    <3>2. bound' = d /\ doing' = "idle" /\ answers' = answers
      BY <2>2 DEF BindTo
    <3>3. exit' = exit /\ CallsMade' = CallsMade /\ WorksDone' = WorksDone
      BY <1>1, <3>2, SameCalls, SameWorks DEF process, InCall
    <3>4. Device!Bind(d)
      BY <2>2, <3>1, <3>2, <3>3 DEF Device!Bind
    <3>. QED BY <3>1, <3>4 DEF Device!Next
  <2>. QED BY <1>4, <2>1, <2>2 DEF Bind
<1>. QED BY <1>1, <1>3, <1>4, <1>5, <1>6

\* The worker is gone: a call under way fails.
LEMMA ReadEndRefines ==
  ASSUME SessionInv, ReadEnd
  PROVE  [Device!Next]_(Device!vars)
<1>1. /\ doing \in Awaiting /\ exit # "running" /\ Fail /\ UNCHANGED <<process, did>>
  BY DEF ReadEnd
<1>2. CASE InCall
  <2>1. ~InCall' /\ bound' = bound /\ answers' = [answers EXCEPT ![call.op] = Failed]
    BY <1>1, <1>2, FailEffect DEF InCall
  <2>2. nextId \in Ids /\ Device!Returns(nextId, Failed) /\ Device!Waits(nextId)
    BY <1>1, <1>2, <2>1, EndsACall
  <2>3. Device!Fail(nextId)
    BY <1>1, <2>2 DEF Device!Fail, Device!Failed, Failed
  <2>. QED BY <2>2, <2>3 DEF Device!Next
<1>3. CASE ~InCall
  BY <1>1, <1>3, FailEffect, BetweenCalls DEF InCall
<1>. QED BY <1>2, <1>3

\* The callback panics on a report of progress, so the finger was enrolled.
LEMMA PanicRefines ==
  ASSUME SessionInv, Panic
  PROVE  [Device!Next]_(Device!vars)
<1>1. /\ doing = "enroll" /\ toHost # <<>> /\ Head(toHost).type = "enroll_progress"
      /\ doing' = "dropping" /\ UNCHANGED <<process, did, bound>>
      /\ answers' = [answers EXCEPT ![call.op] = [what |-> "panicked"]]
  BY DEF Panic
<1>2. InCall /\ ~InCall' /\ doing \in Awaiting
  BY <1>1 DEF InCall, Awaiting
<1>3. /\ nextId \in Ids /\ call.op = nextId
      /\ Device!Returns(nextId, [what |-> "panicked"]) /\ Device!Waits(nextId)
      /\ CallsMade[nextId].ask = Device!EnrollAsk
  BY <1>1, <1>2, EndsACall
<1>4. Answering /\ Head(toHost) = toHost[1] /\ 1 \in DOMAIN toHost
  <2>1. toHost \in Seq(Written)
    BY DEF SessionInv
  <2>. QED BY <1>1, <1>2, <2>1, Rest1, ReadEffect
<1>5. PICK outcome \in DeviceDoes(Asked) :
        /\ did[call.op] = <<[request |-> Asked, outcome |-> outcome]>>
        /\ \A i \in DOMAIN toHost : Tells(toHost[i], outcome)
  BY <1>2, <1>4 DEF Answering, Answered
<1>6. outcome.what # "failed"
  BY <1>1, <1>4, <1>5 DEF Tells
<1>7. /\ WorksDone[nextId] # <<>> /\ WorksDone[nextId][1].made # Device!Failed
  BY <1>2, <1>3, <1>5, <1>6, AnsweredIsSeen
<1>8. Device!Abandon(nextId)
  BY <1>3, <1>7 DEF Device!Abandon
<1>. QED BY <1>3, <1>8 DEF Device!Next

\* A step of the host that is not in a call.
LEMMA HostRefines ==
  ASSUME SessionInv, Greet \/ List \/ Drop \/ WaitReturns
  PROVE  [Device!Next]_(Device!vars)
<1>1. UNCHANGED <<process, did, bound, answers>> /\ ~InCall /\ ~InCall'
  BY DEF Greet, List, Exchange, Send, Drop, WaitReturns, InCall
<1>. QED BY <1>1, BetweenCalls

\* Every step is one of the abstract device, or is not seen.
LEMMA SessionRefines ==
  ASSUME SessionInv, [Next]_vars
  PROVE  [Device!Next]_(Device!vars)
<1>1. CASE UNCHANGED vars
  <2>1. /\ bound' = bound /\ exit' = exit /\ answers' = answers /\ did' = did
        /\ doing' = doing /\ call' = call
    BY <1>1 DEF vars, hostVars, process
  <2>2. CallsMade' = CallsMade /\ WorksDone' = WorksDone
    BY <2>1 DEF CallsMade, WorksDone
  <2>. QED BY <2>1, <2>2, Unseen
<1>2. CASE Enroll
  <2> DEFINE m == [type |-> "start_enroll", req |-> nextId + 1, op |-> nextId + 2,
                   data |-> "valid", device |-> bound.id]
  <2>1. Begin(m, "enroll") /\ call' = [op |-> m.op, blob |-> NoId, got |-> None]
    BY <1>2 DEF Enroll
  <2>2. m.op = nextId + 2
    OBVIOUS
  <2>. HIDE DEF m
  <2>. QED BY <2>1, <2>2, BeginRefines
<1>3. ASSUME NEW blob \in Held, Verify(blob) PROVE [Device!Next]_(Device!vars)
  <2> DEFINE m == [type |-> "start_verify", req |-> nextId + 1, op |-> nextId + 2,
                   data |-> "valid", device |-> bound.id, template |-> blob]
  <2>1. Begin(m, "verify") /\ call' = [op |-> m.op, blob |-> blob, got |-> None]
    BY <1>3 DEF Verify
  <2>2. m.op = nextId + 2
    OBVIOUS
  <2>. HIDE DEF m
  <2>. QED BY <2>1, <2>2, BeginRefines
<1>4. CASE VerifyUnsendable
  BY <1>4, RefusalRefines DEF VerifyUnsendable
<1>5. CASE Receive
  BY <1>5, CallRefines, SpawnRefines
<1>. QED BY <1>1, <1>2, <1>3, <1>4, <1>5, HostRefines, ReadEndRefines, PanicRefines,
            WorkerRefines DEF Next, HostWorks

\* A session is one sensor that is called: it works once for a call, while the
\* call waits; the call returns what was made of it, and fails only if that
\* failed or the worker is gone (worker.rs, moc.rs).
THEOREM SessionIsADevice == Spec => CallsAreAtomic
<1>1. Init => Device!Init
  BY DeviceStarts
<1>2. SessionInv /\ [Next]_vars => [Device!Next]_(Device!vars)
  BY SessionRefines
<1>. QED BY <1>1, <1>2, AlwaysInOrder, PTL DEF Spec, CallsAreAtomic, Device!Spec

\* A sensor called like this is honest.
LEMMA HonestStays ==
  ASSUME Device!Honest, [Device!Next]_(Device!vars)
  PROVE  Device!Honest'
<1> DEFINE calls == CallsMade
           works == WorksDone
<1>1. DOMAIN calls = Ids /\ DOMAIN works = Ids
  BY DEF CallsMade, WorksDone
<1>. HIDE DEF calls, works
<1> USE DEF Device!Honest, Device!Returns, Device!Waits, Device!Failed
<1>2. CASE UNCHANGED Device!vars
  BY <1>2 DEF Device!vars
<1>3. CASE Device!Break \/ \E d \in Sensors : Device!Bind(d)
  BY <1>3 DEF Device!Break, Device!Bind
<1>4. ASSUME NEW o \in Ids, NEW ask, Device!Ask(o, ask) PROVE Device!Honest'
  BY <1>1, <1>4 DEF Device!Ask, Device!Pending, Device!None, calls
<1>5. ASSUME NEW o \in Ids, Device!Refuse(o) PROVE Device!Honest'
  BY <1>1, <1>5 DEF Device!Refuse, Device!None, calls
<1>6. ASSUME NEW o \in Ids, Device!Work(o) PROVE Device!Honest'
  <2>1. PICK made \in Device!Makes(o, calls[o].ask) :
          works' = [works EXCEPT ![o] = <<[on |-> bound.id, made |-> made]>>]
    BY <1>6 DEF Device!Work, calls, works
  <2>2. made = Failed \/ made.what \in {"template", "verdict"}
    BY DEF Device!Makes, Failed
  <2>3. works'[o] = <<[on |-> bound.id, made |-> made]>>
        /\ \A p \in Ids : p # o => works'[p] = works[p]
    BY <1>1, <2>1
  <2>4. /\ DOMAIN works'[o] = {1} /\ works'[o][1].made = made
    BY <2>3
  <2>5. /\ calls[o].what = "pending" /\ calls' = calls
        /\ (exit = "running")' = (exit = "running")
    BY <1>6 DEF Device!Work, calls
  <2>. QED BY <1>6, <2>2, <2>3, <2>4, <2>5 DEF calls, works, Failed
<1>7. ASSUME NEW o \in Ids, Device!Answer(o) PROVE Device!Honest'
  BY <1>1, <1>7 DEF Device!Answer, calls
<1>8. ASSUME NEW o \in Ids, Device!Fail(o) PROVE Device!Honest'
  BY <1>1, <1>8 DEF Device!Fail, calls
<1>9. ASSUME NEW o \in Ids, Device!Abandon(o) PROVE Device!Honest'
  BY <1>1, <1>9 DEF Device!Abandon, calls
<1>. QED BY <1>2, <1>3, <1>4, <1>5, <1>6, <1>7, <1>8, <1>9 DEF Device!Next

\* "A broken device must not be indistinguishable from a stranger's finger"
\* (moc.rs): what enroll and verify return is what the device made of that very
\* request, and they fail only if it failed or the worker is gone.
THEOREM AnswersAreKept == Spec => []AnswersAreTheDevices
<1>1. Device!Init => Device!Honest
  BY DEF Device!Init, Device!Honest, Device!None
<1>2. Device!Honest /\ [Device!Next]_(Device!vars) => Device!Honest'
  BY HonestStays
<1>3. ASSUME SessionInv, Device!Honest PROVE AnswersAreTheDevices
  <2> SUFFICES ASSUME NEW o \in Ids
               PROVE  /\ answers[o].what \in {"template", "verdict"} =>
                           \E i \in DOMAIN did[o] :
                             answers[o] = Result(did[o][i].request, did[o][i].outcome)
                      /\ answers[o] = Failed =>
                           \/ exit # "running"
                           \/ \A i \in DOMAIN did[o] :
                                Result(did[o][i].request, did[o][i].outcome) = Failed
    BY DEF AnswersAreTheDevices
  <2>1. answers[o] # None => CallsMade[o] = answers[o]
    BY DEF CallsMade
  <2>2. /\ DOMAIN WorksDone[o] = DOMAIN did[o]
        /\ \A i \in DOMAIN did[o] :
             WorksDone[o][i].made = Result(did[o][i].request, did[o][i].outcome)
    BY DEF WorksDone, Seen
  <2>3. WorksDone[o] = <<>> \/ DOMAIN WorksDone[o] = {1}
    BY <1>3 DEF Device!Honest
  <2>4. DOMAIN <<>> = {}
    OBVIOUS
  <2>. QED BY <1>3, <2>1, <2>2, <2>3, <2>4 DEF Device!Honest, Device!Failed, Failed, None
<1>. QED BY <1>1, <1>2, <1>3, SessionIsADevice, AlwaysInOrder, PTL DEF CallsAreAtomic, Device!Spec
=============================================================================
