------------------------- MODULE SessionRulesProofs -------------------------
(***************************************************************************)
(* What the rules do to a validator record, message by message: the facts  *)
(* the proofs about one validator and about two of them share.             *)
(***************************************************************************)
EXTENDS SessionRules, TLAPS

\* What is used of a request: its kind, and the identifiers its kind has.
RequestTypes == {"hello", "enumerate", "cancel", "shutdown"} \cup StartRequests

\* Requests are of the types the lemmas below speak of.
LEMMA RequestsHaveTypes == \A m \in Requests : m.type \in RequestTypes
  BY DEF Requests, RequestTypes, StartRequests

\* Spending identifiers touches the sets of spent ones only.
LEMMA SpendEffect ==
  ASSUME NEW s \in Validators, NEW m, AcceptsRequest(s, m)
  PROVE  /\ Spend(s, m).seenReq = s.seenReq \cup {m.req}
         /\ Spend(s, m).seenOp =
              IF m.type \in StartRequests THEN s.seenOp \cup {m.op} ELSE s.seenOp
         /\ Spend(s, m).seenReq \subseteq Ids
         /\ Spend(s, m).seenOp \subseteq Ids
<1>1. m.req \in Ids /\ (m.type \in StartRequests => m.op \in Ids)
  BY DEF AcceptsRequest, ValidRequest
<1> QED
  BY <1>1 DEF Spend, Validators

\* What each accepted request leaves behind.
LEMMA RequestEffect ==
  ASSUME NEW s \in Validators, NEW m, m.type \in RequestTypes, AcceptsRequest(s, m)
  PROVE  LET t == AfterRequest(s, m) IN
         /\ t.seenReq = s.seenReq \cup {m.req}
         /\ t.seenOp =
              IF m.type \in StartRequests THEN s.seenOp \cup {m.op} ELSE s.seenOp
         /\ m.type = "hello" => t.phase = "AwaitHelloAck" /\ t.req = m.req /\ t.op = NoId /\ t.kind = "none"
         /\ m.type = "enumerate" => t.phase = "AwaitDevices" /\ t.req = m.req /\ t.op = NoId /\ t.kind = "none"
         /\ m.type \in StartRequests => t.phase = "AwaitStarted" /\ t.req = m.req /\ t.op = m.op /\ t.kind = KindOf(m.type)
         /\ m.type = "cancel" => t.phase = "AwaitCancelled" /\ t.req = m.req /\ t.op = s.op /\ t.kind = "none"
         /\ m.type = "shutdown" => t.phase = "Closed" /\ t.req = NoId /\ t.op = NoId /\ t.kind = "none"
         /\ t \in Validators
<1> DEFINE t == AfterRequest(s, m)
<1>1. CASE m.type = "hello"
  BY <1>1, SpendEffect DEF AfterRequest, Await, Validators, Phases, Waiting, StartRequests, AcceptsRequest, ValidRequest
<1>2. CASE m.type = "enumerate"
  BY <1>2, SpendEffect DEF AfterRequest, Await, Validators, Phases, Waiting, StartRequests, AcceptsRequest, ValidRequest
<1>3. CASE m.type \in StartRequests
  BY <1>3, SpendEffect DEF AfterRequest, Await, Validators, Phases, Waiting, StartRequests, AcceptsRequest, ValidRequest, KindOf, Kinds
<1>4. CASE m.type = "cancel"
  BY <1>4, SpendEffect DEF AfterRequest, Await, Validators, Phases, Waiting, StartRequests, AcceptsRequest, ValidRequest
<1>5. CASE m.type = "shutdown"
  BY <1>5, SpendEffect DEF AfterRequest, Await, Rest, Validators, Phases, Waiting, StartRequests, AcceptsRequest, ValidRequest
<1> QED
  BY <1>1, <1>2, <1>3, <1>4, <1>5 DEF RequestTypes

EventTypes == {"finger_present", "finger_removed", "frame", "enroll_progress",
               "enrolled", "match_result"}

\* Coming to rest keeps nothing but the identifiers spent.
LEMMA RestEffect ==
  ASSUME NEW s \in Validators, NEW phase \in {"NeedHello", "Ready"}
  PROVE  LET t == Rest(s, phase) IN
         /\ t \in Validators
         /\ t.phase = phase /\ t.req = NoId /\ t.op = NoId /\ t.kind = "none"
         /\ t.seenReq = s.seenReq /\ t.seenOp = s.seenOp
  BY DEF Rest, Await, Validators, Phases, Waiting

\* t differs from s in its progress at most.
Untouched(s, t) ==
  /\ t.phase = s.phase /\ t.req = s.req /\ t.op = s.op /\ t.kind = s.kind
  /\ t.seenReq = s.seenReq /\ t.seenOp = s.seenOp

\* What is used of a message: its kind and its numbers.
Readable(m) ==
  /\ m.type \in EventTypes \cup {"hello_ack", "devices", "started", "cancelled",
                               "completed", "error"}
  /\ m.type = "frame" => m.sequence \in Sequences
  /\ m.type = "enroll_progress" => m.completed \in Stages

\* Responses have the fields the rules read.
LEMMA ResponsesAreReadable == \A m \in Responses : Readable(m)
  BY DEF Responses, Readable, EventTypes

\* An event changes the progress fields of the phase, and no other.
LEMMA ReadableEventEffect ==
  ASSUME NEW s \in Validators, NEW m, Readable(m), m.type \in EventTypes
  PROVE  LET t == AfterResponse(s, m) IN
         /\ t \in Validators
         /\ t.phase = s.phase /\ t.req = s.req /\ t.op = s.op /\ t.kind = s.kind
         /\ t.seenReq = s.seenReq /\ t.seenOp = s.seenOp
         /\ t.sawFrame <=> s.sawFrame \/ m.type = "frame"
         /\ t.enrolled <=> s.enrolled \/ m.type = "enrolled"
         /\ t.reported <=> s.reported \/ m.type = "match_result"
         /\ t.lastSequence = IF m.type = "frame" THEN m.sequence ELSE s.lastSequence
         /\ t.lastCompleted = IF m.type = "enroll_progress" THEN m.completed ELSE s.lastCompleted
<1>1. AfterResponse(s, m) = AfterEvent(s, m)
  BY DEF AfterResponse, EventTypes
<1>2. /\ m.type = "frame" => m.sequence \in Sequences
      /\ m.type = "enroll_progress" => m.completed \in Stages
  BY DEF Readable
<1>3. CASE m.type = "finger_present"
  <2> DEFINE t == [s EXCEPT !.present = s.phase = "Capturing"]
  <2>1. AfterResponse(s, m) = t
    BY <1>1, <1>3 DEF AfterEvent
  <2>2. t \in Validators
    BY <1>2, <1>3 DEF Validators
  <2>3. Untouched(s, t) /\ t.sawFrame = s.sawFrame /\ t.enrolled = s.enrolled /\ t.reported = s.reported
        /\ t.lastSequence = s.lastSequence /\ t.lastCompleted = s.lastCompleted
    BY DEF Untouched, Validators
  <2> HIDE DEF t
  <2> QED
    BY <1>3, <2>1, <2>2, <2>3 DEF Untouched
<1>4. CASE m.type = "finger_removed"
  <2> DEFINE t == [s EXCEPT !.present = FALSE]
  <2>1. AfterResponse(s, m) = t
    BY <1>1, <1>4 DEF AfterEvent
  <2>2. t \in Validators
    BY <1>2, <1>4 DEF Validators
  <2>3. Untouched(s, t) /\ t.sawFrame = s.sawFrame /\ t.enrolled = s.enrolled /\ t.reported = s.reported
        /\ t.lastSequence = s.lastSequence /\ t.lastCompleted = s.lastCompleted
    BY DEF Untouched, Validators
  <2> HIDE DEF t
  <2> QED
    BY <1>4, <2>1, <2>2, <2>3 DEF Untouched
<1>5. CASE m.type = "frame"
  <2> DEFINE t == [s EXCEPT !.sawFrame = TRUE, !.lastSequence = m.sequence]
  <2>1. AfterResponse(s, m) = t
    BY <1>1, <1>5 DEF AfterEvent
  <2>2. t \in Validators
    BY <1>2, <1>5 DEF Validators
  <2>3. Untouched(s, t) /\ t.sawFrame /\ t.enrolled = s.enrolled /\ t.reported = s.reported
        /\ t.lastSequence = m.sequence /\ t.lastCompleted = s.lastCompleted
    BY DEF Untouched, Validators
  <2> HIDE DEF t
  <2> QED
    BY <1>5, <2>1, <2>2, <2>3 DEF Untouched
<1>6. CASE m.type = "enroll_progress"
  <2> DEFINE t == [s EXCEPT !.lastCompleted = m.completed]
  <2>1. AfterResponse(s, m) = t
    BY <1>1, <1>6 DEF AfterEvent
  <2>2. t \in Validators
    BY <1>2, <1>6 DEF Validators
  <2>3. Untouched(s, t) /\ t.sawFrame = s.sawFrame /\ t.enrolled = s.enrolled /\ t.reported = s.reported
        /\ t.lastSequence = s.lastSequence /\ t.lastCompleted = m.completed
    BY DEF Untouched, Validators
  <2> HIDE DEF t
  <2> QED
    BY <1>6, <2>1, <2>2, <2>3 DEF Untouched
<1>7. CASE m.type = "enrolled"
  <2> DEFINE t == [s EXCEPT !.enrolled = TRUE]
  <2>1. AfterResponse(s, m) = t
    BY <1>1, <1>7 DEF AfterEvent
  <2>2. t \in Validators
    BY <1>2, <1>7 DEF Validators
  <2>3. Untouched(s, t) /\ t.sawFrame = s.sawFrame /\ t.enrolled /\ t.reported = s.reported
        /\ t.lastSequence = s.lastSequence /\ t.lastCompleted = s.lastCompleted
    BY DEF Untouched, Validators
  <2> HIDE DEF t
  <2> QED
    BY <1>7, <2>1, <2>2, <2>3 DEF Untouched
<1>8. CASE m.type = "match_result"
  <2> DEFINE t == [s EXCEPT !.reported = TRUE]
  <2>1. AfterResponse(s, m) = t
    BY <1>1, <1>8 DEF AfterEvent
  <2>2. t \in Validators
    BY <1>2, <1>8 DEF Validators
  <2>3. Untouched(s, t) /\ t.sawFrame = s.sawFrame /\ t.enrolled = s.enrolled /\ t.reported
        /\ t.lastSequence = s.lastSequence /\ t.lastCompleted = s.lastCompleted
    BY DEF Untouched, Validators
  <2> HIDE DEF t
  <2> QED
    BY <1>8, <2>1, <2>2, <2>3 DEF Untouched
<1> QED
  BY <1>3, <1>4, <1>5, <1>6, <1>7, <1>8 DEF EventTypes

\* An event of a response changes no more than its progress fields.
LEMMA EventEffect ==
  ASSUME NEW s \in Validators, NEW m \in Responses, AcceptsResponse(s, m),
         m.type \in EventTypes
  PROVE  LET t == AfterResponse(s, m) IN
         /\ t \in Validators
         /\ t.phase = s.phase /\ t.req = s.req /\ t.op = s.op /\ t.kind = s.kind
         /\ t.seenReq = s.seenReq /\ t.seenOp = s.seenOp
         /\ t.sawFrame <=> s.sawFrame \/ m.type = "frame"
         /\ t.enrolled <=> s.enrolled \/ m.type = "enrolled"
         /\ t.reported <=> s.reported \/ m.type = "match_result"
         /\ t.lastSequence = IF m.type = "frame" THEN m.sequence ELSE s.lastSequence
         /\ t.lastCompleted = IF m.type = "enroll_progress" THEN m.completed ELSE s.lastCompleted
BY ResponsesAreReadable, ReadableEventEffect
-----------------------------------------------------------------------------
\* Accepting a request leaves a coherent validator.
LEMMA RequestCoherent ==
  ASSUME NEW s \in Validators, NEW m, m.type \in RequestTypes, AcceptsRequest(s, m)
  PROVE  AfterRequest(s, m) \in Validators /\ (Coherent(s) => Coherent(AfterRequest(s, m)))
<1> DEFINE t == AfterRequest(s, m)
<1>1. /\ m.req \in Ids /\ (m.type \in StartRequests => m.op \in Ids /\ KindOf(m.type) \in Kinds)
      /\ m.type = "cancel" => s.phase \in Running
      /\ m.type \in {"hello", "enumerate", "cancel", "shutdown"} \cup StartRequests
  BY DEF AcceptsRequest, ValidRequest, RequestInOrder, KindOf, Kinds, StartRequests, RequestTypes
<1>2. /\ m.type = "hello" => t.phase = "AwaitHelloAck" /\ t.req = m.req /\ t.op = NoId /\ t.kind = "none"
      /\ m.type = "enumerate" => t.phase = "AwaitDevices" /\ t.req = m.req /\ t.op = NoId /\ t.kind = "none"
      /\ m.type \in StartRequests => t.phase = "AwaitStarted" /\ t.req = m.req /\ t.op = m.op /\ t.kind = KindOf(m.type)
      /\ m.type = "cancel" => t.phase = "AwaitCancelled" /\ t.req = m.req /\ t.op = s.op /\ t.kind = "none"
      /\ m.type = "shutdown" => t.phase = "Closed" /\ t.req = NoId /\ t.op = NoId /\ t.kind = "none"
      /\ t \in Validators
  BY RequestEffect
<1>. HIDE DEF t
<1>3. Coherent(s) => Coherent(t)
  BY <1>1, <1>2, IdsAssumption DEF Coherent, Waiting, Engaged, Running, Kinds
<1> QED
  BY <1>2, <1>3 DEF t

\* Accepting a response leaves a coherent validator.
LEMMA ReadableCoherent ==
  ASSUME NEW s \in Validators, NEW m, Readable(m), AcceptsResponse(s, m), Coherent(s)
  PROVE  AfterResponse(s, m) \in Validators /\ Coherent(AfterResponse(s, m))
<1> DEFINE t == AfterResponse(s, m)
<1>1. CASE m.type \in EventTypes
  <2>1. t \in Validators /\ Untouched(s, t)
    BY <1>1, ReadableEventEffect DEF Untouched
  <2>. HIDE DEF t
  <2>2. Coherent(t)
    BY <2>1 DEF Coherent, Untouched
  <2> QED
    BY <2>1, <2>2 DEF t
<1>2. CASE m.type = "started"
  <2>1. s.phase = "AwaitStarted" /\ s.kind \in Kinds /\ s.op # NoId
    BY <1>2 DEF AcceptsResponse, AnswerInOrder, Coherent, Validators, EventTypes, Engaged
  <2>2. t = Run(s)
    BY <1>2 DEF AfterResponse
  <2>3. PhaseOf(s.kind) \in Running
    BY <2>1 DEF PhaseOf, Running, Kinds
  <2>4. t \in Validators /\ t.phase \in Running /\ t.req = NoId /\ t.op = s.op /\ t.kind = "none"
    BY <2>2, <2>3 DEF Run, Await, Validators, Phases
  <2>. HIDE DEF t
  <2>5. Coherent(t)
    BY <2>1, <2>4 DEF Coherent, Waiting, Engaged, Running
  <2> QED
    BY <2>4, <2>5 DEF t
<1>3. CASE m.type \notin EventTypes \cup {"started"}
  <2>1. m.type \in {"hello_ack", "devices", "completed", "cancelled", "error"}
    BY <1>3 DEF Readable, EventTypes
  <2>2. t = Rest(s, "NeedHello") \/ t = Rest(s, "Ready")
    BY <2>1 DEF AfterResponse
  <2>3. /\ t \in Validators /\ t.phase \in {"NeedHello", "Ready"}
        /\ t.req = NoId /\ t.op = NoId /\ t.kind = "none"
    BY <2>2, RestEffect
  <2>. HIDE DEF t
  <2>4. Coherent(t)
    BY <2>3 DEF Coherent, Waiting, Engaged, Running
  <2> QED
    BY <2>3, <2>4 DEF t
<1> QED
  BY <1>1, <1>2, <1>3

\* A response accepted leaves a phase with its identifiers and no others.
LEMMA ResponseCoherent ==
  ASSUME NEW s \in Validators, NEW m \in Responses, AcceptsResponse(s, m), Coherent(s)
  PROVE  AfterResponse(s, m) \in Validators /\ Coherent(AfterResponse(s, m))
BY ResponsesAreReadable, ReadableCoherent

\* No validator would accept both a response and a request other than cancel:
\* one of the two ends has the turn.
LEMMA OneTurn ==
  ASSUME NEW s \in Validators, NEW m \in Requests, NEW n \in Responses,
         AcceptsRequest(s, m), AcceptsResponse(s, n)
  PROVE  m.type = "cancel"
<1>1. s.phase \in Waiting \cup Running
  BY DEF AcceptsResponse, AnswerInOrder, EventInOrder, MayComplete, ErrorInOrder, Waiting, Running
<1> QED
  BY <1>1 DEF AcceptsRequest, RequestInOrder, Waiting, Running

\* After a request that is not a cancellation it is the other end's turn.
LEMMA TurnPasses ==
  ASSUME NEW s \in Validators, NEW m \in Requests, AcceptsRequest(s, m), m.type # "cancel",
         NEW n \in Requests, AcceptsRequest(AfterRequest(s, m), n)
  PROVE  FALSE
<1> DEFINE t == AfterRequest(s, m)
<1>1. m.type \in {"hello", "enumerate", "shutdown"} \cup StartRequests
  BY DEF Requests, StartRequests
<1>2. t.phase \in Waiting \cup {"Closed"}
  BY <1>1, RequestEffect, RequestsHaveTypes DEF Waiting
<1>. HIDE DEF t
<1>3. AcceptsRequest(t, n)
  BY DEF t
<1> QED
  BY <1>2, <1>3 DEF AcceptsRequest, RequestInOrder, Waiting, Running
=============================================================================
