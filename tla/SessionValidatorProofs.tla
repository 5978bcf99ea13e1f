----------------------- MODULE SessionValidatorProofs -----------------------
(***************************************************************************)
(* What SessionValidator keeps for every set of identifiers and every      *)
(* limit.  The argument is one inductive invariant, Summary: the little    *)
(* the validator remembers says, about the request and the operation it is *)
(* engaged with, exactly what an observer of the whole session would say.  *)
(***************************************************************************)
EXTENDS SessionValidator, SessionRulesProofs, FiniteSetTheorems

\* A session starts with nothing asked and nothing to summarise.
LEMMA SummaryInit == Init => Summary
<1> SUFFICES ASSUME Init PROVE Summary
  OBVIOUS
<1> USE DEF Init, NewValidator
<1>1. TypeOK
  BY DEF TypeOK, Validators, Phases, Waiting, Running, Kinds, Promise!Unused, Promise!Lives
<1>2. Coherent(validator)
  BY DEF Coherent, Waiting, Engaged, Running
<1>3. AsksMatch
  BY DEF AsksMatch
<1>4. OpsMatch
  BY IdsAssumption DEF OpsMatch, Promise!Unused, Promise!Live
<1>5. PhaseMatches /\ LastReported
  BY DEF PhaseMatches, LastReported, Running
<1>6. TrailsAscend
  BY DEF TrailsAscend
<1> QED
  BY <1>1, <1>2, <1>3, <1>4, <1>5, <1>6 DEF Summary

-----------------------------------------------------------------------------
\* An accepted request has an identifier of the session's own, and so has the
\* operation it names.
LEMMA AcceptedRequest ==
  ASSUME NEW m \in Requests, AcceptsRequest(validator, m)
  PROVE  /\ m.type \in StartRequests \cup {"hello", "enumerate", "cancel", "shutdown"}
         /\ m.req \in Ids \ validator.seenReq
         /\ m.type \in StartRequests => m.op \in Ids \ validator.seenOp
         /\ m.type = "cancel" => m.op = validator.op /\ m.op \in Ids
  BY DEF Requests, AcceptsRequest, ValidRequest, FreshIds, RequestInOrder, AnyId,
         StartRequests

-----------------------------------------------------------------------------
\* Accepting a request preserves the summary.
LEMMA RequestStep ==
  ASSUME Summary, NEW m \in Requests, AcceptRequest(m)
  PROVE  Summary'
<1> USE DEF Summary, AcceptRequest
<1> DEFINE v == validator
           w == AfterRequest(validator, m)
<1>1. v \in Validators /\ w \in Validators /\ validator' = w
  BY RequestEffect, RequestsHaveTypes DEF TypeOK
<1>2. /\ m.type = "hello" => w.phase = "AwaitHelloAck" /\ w.req = m.req /\ w.op = NoId /\ w.kind = "none"
      /\ m.type = "enumerate" => w.phase = "AwaitDevices" /\ w.req = m.req /\ w.op = NoId /\ w.kind = "none"
      /\ m.type \in StartRequests => w.phase = "AwaitStarted" /\ w.req = m.req /\ w.op = m.op /\ w.kind = KindOf(m.type)
      /\ m.type = "cancel" => w.phase = "AwaitCancelled" /\ w.req = m.req /\ w.op = v.op /\ w.kind = "none"
      /\ m.type = "shutdown" => w.phase = "Closed" /\ w.req = NoId /\ w.op = NoId /\ w.kind = "none"
  BY <1>1, RequestEffect, RequestsHaveTypes
<1>3. /\ w.seenReq = v.seenReq \cup {m.req}
      /\ w.seenOp = IF m.type \in StartRequests THEN v.seenOp \cup {m.op} ELSE v.seenOp
  BY <1>1, RequestEffect, RequestsHaveTypes
<1>. HIDE DEF w
<1>4. /\ m.type \in StartRequests \cup {"hello", "enumerate", "cancel", "shutdown"}
      /\ m.req \in Ids \ v.seenReq
      /\ m.type \in StartRequests => m.op \in Ids \ v.seenOp
      /\ m.type = "cancel" => m.op = v.op /\ m.op \in Ids
  BY AcceptedRequest
<1>5. /\ m.type = "hello" => v.phase = "NeedHello"
      /\ m.type \in StartRequests \cup {"enumerate", "shutdown"} => v.phase = "Ready"
      /\ m.type = "cancel" => v.phase \in Running
  BY DEF AcceptsRequest, RequestInOrder, StartRequests
<1>6. v.phase \notin Waiting \cup {"Closed"} /\ v.req = NoId
  BY <1>4, <1>5 DEF Coherent, Running, Waiting
<1>7. m.type \in StartRequests => KindOf(m.type) \in Kinds
  BY DEF StartRequests, KindOf, Kinds
<1>10. TypeOK'
  <2>1. asks' \in [Ids -> {"unasked", "asked", "answered"}]
    BY DEF TypeOK, NoteRequest
  <2>2. ops' \in [Ids -> Promise!Lives]
    <3>1. CASE m.type \in StartRequests
      BY <1>4, <1>7, <3>1
      DEF TypeOK, NoteRequest, Promise!Lives, Promise!Kinds, Kinds, StartRequests
    <3>2. CASE m.type = "cancel"
      BY <1>4, <3>2 DEF TypeOK, NoteRequest, Promise!Lives, StartRequests
    <3>3. CASE m.type \in {"hello", "enumerate", "shutdown"}
      BY <1>4, <3>3 DEF TypeOK, NoteRequest, StartRequests
    <3> QED
      BY <1>4, <3>1, <3>2, <3>3
  <2> QED
    BY <1>1, <2>1, <2>2 DEF TypeOK, NoteRequest
<1>11. Coherent(validator)'
  BY <1>1, <1>2, <1>4, <1>5, <1>7, IdsAssumption
  DEF Coherent, Waiting, Engaged, Running, StartRequests, Kinds
<1>12. AsksMatch'
  <2>1. asks' = [asks EXCEPT ![m.req] = "asked"]
    BY DEF NoteRequest
  <2>2. \A r \in Ids : asks[r] # "asked"
    BY <1>6, IdsAssumption DEF AsksMatch
  <2>3. w.phase = "Closed" \/ w.req = m.req
    BY <1>2, <1>4
  <2>4. w.req # NoId => w.req = m.req
    BY <1>2, <1>4
  <2> QED
    BY <1>1, <1>3, <1>4, <2>1, <2>2, <2>3, <2>4 DEF AsksMatch, TypeOK
<1>13. OpsMatch'
  <2>1. CASE m.type \in StartRequests
    <3>1. v.op = NoId
      BY <1>5, <2>1 DEF Coherent, Engaged, Running
    <3>2. \A o \in Ids : ~Promise!Live(o)
      BY <3>1, IdsAssumption DEF OpsMatch
    <3>3. ops' = [ops EXCEPT ![m.op] =
                   [stage |-> "requested", kind |-> KindOf(m.type), produced |-> <<>>]]
      BY <2>1 DEF NoteRequest, StartRequests
    <3> QED
      BY <1>1, <1>2, <1>3, <1>4, <2>1, <3>2, <3>3
      DEF OpsMatch, TypeOK, NoteRequest, Promise!Live, Promise!Lives, Promise!Unused
  <2>2. CASE m.type = "cancel"
    <3>1. ops[v.op].stage = "running" /\ v.op \in Ids
      BY <1>4, <1>5, <2>2 DEF PhaseMatches
    <3>2. ops' = [ops EXCEPT ![v.op].stage = "cancelling"]
      BY <1>4, <2>2 DEF NoteRequest, StartRequests
    <3>3. /\ \A o \in Ids \ {v.op} : ops'[o] = ops[o]
          /\ ops'[v.op].stage = "cancelling"
      BY <3>1, <3>2 DEF TypeOK, Promise!Lives
    <3>4. w.op = v.op /\ w.seenOp = v.seenOp /\ trail' = trail
      BY <1>2, <1>3, <2>2 DEF NoteRequest, StartRequests
    <3> QED
      BY <1>1, <3>1, <3>3, <3>4 DEF OpsMatch, Promise!Live
  <2>3. CASE m.type \in {"hello", "enumerate", "shutdown"}
    <3>1. v.op = NoId /\ w.op = NoId
      BY <1>2, <1>5, <2>3 DEF Coherent, Engaged, Running
    <3>2. ops' = ops
      BY <2>3 DEF NoteRequest, StartRequests
    <3> QED
      BY <1>1, <1>3, <2>3, <3>1, <3>2 DEF OpsMatch, NoteRequest, Promise!Live, StartRequests
  <2> QED
    BY <1>4, <2>1, <2>2, <2>3
<1>14. PhaseMatches'
  <2>1. CASE m.type \in StartRequests
    <3>1. trail[m.op] = <<>>
      BY <1>4, <2>1 DEF OpsMatch
    <3> QED
      BY <1>1, <1>2, <1>4, <2>1, <3>1
      DEF PhaseMatches, NoteRequest, TypeOK, Running
  <2>2. CASE m.type = "cancel"
    BY <1>1, <1>2, <1>4, <2>2
    DEF PhaseMatches, NoteRequest, TypeOK, Running, StartRequests, Promise!Lives
  <2>3. CASE m.type \in {"hello", "enumerate", "shutdown"}
    BY <1>1, <1>2, <2>3 DEF PhaseMatches, Running
  <2> QED
    BY <1>4, <2>1, <2>2, <2>3
<1>15. LastReported'
  BY <1>1, <1>2, <1>4 DEF LastReported
<1>16. TrailsAscend'
  BY DEF TrailsAscend, NoteRequest
<1> QED
  BY <1>10, <1>11, <1>12, <1>13, <1>14, <1>15, <1>16
-----------------------------------------------------------------------------
\* A session at rest satisfies the summary if nothing is asked and nothing is
\* live.
LEMMA AtRest ==
  ASSUME TypeOK', TrailsAscend',
         validator'.phase \in {"NeedHello", "Ready"},
         validator'.req = NoId, validator'.op = NoId, validator'.kind = "none",
         \A r \in Ids : asks'[r] = "unasked" <=> r \notin validator'.seenReq,
         \A r \in Ids : asks'[r] # "asked",
         \A o \in Ids : ops'[o].stage = "unused" <=> o \notin validator'.seenOp,
         \A o \in Ids : ops'[o].stage = "unused" => ops'[o] = Promise!Unused /\ trail'[o] = <<>>,
         \A o \in Ids : ops'[o].stage \notin {"requested", "running", "cancelling"}
  PROVE  Summary'
<1>1. Coherent(validator)'
  BY DEF Coherent, Waiting, Engaged, Running
<1>2. AsksMatch'
  BY DEF AsksMatch
<1>3. OpsMatch'
  BY IdsAssumption DEF OpsMatch, Promise!Live
<1>4. PhaseMatches' /\ LastReported'
  BY DEF PhaseMatches, LastReported, Running
<1> QED
  BY <1>1, <1>2, <1>3, <1>4 DEF Summary

\* What may be answered, and by whom.
LEMMA AcceptedResponse ==
  ASSUME Summary, NEW m \in Responses, AcceptsResponse(validator, m)
  PROVE  LET v == validator IN
         /\ m.type \in {"hello_ack", "devices"} =>
              v.phase \in {"AwaitHelloAck", "AwaitDevices"} /\ m.req = v.req /\ m.req \in Ids
         /\ m.type \in {"started", "cancelled"} =>
              m.req = v.req /\ m.req \in Ids /\ m.op = v.op /\ m.op \in Ids
         /\ m.type = "started" => v.phase = "AwaitStarted"
         /\ m.type = "cancelled" => v.phase = "AwaitCancelled"
         /\ m.type \in EventTypes \cup {"completed"} =>
              v.phase \in Running /\ m.op = v.op /\ m.op \in Ids
         /\ m.type = "error" =>
              \/ v.phase \in Waiting /\ m.req = v.req /\ m.req \in Ids
              \/ v.phase \in Running /\ m.req = NoId
         /\ m.type \in EventTypes \cup
              {"hello_ack", "devices", "started", "cancelled", "completed", "error"}
<1>1. m.type \in EventTypes \cup
              {"hello_ack", "devices", "started", "cancelled", "completed", "error"}
  BY DEF Responses, EventTypes
<1>2. CASE m.type \in {"hello_ack", "devices", "started", "cancelled"}
  BY <1>2 DEF AcceptsResponse, ValidResponse, AnswerInOrder, EventTypes
<1>3. CASE m.type \in EventTypes \cup {"completed"}
  BY <1>3 DEF AcceptsResponse, ValidResponse, AnswerInOrder, EventInOrder, MayComplete, EventTypes, Running
<1>4. CASE m.type = "error"
  <2>1. ErrorInOrder(validator, m)
    BY <1>4 DEF AcceptsResponse, AnswerInOrder
  <2>2. validator.phase \in Waiting => validator.req \in Ids
    BY DEF Summary, Coherent, TypeOK, Validators
  <2> QED
    BY <1>4, <2>1, <2>2 DEF ErrorInOrder, Waiting, Running, EventTypes
<1> QED
  BY <1>1, <1>2, <1>3, <1>4

\* The answer to a hello or to an enumeration preserves the summary.
LEMMA AnswerStep ==
  ASSUME Summary, NEW m \in Responses, AcceptResponse(m), m.type \in {"hello_ack", "devices"}
  PROVE  Summary'
<1> USE DEF Summary, AcceptResponse
<1>1. /\ validator' = Rest(validator, "Ready")
      /\ ops' = ops /\ trail' = trail
      /\ asks' = [asks EXCEPT ![m.req] = "answered"]
  BY AcceptedResponse, IdsAssumption DEF AfterResponse, NoteResponse
<1>2. /\ validator.phase \notin Engaged \cup {"Closed"}
      /\ m.req = validator.req /\ m.req \in Ids
  BY AcceptedResponse DEF Engaged, Running
<1>3. \A o \in Ids : ~Promise!Live(o)
  BY <1>2, IdsAssumption DEF OpsMatch, Coherent
<1>4. validator \in Validators
  BY DEF TypeOK
<1>5. TypeOK' /\ TrailsAscend'
  BY <1>1, <1>2, <1>4, RestEffect DEF TypeOK, TrailsAscend
<1>6. \A r \in Ids : asks'[r] # "asked" /\ (asks'[r] = "unasked" <=> r \notin validator.seenReq)
  BY <1>1, <1>2, IdsAssumption DEF TypeOK, AsksMatch
<1> QED
  BY <1>1, <1>3, <1>4, <1>5, <1>6, RestEffect, AtRest DEF OpsMatch, Promise!Live

\* An operation that starts preserves the summary.
LEMMA StartedStep ==
  ASSUME Summary, NEW m \in Responses, AcceptResponse(m), m.type = "started"
  PROVE  Summary'
<1> USE DEF Summary, AcceptResponse
<1> DEFINE v == validator
           w == Run(validator)
<1>1. /\ validator' = w
      /\ ops' = [ops EXCEPT ![m.op].stage = "running"] /\ trail' = trail
      /\ asks' = [asks EXCEPT ![m.req] = "answered"]
  BY AcceptedResponse, IdsAssumption DEF AfterResponse, NoteResponse, StageAfter
<1>2. /\ v.phase = "AwaitStarted"
      /\ m.req = v.req /\ m.req \in Ids /\ m.op = v.op /\ m.op \in Ids
  BY AcceptedResponse
<1>3. v \in Validators /\ v.kind \in Kinds
  BY <1>2 DEF TypeOK, Coherent, Validators
<1>4. /\ w \in Validators
      /\ w.phase = PhaseOf(v.kind) /\ w.phase \in Running
      /\ w.req = NoId /\ w.op = v.op /\ w.kind = "none"
      /\ ~w.sawFrame /\ ~w.enrolled /\ ~w.reported
      /\ w.seenReq = v.seenReq /\ w.seenOp = v.seenOp
  BY <1>3 DEF Run, Await, Validators, Phases, Waiting, PhaseOf, Kinds, Running
<1>5. /\ w.phase = "Capturing" => v.kind = "capture"
      /\ w.phase = "Enrolling" => v.kind = "enroll"
      /\ w.phase = "Verifying" => v.kind = "verify"
  BY <1>3, <1>4 DEF PhaseOf, Kinds
<1>. HIDE DEF w
<1>6. /\ \A o \in Ids \ {v.op} : ops'[o] = ops[o]
      /\ ops'[v.op] = [ops[v.op] EXCEPT !.stage = "running"]
      /\ ops' \in [Ids -> Promise!Lives]
  BY <1>1, <1>2 DEF TypeOK, Promise!Lives
<1>7. /\ ops[v.op] = [stage |-> "requested", kind |-> v.kind, produced |-> <<>>]
      /\ trail[v.op] = <<>>
  BY <1>2 DEF PhaseMatches
<1>8. ops'[v.op] = [stage |-> "running", kind |-> v.kind, produced |-> <<>>]
  BY <1>6, <1>7
<1>10. TypeOK' /\ TrailsAscend'
  BY <1>1, <1>2, <1>4, <1>6 DEF TypeOK, TrailsAscend
<1>11. Coherent(validator)'
  BY <1>1, <1>2, <1>4, IdsAssumption DEF Coherent, Waiting, Engaged, Running
<1>12. AsksMatch'
  BY <1>1, <1>2, <1>4, IdsAssumption DEF AsksMatch, TypeOK
<1>13. OpsMatch'
  BY <1>1, <1>2, <1>4, <1>6, <1>7, <1>8 DEF OpsMatch, Promise!Live
<1>14. PhaseMatches'
  BY <1>1, <1>2, <1>4, <1>5, <1>8 DEF PhaseMatches, Running
<1>15. LastReported'
  BY <1>1, <1>4, <1>7 DEF LastReported
<1> QED
  BY <1>10, <1>11, <1>12, <1>13, <1>14, <1>15

\* An operation that completes or is cancelled preserves the summary.
LEMMA EndStep ==
  ASSUME Summary, NEW m \in Responses, AcceptResponse(m),
         m.type \in {"completed", "cancelled"}
  PROVE  Summary'
<1> USE DEF Summary, AcceptResponse
<1>1. /\ validator' = Rest(validator, "Ready")
      /\ ops' = [ops EXCEPT ![m.op].stage = m.type] /\ trail' = trail
  BY AcceptedResponse, IdsAssumption DEF AfterResponse, NoteResponse, StageAfter
<1>2. /\ validator.phase \in Running \cup {"AwaitCancelled"}
      /\ m.op = validator.op /\ m.op \in Ids
  BY AcceptedResponse DEF EventTypes
<1>3. validator \in Validators
  BY DEF TypeOK
<1>4. \A r \in Ids : asks'[r] # "asked" /\ (asks'[r] = "unasked" <=> r \notin validator.seenReq)
  <2>1. CASE m.type = "completed"
    <3>1. asks' = asks /\ validator.req = NoId
      BY <2>1, AcceptedResponse DEF NoteResponse, Coherent, Running, Waiting, EventTypes
    <3> QED
      BY <1>2, <3>1, IdsAssumption DEF AsksMatch, Running
  <2>2. CASE m.type = "cancelled"
    <3>1. /\ asks' = [asks EXCEPT ![m.req] = "answered"]
          /\ m.req = validator.req /\ m.req \in Ids /\ validator.phase = "AwaitCancelled"
      BY <2>2, AcceptedResponse, IdsAssumption DEF NoteResponse
    <3> QED
      BY <3>1, IdsAssumption DEF AsksMatch, TypeOK
  <2> QED
    BY <2>1, <2>2
<1>5. /\ \A o \in Ids \ {m.op} : ops'[o] = ops[o]
      /\ ops'[m.op].stage = m.type
      /\ ops' \in [Ids -> Promise!Lives]
  BY <1>1, <1>2 DEF TypeOK, Promise!Lives
<1>6. Promise!Live(m.op)
  BY <1>2 DEF OpsMatch
<1>7. TypeOK' /\ TrailsAscend'
  <2>1. asks' \in [Ids -> {"unasked", "asked", "answered"}]
    BY DEF NoteResponse, TypeOK
  <2> QED
    BY <2>1, <1>1, <1>2, <1>3, <1>5, RestEffect DEF TypeOK, TrailsAscend
<1> QED
  BY <1>1, <1>2, <1>3, <1>4, <1>5, <1>6, <1>7, RestEffect, AtRest DEF OpsMatch, Promise!Live

\* An error preserves the summary: it answers the request waited on, or it
\* ends the operation that runs.
LEMMA ErrorStep ==
  ASSUME Summary, NEW m \in Responses, AcceptResponse(m), m.type = "error"
  PROVE  Summary'
<1> USE DEF Summary, AcceptResponse
<1>1. /\ validator' = Rest(validator, "NeedHello") \/ validator' = Rest(validator, "Ready")
      /\ trail' = trail
      /\ ops' = [o \in Ids |-> IF Promise!Live(o)
                                 THEN [ops[o] EXCEPT !.stage = "failed"] ELSE ops[o]]
      /\ asks' = IF m.req # NoId THEN [asks EXCEPT ![m.req] = "answered"] ELSE asks
  BY DEF AfterResponse, NoteResponse
<1>2. \/ validator.phase \in Waiting /\ m.req = validator.req /\ m.req \in Ids
      \/ validator.phase \in Running /\ m.req = NoId
  BY AcceptedResponse
<1>3. validator \in Validators
  BY DEF TypeOK
<1>4. asks' \in [Ids -> {"unasked", "asked", "answered"}]
  BY <1>1, <1>2 DEF TypeOK
<1>5. \A r \in Ids : asks'[r] # "asked" /\ (asks'[r] = "unasked" <=> r \notin validator.seenReq)
  <2>1. validator.phase \in Running => validator.req = NoId
    BY DEF Coherent, Running, Waiting
  <2> QED
    BY <1>1, <1>2, <2>1, IdsAssumption DEF AsksMatch, TypeOK, Running, Waiting
<1>6. /\ \A o \in Ids : ~Promise!Live(o) => ops'[o] = ops[o]
      /\ \A o \in Ids : Promise!Live(o) => ops'[o].stage = "failed"
      /\ ops' \in [Ids -> Promise!Lives]
  BY <1>1 DEF TypeOK, Promise!Lives
<1>7. TypeOK' /\ TrailsAscend'
  BY <1>1, <1>3, <1>4, <1>6, RestEffect DEF TypeOK, TrailsAscend
<1>8. /\ validator'.phase \in {"NeedHello", "Ready"}
      /\ validator'.req = NoId /\ validator'.op = NoId /\ validator'.kind = "none"
      /\ validator'.seenReq = validator.seenReq /\ validator'.seenOp = validator.seenOp
  BY <1>1, <1>3, RestEffect
<1> QED
  BY <1>1, <1>5, <1>6, <1>7, <1>8, AtRest DEF OpsMatch, Promise!Live

-----------------------------------------------------------------------------
\* The phases in which each event is taken.
LEMMA EventPhase ==
  ASSUME NEW m \in Responses, AcceptsResponse(validator, m), m.type \in EventTypes
  PROVE  /\ m.type = "frame" =>
              validator.phase = "Capturing" /\ m.sequence > validator.lastSequence
         /\ m.type = "enroll_progress" =>
              validator.phase = "Enrolling" /\ m.completed > validator.lastCompleted
         /\ m.type = "enrolled" => validator.phase = "Enrolling" /\ ~validator.enrolled
         /\ m.type = "match_result" => validator.phase = "Verifying" /\ ~validator.reported
  BY DEF AcceptsResponse, AnswerInOrder, EventInOrder, EventTypes, Running

\* A number above all those of an ascending sequence keeps it ascending.
LEMMA AppendAscends ==
  ASSUME NEW S, S \subseteq Int, NEW seq \in Seq(S), NEW n \in S,
         \A i, j \in DOMAIN seq : i < j => seq[i] < seq[j],
         \A i \in DOMAIN seq : seq[i] < n
  PROVE  /\ Append(seq, n) \in Seq(S)
         /\ \A i, j \in DOMAIN Append(seq, n) : i < j => Append(seq, n)[i] < Append(seq, n)[j]
         /\ \A i \in DOMAIN Append(seq, n) : Append(seq, n)[i] <= n
<1> DEFINE longer == Append(seq, n)
<1>1. /\ longer \in Seq(S) /\ Len(longer) = Len(seq) + 1 /\ Len(seq) \in Nat
      /\ \A i \in 1..Len(seq) : longer[i] = seq[i]
      /\ longer[Len(seq) + 1] = n
      /\ DOMAIN longer = 1..Len(longer) /\ DOMAIN seq = 1..Len(seq)
  OBVIOUS
<1>2. \A i \in 1..Len(seq) : seq[i] \in Int
  <2>1. seq \in [1..Len(seq) -> S]
    OBVIOUS
  <2> QED
    BY <2>1
<1>. HIDE DEF longer
<1>3. \A i \in DOMAIN longer : longer[i] <= n
  BY <1>1, <1>2
<1>4. \A i, j \in DOMAIN longer : i < j => longer[i] < longer[j]
  <2> SUFFICES ASSUME NEW i \in 1..(Len(seq) + 1), NEW j \in 1..(Len(seq) + 1), i < j
               PROVE  longer[i] < longer[j]
    BY <1>1
  <2>1. i \in 1..Len(seq)
    BY <1>1
  <2>2. CASE j = Len(seq) + 1
    BY <1>1, <2>1, <2>2
  <2>3. CASE j \in 1..Len(seq)
    BY <1>1, <2>1, <2>3
  <2> QED
    BY <1>1, <2>2, <2>3
<1> QED
  BY <1>1, <1>3, <1>4 DEF longer

\* An event of the running operation preserves the summary.
LEMMA EventStep ==
  ASSUME Summary, NEW m \in Responses, AcceptResponse(m), m.type \in EventTypes
  PROVE  Summary'
<1> USE DEF Summary, AcceptResponse
<1> DEFINE v == validator
           w == AfterResponse(validator, m)
<1>1. validator' = w /\ v \in Validators
  BY DEF TypeOK
<1>2. /\ w \in Validators
      /\ w.phase = v.phase /\ w.req = v.req /\ w.op = v.op /\ w.kind = v.kind
      /\ w.seenReq = v.seenReq /\ w.seenOp = v.seenOp
      /\ w.sawFrame <=> v.sawFrame \/ m.type = "frame"
      /\ w.enrolled <=> v.enrolled \/ m.type = "enrolled"
      /\ w.reported <=> v.reported \/ m.type = "match_result"
      /\ w.lastSequence = IF m.type = "frame" THEN m.sequence ELSE v.lastSequence
      /\ w.lastCompleted = IF m.type = "enroll_progress" THEN m.completed ELSE v.lastCompleted
  BY <1>1, EventEffect
<1>. HIDE DEF w
<1>3. v.phase \in Running /\ m.op = v.op /\ m.op \in Ids
  BY AcceptedResponse
<1>4. asks' = asks
  BY DEF NoteResponse, EventTypes
<1>5. ops[v.op] \in Promise!Lives /\ ops[v.op].stage = "running"
  BY <1>3 DEF TypeOK, PhaseMatches
<1>6. /\ \A o \in Ids \ {v.op} : ops'[o] = ops[o]
      /\ ops'[v.op].stage = "running" /\ ops'[v.op].kind = ops[v.op].kind
      /\ ops'[v.op].produced = IF m.type \in {"frame", "enrolled", "match_result"}
                                 THEN Append(ops[v.op].produced, ResultIn(m.type))
                                 ELSE ops[v.op].produced
      /\ ops' \in [Ids -> Promise!Lives]
  <2>1. CASE m.type \in {"frame", "enrolled", "match_result"}
    <3>1. ops' = [ops EXCEPT ![m.op].produced = Append(@, ResultIn(m.type))]
      BY <2>1 DEF NoteResponse
    <3>2. ResultIn(m.type) \in Promise!Results
      BY <2>1 DEF ResultIn, Promise!Results
    <3>3. Append(ops[v.op].produced, ResultIn(m.type)) \in Seq(Promise!Results)
      BY <1>5, <3>2 DEF Promise!Lives
    <3>4. ops' = [ops EXCEPT ![v.op] = [ops[v.op] EXCEPT
                    !.produced = Append(ops[v.op].produced, ResultIn(m.type))]]
      BY <1>3, <3>1 DEF TypeOK
    <3>5. /\ ops'[v.op] = [ops[v.op] EXCEPT
               !.produced = Append(ops[v.op].produced, ResultIn(m.type))]
          /\ \A o \in Ids \ {v.op} : ops'[o] = ops[o]
      BY <1>3, <3>4 DEF TypeOK
    <3>6. ops'[v.op] \in Promise!Lives
      BY <1>5, <3>3, <3>5 DEF Promise!Lives
    <3> QED
      BY <1>3, <1>5, <2>1, <3>4, <3>5, <3>6 DEF TypeOK, Promise!Lives
  <2>2. CASE m.type \notin {"frame", "enrolled", "match_result"}
    BY <1>3, <1>5, <2>2 DEF NoteResponse, EventTypes, TypeOK
  <2> QED
    BY <2>1, <2>2
<1>7. /\ \A o \in Ids \ {v.op} : trail'[o] = trail[o]
      /\ trail' \in [Ids -> Seq(Sequences \cup Stages)]
      /\ \A i, j \in DOMAIN trail'[v.op] : i < j => trail'[v.op][i] < trail'[v.op][j]
      /\ LastReported'
  <2>1. CASE m.type \in {"frame", "enroll_progress"}
    <3> DEFINE last == IF m.type = "frame" THEN v.lastSequence ELSE v.lastCompleted
    <3>1. trail' = [trail EXCEPT ![m.op] = Append(@, Number(m))]
      BY <2>1 DEF NoteResponse
    <3>2. /\ Number(m) \in Sequences \cup Stages /\ Number(m) > last
          /\ Sequences \cup Stages \subseteq Int
          /\ last \in Int
      <4>1. m.type = "frame" => m.sequence \in Sequences
        BY DEF Responses
      <4>2. m.type = "enroll_progress" => m.completed \in Stages
        BY DEF Responses
      <4>3. v.lastSequence \in Int /\ v.lastCompleted \in Int
        <5>1. v.lastSequence \in Sequences \cup {-1} /\ v.lastCompleted \in Stages \cup {0}
          BY <1>1 DEF Validators
        <5>2. Sequences \cup {-1} \subseteq Int /\ Stages \cup {0} \subseteq Int
          BY CountersAssumption
        <5> QED
          BY <5>1, <5>2
      <4> QED
        BY <2>1, <4>1, <4>2, <4>3, EventPhase, CountersAssumption DEF Number
    <3>3. \A i \in DOMAIN trail[v.op] : trail[v.op][i] <= last
      BY <2>1, EventPhase DEF LastReported, EventTypes
    <3>4. \A i \in DOMAIN trail[v.op] : trail[v.op][i] < Number(m)
      <4> SUFFICES ASSUME NEW i \in DOMAIN trail[v.op]
                   PROVE  trail[v.op][i] < Number(m)
        OBVIOUS
      <4>1. trail[v.op][i] \in Int
        BY <1>3, <3>2 DEF TypeOK
      <4> QED
        BY <3>2, <3>3, <4>1
    <3>5. trail[v.op] \in Seq(Sequences \cup Stages)
          /\ trail'[v.op] = Append(trail[v.op], Number(m))
          /\ \A o \in Ids \ {v.op} : trail'[o] = trail[o]
      BY <1>3, <3>1 DEF TypeOK
    <3>6. \A i, j \in DOMAIN trail[v.op] : i < j => trail[v.op][i] < trail[v.op][j]
      BY <1>3 DEF TrailsAscend
    <3>7. /\ trail'[v.op] \in Seq(Sequences \cup Stages)
          /\ \A i, j \in DOMAIN trail'[v.op] : i < j => trail'[v.op][i] < trail'[v.op][j]
          /\ \A i \in DOMAIN trail'[v.op] : trail'[v.op][i] <= Number(m)
      BY <3>2, <3>4, <3>5, <3>6, AppendAscends
    <3>8. LastReported'
      BY <1>1, <1>2, <2>1, <3>7, EventPhase DEF LastReported, Number, EventTypes
    <3> QED
      BY <1>3, <3>1, <3>5, <3>7, <3>8 DEF TypeOK
  <2>2. CASE m.type \notin {"frame", "enroll_progress"}
    <3>1. trail' = trail
      BY <2>2 DEF NoteResponse
    <3> QED
      BY <1>1, <1>2, <1>3, <2>2, <3>1 DEF TypeOK, TrailsAscend, LastReported
  <2> QED
    BY <2>1, <2>2
<1>8. TypeOK'
  BY <1>1, <1>2, <1>4, <1>6, <1>7 DEF TypeOK
<1>9. Coherent(validator)' /\ AsksMatch'
  BY <1>1, <1>2, <1>4 DEF Coherent, AsksMatch
<1>10. OpsMatch'
  <2>1. \A o \in Ids : ops'[o].stage = ops[o].stage
    BY <1>5, <1>6
  <2>2. \A o \in Ids : ops[o].stage = "unused" => ops'[o] = ops[o] /\ trail'[o] = trail[o]
    BY <1>5, <1>6, <1>7
  <2> QED
    BY <1>1, <1>2, <2>1, <2>2 DEF OpsMatch, Promise!Live
<1>11. PhaseMatches'
  <2>1. Append(ops[v.op].produced, ResultIn(m.type)) # <<>>
    BY <1>5 DEF Promise!Lives
  <2> QED
    BY <1>1, <1>2, <1>3, <1>5, <1>6, <2>1, EventPhase DEF PhaseMatches, Running, EventTypes, Validators
<1>12. TrailsAscend'
  BY <1>3, <1>7 DEF TrailsAscend
<1> QED
  BY <1>7, <1>8, <1>9, <1>10, <1>11, <1>12

\* Accepting a response preserves the summary.
LEMMA ResponseStep ==
  ASSUME Summary, NEW m \in Responses, AcceptResponse(m)
  PROVE  Summary'
<1>1. AcceptsResponse(validator, m)
  BY DEF AcceptResponse
<1> QED
  BY <1>1, AcceptedResponse, AnswerStep, StartedStep, EndStep, ErrorStep, EventStep

\* Summary is inductive: in every reachable state the validator's memory
\* agrees with the whole history of the session.
THEOREM SummaryHolds == Spec => []Summary
<1>1. Summary /\ UNCHANGED vars => Summary'
  BY DEF vars, Summary, TypeOK, Coherent, AsksMatch, OpsMatch, PhaseMatches,
         LastReported, TrailsAscend, Promise!Live
<1>2. Summary /\ [Next]_vars => Summary'
  BY <1>1, RequestStep, ResponseStep DEF Next
<1> QED
  BY <1>2, SummaryInit, PTL DEF Spec

\* The validator record and the observer's notes keep their types.
THEOREM TypeCorrect == Spec => []TypeOK
<1>1. Summary => TypeOK
  BY DEF Summary
<1> QED
  BY <1>1, SummaryHolds, PTL

\* Frames and enrollment stages of one operation are accepted in strictly
\* ascending order, whatever comes between them.
THEOREM Monotone == Spec => []TrailsAscend
<1>1. Summary => TrailsAscend
  BY DEF Summary
<1> QED
  BY <1>1, SummaryHolds, PTL
-----------------------------------------------------------------------------
(* The bound on tracked identifiers *)

Bounded ==
  /\ IsFiniteSet(validator.seenReq) /\ Cardinality(validator.seenReq) <= MaxTracked
  /\ IsFiniteSet(validator.seenOp) /\ Cardinality(validator.seenOp) <= MaxTracked

\* A finite set under the limit may take one more element.
LEMMA OneMore ==
  ASSUME NEW S, IsFiniteSet(S), Cardinality(S) < MaxTracked, NEW x
  PROVE  IsFiniteSet(S \cup {x}) /\ Cardinality(S \cup {x}) <= MaxTracked
<1>1. Cardinality(S) \in Nat
  BY FS_CardinalityType
<1>2. IsFiniteSet(S \cup {x})
  BY FS_AddElement
<1>3. Cardinality(S \cup {x}) \in {Cardinality(S), Cardinality(S) + 1}
  BY FS_AddElement
<1> QED
  BY <1>1, <1>2, <1>3, TrackedAssumption

\* A response spends no identifier.
LEMMA ResponseSpendsNothing ==
  ASSUME Summary, NEW m \in Responses, AcceptResponse(m)
  PROVE  validator'.seenReq = validator.seenReq /\ validator'.seenOp = validator.seenOp
<1>1. validator \in Validators /\ AcceptsResponse(validator, m)
      /\ validator' = AfterResponse(validator, m)
  BY DEF Summary, TypeOK, AcceptResponse
<1>2. CASE m.type \in EventTypes
  BY <1>1, <1>2, EventEffect
<1>3. CASE m.type \notin EventTypes
  BY <1>1, <1>3, AcceptedResponse DEF AfterResponse, Rest, Run, Await, EventTypes
<1> QED
  BY <1>2, <1>3

\* The bound is inductive, given what Summary says of the messages accepted.
LEMMA BoundHolds == Spec => []Bounded
<1>1. Init => Bounded
  BY FS_EmptySet, TrackedAssumption DEF Init, NewValidator, Bounded
<1>2. ASSUME Summary, Bounded, NEW m \in Requests, AcceptRequest(m)
      PROVE  Bounded'
  <2>1. /\ AcceptsRequest(validator, m)
        /\ validator'.seenReq = validator.seenReq \cup {m.req}
        /\ validator'.seenOp = IF m.type \in StartRequests
                                 THEN validator.seenOp \cup {m.op} ELSE validator.seenOp
    BY <1>2, RequestEffect, RequestsHaveTypes DEF Summary, TypeOK, AcceptRequest
  <2>2. /\ Cardinality(validator.seenReq) < MaxTracked
        /\ m.type \in StartRequests => Cardinality(validator.seenOp) < MaxTracked
    BY <2>1 DEF AcceptsRequest, FreshIds
  <2>3. IsFiniteSet(validator.seenReq') /\ Cardinality(validator.seenReq') <= MaxTracked
    BY <1>2, <2>1, <2>2, OneMore DEF Bounded
  <2>4. IsFiniteSet(validator.seenOp') /\ Cardinality(validator.seenOp') <= MaxTracked
    <3>1. CASE m.type \in StartRequests
      <4>1. validator'.seenOp = validator.seenOp \cup {m.op}
        BY <2>1, <3>1
      <4>2. IsFiniteSet(validator.seenOp) /\ Cardinality(validator.seenOp) < MaxTracked
        BY <1>2, <2>2, <3>1 DEF Bounded
      <4> QED
        BY <4>1, <4>2, OneMore
    <3>2. CASE m.type \notin StartRequests
      BY <1>2, <2>1, <3>2 DEF Bounded
    <3> QED
      BY <3>1, <3>2
  <2> QED
    BY <2>3, <2>4 DEF Bounded
<1>3. ASSUME Summary, Bounded, NEW m \in Responses, AcceptResponse(m)
      PROVE  Bounded'
  BY <1>3, ResponseSpendsNothing DEF Bounded
<1>4. Bounded /\ UNCHANGED vars => Bounded'
  BY DEF Bounded, vars
<1>5. Summary /\ Bounded /\ [Next]_vars => Bounded'
  BY <1>2, <1>3, <1>4 DEF Next
<1> QED
  BY <1>1, <1>5, SummaryHolds, PTL DEF Spec

\* The validator tracks an identifier for every request and operation it ever
\* accepted, and never more than MAX_TRACKED_IDENTIFIERS of either.
THEOREM TrackingIsBounded == Spec => []TrackingBounded
<1>1. Summary /\ Bounded => TrackingBounded
  BY DEF Summary, TypeOK, Validators, AsksMatch, OpsMatch, Bounded, TrackingBounded
<1> QED
  BY <1>1, SummaryHolds, BoundHolds, PTL
-----------------------------------------------------------------------------
(* No dead end *)

\* A validator that is not at its limit has an identifier to spend.
LEMMA AnIdIsLeft ==
  ASSUME NEW S, S \subseteq Ids, IsFiniteSet(S), Cardinality(S) <= MaxTracked
  PROVE  \E r \in Ids : r \notin S
<1>1. PICK plenty \in SUBSET Ids : IsFiniteSet(plenty) /\ Cardinality(plenty) = MaxTracked + 1
  BY PlentyAssumption
<1>2. CASE plenty \subseteq S
  <2>1. Cardinality(plenty) <= Cardinality(S)
    BY <1>2, FS_Subset
  <2>2. Cardinality(S) \in Nat
    BY FS_CardinalityType
  <2> QED
    BY <1>1, <2>1, <2>2, TrackedAssumption
<1>3. CASE ~(plenty \subseteq S)
  BY <1>1, <1>3
<1> QED
  BY <1>2, <1>3

\* The answer that a phase waiting for one takes.
LEMMA AnAnswerIsTaken ==
  ASSUME NEW s \in Validators, Coherent(s), s.phase \in Waiting
  PROVE  \E m \in Responses :
           /\ m.type \in {"hello_ack", "devices", "started", "cancelled"} /\ m.req = s.req
           /\ AcceptsResponse(s, m)
<1> USE DEF AcceptsResponse, ValidResponse, AnswerInOrder
<1>1. /\ s.req \in Ids
      /\ s.phase \in {"AwaitStarted", "AwaitCancelled"} => s.op \in Ids
  BY DEF Validators, Coherent, Waiting, Engaged
<1>2. CASE s.phase = "AwaitHelloAck"
  <2> DEFINE m == [type |-> "hello_ack", req |-> s.req, version |-> ProtocolVersion]
  <2>1. m \in Responses /\ AcceptsResponse(s, m)
    BY <1>1, <1>2, VersionAssumption DEF Responses, AnyId
  <2>. QED BY <2>1
<1>3. CASE s.phase = "AwaitDevices"
  <2> DEFINE m == [type |-> "devices", req |-> s.req, data |-> "valid"]
  <2>1. m \in Responses /\ AcceptsResponse(s, m)
    BY <1>1, <1>3 DEF Responses, AnyId, Data
  <2>. QED BY <2>1
<1>4. CASE s.phase = "AwaitStarted"
  <2> DEFINE m == [type |-> "started", req |-> s.req, op |-> s.op]
  <2>1. m \in Responses /\ AcceptsResponse(s, m)
    BY <1>1, <1>4 DEF Responses, AnyId
  <2>. QED BY <2>1
<1>5. CASE s.phase = "AwaitCancelled"
  <2> DEFINE m == [type |-> "cancelled", req |-> s.req, op |-> s.op]
  <2>1. m \in Responses /\ AcceptsResponse(s, m)
    BY <1>1, <1>5 DEF Responses, AnyId
  <2>. QED BY <2>1
<1>. QED BY <1>2, <1>3, <1>4, <1>5 DEF Waiting

\* The error that every phase engaged with an operation takes.
LEMMA AnErrorIsTaken ==
  ASSUME NEW s \in Validators, Coherent(s), s.phase \in Engaged
  PROVE  \E m \in Responses : m.type = "error" /\ m.op = s.op /\ AcceptsResponse(s, m)
<1> DEFINE m == [type |-> "error", req |-> s.req, op |-> s.op, data |-> "valid"]
<1>1. /\ s.req \in Ids \cup {NoId} /\ s.op \in Ids
      /\ s.phase \in Running => s.req = NoId
  BY DEF Validators, Coherent, Waiting, Running, Engaged
<1>2. m \in Responses
  BY <1>1 DEF Responses, AnyId, Data
<1>3. ValidResponse(m)
  BY <1>1, IdsAssumption DEF ValidResponse
<1>4. ErrorInOrder(s, m)
  BY <1>1 DEF ErrorInOrder, Running, Engaged
<1>5. m.type = "error" /\ m.op = s.op
  OBVIOUS
<1> HIDE DEF m
<1> QED
  BY <1>2, <1>3, <1>4, <1>5 DEF AcceptsResponse

\* The request that is taken where none is asked and nothing is under way.
LEMMA ARequestIsTaken ==
  ASSUME NEW s \in Validators, s.phase \in {"NeedHello", "Ready"},
         IsFiniteSet(s.seenReq), Cardinality(s.seenReq) < MaxTracked
  PROVE  \E m \in Requests : AcceptsRequest(s, m)
<1> USE DEF AcceptsRequest, ValidRequest, FreshIds, RequestInOrder, StartRequests
<1>1. s.seenReq \subseteq Ids /\ Cardinality(s.seenReq) <= MaxTracked
  BY FS_CardinalityType, TrackedAssumption DEF Validators
<1>2. PICK r \in Ids : r \notin s.seenReq
  BY <1>1, AnIdIsLeft
<1>3. CASE s.phase = "NeedHello"
  <2> DEFINE m == [type |-> "hello", req |-> r, version |-> ProtocolVersion]
  <2>1. m \in Requests /\ AcceptsRequest(s, m)
    BY <1>2, <1>3, VersionAssumption DEF Requests, AnyId
  <2>. QED BY <2>1
<1>4. CASE s.phase = "Ready"
  <2> DEFINE m == [type |-> "shutdown", req |-> r]
  <2>1. m \in Requests /\ AcceptsRequest(s, m)
    BY <1>2, <1>4 DEF Requests, AnyId
  <2>. QED BY <2>1
<1>. QED BY <1>3, <1>4

\* A session goes on until it is closed or out of identifiers: what was asked
\* can be answered, and what is live can be failed, under its own identifier
\* (accept_request and accept_response: the phases carry what they wait for).
THEOREM NeverStuck == Spec => []NoDeadEnd
<1>1. ASSUME Summary, Bounded PROVE NoDeadEnd
  <2> DEFINE v == validator
  <2>. SUFFICES ASSUME v.phase # "Closed" PROVE NoDeadEnd
    BY DEF NoDeadEnd
  <2>1. /\ v \in Validators /\ Coherent(v) /\ v.phase \in Phases
        /\ v.req \in Ids \cup {NoId} /\ v.op \in Ids \cup {NoId}
        /\ IsFiniteSet(v.seenReq) /\ Cardinality(v.seenReq) <= MaxTracked
    BY <1>1 DEF Summary, TypeOK, Bounded, Validators
  <2>2. /\ \A r \in Ids : asks[r] = "asked" => r = v.req
        /\ v.req # NoId => asks[v.req] = "asked"
        /\ \A o \in Ids : Promise!Live(o) <=> o = v.op
    BY <1>1 DEF Summary, AsksMatch, OpsMatch
  <2>3. ASSUME NEW r \in Ids, asks[r] = "asked"
        PROVE  \E m \in Responses :
                 /\ m.type \in {"hello_ack", "devices", "started", "cancelled"} /\ m.req = r
                 /\ AcceptsResponse(v, m)
    <3>1. r = v.req /\ v.phase \in Waiting
      BY <2>1, <2>2, <2>3, IdsAssumption DEF Coherent
    <3>. QED BY <2>1, <3>1, AnAnswerIsTaken
  <2>4. ASSUME NEW o \in Ids, Promise!Live(o)
        PROVE  \E m \in Responses : m.type = "error" /\ m.op = o /\ AcceptsResponse(v, m)
    <3>1. o = v.op /\ v.phase \in Engaged
      BY <2>1, <2>2, <2>4, IdsAssumption DEF Coherent
    <3>. QED BY <2>1, <3>1, AnErrorIsTaken
  <2>5. \/ \E r \in Ids : asks[r] = "asked" \/ Promise!Live(r)
        \/ Cardinality(v.seenReq) = MaxTracked
        \/ \E m \in Requests : AcceptsRequest(v, m)
    <3>1. CASE v.phase \in Waiting \cup Engaged
      BY <2>1, <2>2, <3>1 DEF Coherent
    <3>2. CASE v.phase \in {"NeedHello", "Ready"} /\ Cardinality(v.seenReq) # MaxTracked
      <4>1. Cardinality(v.seenReq) < MaxTracked
        BY <2>1, <3>2, FS_CardinalityType, TrackedAssumption
      <4>. QED BY <2>1, <3>2, <4>1, ARequestIsTaken
    <3>. QED BY <2>1, <3>1, <3>2 DEF Phases, Engaged
  <2>. QED BY <2>3, <2>4, <2>5 DEF NoDeadEnd
<1> QED
  BY <1>1, SummaryHolds, BoundHolds, PTL
-----------------------------------------------------------------------------
(* The promises *)

\* An accepted request is a step of the conversation.
LEMMA RequestConverses ==
  ASSUME Summary, NEW m \in Requests, AcceptRequest(m)
  PROVE  Promise!Next
<1> USE DEF AcceptRequest
<1> DEFINE v == validator
           w == AfterRequest(validator, m)
<1>1. v \in Validators /\ validator' = w
  BY DEF Summary, TypeOK
<1>2. /\ m.type = "hello" => w.phase = "AwaitHelloAck"
      /\ m.type = "enumerate" => w.phase = "AwaitDevices"
      /\ m.type \in StartRequests => w.phase = "AwaitStarted"
      /\ m.type = "cancel" => w.phase = "AwaitCancelled"
      /\ m.type = "shutdown" => w.phase = "Closed"
  BY <1>1, RequestEffect, RequestsHaveTypes
<1>. HIDE DEF w
<1>3. /\ m.type \in StartRequests \cup {"hello", "enumerate", "cancel", "shutdown"}
      /\ m.req \in Ids \ v.seenReq
      /\ m.type \in StartRequests => m.op \in Ids \ v.seenOp
      /\ m.type = "cancel" => m.op = v.op /\ m.op \in Ids
  BY AcceptedRequest
<1>4. /\ m.type = "hello" => v.phase = "NeedHello"
      /\ m.type \in StartRequests \cup {"enumerate", "shutdown"} => v.phase = "Ready"
      /\ m.type = "cancel" => v.phase \in Running
  BY DEF AcceptsRequest, RequestInOrder, StartRequests
<1>5. Promise!Ask(m.req)
  <2>1. v.phase # "Closed" /\ v.req = NoId
    BY <1>3, <1>4 DEF Summary, Coherent, Running, Waiting
  <2> QED
    BY <1>3, <2>1, IdsAssumption DEF Summary, AsksMatch, Promise!Ask, NoteRequest
<1>6. v.phase = "Ready" => Promise!Idle
  <2>1. v.phase = "Ready" => v.op = NoId
    BY DEF Summary, Coherent, Engaged, Running
  <2> QED
    BY <2>1, IdsAssumption DEF Summary, OpsMatch, Promise!Idle, Channel
<1>7. CASE m.type = "hello"
  <2>1. Promise!Greet(m.req)
    BY <1>1, <1>2, <1>4, <1>5, <1>7 DEF Promise!Greet, Channel, NoteRequest, StartRequests
  <2> QED
    BY <1>3, <2>1 DEF Promise!Next
<1>8. CASE m.type = "enumerate"
  <2>1. Promise!List(m.req)
    BY <1>1, <1>2, <1>4, <1>5, <1>6, <1>8 DEF Promise!List, Channel, NoteRequest, StartRequests
  <2> QED
    BY <1>3, <2>1 DEF Promise!Next
<1>9. CASE m.type \in StartRequests
  <2>1. ops[m.op] = Promise!Unused
    BY <1>3, <1>9 DEF Summary, OpsMatch
  <2>2. KindOf(m.type) \in Promise!Kinds
    BY <1>9 DEF StartRequests, KindOf, Promise!Kinds
  <2>3. Promise!Start(m.req, m.op, KindOf(m.type))
    BY <1>1, <1>2, <1>4, <1>5, <1>6, <1>9, <2>1 DEF Promise!Start, Channel, NoteRequest
  <2> QED
    BY <1>3, <1>9, <2>2, <2>3 DEF Promise!Next
<1>10. CASE m.type = "cancel"
  <2>1. ops[m.op].stage = "running"
    BY <1>3, <1>4, <1>10 DEF Summary, PhaseMatches
  <2>2. Promise!Cancel(m.req, m.op)
    BY <1>1, <1>2, <1>4, <1>5, <1>10, <2>1
    DEF Promise!Cancel, Promise!Passes, Channel, NoteRequest, StartRequests, Running
  <2> QED
    BY <1>3, <1>10, <2>2 DEF Promise!Next
<1>11. CASE m.type = "shutdown"
  <2>1. Promise!Close(m.req)
    BY <1>1, <1>2, <1>4, <1>5, <1>6, <1>11 DEF Promise!Close, Channel, NoteRequest, StartRequests
  <2> QED
    BY <1>3, <2>1 DEF Promise!Next
<1> QED
  BY <1>3, <1>7, <1>8, <1>9, <1>10, <1>11

\* An accepted response is a step of the conversation, or changes nothing an
\* observer of the conversation sees.
LEMMA ResponseConverses ==
  ASSUME Summary, NEW m \in Responses, AcceptResponse(m)
  PROVE  [Promise!Next]_Promise!vars
<1> USE DEF AcceptResponse
<1> DEFINE v == validator
<1>1. v \in Validators /\ AcceptsResponse(v, m) /\ validator' = AfterResponse(v, m)
  BY DEF Summary, TypeOK
<1>2. /\ m.type \in {"hello_ack", "devices"} =>
           v.phase \in {"AwaitHelloAck", "AwaitDevices"} /\ m.req = v.req /\ m.req \in Ids
      /\ m.type \in {"started", "cancelled"} =>
           m.req = v.req /\ m.req \in Ids /\ m.op = v.op /\ m.op \in Ids
      /\ m.type = "started" => v.phase = "AwaitStarted"
      /\ m.type = "cancelled" => v.phase = "AwaitCancelled"
      /\ m.type \in EventTypes \cup {"completed"} =>
           v.phase \in Running /\ m.op = v.op /\ m.op \in Ids
      /\ m.type = "error" =>
           \/ v.phase \in Waiting /\ m.req = v.req /\ m.req \in Ids
           \/ v.phase \in Running /\ m.req = NoId
      /\ m.type \in EventTypes \cup
           {"hello_ack", "devices", "started", "cancelled", "completed", "error"}
  BY <1>1, AcceptedResponse
<1>3. v.req \in Ids => asks[v.req] = "asked"
  BY IdsAssumption DEF Summary, AsksMatch
<1>4. v.phase \notin Engaged => \A o \in Ids : ~Promise!Live(o)
  BY IdsAssumption DEF Summary, Coherent, OpsMatch
<1>5. asks \in [Ids -> {"unasked", "asked", "answered"}] /\ ops \in [Ids -> Promise!Lives]
  BY DEF Summary, TypeOK
<1>6. CASE m.type = "hello_ack"
  <2>1. v.phase = "AwaitHelloAck" /\ validator'.phase = "Ready"
    BY <1>1, <1>6, RestEffect DEF AcceptsResponse, AnswerInOrder, AfterResponse
  <2>2. asks' = [asks EXCEPT ![m.req] = "answered"] /\ ops' = ops
    BY <1>2, <1>6, IdsAssumption DEF NoteResponse
  <2>3. Promise!Agree(m.req)
    BY <1>2, <1>3, <1>6, <2>1, <2>2 DEF Promise!Agree, Promise!Answer, Channel
  <2> QED
    BY <1>2, <1>6, <2>3 DEF Promise!Next
<1>7. CASE m.type = "devices"
  <2>1. v.phase = "AwaitDevices" /\ validator'.phase = "Ready"
    BY <1>1, <1>7, RestEffect DEF AcceptsResponse, AnswerInOrder, AfterResponse
  <2>2. asks' = [asks EXCEPT ![m.req] = "answered"] /\ ops' = ops
    BY <1>2, <1>7, IdsAssumption DEF NoteResponse
  <2>3. Promise!Listed(m.req)
    BY <1>2, <1>3, <1>4, <1>7, <2>1, <2>2
    DEF Promise!Listed, Promise!Answer, Promise!Idle, Channel, Engaged, Running
  <2> QED
    BY <1>2, <1>7, <2>3 DEF Promise!Next
<1>8. CASE m.type = "started"
  <2>1. v.phase = "AwaitStarted" /\ validator'.phase \in Running
    <3>1. v.kind \in Kinds
      BY <1>1, <1>2, <1>8 DEF Summary, Coherent, Validators
    <3> QED
      BY <1>1, <1>2, <1>8, <3>1 DEF AfterResponse, Run, Await, PhaseOf, Running, Kinds
  <2>2. /\ asks' = [asks EXCEPT ![m.req] = "answered"]
        /\ ops' = [ops EXCEPT ![m.op].stage = "running"]
    BY <1>2, <1>8, IdsAssumption DEF NoteResponse, StageAfter
  <2>3. ops[m.op].stage = "requested"
    BY <1>2, <1>8 DEF Summary, PhaseMatches
  <2>4. Promise!Started(m.req, m.op)
    BY <1>2, <1>3, <1>8, <2>1, <2>2, <2>3
    DEF Promise!Started, Promise!Answer, Promise!Passes, Channel, Running
  <2> QED
    BY <1>2, <1>8, <2>4 DEF Promise!Next
<1>9. CASE m.type = "cancelled"
  <2>1. v.phase = "AwaitCancelled" /\ validator'.phase = "Ready"
    BY <1>1, <1>2, <1>9, RestEffect DEF AfterResponse
  <2>2. /\ asks' = [asks EXCEPT ![m.req] = "answered"]
        /\ ops' = [ops EXCEPT ![m.op].stage = "cancelled"]
    BY <1>2, <1>9, IdsAssumption DEF NoteResponse, StageAfter
  <2>3. ops[m.op].stage = "cancelling"
    BY <1>2, <1>9 DEF Summary, PhaseMatches
  <2>4. Promise!Cancelled(m.req, m.op)
    BY <1>2, <1>3, <1>9, <2>1, <2>2, <2>3
    DEF Promise!Cancelled, Promise!Answer, Promise!Passes, Channel
  <2> QED
    BY <1>2, <1>9, <2>4 DEF Promise!Next
<1>10. CASE m.type = "completed"
  <2>1. v.phase \in Running /\ validator'.phase = "Ready"
    BY <1>1, <1>2, <1>10, RestEffect DEF AfterResponse
  <2>2. asks' = asks /\ ops' = [ops EXCEPT ![m.op].stage = "completed"]
    BY <1>2, <1>10 DEF NoteResponse, StageAfter
  <2>3. ops[m.op].stage = "running" /\ ops[m.op].produced # <<>>
    BY <1>1, <1>2, <1>10
    DEF Summary, PhaseMatches, AcceptsResponse, AnswerInOrder, MayComplete, Running
  <2>4. Promise!Complete(m.op)
    BY <2>1, <2>2, <2>3 DEF Promise!Complete, Promise!Passes, Channel, Running
  <2> QED
    BY <1>2, <1>10, <2>4 DEF Promise!Next
<1>11. CASE m.type \in EventTypes
  <2>1. v.phase \in Running /\ validator'.phase = v.phase
    BY <1>1, <1>2, <1>11, EventEffect
  <2>2. asks' = asks /\ Channel' = Channel
    BY <1>11, <2>1 DEF NoteResponse, EventTypes, Channel
  <2>3. CASE m.type \in {"frame", "enrolled", "match_result"}
    <3>1. ops' = [ops EXCEPT ![m.op].produced = Append(@, ResultIn(m.type))]
      BY <2>3 DEF NoteResponse
    <3>2. /\ ops[m.op].stage = "running"
          /\ ResultIn(m.type) = Promise!ResultOf(ops[m.op].kind)
          /\ ops[m.op].kind = "capture" \/ ops[m.op].produced = <<>>
      BY <1>1, <1>2, <1>11, <2>1, <2>3, EventPhase
      DEF Summary, PhaseMatches, ResultIn, Promise!ResultOf
    <3>3. Promise!Produce(m.op)
      BY <2>2, <3>1, <3>2 DEF Promise!Produce
    <3> QED
      BY <1>2, <1>11, <3>3 DEF Promise!Next
  <2>4. CASE m.type \notin {"frame", "enrolled", "match_result"}
    BY <1>11, <2>2, <2>4 DEF NoteResponse, EventTypes, Promise!vars
  <2> QED
    BY <2>3, <2>4
<1>12. CASE m.type = "error"
  <2>1. ops' = [o \in Ids |-> IF Promise!Live(o)
                                THEN [ops[o] EXCEPT !.stage = "failed"] ELSE ops[o]]
    BY <1>12 DEF NoteResponse
  <2>2. v.phase \notin Engaged => ops' = ops
    BY <1>4, <1>5, <2>1
  <2>3. v.phase \in Engaged => v.op \in Ids /\ ops' = [ops EXCEPT ![v.op].stage = "failed"]
    <3> SUFFICES ASSUME v.phase \in Engaged
                 PROVE  v.op \in Ids /\ ops' = [ops EXCEPT ![v.op].stage = "failed"]
      OBVIOUS
    <3>1. v.op \in Ids
      BY <1>1 DEF Summary, Coherent, Validators
    <3>2. \A o \in Ids : Promise!Live(o) <=> o = v.op
      BY DEF Summary, OpsMatch
    <3> QED
      BY <1>5, <2>1, <3>1, <3>2
  <2>4. CASE v.phase \in Waiting
    <3>1. /\ m.req = v.req /\ m.req \in Ids
          /\ asks' = [asks EXCEPT ![m.req] = "answered"]
      BY <1>2, <1>12, <2>4, IdsAssumption DEF NoteResponse, Waiting, Running
    <3>2. Promise!Answer(m.req)
      BY <1>3, <3>1 DEF Promise!Answer
    <3>3. CASE v.phase = "AwaitHelloAck"
      <4>1. validator'.phase = "NeedHello"
        BY <1>1, <1>12, <3>3, RestEffect DEF AfterResponse
      <4>2. Promise!Refuse(m.req)
        BY <2>2, <3>2, <3>3, <4>1 DEF Promise!Refuse, Channel, Engaged, Running
      <4> QED
        BY <3>1, <4>2 DEF Promise!Next
    <3>4. CASE v.phase # "AwaitHelloAck"
      <4>1. validator'.phase = "Ready"
        BY <1>1, <1>12, <3>4, RestEffect DEF AfterResponse
      <4>2. CASE v.phase = "AwaitDevices"
        <5>1. Promise!Listed(m.req)
          BY <1>4, <2>2, <3>2, <4>1, <4>2
          DEF Promise!Listed, Promise!Idle, Channel, Engaged, Running
        <5> QED
          BY <3>1, <5>1 DEF Promise!Next
      <4>3. CASE v.phase = "AwaitStarted"
        <5>1. ops[v.op].stage = "requested"
          BY <4>3 DEF Summary, PhaseMatches
        <5>2. Promise!StartFailed(m.req, v.op)
          BY <2>3, <3>2, <4>1, <4>3, <5>1
          DEF Promise!StartFailed, Promise!Passes, Channel, Engaged
        <5> QED
          BY <2>3, <3>1, <4>3, <5>2 DEF Promise!Next, Engaged
      <4>4. CASE v.phase = "AwaitCancelled"
        <5>1. ops[v.op].stage = "cancelling"
          BY <4>4 DEF Summary, PhaseMatches
        <5>2. Promise!CancelFailed(m.req, v.op)
          BY <2>3, <3>2, <4>1, <4>4, <5>1
          DEF Promise!CancelFailed, Promise!Passes, Channel, Engaged
        <5> QED
          BY <2>3, <3>1, <4>4, <5>2 DEF Promise!Next, Engaged
      <4> QED
        BY <2>4, <3>4, <4>2, <4>3, <4>4 DEF Waiting
    <3> QED
      BY <3>3, <3>4
  <2>5. CASE v.phase \in Running
    <3>1. asks' = asks
      BY <1>2, <1>12, <2>5 DEF NoteResponse, Waiting, Running
    <3>2. validator'.phase = "Ready"
      BY <1>1, <1>12, <2>5, RestEffect DEF AfterResponse, Running
    <3>3. ops[v.op].stage = "running"
      BY <2>5 DEF Summary, PhaseMatches
    <3>4. Promise!Fail(v.op)
      BY <2>3, <2>5, <3>1, <3>2, <3>3 DEF Promise!Fail, Promise!Passes, Channel, Engaged, Running
    <3> QED
      BY <2>3, <2>5, <3>4 DEF Promise!Next, Engaged
  <2> QED
    BY <1>2, <1>12, <2>4, <2>5
<1> QED
  BY <1>2, <1>6, <1>7, <1>8, <1>9, <1>10, <1>11, <1>12

\* Whatever messages it is fed, the validator keeps the promises of
\* Conversation: every accepted message is a step of it or a stutter.
THEOREM PromisesKept == Spec => KeepsPromises
<1>1. Init => Promise!Init
  BY DEF Init, Promise!Init, NewValidator, Channel
<1>2. UNCHANGED vars => UNCHANGED Promise!vars
  BY DEF vars, Promise!vars, Channel
<1>3. Summary /\ [Next]_vars => [Promise!Next]_Promise!vars
  BY <1>2, RequestConverses, ResponseConverses DEF Next
<1> QED
  BY <1>1, <1>3, SummaryHolds, PTL DEF Spec, KeepsPromises, Promise!Spec
=============================================================================
