-------------------------- MODULE TurnTakingProofs --------------------------
(***************************************************************************)
(* Two validators joined by pipes never disagree, as long as the host does *)
(* not cancel: for every set of identifiers, every limit and every pipe    *)
(* capacity.  Without cancel the session is a strict exchange of turns     *)
(* (OneTurn, TurnPasses), so whatever is under way leads from the slower   *)
(* end's validator to the faster one's (Connected).                        *)
(***************************************************************************)
EXTENDS TurnTaking, SessionRulesProofs

AllCoherent ==
  /\ Coherent(host) /\ Coherent(driver)
  /\ \A i \in 1..Len(marks) : Coherent(marks[i])

Inv == TypeOK /\ AllCoherent /\ Connected

-----------------------------------------------------------------------------
\* The two ends start of one mind, with nothing under way.
LEMMA InitInv == Init => Inv
<1> SUFFICES ASSUME Init PROVE Inv
  OBVIOUS
<1>1. NewValidator \in Validators /\ Coherent(NewValidator)
  BY DEF NewValidator, Validators, Phases, Coherent, Waiting, Engaged, Running
<1>2. TypeOK /\ AllCoherent
  BY <1>1 DEF Init, TypeOK, AllCoherent
<1>3. Connected
  BY DEF Init, Connected, OneDirection, Before
<1> QED
  BY <1>2, <1>3 DEF Inv

\* The host has the turn when it sends: nothing is under way.
LEMMA HostTurn ==
  ASSUME Inv, NEW m \in Requests, HostSends(m)
  PROVE  toDriver = <<>> /\ toHost = <<>> /\ host = driver
<1>1. AcceptsRequest(host, m) /\ m.type # "cancel" /\ host \in Validators
  BY NoCancelAssumption DEF HostSends, Inv, TypeOK
<1>2. toDriver = <<>>
  <2> SUFFICES ASSUME toDriver # <<>> PROVE FALSE
    OBVIOUS
  <2>1. Head(toDriver) \in Requests
    BY DEF Inv, TypeOK
  <2>2. /\ AcceptsRequest(driver, Head(toDriver)) /\ host = AfterRequest(driver, Head(toDriver))
        /\ Head(toDriver).type # "cancel"
    BY NoCancelAssumption DEF Inv, Connected
  <2> QED
    BY <1>1, <2>1, <2>2, TurnPasses DEF Inv, TypeOK
<1>3. toHost = <<>>
  <2> SUFFICES ASSUME toHost # <<>> PROVE FALSE
    OBVIOUS
  <2>1. 1 \in 1..Len(toHost) /\ toHost[1] \in Responses
    BY DEF Inv, TypeOK
  <2>2. AcceptsResponse(host, toHost[1])
    BY <2>1 DEF Inv, Connected, Before
  <2> QED
    BY <1>1, <2>1, <2>2, OneTurn
<1>4. host = driver
  BY <1>2, <1>3 DEF Inv, Connected, Before
<1> QED
  BY <1>2, <1>3, <1>4

\* A request sent leads from the driver's validator to the host's.
LEMMA HostSendsStep ==
  ASSUME Inv, NEW m \in Requests, HostSends(m)
  PROVE  Inv'
<1>1. toDriver = <<>> /\ toHost = <<>> /\ host = driver
  BY HostTurn
<1>2. /\ AcceptsRequest(driver, m) /\ host' = AfterRequest(driver, m) /\ m.type \in HostTypes
      /\ toDriver' = <<m>> /\ UNCHANGED <<driver, toHost, marks>>
  BY <1>1 DEF HostSends
<1>3. host' \in Validators /\ Coherent(host)'
  BY <1>1, <1>2, RequestCoherent, RequestsHaveTypes DEF Inv, TypeOK, AllCoherent
<1>4. TypeOK' /\ AllCoherent'
  BY <1>2, <1>3 DEF Inv, TypeOK, AllCoherent
<1>5. Connected'
  BY <1>1, <1>2 DEF Connected, OneDirection
<1> QED
  BY <1>4, <1>5 DEF Inv

\* A request received brings the driver's validator to the host's.
LEMMA DriverReceivesStep ==
  ASSUME Inv, DriverReceives
  PROVE  Inv'
<1> DEFINE m == Head(toDriver)
<1>1. /\ toDriver # <<>> /\ Len(toDriver) = 1 /\ toHost = <<>> /\ m \in Requests
      /\ AcceptsRequest(driver, m) /\ driver' = AfterRequest(driver, m)
      /\ host = AfterRequest(driver, m)
      /\ toDriver' = <<>> /\ UNCHANGED <<host, toHost, marks>>
  BY DEF Inv, TypeOK, Connected, OneDirection, DriverReceives
<1>2. TypeOK' /\ AllCoherent'
  BY <1>1 DEF Inv, TypeOK, AllCoherent
<1>3. Connected'
  BY <1>1 DEF Connected, OneDirection, Before
<1> QED
  BY <1>2, <1>3 DEF Inv

\* A response sent is one the host will accept after those ahead of it.
LEMMA DriverSendsStep ==
  ASSUME Inv, NEW m \in Responses, DriverSends(m)
  PROVE  Inv'
<1>1. /\ AcceptsResponse(driver, m) /\ driver' = AfterResponse(driver, m)
      /\ toHost' = Append(toHost, m) /\ marks' = Append(marks, driver')
      /\ UNCHANGED <<host, toDriver>>
  BY DEF DriverSends
<1>2. toDriver = <<>>
  <2> SUFFICES ASSUME toDriver # <<>> PROVE FALSE
    OBVIOUS
  <2>1. Head(toDriver) \in Requests
    BY DEF Inv, TypeOK
  <2>2. AcceptsRequest(driver, Head(toDriver)) /\ Head(toDriver).type # "cancel"
    BY NoCancelAssumption DEF Inv, Connected
  <2> QED
    BY <1>1, <2>1, <2>2, OneTurn DEF Inv, TypeOK
<1>3. driver' \in Validators /\ Coherent(driver)'
  BY <1>1, ResponseCoherent DEF Inv, TypeOK, AllCoherent
<1>4. /\ Len(toHost') = Len(toHost) + 1 /\ Len(marks') = Len(marks) + 1 /\ Len(marks) = Len(toHost)
      /\ Len(toHost) \in Nat
      /\ \A i \in 1..Len(toHost) : toHost'[i] = toHost[i] /\ marks'[i] = marks[i]
      /\ toHost'[Len(toHost) + 1] = m /\ marks'[Len(toHost) + 1] = driver'
  BY <1>1 DEF Inv, TypeOK
<1>5. TypeOK'
  BY <1>1, <1>3, <1>4 DEF Inv, TypeOK
<1>6. AllCoherent'
  BY <1>1, <1>3, <1>4 DEF Inv, AllCoherent
<1>7. \A i \in 1..(Len(toHost) + 1) : Before(i)' = Before(i)
  BY <1>1, <1>4 DEF Before
<1>8. driver = Before(Len(toHost) + 1)
  BY <1>2 DEF Inv, Connected
<1>9. \A i \in 1..Len(toHost') : /\ AcceptsResponse(Before(i)', toHost'[i])
                                 /\ marks'[i] = AfterResponse(Before(i)', toHost'[i])
  <2> SUFFICES ASSUME NEW i \in 1..(Len(toHost) + 1)
               PROVE  /\ AcceptsResponse(Before(i), toHost'[i])
                      /\ marks'[i] = AfterResponse(Before(i), toHost'[i])
    BY <1>4, <1>7
  <2>1. CASE i \in 1..Len(toHost)
    BY <1>4, <2>1 DEF Inv, Connected
  <2>2. CASE i = Len(toHost) + 1
    BY <1>1, <1>4, <1>8, <2>2
  <2> QED
    BY <1>4, <2>1, <2>2
<1>10. (driver = Before(Len(toHost) + 1))'
  BY <1>1, <1>4 DEF Before
<1>11. Connected'
  BY <1>1, <1>2, <1>9, <1>10 DEF Connected, OneDirection
<1> QED
  BY <1>5, <1>6, <1>11 DEF Inv

\* A response received brings the host's validator one step closer to the
\* driver's.
LEMMA HostReceivesStep ==
  ASSUME Inv, HostReceives
  PROVE  Inv'
<1>1. /\ toHost # <<>> /\ AcceptsResponse(host, Head(toHost))
      /\ host' = AfterResponse(host, Head(toHost))
      /\ toHost' = Tail(toHost) /\ marks' = Tail(marks)
      /\ UNCHANGED <<driver, toDriver>>
  BY DEF HostReceives
<1>2. toDriver = <<>>
  BY <1>1 DEF Inv, Connected, OneDirection
<1>3. /\ Len(toHost) \in Nat \ {0} /\ Len(marks) = Len(toHost)
      /\ Len(toHost') = Len(toHost) - 1 /\ Len(marks') = Len(marks) - 1
      /\ \A i \in 1..(Len(toHost) - 1) : toHost'[i] = toHost[i + 1] /\ marks'[i] = marks[i + 1]
      /\ Head(toHost) = toHost[1] /\ toHost[1] \in Responses /\ marks # <<>>
  BY <1>1 DEF Inv, TypeOK
<1>4. host' = marks[1]
  BY <1>1, <1>3 DEF Inv, Connected, Before
<1>5. host' \in Validators /\ Coherent(host)'
  BY <1>1, <1>3, ResponseCoherent DEF Inv, TypeOK, AllCoherent
<1>6. TypeOK'
  BY <1>1, <1>3, <1>5 DEF Inv, TypeOK
<1>7. AllCoherent'
  BY <1>1, <1>3, <1>5 DEF Inv, AllCoherent
<1>8. \A i \in 1..Len(toHost) : Before(i)' = Before(i + 1)
  <2> SUFFICES ASSUME NEW i \in 1..Len(toHost) PROVE Before(i)' = Before(i + 1)
    OBVIOUS
  <2>1. CASE i = 1
    BY <1>4, <2>1 DEF Before
  <2>2. CASE i # 1
    BY <1>3, <2>2 DEF Before
  <2> QED
    BY <2>1, <2>2
<1>9. \A i \in 1..Len(toHost') : /\ AcceptsResponse(Before(i)', toHost'[i])
                                 /\ marks'[i] = AfterResponse(Before(i)', toHost'[i])
  <2> SUFFICES ASSUME NEW i \in 1..(Len(toHost) - 1)
               PROVE  /\ AcceptsResponse(Before(i)', toHost'[i])
                      /\ marks'[i] = AfterResponse(Before(i)', toHost'[i])
    BY <1>3
  <2>1. /\ i + 1 \in 1..Len(toHost) /\ i \in 1..Len(toHost)
        /\ toHost'[i] = toHost[i + 1] /\ marks'[i] = marks[i + 1]
    BY <1>3
  <2>2. Before(i)' = Before(i + 1)
    BY <1>8, <2>1
  <2>3. AcceptsResponse(Before(i + 1), toHost[i + 1])
        /\ marks[i + 1] = AfterResponse(Before(i + 1), toHost[i + 1])
    BY <2>1 DEF Inv, Connected
  <2> QED
    BY <2>1, <2>2, <2>3
<1>10. (driver = Before(Len(toHost) + 1))'
  <2>1. driver = marks[Len(toHost)]
    BY <1>2, <1>3 DEF Inv, Connected, Before
  <2>2. CASE Len(toHost) = 1
    BY <1>1, <1>3, <1>4, <2>1, <2>2 DEF Before
  <2>3. CASE Len(toHost) # 1
    <3>1. /\ Len(toHost) - 1 \in 1..(Len(toHost) - 1) /\ Len(toHost') + 1 # 1
          /\ (Len(toHost') + 1) - 1 = Len(toHost) - 1
          /\ (Len(toHost) - 1) + 1 = Len(toHost)
      BY <1>3, <2>3
    <3>2. marks'[(Len(toHost') + 1) - 1] = driver
      BY <1>3, <2>1, <3>1
    <3> QED
      BY <1>1, <3>1, <3>2 DEF Before
  <2> QED
    BY <2>2, <2>3
<1>11. Connected'
  BY <1>1, <1>2, <1>9, <1>10 DEF Connected, OneDirection
<1> QED
  BY <1>6, <1>7, <1>11 DEF Inv

\* The invariant holds for ever.
LEMMA InvHolds == Spec => []Inv
<1>1. Inv /\ UNCHANGED vars => Inv'
  BY DEF vars, Inv, TypeOK, AllCoherent, Connected, OneDirection, Before
<1>2. Inv /\ [Next]_vars => Inv'
  BY <1>1, HostSendsStep, DriverReceivesStep, DriverSendsStep, HostReceivesStep DEF Next
<1> QED
  BY <1>2, InitInv, PTL DEF Spec

\* The lines under way lead from the slower end's validator to the faster one's,
\* and only one direction is ever in use.
THEOREM TurnsConnect == Spec => []Connected
<1>1. Inv => Connected
  BY DEF Inv
<1> QED
  BY <1>1, InvHolds, PTL

\* Both validators, and all that is under way, are well typed.
THEOREM TurnsWellTyped == Spec => []TypeOK
<1>1. Inv => TypeOK
  BY DEF Inv
<1> QED
  BY <1>1, InvHolds, PTL

\* Whatever a conforming driver sends, and whenever, the host's validator
\* accepts it on arrival; and so the other way, if the host never cancels.
THEOREM NeitherEndIsRefused == Spec => []NoProtocolViolation
<1>1. Inv => NoProtocolViolation
  <2> SUFFICES ASSUME Inv, toHost # <<>> PROVE AcceptsResponse(host, Head(toHost))
    BY DEF Inv, Connected, NoProtocolViolation
  <2>1. 1 \in 1..Len(toHost) /\ Head(toHost) = toHost[1]
    BY DEF Inv, TypeOK
  <2> QED
    BY <2>1 DEF Inv, Connected, Before
<1> QED
  BY <1>1, InvHolds, PTL

\* When nothing is under way the two ends agree on the whole session.
THEOREM EndsAgree == Spec => []AgreeWhenQuiet
<1>1. Inv => AgreeWhenQuiet
  BY DEF Inv, Connected, AgreeWhenQuiet, Before
<1> QED
  BY <1>1, InvHolds, PTL
=============================================================================
