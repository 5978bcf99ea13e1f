----------------------------- MODULE MCCommands -----------------------------
(* Two templates and five captures; three sensors of two drivers.           *)
EXTENDS Commands

LOCAL INSTANCE SequencesExt

CONSTANTS T1, B1, B2, B3, B4, B5, \* paths: of a template, of bundles
          a1, a2, b1, weak, crowded, \* captures: of one finger, of another profile, ...
          s1, s2, s3, i1, i2, i3

SomeProfile == [c \in Captures |-> IF c = b1 THEN "p2" ELSE "p1"]

\* Minutiae are found one by one.  weak has a mean that is below the minimum
\* and rounds to it; crowded has one minutia too many.
Minutia(m, quality) == WithMinutia(m, quality, TRUE)

SomeQualities ==
  [c \in Captures |->
    CASE c = crowded -> <<25, 24, 26, 25, 25>>
      [] c = weak -> <<24, 25, 25>>
      [] c = b1 -> <<100, 100, 100>>
      [] OTHER -> <<0, 50, 25>>]

SomeFound == [c \in Captures |-> FoldLeft(Minutia, NoMinutiae, SomeQualities[c])]

\* crowded scores with nothing, a2 only with a1
SomeScore ==
  [pair \in Captures \X Captures |->
    CASE pair[1] = pair[2] -> 90
      [] {pair[1], pair[2]} = {a1, a2} -> 40
      [] OTHER -> 39]

SomeDemo == [enrolled |-> <<a1, a1, a1>>, genuine |-> a2, impostor |-> crowded]

SomeDisk ==
  [p \in Paths |->
    CASE p = B1 -> Bundle(a1) [] p = B2 -> Bundle(a2) [] p = B3 -> Bundle(b1)
      [] p = B4 -> Bundle(crowded) [] OTHER -> Nothing]

Order(run, path, reads) == [run |-> run, path |-> path, reads |-> reads, makes |-> weak]

\* i1 enrolls or does what concerns no template, i2 creates, i3 verifies.
SomeOrders ==
  [i \in Invocations |->
    CASE i = i1 ->
           {Order("enroll_device", T1, <<>>), Order("demo", T1, <<>>),
            Order("inspect", T1, <<B5>>),
            Order("enroll", T1, <<B1, B1, B4>>), Order("enroll", T1, <<B1, B3, B1>>),
            Order("enroll", T1, <<B2, B1>>), Order("enroll", T1, <<B1, B2, B5>>)}
      [] i = i2 ->
           {Order("enroll_device", T1, <<>>), Order("enroll", T1, <<B2, B1, B1>>),
            Order("synthetic", B5, <<>>)}
      [] i = i3 ->
           {Order("verify_device", T1, <<>>),
            Order("verify", T1, <<B2>>), Order("verify", T1, <<B3>>),
            Order("verify", T1, <<B4>>), Order("verify", T1, <<B5>>)}]

\* s1 and s2 are of one driver, s3 is of another that lists it under the id of s1.
SomeDriver == [s \in Sensors |-> IF s = s3 THEN "goodix" ELSE "upekts"]
SomeModel == [s \in Sensors |-> CASE s = s1 -> "m1" [] s = s2 -> "m2" [] s = s3 -> "m3"]
SharedId == [s \in Sensors |-> IF s = s2 THEN "1" ELSE "0"]
SomeRosters == {<<>>, <<s1, s3>>, <<s3, s1>>, <<s2>>}

\* Sensors only: one enrolls, another verifies.
DeviceOrders ==
  [i \in Invocations |->
    {IF i = i1 THEN Order("enroll_device", T1, <<>>) ELSE Order("verify_device", T1, <<>>)}]

\* One of those that share an id is plugged in at a time.
OneAtATime == {<<>>, <<s1>>, <<s3>>}
=============================================================================
