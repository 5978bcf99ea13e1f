--------------------------- MODULE MCTemplateStore ---------------------------
(* Four saves: of a template at the size limit, a smaller one, one over the *)
(* limit and an invalid one; and two loads.                                 *)
EXTENDS TemplateStore

CONSTANTS small, limit, over, invalid, s1, s2, s3, s4

SomeOffers ==
  [s \in Savers |-> CASE s = s1 -> small [] s = s2 -> limit [] s = s3 -> over
                      [] s = s4 -> invalid]

SomeBytes ==
  [t \in Values |-> CASE t = limit -> 2 [] t = over -> 3 [] OTHER -> 1]
=============================================================================
