---------------------------- MODULE MCDashboard -----------------------------
(* An instance of Dashboard for TLC. *)
EXTENDS Dashboard

\* Two calls of one instant, one of them a failure that was never measured,
\* and an older call of another provider that took longer.
Ok     == [started |-> 1, completed |-> 1, status |-> "success", provider |-> "a", tokens |-> 2, ttft |-> 3]
Failed == [started |-> 1, completed |-> 1, status |-> "error", provider |-> "b", tokens |-> 0, ttft |-> None]
Slow   == [started |-> 0, completed |-> 2, status |-> "cancelled", provider |-> "a", tokens |-> 1, ttft |-> 8]

\* The orders of ids in which ties and pages can differ.
SomeHistories == {<<Ok, Failed, Slow>>, <<Slow, Failed, Failed>>,
                  <<Failed, Slow, Ok>>, <<Ok, Ok, Ok>>}
SomeFilters == {[provider |-> None, status |-> None], [provider |-> "a", status |-> None],
                [provider |-> None, status |-> "error"]}

ThreeCalls == 1 .. 3
OneOrTwo == {1, 2}
AnyTimeOrOne == {None, 1}
InStepOrAhead == {0, 2}
=============================================================================
