--------------------------- MODULE MCHelperProtocol ---------------------------
EXTENDS HelperProtocol

Plan(trace, counts, deaths, aborts, prompts) ==
  [trace |-> trace, calls |-> counts, deaths |-> deaths, aborts |-> aborts, prompts |-> prompts]
\* Runs of two traces, and a trace that runs again: with calls, with an abort, with a death of
\* the helper, and with an abort and a death.
MCPlans == {
  Plan(<<"a", "b">>, <<1, 0>>, 0, 0, FALSE),
  Plan(<<"a", "b">>, <<0, 0>>, 0, 1, TRUE),
  Plan(<<"a", "b">>, <<0, 0>>, 1, 0, TRUE),
  Plan(<<"a", "a">>, <<2, 0>>, 0, 0, FALSE),
  Plan(<<"a", "a">>, <<1, 0>>, 0, 1, TRUE),
  Plan(<<"a", "a">>, <<1, 0>>, 1, 0, TRUE),
  Plan(<<"a", "a">>, <<0, 0>>, 1, 1, TRUE)}
=============================================================================
