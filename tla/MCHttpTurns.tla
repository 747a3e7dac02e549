----------------------------- MODULE MCHttpTurns -----------------------------
EXTENDS HttpTurns

Scenario(turns, kinds, page, admin, leaves, slow) ==
  [turns |-> turns, kinds |-> kinds, page |-> page, admin |-> admin, leaves |-> leaves, slow |-> slow]
Streams == <<"stream", "stream", "stream">>
MCScenarios == {
  Scenario(<<"a", "a", "a">>, Streams, <<"text", "tools", "text", "final">>, {"trace"}, 1, FALSE),
  Scenario(<<"a", "a", "a">>, Streams, <<"text", "retryable">>, {}, 1, FALSE),
  Scenario(<<"a", "a", "a">>, <<"stream", "json", "stream">>, <<"think", "tools", "text", "final">>, {"interrupt"}, 1, FALSE),
  Scenario(<<"a", "a", "a">>, <<"stream", "native", "native">>, <<"think", "think", "text", "final">>, {}, 0, FALSE),
  Scenario(<<"a", "b", "a">>, <<"stream", "json", "json">>, <<"tools", "final">>, {"drain", "cancel"}, 0, FALSE),
  Scenario(<<"a", "b", "b">>, <<"compactStream", "native", "compactJson">>, <<"final">>, {"drain", "interrupt"}, 1, FALSE),
  Scenario(<<"a", "a", "b">>, <<"stream", "stream", "native">>, <<"text", "text", "text", "tools", "fatal">>, {}, 0, TRUE),
  Scenario(<<"a", "a", "b">>, <<"stream", "stream", "native">>, <<"text", "fatal">>, {"drain"}, 1, FALSE)}
=============================================================================
