--------------------------- MODULE MCBrowserWorker ---------------------------
(***************************************************************************)
(* Four turns over three conversations and two pages, or one turn in       *)
(* detail.                                                                 *)
(***************************************************************************)
EXTENDS BrowserWorker

CONSTANTS a, b, c, d, k1, k2, k3

MCRuns == {a, b, c, d}
MCKeys == {k1, k2, k3}

Job == [parts |-> 1, chunks |-> 1, tools |-> FALSE, compaction |-> FALSE, launcher |-> FALSE, moves |-> 3,
        slider |-> FALSE, label |-> "personalized", needs |-> 0]
Kept(k) == [key |-> k, retain |-> TRUE, require |-> FALSE]
Once(k) == [key |-> k, retain |-> FALSE, require |-> FALSE]
Needs(k) == [key |-> k, retain |-> TRUE, require |-> TRUE]
Next4(w, x, y, z) == [r \in MCRuns |-> CASE r = a -> w [] r = b -> x [] r = c -> y [] r = d -> z]

Pools == {[plan |-> p, focus |-> Nobody, job |-> Job, asks |-> {a, b, c}, frees |-> {k1}] : p \in
  {Next4(Kept(k1), Kept(k2), Once(NoKey), Kept(k1)), Next4(Kept(k1), Kept(k2), Kept(k1), Kept(k3))}}
  \cup {[plan |-> Next4(Kept(k1), Kept(k2), Kept(k3), Needs(k1)), focus |-> Nobody, job |-> Job, asks |-> {a, b, c, d}, frees |-> {}]}

Detailed(j, asks, f) == [plan |-> [r \in MCRuns |-> IF r = a THEN Kept(k1) ELSE Once(IF j.launcher THEN NoKey ELSE k1)],
                         focus |-> f, job |-> j, asks |-> asks, frees |-> {}]

(* A launcher's turn has no conversation in the pool: its page is leased.  *)
Turns == {Detailed([Job EXCEPT !.parts = 2, !.slider = TRUE, !.moves = 4], {a}, a),
          Detailed([Job EXCEPT !.chunks = 2, !.compaction = TRUE, !.moves = 5], {a}, a),
          Detailed([Job EXCEPT !.tools = TRUE, !.moves = 2], {a, b}, b),
          Detailed([Job EXCEPT !.tools = TRUE, !.launcher = TRUE], {b}, b)}
         \cup {Detailed([Job EXCEPT !.tools = TRUE, !.label = l, !.needs = n], {a}, a) :
                 l \in {"unpersonalized", "hidden"}, n \in 0..2}

MCScenarios == Pools \cup Turns
==============================================================================
