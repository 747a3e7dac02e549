--------------------------- MODULE ToolCallService ---------------------------
(***************************************************************************)
(* What the turn broker promises the two sides it connects: ChatGPT's MCP  *)
(* calls on one side, the Codex turn that executes them on the other.  A   *)
(* call is accepted once, handed to Codex before it can be answered,       *)
(* settled exactly once, and never left unsettled in a turn whose browser  *)
(* answer has been accepted as final or whose registration is over.        *)
(* Sockets, bindings, sessions, timers and waiters do not appear here.     *)
(***************************************************************************)
CONSTANTS Turns,    \* Codex turns that may register with the broker
          Calls,    \* tool invocations, each issued at most once
          NoTurn    \* the turn of a call that was not issued yet

VARIABLES status,   \* what became of each call
          turnOf,   \* the turn each call was issued in
          sealed    \* turns that accept no further calls

vars == <<status, turnOf, sealed>>

Unsettled == {"queued", "delivered"}
Settled   == {"result", "compaction", "rejected"}

TypeOK == /\ status \in [Calls -> {"unused"} \cup Unsettled \cup Settled]
          /\ turnOf \in [Calls -> Turns \cup {NoTurn}]
          /\ sealed \subseteq Turns

Become(S, s) == status' = [c \in Calls |-> IF c \in S THEN s ELSE status[c]]

UnsettledOf(T) == {c \in Calls : turnOf[c] \in T /\ status[c] \in Unsettled}

Init == /\ status = [c \in Calls |-> "unused"]
        /\ turnOf = [c \in Calls |-> NoTurn]
        /\ sealed = {}

\* A call enters an open turn.
Accept(c, t) == /\ status[c] = "unused"
                /\ t \notin sealed
                /\ Become({c}, "queued")
                /\ turnOf' = [turnOf EXCEPT ![c] = t]
                /\ UNCHANGED sealed

\* A call that arrives after context compaction took the turn over is
\* answered at once with the compaction control result.
Intercept(c, t) == /\ status[c] = "unused"
                   /\ Become({c}, "compaction")
                   /\ turnOf' = [turnOf EXCEPT ![c] = t]
                   /\ UNCHANGED sealed

\* Codex receives a batch of the calls of one turn.
Deliver(t) == /\ \E S \in SUBSET UnsettledOf({t}) :
                    /\ \A c \in S : status[c] = "queued"
                    /\ Become(S, "delivered")
              /\ UNCHANGED <<turnOf, sealed>>

\* Codex answers a call it has received.
Answer(c) == /\ status[c] = "delivered"
             /\ Become({c}, "result")
             /\ UNCHANGED <<turnOf, sealed>>

\* Compaction takes back every call Codex has not received yet.
Interrupt(t) == /\ Become({c \in UnsettledOf({t}) : status[c] = "queued"},
                          "compaction")
                /\ UNCHANGED <<turnOf, sealed>>

\* The browser's answer becomes final: only when nothing is unsettled.
Seal(t) == /\ UnsettledOf({t}) = {}
           /\ sealed' = sealed \cup {t}
           /\ UNCHANGED <<status, turnOf>>

\* Registrations end, and take their unsettled calls with them.
Close(T) == /\ Become(UnsettledOf(T), "rejected")
            /\ sealed' = sealed \cup T
            /\ UNCHANGED turnOf

Next == \/ \E c \in Calls, t \in Turns : Accept(c, t) \/ Intercept(c, t)
        \/ \E t \in Turns : Deliver(t) \/ Interrupt(t) \/ Seal(t)
        \/ \E c \in Calls : Answer(c)
        \/ \E T \in SUBSET Turns : Close(T)

Spec == Init /\ [][Next]_vars

\* A sealed turn has no call that still waits for an answer: the browser's
\* final text never overtakes a tool result (the completion fence), and a
\* revoked turn leaves no ChatGPT tool call hanging.
SealedIsSettled == \A c \in Calls : turnOf[c] \in sealed => status[c] \notin Unsettled
=============================================================================
