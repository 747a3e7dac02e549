---------------------------- MODULE HelperProtocol ----------------------------
(***************************************************************************)
(* Browser turns of the daemon that run in the launcher's browser helper:  *)
(* LauncherBrowserHelperClient (launcher-helper-client.ts) in the daemon,  *)
(* the helper process (browser-helper-main.ts) with the worker's turn in   *)
(* it (runExclusive and runBrowserTurn of browser-worker.ts), and the two  *)
(* pipes between them.                                                     *)
(*                                                                         *)
(* A turn of the daemon is a run; runs that repeat a turn have the same    *)
(* trace, and the lines of the protocol name only the trace.  Pipes keep   *)
(* order; a helper that dies takes with it what it has not read, and the   *)
(* daemon notices the end of the process after some of its last lines.     *)
(* Around the two processes: the broker that holds a turn's calls until    *)
(* the completion fence is committed, the adapter's round that hands them  *)
(* to Codex, and the launcher that leases a tab.                           *)
(***************************************************************************)
EXTENDS TurnProgress, Sequences

CONSTANTS MaxRuns,    \* bound: runs of the daemon
          Traces,     \* trace ids
          Texts,      \* bound: pieces of text a page writes before its last one
          Plans       \* bound: of each run its trace and how many calls it makes; how often the
                      \* helper may die, how many runs may be aborted, and whether a prompt may fail

Runs == 1 .. MaxRuns
NoRun == 0

ASSUME HelperAssumption ==
  MaxRuns \in Nat /\ Texts \in Nat /\ Plans \subseteq [trace : [Runs -> Traces], calls : [Runs -> Nat],
                                    deaths : Nat, aborts : Nat, prompts : BOOLEAN]

VARIABLES
  plan,      \* bound: what is left of the Plan
  child,     \* the client's child process: none, not ready yet, or ready
  proc,      \* the process itself
  down, up,  \* lines to the helper and lines to the daemon
  run,       \* the client's PendingTurn of a run, and its two promises
  progress,  \* the daemon's progress of a run
  calls,     \* the broker's channel of a run and the round that serves it
  work,      \* the helper's turn of a trace
  leases,    \* runs whose tab the launcher holds
  history    \* of a run: text its page wrote, the last batch its page's worker observed, whether it had
             \* a page, whether its prompt failed

daemon == <<child, run>>
vars == <<plan, child, proc, down, up, run, progress, calls, work, leases, history>>

Trace(r) == plan.trace[r]

Run == [at : {"idle", "starting", "pending", "over"}, aborted : BOOLEAN, failed : BOOLEAN, preparing : BOOLEAN,
        prepared : BOOLEAN, result : {"none", "resolved", "rejected"}, settled : {"none", "resolved", "rejected"},
        text : Nat, sent : Nat]
NewRun == [at |-> "idle", aborted |-> FALSE, failed |-> FALSE, preparing |-> FALSE, prepared |-> FALSE,
           result |-> "none", settled |-> "none", text |-> 0, sent |-> 0]

\* revision, unanswered calls and the fence are the broker's (TurnBroker); boundary: a batch
\* waits to be observed; emitted: the last batch Codex was given
Calls == [token : {"none", "live", "revoked"}, revision : Nat, queued : Nat, boundary : BOOLEAN,
          emitted : Nat, committed : BOOLEAN]
NewCalls == [token |-> "none", revision |-> 0, queued |-> 0, boundary |-> FALSE, emitted |-> 0, committed |-> FALSE]

\* of: the run that started it; told: createBrowserHelperPromptSelection; fence: completionFenceRevision,
\* one above it (0: undefined); request: what a fence's waiter waits for
Steps == {"none", "lease", "select", "page", "answer", "begin", "commit", "done", "failed"}
Work == [of : Runs \cup {NoRun}, at : Steps, aborted : BOOLEAN, told : {"none", "given", "cancelled"},
         mirror : Progress, fence : Nat, request : 0 .. 2, written : Nat]
NoWork == [of |-> NoRun, at |-> "none", aborted |-> FALSE, told |-> "none", mirror |-> NewProgress,
           fence |-> 0, request |-> 0, written |-> 0]

NewHistory == [text |-> 0, observed |-> 0, opened |-> FALSE, unprepared |-> FALSE]

Kinds == {"run", "abort", "prepared", "began", "committed", "progress",
          "ready", "observed", "begin", "commit", "selected", "text", "result", "error", "settled"}
\* n: a revision (one above it for "began", 0 if there is none) or a request; progress carries a snapshot
Line(kind, trace) == [kind |-> kind, trace |-> trace, of |-> NoRun, n |-> 0, request |-> 0, snapshot |-> Snapshot(NewProgress)]

Init ==
  /\ plan \in Plans
  /\ child = "none" /\ proc = "none" /\ down = <<>> /\ up = <<>>
  /\ run = [r \in Runs |-> NewRun]
  /\ progress = [r \in Runs |-> NewProgress] /\ calls = [r \in Runs |-> NewCalls]
  /\ work = [t \in Traces |-> NoWork]
  /\ leases = {} /\ history = [r \in Runs |-> NewHistory]

Alive == proc \in {"booting", "up"}
Sent(lines) == down' = IF Alive THEN down \o lines ELSE down
Pending(t) == {r \in Runs : Trace(r) = t /\ run[r].at = "pending"}

-----------------------------------------------------------------------------
(* The client: starting a turn, and ending it without the helper.          *)

\* finishWithError: a promise that has settled keeps what it has
EndedWithError(c) ==
  [c EXCEPT !.at = "over", !.prepared = FALSE,
            !.result = IF @ = "none" THEN "rejected" ELSE @, !.settled = "rejected"]

\* run: the worker refuses a trace whose result is still awaited.
Begin(r) ==
  /\ run[r].at = "idle"
  /\ IF \E o \in Runs \ {r} : Trace(o) = Trace(r) /\ run[o].at # "idle" /\ run[o].result = "none"
     THEN /\ run' = [run EXCEPT ![r].at = "over", ![r].result = "rejected", ![r].settled = "resolved"]
          /\ UNCHANGED <<child, proc>>
     ELSE /\ run' = [run EXCEPT ![r].at = "starting"]
          /\ IF child = "none" THEN child' = "starting" /\ proc' = "booting" ELSE UNCHANGED <<child, proc>>
  /\ UNCHANGED <<plan, down, up, progress, calls, work, leases, history>>

\* startTurn once the child is ready.  An aborted run, or one whose trace is still pending, fails;
\* finishWithError knows a turn by its trace only: the pending one is rejected, and nothing
\* settles the new one.
PendingEnded(t) == [o \in Runs |-> IF o \in Pending(t) THEN EndedWithError(run[o]) ELSE run[o]]
Start(r) ==
  /\ run[r].at = "starting" /\ child = "ready"
  /\ IF Pending(Trace(r)) # {}
     THEN run' = [PendingEnded(Trace(r)) EXCEPT ![r].at = "over"] /\ UNCHANGED down
     ELSE IF run[r].aborted
     THEN run' = [run EXCEPT ![r] = EndedWithError(@)] /\ UNCHANGED down
     ELSE /\ run' = [run EXCEPT ![r].at = "pending"]
          /\ Sent(<<[Line("run", Trace(r)) EXCEPT !.of = r]>>)
  /\ UNCHANGED <<plan, child, proc, up, progress, calls, work, leases, history>>

\* The turn's session is cancelled: the broker's token goes with the signal.
Abort(r) ==
  /\ run[r].at \in {"starting", "pending"} /\ ~run[r].aborted /\ plan.aborts > 0
  /\ plan' = [plan EXCEPT !.aborts = @ - 1]
  /\ run' = [run EXCEPT ![r].aborted = TRUE]
  /\ calls' = [calls EXCEPT ![r].token = IF @ = "live" THEN "revoked" ELSE @]
  /\ IF run[r].at = "pending" /\ run[r].result = "none"
     THEN Sent(<<Line("abort", Trace(r))>>) ELSE UNCHANGED down
  /\ UNCHANGED <<child, proc, up, progress, work, leases, history>>

\* abortWithLocalFailure
LocalFailure(r) ==
  /\ run' = [run EXCEPT ![r].failed = TRUE]
  /\ IF run[r].failed THEN UNCHANGED down ELSE Sent(<<Line("abort", Trace(r))>>)

\* prepareWith, asked for by the helper's choice of the prompt: the turn gets its token, or the
\* prompt cannot be made.  The turn may have ended meanwhile.
\* A prompt that failed ends the turn of its trace that is pending by then, and leaves the helper
\* waiting for it or working on it.
Retired(r) == run[r].result = "rejected" /\ run[r].aborted
Prepare(r) ==
  /\ run[r].preparing
  /\ \/ /\ calls' = [calls EXCEPT ![r].token = IF Retired(r) THEN "revoked" ELSE "live"]
        /\ run' = [run EXCEPT ![r].preparing = FALSE, ![r].prepared = run[r].at = "pending"]
        /\ IF run[r].at = "pending" THEN Sent(<<Line("prepared", Trace(r))>>) ELSE UNCHANGED down
        /\ UNCHANGED history
     \/ /\ plan.prompts
        /\ run' = [PendingEnded(Trace(r)) EXCEPT ![r].preparing = FALSE]
        /\ history' = [history EXCEPT ![r].unprepared = TRUE]
        /\ UNCHANGED <<calls, down>>
  /\ UNCHANGED <<plan, child, proc, up, progress, work, leases>>

\* forwardProgress: several changes go out as one snapshot
Forward(r) ==
  /\ run[r].at = "pending" /\ progress[r].revision > run[r].sent
  /\ run' = [run EXCEPT ![r].sent = progress[r].revision]
  /\ Sent(<<[Line("progress", Trace(r)) EXCEPT !.snapshot = Snapshot(progress[r])]>>)
  /\ UNCHANGED <<plan, child, proc, up, progress, calls, work, leases, history>>

\* handleExit, and the timeout of a child that never got ready: every turn ends, the launcher
\* is told of the pending ones, and lines that come later are not heard.
\* Mutant: the turns whose result is there already are passed over.
ExitedUnsettled(c) == IF c.at = "starting" \/ (c.at = "pending" /\ c.result = "none") THEN EndedWithError(c) ELSE c
Exited(c) == IF c.at \in {"starting", "pending"} THEN EndedWithError(c) ELSE c
Exit ==
  /\ child # "none"
  /\ proc = "gone" \/ (child = "starting" /\ plan.deaths > 0)
  /\ plan' = [plan EXCEPT !.deaths = IF proc = "gone" THEN @ ELSE @ - 1]
  /\ child' = "none" /\ proc' = "none" /\ up' = <<>> /\ down' = <<>>
  /\ run' = [r \in Runs |-> Exited(run[r])]
  /\ leases' = leases \ {r \in Runs : run[r].at = "pending"}
  /\ UNCHANGED <<progress, calls, work, history>>

-----------------------------------------------------------------------------
(* The client: handleLine.                                                 *)

\* A line of a trace that is not pending is dropped.
Hear(kind) == child # "none" /\ up # <<>> /\ Head(up).kind = kind /\ up' = Tail(up)
HearFor(kind, r) == Hear(kind) /\ r \in Pending(Head(up).trace)

HearReady ==
  /\ Hear("ready") /\ child' = "ready"
  /\ UNCHANGED <<plan, proc, down, run, progress, calls, work, leases, history>>
HearNothing ==
  /\ \E kind \in Kinds \ {"ready"} : Hear(kind) /\ Pending(Head(up).trace) = {}
  /\ UNCHANGED <<plan, child, proc, down, run, progress, calls, work, leases, history>>
HearText(r) ==
  /\ HearFor("text", r) /\ run' = [run EXCEPT ![r].text = @ + 1]
  /\ UNCHANGED <<plan, child, proc, down, progress, calls, work, leases, history>>
HearSelected(r) ==
  /\ HearFor("selected", r) /\ run' = [run EXCEPT ![r].preparing = TRUE]
  /\ UNCHANGED <<plan, child, proc, down, progress, calls, work, leases, history>>

HearObserved(r) ==
  /\ HearFor("observed", r)
  /\ IF Exists(progress[r], Head(up).n)
     THEN progress' = [progress EXCEPT ![r] = Observed(@, Head(up).n)] /\ UNCHANGED <<run, down>>
     ELSE LocalFailure(r) /\ UNCHANGED progress
  /\ UNCHANGED <<plan, child, proc, calls, work, leases, history>>

\* The broker's fence answers a live turn; for a revoked token it throws, and the helper, whose
\* waiter an earlier abort cannot have rejected, is told to abort.
Quiet(r) == calls[r].queued + progress[r].active = 0
Silent(r) == run[r].failed \/ run[r].aborted
\* Mutant: a fence that throws is only written to the log.
ThrowsInSilence(r) == UNCHANGED <<run, down>>
Throws(r) == LocalFailure(r)
HearBegin(r) ==
  /\ HearFor("begin", r)
  /\ IF calls[r].token # "live" THEN Throws(r)
     ELSE /\ IF Silent(r) THEN UNCHANGED down
             ELSE Sent(<<[Line("began", Trace(r)) EXCEPT !.request = Head(up).request,
                          !.n = IF Quiet(r) \/ calls[r].committed THEN calls[r].revision + 1 ELSE 0]>>)
          /\ UNCHANGED run
  /\ UNCHANGED <<plan, child, proc, progress, calls, work, leases, history>>

Commits(r, revision) == calls[r].committed \/ (Quiet(r) /\ calls[r].revision = revision)
HearCommit(r) ==
  /\ HearFor("commit", r)
  /\ IF calls[r].token # "live" THEN Throws(r) /\ UNCHANGED calls
     ELSE LET committed == Commits(r, Head(up).n) IN
          /\ calls' = [calls EXCEPT ![r].committed = committed]
          /\ IF Silent(r) THEN UNCHANGED down
             ELSE Sent(<<[Line("committed", Trace(r)) EXCEPT !.request = Head(up).request, !.n = IF committed THEN 1 ELSE 0]>>)
          /\ UNCHANGED run
  /\ UNCHANGED <<plan, child, proc, progress, work, leases, history>>

HearResult(r) ==
  /\ HearFor("result", r)
  /\ run' = [run EXCEPT ![r].result = IF @ # "none" THEN @ ELSE IF run[r].failed THEN "rejected" ELSE "resolved"]
  /\ UNCHANGED <<plan, child, proc, down, progress, calls, work, leases, history>>
HearError(r) ==
  /\ HearFor("error", r)
  /\ run' = [run EXCEPT ![r].result = IF @ = "none" THEN "rejected" ELSE @]
  /\ UNCHANGED <<plan, child, proc, down, progress, calls, work, leases, history>>
HearSettled(r) ==
  /\ HearFor("settled", r)
  /\ run' = [run EXCEPT ![r] = IF @.result = "none" THEN EndedWithError(@)
                               ELSE [@ EXCEPT !.at = "over", !.prepared = FALSE, !.settled = "resolved"]]
  /\ UNCHANGED <<plan, child, proc, down, progress, calls, work, leases, history>>

Hears == HearReady \/ HearNothing
  \/ \E r \in Runs : HearText(r) \/ HearSelected(r) \/ HearObserved(r) \/ HearBegin(r) \/ HearCommit(r)
                     \/ HearResult(r) \/ HearError(r) \/ HearSettled(r)

-----------------------------------------------------------------------------
(* The broker and the adapter's round (runTurn in index.ts).               *)

\* ChatGPT calls a tool: the broker takes it while the token lives and no completion is committed.
Call(r) ==
  /\ plan.calls[r] > 0 /\ calls[r].token = "live" /\ ~calls[r].committed
  /\ plan' = [plan EXCEPT !.calls[r] = @ - 1]
  /\ calls' = [calls EXCEPT ![r].queued = @ + 1, ![r].revision = @ + 1]
  /\ UNCHANGED <<child, proc, down, up, run, progress, work, leases, history>>

\* The round takes the calls as a batch, waits until the page's worker has observed the
\* boundary, and only then gives them to Codex; the next batch waits for their results.
Round(r) == run[r].result = "none" /\ ~run[r].aborted
Batch(r) ==
  /\ Round(r) /\ calls[r].queued > 0 /\ progress[r].active = 0
  /\ progress' = [progress EXCEPT ![r] = Recorded(@, calls[r].queued)]
  /\ calls' = [calls EXCEPT ![r].boundary = TRUE, ![r].queued = 0]
  /\ UNCHANGED <<plan, child, proc, down, up, run, work, leases, history>>
Emit(r) ==
  /\ Round(r) /\ calls[r].boundary /\ IsObserved(progress[r])
  /\ calls' = [calls EXCEPT ![r].boundary = FALSE, ![r].emitted = progress[r].batch]
  /\ UNCHANGED <<plan, child, proc, down, up, run, progress, work, leases, history>>
Answer(r) ==
  /\ Round(r) /\ progress[r].active > 0 /\ ~calls[r].boundary
  /\ progress' = [progress EXCEPT ![r] = Answered(@)]
  /\ calls' = [calls EXCEPT ![r].revision = @ + 1]
  /\ UNCHANGED <<plan, child, proc, down, up, run, work, leases, history>>
\* The round of a turn that failed retires its session: the signal is no longer listened to, but
\* the token goes, or goes as soon as it is there.
Retire(r) ==
  /\ run[r].result = "rejected" /\ (~Retired(r) \/ calls[r].token = "live")
  /\ run' = [run EXCEPT ![r].aborted = TRUE]
  /\ calls' = [calls EXCEPT ![r].token = IF @ = "live" THEN "revoked" ELSE @]
  /\ UNCHANGED <<plan, child, proc, down, up, progress, work, leases, history>>

-----------------------------------------------------------------------------
(* The helper: its reader.                                                 *)

Boot ==
  /\ proc = "booting" /\ proc' = "up"
  /\ up' = Append(up, Line("ready", CHOOSE t \in Traces : TRUE))
  /\ UNCHANGED <<plan, child, down, run, progress, calls, work, leases, history>>
\* The process ends at any moment; what it wrote may still be read.
Die ==
  /\ Alive /\ plan.deaths > 0
  /\ plan' = [plan EXCEPT !.deaths = @ - 1]
  /\ proc' = "gone" /\ down' = <<>> /\ work' = [t \in Traces |-> NoWork]
  /\ UNCHANGED <<child, up, run, progress, calls, leases, history>>

Read(kind, t) ==
  /\ proc = "up" /\ down # <<>> /\ Head(down).kind = kind /\ Head(down).trace = t /\ down' = Tail(down)
  /\ UNCHANGED <<plan, child, proc, run, progress, calls, leases, history>>

\* run: a trace the helper still works on is refused, with an error that names the trace
ReadRun(t) ==
  /\ Read("run", t)
  /\ IF work[t].at = "none"
     THEN work' = [work EXCEPT ![t] = [NoWork EXCEPT !.of = Head(down).of, !.at = "lease"]] /\ UNCHANGED up
     ELSE up' = Append(up, Line("error", t)) /\ UNCHANGED work
\* An abort rejects the waiters there are; a turn between two steps sees the signal at the next.
ReadAbort(t) ==
  /\ Read("abort", t) /\ UNCHANGED up
  /\ work' = IF work[t].at = "none" THEN work ELSE
       [work EXCEPT ![t].aborted = TRUE, ![t].told = IF @ = "none" THEN "cancelled" ELSE @,
                    ![t].at = IF @ \in {"begin", "commit"} THEN "failed" ELSE @]
ReadPrepared(t) ==
  /\ Read("prepared", t)
  /\ IF work[t].at = "none" THEN up' = Append(up, Line("error", t)) /\ UNCHANGED work
     ELSE work' = [work EXCEPT ![t].told = IF @ = "none" THEN "given" ELSE @] /\ UNCHANGED up
\* Answers of the fence: one that no waiter waits for is ignored.
Waits(t, at) == work[t].at = at /\ work[t].request = Head(down).request
ReadBegan(t) ==
  /\ Read("began", t) /\ UNCHANGED up
  /\ work' = IF Waits(t, "begin") THEN [work EXCEPT ![t].at = "answer", ![t].fence = Head(down).n] ELSE work
ReadCommitted(t) ==
  /\ Read("committed", t) /\ UNCHANGED up
  /\ work' = IF Waits(t, "commit")
             THEN [work EXCEPT ![t].at = IF Head(down).n = 1 THEN "done" ELSE "answer",
                               ![t].fence = IF Head(down).n = 1 THEN @ ELSE 0] ELSE work
ReadProgress(t) ==
  /\ Read("progress", t) /\ UNCHANGED up
  /\ work' = IF work[t].at = "none" THEN work ELSE [work EXCEPT ![t].mirror = Applied(@, Head(down).snapshot)]
Reads == \E t \in Traces : ReadRun(t) \/ ReadAbort(t) \/ ReadPrepared(t) \/ ReadBegan(t) \/ ReadCommitted(t)
                           \/ ReadProgress(t)

-----------------------------------------------------------------------------
(* The helper: the worker's turn (runExclusive, runBrowserTurn).           *)

At(t, steps) == proc = "up" /\ work[t].at \in steps
Writes(lines) == up' = up \o lines
\* the finally blocks of runExclusive and of the helper's run
Over(t, lines) ==
  /\ leases' = leases \ {work[t].of} /\ Writes(lines \o <<Line("settled", t)>>)
  /\ work' = [work EXCEPT ![t] = NoWork]

\* The launcher leases a tab or refuses.
Lease(t) ==
  /\ At(t, {"lease"})
  /\ \/ /\ leases' = leases \cup {work[t].of} /\ Writes(<<Line("selected", t)>>)
        /\ work' = [work EXCEPT ![t].at = "select"]
     \/ Over(t, <<Line("error", t)>>)
  /\ UNCHANGED <<plan, child, proc, down, run, progress, calls, history>>

\* The daemon's prompt is there; a selection that was cancelled throws before the try whose
\* finally ends the lease.
Select(t) ==
  /\ At(t, {"select"}) /\ work[t].told # "none"
  /\ IF work[t].told = "given" THEN work' = [work EXCEPT ![t].at = "page"] /\ UNCHANGED up
     ELSE Writes(<<Line("error", t), Line("settled", t)>>) /\ work' = [work EXCEPT ![t] = NoWork]
  /\ UNCHANGED <<plan, child, proc, down, run, progress, calls, leases, history>>

Open(t) ==
  /\ At(t, {"page"}) /\ ~work[t].aborted
  /\ work' = [work EXCEPT ![t].at = "answer"]
  /\ history' = [history EXCEPT ![work[t].of].opened = TRUE]
  /\ UNCHANGED <<plan, child, proc, down, up, run, progress, calls, leases>>
\* A page fails at any step, and must once the turn is aborted.
Fail(t) ==
  /\ At(t, {"page", "answer", "failed"}) /\ Over(t, <<Line("error", t)>>)
  /\ UNCHANGED <<plan, child, proc, down, run, progress, calls, history>>

Wrote(t, n) == [history EXCEPT ![work[t].of].text = @ + n]
Say(t) ==
  /\ At(t, {"answer"}) /\ work[t].written < Texts
  /\ work' = [work EXCEPT ![t].written = @ + 1, ![t].fence = 0]
  /\ history' = Wrote(t, 1) /\ Writes(<<Line("text", t)>>)
  /\ UNCHANGED <<plan, child, proc, down, run, progress, calls, leases>>

\* The completion loop: a batch of calls it has not seen is observed before anything else; a
\* completed page asks the fence twice, and asks again from the start when it has moved.
Boundary(t) == work[t].mirror.batch > work[t].mirror.observed
Observe(t) ==
  /\ At(t, {"answer"}) /\ Boundary(t)
  /\ LET batch == work[t].mirror.batch IN
     /\ work' = [work EXCEPT ![t].mirror = Observed(@, batch), ![t].fence = 0]
     /\ history' = [history EXCEPT ![work[t].of].observed = batch]
     /\ Writes(<<[Line("observed", t) EXCEPT !.n = batch]>>)
  /\ UNCHANGED <<plan, child, proc, down, run, progress, calls, leases>>
Ready(t) == At(t, {"answer"}) /\ ~Boundary(t) /\ work[t].mirror.active = 0
NextRequest(n) == IF n = 2 THEN 1 ELSE n + 1
Ask(t) ==
  /\ Ready(t)
  /\ LET at == IF work[t].fence = 0 THEN "begin" ELSE "commit"
         request == NextRequest(work[t].request) IN
     /\ work' = [work EXCEPT ![t].at = at, ![t].request = request]
     /\ Writes(<<[Line(at, t) EXCEPT !.request = request, !.n = IF at = "commit" THEN work[t].fence - 1 ELSE 0]>>)
  /\ UNCHANGED <<plan, child, proc, down, run, progress, calls, leases, history>>

\* The final text is written when the completion is committed, the result once the launcher has
\* the lease back; a tab the user closed fails the turn there.
\* Mutant: the result is written before the text it completes.
LastLinesSwapped(t) == <<Line("result", t), Line("text", t)>>
LastLines(t) == <<Line("text", t), Line("result", t)>>
Complete(t) ==
  /\ At(t, {"done"}) /\ history' = Wrote(t, 1)
  /\ Over(t, LastLines(t)) \/ Over(t, <<Line("text", t), Line("error", t)>>)
  /\ UNCHANGED <<plan, child, proc, down, run, progress, calls>>

Works(t) == Lease(t) \/ Select(t) \/ Open(t) \/ Fail(t) \/ Say(t) \/ Observe(t) \/ Ask(t) \/ Complete(t)

-----------------------------------------------------------------------------
Serves(r) == Batch(r) \/ Emit(r) \/ Answer(r) \/ Retire(r) \/ Forward(r)
Helps == Boot \/ Reads \/ Hears \/ \E r \in Runs : Start(r) \/ Prepare(r)
Next ==
  \/ Helps \/ Exit \/ Die
  \/ \E r \in Runs : Begin(r) \/ Abort(r) \/ Call(r) \/ Serves(r)
  \/ \E t \in Traces : Works(t)
Spec == Init /\ [][Next]_vars

\* The event loops of both processes run, the launcher answers, pages go on, Codex answers its
\* calls, and the system tells the daemon of a process that ended.
FairSpec ==
  /\ Spec /\ WF_vars(Helps) /\ WF_vars(proc = "gone" /\ Exit)
  /\ \A r \in Runs : WF_vars(Serves(r))
  /\ \A t \in Traces : WF_vars(Works(t))
-----------------------------------------------------------------------------
(* Properties.                                                             *)

Lines == [kind : Kinds, trace : Traces, of : Runs \cup {NoRun}, n : Nat, request : 0 .. 2,
          snapshot : [revision : Nat, batch : Nat, active : Nat]]

\* The types; a trace has one pending turn, none outlives the child it was sent to, and a turn that
\* is over holds no prompt.
TypeOK ==
  /\ child \in {"none", "starting", "ready"} /\ proc \in {"none", "booting", "up", "gone"}
  /\ (proc = "none") <=> (child = "none")
  /\ run \in [Runs -> Run] /\ progress \in [Runs -> Progress] /\ calls \in [Runs -> Calls]
  /\ work \in [Traces -> Work] /\ leases \subseteq Runs
  /\ history \in [Runs -> [text : Nat, observed : Nat, opened : BOOLEAN, unprepared : BOOLEAN]]
  /\ \A i \in DOMAIN down : down[i] \in Lines
  /\ \A i \in DOMAIN up : up[i] \in Lines
  /\ \A t \in Traces : Cardinality(Pending(t)) <= 1
  /\ \A r \in Runs : (run[r].at = "over" => ~run[r].prepared) /\ (run[r].at = "pending" => child = "ready")

\* The daemon never hears text the turn's own page did not write, and a turn that is resolved has
\* all of it: no helper's death, abort, repeated trace or late line loses or moves a piece
\* (launcher-helper-client.ts:415-561, browser-helper-main.ts:244-297).
TextIsWhole(r) ==
  /\ run[r].text <= history[r].text
  /\ run[r].result = "resolved" => run[r].text = history[r].text

\* Codex is given a batch of calls only after the page's worker has drawn its boundary, a turn
\* is resolved only when the broker has committed its completion with every call answered and
\* none on its way to Codex, and the mirror in the helper is never ahead of the daemon's progress
\* (index.ts:752-759, browser-worker.ts:4350-4359, 4408-4425).
BoundariesHold(r) ==
  /\ calls[r].emitted <= history[r].observed
  /\ run[r].result = "resolved" =>
       /\ calls[r].committed /\ calls[r].queued + progress[r].active = 0
       /\ ~calls[r].boundary /\ history[r].observed = progress[r].batch
  /\ \A t \in Traces : work[t].at # "none" /\ work[t].of = r => work[t].mirror.revision <= progress[r].revision

\* What crosses the two pipes arrives whole and in order: text, batches and the completion.  Not
\* so for a trace that is tried a third time after one of its prompts failed: the helper may still
\* be at work on a turn the daemon has given up, and its lines are taken for the next one's.
Unprepared(t) == \E r \in Runs : Trace(r) = t /\ history[r].unprepared
Misled(r) == Unprepared(Trace(r)) /\ Cardinality({o \in Runs : Trace(o) = Trace(r) /\ run[o].at # "idle"}) > 2
StreamIsWhole == \A r \in Runs : Misled(r) \/ (TextIsWhole(r) /\ BoundariesHold(r))

\* Every turn that was begun gets its result and its settlement, whatever dies or is cancelled
\* in between: no answer is awaited from a side that has forgotten the question.  Two kinds of
\* turn do not: one begun while the same trace was still settling, and one that repeats a trace
\* whose prompt failed, which the helper still waits for.
Unsettling(r) == run[r].at = "over" /\ run[r].result = "none"
Forgotten(r) == run[r].result # "none" /\ work[Trace(r)].at = "select" /\ work[Trace(r)].of # r
                /\ run[work[Trace(r)].of].at = "over"
EveryRunEnds ==
  \A r \in Runs : <>[](\/ run[r].at = "idle" \/ (run[r].result # "none" /\ run[r].settled # "none")
                       \/ Unsettling(r) \/ Forgotten(r))

\* The settlement of a turn that had its page means that the helper no longer works on it and
\* holds no tab for it ("every retirement/cancellation path that releases browser ownership waits
\* on the latter", docs/upstream-v5-windows-integration.md:70).  Before the page it does not: a
\* prompt that fails, or an abort while the helper waits for it, leaves the tab leased (hazard); and
\* the prompt of an earlier attempt, failing late, ends the attempt whose page is open by then.
EndedForAnother(r) == \E o \in Runs \ {r} : Trace(o) = Trace(r) /\ history[o].unprepared
SettledIsPhysical ==
  \A r \in Runs : run[r].settled # "none" /\ proc = "up" /\ history[r].opened /\ ~EndedForAnother(r) =>
    r \notin leases /\ \A t \in Traces : work[t].of # r

\* Every turn is over on both sides in the end, and never on one side only.
RunsEnd == EveryRunEnds /\ []SettledIsPhysical
=============================================================================
