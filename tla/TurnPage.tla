------------------------------ MODULE TurnPage ------------------------------
(***************************************************************************)
(* One turn on one ChatGPT page, as browser-worker.ts drives it: the       *)
(* temporary chat, the effort control, the connector and the               *)
(* personalization it needs, the prompt chunk by chunk, the messages of a  *)
(* multipart prompt with their acknowledgements, and the polling of the    *)
(* answer with its completion, health and Markdown trackers.               *)
(*                                                                         *)
(* The page is the environment.  It loses, mangles or submits an edit,     *)
(* hides the connector, stalls, and writes, rewrites or stops its answer   *)
(* in at most job.moves moves.  A prompt is a sequence of chunks, an       *)
(* answer one of blocks, a poll of the page one tick of the clocks.        *)
(***************************************************************************)
EXTENDS Integers, Sequences, SequencesExt, Subsequences

CONSTANTS Moves,      \* the most changes of one answer
          Calls,      \* how many tool batches the answer makes
          Settle,     \* polls an answer must stay as it is to be complete
          Grace       \* polls a missing or unfinished answer is waited for

ASSUME PageBounds == {Moves, Calls} \subseteq Nat /\ {Settle, Grace} \subseteq Nat \ {0}

VARIABLES job,     \* what the turn asks for
          turn,    \* where the turn is, and what it has used up
          page,    \* the page's composer, connector, effort and personalization
          sent,    \* the messages ChatGPT received
          answer,  \* the answer to the first of them beyond the baseline
          calls,   \* the tool batches of the answer
          watch    \* the trackers and the Markdown buffer

tvars == <<job, turn, page, sent, answer, calls, watch>>

(***************************************************************************)
(* parts, chunks: messages of the prompt, chunks of each; tools: a mode    *)
(* with the connector; compaction: a compaction prompt; launcher: a page   *)
(* that can be bound again; moves: how often the page changes an answer;   *)
(* slider: the effort control's kind; label: what the personalization      *)
(* control says; needs: the choice that gives access to the connector (2   *)
(* for none).                                                              *)
(***************************************************************************)
Jobs == [parts : 1..2, chunks : 1..2, tools : BOOLEAN, compaction : BOOLEAN, launcher : BOOLEAN, moves : 0..Moves,
         slider : BOOLEAN, label : {"personalized", "unpersonalized", "hidden"}, needs : 0..2]

NoWatch == [missing |-> 0, empty |-> 0, unclosed |-> 0, text |-> <<>>,
            candidate |-> <<>>, since |-> -1, revision |-> 0, base |-> <<0>>, silent |-> 0,
            fence |-> -1, latest |-> <<>>, out |-> <<>>, shown |-> <<0>>]

NoAnswer == [present |-> FALSE, blocks |-> <<>>, running |-> FALSE, action |-> FALSE]

(* A turn that has no page yet.                                            *)
TurnInit ==
  /\ turn = [at |-> "idle", part |-> 1, chunk |-> 1, reuse |-> FALSE, retried |-> FALSE, again |-> job.compaction,
             baseline |-> 0, refresh |-> FALSE, rebinds |-> 0, receipt |-> 2, proven |-> FALSE, outcome |-> "none"]
  /\ page = [composer |-> <<>>, pill |-> FALSE, effort |-> 0, choice |-> 0, listed |-> TRUE]
  /\ sent = <<>>
  /\ answer = NoAnswer
  /\ calls = [made |-> 0, open |-> FALSE, left |-> Calls, moves |-> job.moves]
  /\ watch = NoWatch

Staging == 1
Wanted  == 2
(* Multipart stages are sent in a mode of their own.                       *)
Target == IF turn.part < job.parts THEN Staging ELSE Wanted
Prompt == [i \in 1..job.chunks |-> i]
Final  == turn.part = job.parts

To(where) == turn' = [turn EXCEPT !.at = where]
Ends(outcome) == turn' = [turn EXCEPT !.at = "over", !.outcome = IF @ = "none" THEN outcome ELSE @]
At(where) == turn.at = where
KeepAnswer == UNCHANGED <<sent, answer, calls, watch>>

(* The turn gets its page: a new one goes to the temporary chat, a         *)
(* retained one is at once ready for the effort control.                   *)
Begins(reuse) ==
  /\ At("idle")
  /\ turn' = [turn EXCEPT !.at = IF reuse THEN "effort" ELSE "chat", !.reuse = reuse,
                          !.refresh = job.tools /\ ~reuse /\ job.parts = 1]
  /\ UNCHANGED <<job, page>> /\ KeepAnswer

(* prepareTemporaryChatSurface has a usable composer.                      *)
ChatReady == At("chat") /\ To("effort") /\ UNCHANGED <<job, page>> /\ KeepAnswer

(* The slider is moved one step a key and must follow each; an item is     *)
(* chosen and must confirm itself.                                         *)
SelectEffort ==
  /\ At("effort") /\ page.effort # Target
  /\ LET step == IF ~job.slider THEN Target
                 ELSE IF Target > page.effort THEN page.effort + 1 ELSE page.effort - 1
     IN \E moved \in 0..3 :
          /\ page' = [page EXCEPT !.effort = moved]
          /\ IF moved = step THEN UNCHANGED turn ELSE Ends("failed")
  /\ UNCHANGED job /\ KeepAnswer

EffortSelected ==
  /\ At("effort") /\ page.effort = Target
  /\ turn' = [turn EXCEPT !.at = "attach", !.baseline = Len(sent)]
  /\ UNCHANGED <<job, page>> /\ KeepAnswer

-----------------------------------------------------------------------------
(* The connector: only the last message of a fresh conversation names it.  *)

NeedsConnector == job.tools /\ Final /\ ~turn.reuse

(* The composer is emptied; a connector still chosen is kept.              *)
Attach ==
  /\ At("attach")
  /\ \E kept \in {FALSE, page.pill} :
       /\ page' = [page EXCEPT !.composer = <<>>, !.pill = kept]
       /\ turn' = [turn EXCEPT !.at = IF ~NeedsConnector \/ kept THEN "insert"
                                      ELSE IF job.label = "hidden" THEN "prove"
                                      ELSE IF job.label = "personalized" THEN "rows" ELSE "label",
                               !.chunk = 1, !.retried = FALSE, !.receipt = 2, !.proven = FALSE]
  /\ UNCHANGED job /\ KeepAnswer

(* A labelled control is set to Personalized, choice 1; a change that is   *)
(* not confirmed closes the menu, and only a menu that stays open is an    *)
(* error of its own.                                                       *)
Personalize ==
  /\ At("label")
  /\ \/ page' = [page EXCEPT !.choice = 1] /\ To("rows")
     \/ /\ \E choice \in {0, 1} : page' = [page EXCEPT !.choice = choice]
        /\ \E outcome \in {"failed", "persistent"} : Ends(outcome)
  /\ UNCHANGED job /\ KeepAnswer

HasAccess == page.choice = job.needs

(* The configured connector is looked for in the composer's menu, and the  *)
(* composer emptied again.  Without a proof before the choice was changed  *)
(* the choice is changed; without one after, it is put back.               *)
Prove ==
  /\ At("prove")
  /\ \/ /\ HasAccess
        /\ turn' = [turn EXCEPT !.at = "rows", !.proven = TRUE]
     \/ /\ ~HasAccess
        /\ To(IF turn.receipt = 2 THEN "toggle" ELSE "restore")
     \/ IF turn.receipt = 2 THEN Ends("failed") ELSE To("restore")
     \/ turn.receipt = 2 /\ Ends("persistent")
  /\ UNCHANGED <<job, page>> /\ KeepAnswer

(* toggleChatGptPersonalizationChoice; a failure after the state was read  *)
(* restores it, one before only closes the menu.                           *)
Toggle ==
  /\ At("toggle")
  /\ \/ /\ page' = [page EXCEPT !.choice = 1 - @]
        /\ turn' = [turn EXCEPT !.at = "prove", !.receipt = page.choice]
     \/ /\ \E choice \in {0, 1} : page' = [page EXCEPT !.choice = choice]
        /\ turn' = [turn EXCEPT !.at = "restore", !.receipt = page.choice]
     \/ /\ UNCHANGED page
        /\ \E outcome \in {"failed", "persistent"} : Ends(outcome)
  /\ UNCHANGED job /\ KeepAnswer

(* restoreChatGptPersonalizationChoice reads the state again after it      *)
(* changed it; what it cannot restore within its time is a persistent      *)
(* browser state, which no other error hides.                              *)
Restore ==
  /\ At("restore")
  /\ \/ /\ page' = [page EXCEPT !.choice = turn.receipt]
        /\ \E outcome \in {"failed", "persistent"} : Ends(outcome)
     \/ UNCHANGED page /\ Ends("persistent")
  /\ UNCHANGED job /\ KeepAnswer

(* The row is looked for until the menu's deadline; a catalog that does    *)
(* not list the connector may be read again once, on a new document.       *)
Choose ==
  /\ At("rows")
  /\ \/ /\ page.listed /\ HasAccess
        /\ page' = [page EXCEPT !.pill = TRUE] /\ To("insert")
     \/ /\ ~page.listed /\ turn.refresh
        /\ UNCHANGED page /\ turn' = [turn EXCEPT !.at = "refresh", !.refresh = FALSE]
     \/ UNCHANGED page /\ ~(page.listed /\ HasAccess) /\ Ends("failed")
  /\ UNCHANGED job /\ KeepAnswer

Refresh ==
  /\ At("refresh")
  /\ \E listed \in BOOLEAN :
       page' = [page EXCEPT !.composer = <<>>, !.pill = FALSE, !.choice = 0, !.listed = listed]
  /\ To("attach") /\ UNCHANGED job /\ KeepAnswer

(* Before the turn chooses the connector, the catalog may not list it.     *)
Unlisted ==
  /\ At("chat") /\ job.tools /\ page.listed
  /\ page' = [page EXCEPT !.listed = FALSE]
  /\ UNCHANGED <<job, turn>> /\ KeepAnswer

-----------------------------------------------------------------------------
(* The prompt.                                                             *)

Bad == 0
Message(text, slip) == [text |-> text, effort |-> page.effort, pill |-> page.pill, slip |-> slip]

(* One native edit: committed, lost, mangled, or taken by the page as a    *)
(* message.                                                                *)
Insert ==
  /\ At("insert")
  /\ LET text == Append(page.composer, turn.chunk)
     IN \/ \E now \in {text, page.composer, Append(page.composer, Bad)} :
             page' = [page EXCEPT !.composer = now] /\ UNCHANGED sent
        \/ /\ page' = [page EXCEPT !.composer = <<>>, !.pill = FALSE]
           /\ sent' = Append(sent, Message(text, TRUE))
  /\ To("check")
  /\ UNCHANGED <<job, answer, calls, watch>>

(* A failed edit is repeated once when it provably did nothing.            *)
IsNoop == page.composer = SubSeq(Prompt, 1, turn.chunk - 1)

Check ==
  /\ At("check")
  /\ IF page.composer = SubSeq(Prompt, 1, turn.chunk)
     THEN turn' = [turn EXCEPT !.at = IF turn.chunk = job.chunks THEN "verify" ELSE "insert",
                               !.chunk = IF turn.chunk = job.chunks THEN @ ELSE @ + 1, !.retried = FALSE]
     ELSE IF ~turn.retried /\ IsNoop
     THEN turn' = [turn EXCEPT !.at = "insert", !.retried = TRUE]
     ELSE To("mangled")
  /\ UNCHANGED <<job, page>> /\ KeepAnswer

(* assertPromptAttached reads the whole composer once more.                *)
Verify ==
  /\ At("verify")
  /\ To(IF page.composer = Prompt THEN "send" ELSE "mangled")
  /\ UNCHANGED <<job, page>> /\ KeepAnswer

(* currentSubmissionEvidence, against the baseline of this message.        *)
Submitted == Len(sent) > turn.baseline

(* Mutant: the prompt is attached again although the page shows a message. *)
ReattachSubmitted ==
  /\ At("mangled")
  /\ IF turn.again /\ Final
     THEN /\ page' = [page EXCEPT !.composer = <<>>]
          /\ turn' = [turn EXCEPT !.at = "attach", !.again = FALSE]
     ELSE Ends("failed") /\ UNCHANGED page
  /\ UNCHANGED job /\ KeepAnswer

(* Only a compaction prompt is attached again, once, and never when the    *)
(* page shows a message beyond the baseline.                               *)
Reattach ==
  /\ At("mangled")
  /\ IF turn.again /\ Final /\ ~Submitted
     THEN /\ page' = [page EXCEPT !.composer = <<>>]
          /\ turn' = [turn EXCEPT !.at = "attach", !.again = FALSE]
     ELSE Ends("failed") /\ UNCHANGED page
  /\ UNCHANGED job /\ KeepAnswer

(* Files are attached to the last message; Enter is pressed once.          *)
Send ==
  /\ At("send")
  /\ sent' = Append(sent, Message(page.composer, FALSE))
  /\ page' = [page EXCEPT !.composer = <<>>, !.pill = FALSE]
  /\ answer' = NoAnswer /\ watch' = NoWatch
  /\ turn' = [turn EXCEPT !.at = "accept", !.rebinds = 0]
  /\ calls' = [calls EXCEPT !.moves = job.moves] /\ UNCHANGED job

Accepted ==
  /\ At("accept") /\ Submitted
  /\ turn' = [turn EXCEPT !.at = IF Final THEN "watch" ELSE "ack", !.rebinds = 0]
  /\ UNCHANGED <<job, page>> /\ KeepAnswer

MaxRebinds == 2

(* A poll that gets no answer: a launcher page is bound again at most      *)
(* twice in a row, any other page ends the turn.                           *)
Stall ==
  /\ turn.at \in {"accept", "ack", "watch"} /\ calls.moves > 0
  /\ calls' = [calls EXCEPT !.moves = @ - 1]
  /\ IF job.launcher /\ turn.rebinds < MaxRebinds
     THEN turn' = [turn EXCEPT !.rebinds = @ + 1] /\ watch' = [watch EXCEPT !.missing = 0, !.fence = -1]
     ELSE UNCHANGED watch /\ \E outcome \in {"failed"} \cup (IF job.launcher THEN {} ELSE {"unread"}) : Ends(outcome)
  /\ UNCHANGED <<job, page, sent, answer>>

(* runStage lets the turn fail as soon as a stage's time is over.  The     *)
(* stage's action is only told: it goes on by itself until it looks at its *)
(* signal, and what it throws then nobody hears.                           *)
Stages == {"chat", "effort", "attach", "label", "prove", "toggle", "restore", "rows", "refresh",
           "insert", "check", "verify", "mangled", "send", "accept", "ack"}
TimesOut ==
  /\ turn.at \in Stages /\ turn.outcome = "none"
  /\ turn' = [turn EXCEPT !.outcome = "expired"]
  /\ UNCHANGED <<job, page>> /\ KeepAnswer

Straggles == turn.outcome = "expired" /\ ~At("over")

(* The turn is aborted, the user closes the page, or an action sees that   *)
(* its stage is over: the stages up to the acceptance and the polls throw. *)
(* Inside a change of the personalization the change is taken back first.  *)
Breaks ==
  /\ turn.at \notin {"idle", "over", "toggle", "restore", "label"}
  /\ IF At("prove") /\ turn.receipt # 2 THEN To("restore") ELSE Ends("failed")
  /\ UNCHANGED <<job, page>> /\ KeepAnswer

(* A page that is gone under a change of the personalization: the change   *)
(* cannot be taken back.                                                   *)
Lost ==
  /\ turn.at \in {"label", "toggle", "restore"}
  /\ \E outcome \in (IF At("restore") THEN {"persistent"} ELSE {"failed", "persistent"}) : Ends(outcome)
  /\ UNCHANGED <<job, page>> /\ KeepAnswer

-----------------------------------------------------------------------------
(* The page writes its answer.                                             *)

Answering == turn.at \in {"accept", "ack", "watch"}
Writes(next) ==
  /\ Answering /\ calls.moves > 0 /\ next # answer
  /\ answer' = next /\ calls' = [calls EXCEPT !.moves = @ - 1]
  /\ UNCHANGED <<job, turn, page, sent, watch>>

Write ==
  \/ Writes([answer EXCEPT !.present = TRUE, !.running = TRUE])
  \/ /\ answer.running
     /\ \/ Len(answer.blocks) < 2 /\ Writes([answer EXCEPT !.blocks = Append(@, 1)])
        \/ answer.blocks # <<>> /\ Writes([answer EXCEPT !.blocks[Len(answer.blocks)] = 3 - @])
  \/ Len(answer.blocks) = 2 /\ Writes([answer EXCEPT !.blocks[1] = 3 - @])

Stop ==
  \/ answer.present /\ \E action \in BOOLEAN : Writes([answer EXCEPT !.running = FALSE, !.action = action])
  \/ answer.present /\ Writes([answer EXCEPT !.present = FALSE])

(* A tool batch of the answer starts and ends in Codex.                    *)
Call ==
  /\ At("watch") /\ job.tools /\ calls.left > 0 /\ ~calls.open
  /\ calls' = [calls EXCEPT !.made = @ + 1, !.open = TRUE, !.left = @ - 1]
  /\ UNCHANGED <<job, turn, page, sent, answer, watch>>

CallEnds ==
  /\ calls.open /\ calls' = [calls EXCEPT !.open = FALSE]
  /\ UNCHANGED <<job, turn, page, sent, answer, watch>>

-----------------------------------------------------------------------------
(* The polls.                                                              *)

Text == IF answer.present THEN answer.blocks ELSE <<>>
IsComplete == answer.present /\ ~answer.running /\ Text # <<>> /\ answer.action
Older(age, holds) == IF ~holds THEN 0 ELSE IF age < Grace THEN age + 1 ELSE age

(* Mutant: an answer that is not closed has no clock.                      *)
HealthOpen(w, live) ==
  IF live THEN [w EXCEPT !.missing = 0, !.empty = 0]
  ELSE [w EXCEPT !.missing = Older(@, ~answer.present),
                 !.empty = Older(@, answer.present /\ ~answer.running /\ Text = <<>> /\ answer.action)]

(* ChatGptTurnDomHealthTracker.update: the clocks of an answer that is     *)
(* missing, empty or not closed; live external progress resets them.       *)
Health(w, live) ==
  LET unclosed == answer.present /\ ~answer.running /\ Text # <<>> /\ ~answer.action
  IN IF live THEN [w EXCEPT !.missing = 0, !.empty = 0, !.unclosed = 0]
     ELSE [w EXCEPT !.missing = Older(@, ~answer.present),
                    !.empty = Older(@, answer.present /\ ~answer.running /\ Text = <<>> /\ answer.action),
                    !.unclosed = IF unclosed /\ Text # w.text THEN 1 ELSE Older(@, unclosed),
                    !.text = Text]

IsIll(w) == w.missing = Grace \/ w.empty = Grace \/ w.unclosed = Grace

(* Mutant: the text shown when a batch is noticed may be the answer.       *)
NoticedOnly(w) == [w EXCEPT !.revision = calls.made]

(* ChatGptCompletionTracker.observeToolBatch: the text shown when a batch  *)
(* is noticed is no answer.                                                *)
Noticed(w) == IF calls.made = w.revision THEN w
              ELSE [w EXCEPT !.revision = calls.made, !.base = Text, !.silent = 0, !.since = -1]

(* ChatGptCompletionTracker.update: since = -1 is no candidate.            *)
Judged(w) ==
  IF calls.open THEN [w EXCEPT !.since = -1, !.silent = 0]
  ELSE IF w.base = Text
  THEN [w EXCEPT !.since = -1, !.silent = Older(@, IsComplete)]
  ELSE IF ~IsComplete THEN [w EXCEPT !.since = -1, !.silent = 0]
  ELSE IF w.since = -1 \/ w.candidate # Text THEN [w EXCEPT !.candidate = Text, !.since = 0, !.silent = 0]
  ELSE [w EXCEPT !.since = IF @ < Settle THEN @ + 1 ELSE @, !.silent = 0]

IsReady(w) == w.since = Settle

(* ChatGptMarkdownBuffer.observe: a block that another follows, unchanged  *)
(* since the poll before, is streamed; a mode with tools waits for the end.*)
KeepsPrefix(w) == IsPrefix(w.out, Text)
Streamable(w) == {i \in 1..Len(Text) : \A j \in Len(w.out) + 1..i :
                    j < Len(Text) /\ j < Len(w.latest) /\ Text[j] = w.latest[j]}
Streamed(w) ==
  IF job.tools \/ ~Final THEN [w EXCEPT !.latest = Text]
  ELSE LET n == CHOOSE i \in 0..Len(Text) : /\ i = Len(w.out) \/ i \in Streamable(w)
                                            /\ \A j \in Streamable(w) : j > Len(w.out) => j <= i
                                            /\ i >= Len(w.out)
       IN [w EXCEPT !.out = SubSeq(Text, 1, n), !.latest = Text]

(* External progress is live while a call is open, up to its ceiling.      *)
LiveProgress == {calls.open, FALSE}

(* One poll of the answer to the last message.  Without an answer a live   *)
(* poll only resets the clock.  The fence (see TurnBroker) refuses a commit     *)
(* after a call it had not seen.                                           *)
PollNothing(before, live) ==
  LET w == Health(Noticed(before), live)
  IN watch' = w /\ IF IsIll(w) THEN Ends("failed") ELSE UNCHANGED turn

PollAnswer(before, live) ==
  LET w == Judged(Health(Streamed(Noticed(before)), live))
  IN IF IsIll(w) \/ w.silent = Grace THEN watch' = w /\ Ends("failed")
     ELSE IF ~IsReady(w) THEN watch' = [w EXCEPT !.fence = -1] /\ turn' = [turn EXCEPT !.rebinds = 0]
     ELSE IF job.tools /\ w.fence # calls.made
     THEN /\ watch' = [w EXCEPT !.fence = IF @ = -1 THEN calls.made ELSE -1]
          /\ turn' = [turn EXCEPT !.rebinds = 0]
     ELSE watch' = [w EXCEPT !.out = Text] /\ Ends("ok")

(* shown remembers, for AnswersAreFinal, the text that was there when a    *)
(* batch was noticed.                                                      *)
Poll ==
  /\ At("watch")
  /\ LET before == IF calls.made = watch.revision THEN watch ELSE [watch EXCEPT !.shown = Text]
     IN \E live \in LiveProgress :
          IF ~answer.present THEN PollNothing(before, live)
          ELSE IF KeepsPrefix(watch) THEN PollAnswer(before, live)
          ELSE UNCHANGED watch /\ Ends("failed")
  /\ UNCHANGED <<job, page, sent, answer, calls>>

(* One poll of the acknowledgement of a multipart stage.  An answer that   *)
(* seems ill is looked for once more, and kept if it is the beginning of   *)
(* the acknowledgement, here block 1.                                      *)
Acknowledgement == <<1>>
MayAcknowledge == answer.present /\ IsPrefix(Text, Acknowledgement)

PollStage ==
  /\ At("ack")
  /\ LET ill == Health(watch, FALSE)
         w == Judged([ill EXCEPT !.missing = IF IsIll(ill) THEN 0 ELSE @])
     IN IF IsIll(ill) /\ ~MayAcknowledge THEN watch' = ill /\ Ends("failed")
        ELSE /\ watch' = w
             /\ IF ~IsReady(w) THEN turn' = [turn EXCEPT !.rebinds = IF answer.present THEN 0 ELSE @]
                ELSE IF Text # Acknowledgement THEN Ends("failed")
                ELSE turn' = [turn EXCEPT !.at = "effort", !.part = @ + 1]
  /\ UNCHANGED <<job, page, sent, answer, calls>>

TurnSteps == turn.outcome = "none" /\
  (ChatReady \/ SelectEffort \/ EffortSelected \/ Attach \/ Personalize \/ Prove \/ Toggle \/ Restore
   \/ Choose \/ Refresh \/ Insert \/ Check \/ Verify \/ Reattach \/ Send \/ Accepted \/ Poll \/ PollStage)

(* What the action of a stage that timed out may still do: the effort      *)
(* control and Enter look at no signal, a click or an edit may be on its   *)
(* way, and a personalization is taken back within a time of its own.      *)
(* What else it does is done to the composer of a page nobody reads again. *)
LateSteps == Straggles /\ (SelectEffort \/ Personalize \/ Toggle \/ Restore \/ Insert \/ Send \/ Breaks)
PageSteps == Unlisted \/ Stall \/ Breaks \/ Write \/ Stop \/ Call \/ CallEnds
-----------------------------------------------------------------------------
(* The worker presses Enter at most once for each message of the prompt,   *)
(* in order, on exactly that message, in its mode and with its connector,  *)
(* and sends nothing more when the page itself took an edit as a message.  *)
(* The first edit is the exception: the empty composer it leaves passes    *)
(* for one that nothing happened to, and the prompt is sent again, without *)
(* its connector.                                                          *)
Pressed == Picked(sent, {i \in DOMAIN sent : ~sent[i].slip})
IsMessage(m, i) ==
  /\ m.text = Prompt
  /\ m.effort = IF i < job.parts THEN Staging ELSE Wanted
  /\ m.pill = (job.tools /\ i = job.parts /\ ~turn.reuse) \/ \E j \in DOMAIN sent : sent[j].slip
MessagesAreWhole ==
  /\ Len(Pressed) <= job.parts
  /\ \A i \in DOMAIN Pressed : IsMessage(Pressed[i], i)
  /\ \A i \in DOMAIN sent : sent[i].slip /\ Len(sent[i].text) > 1 => i = Len(sent)
  /\ turn.outcome = "ok" => Len(Pressed) = job.parts

(* A personalization that was changed to prove the connector, and did not  *)
(* prove it, is as it was when the turn fails, or the turn fails with the  *)
(* error that says it is not.  A stage whose time ran out (outcome         *)
(* "expired") is the exception: the turn does not wait for the change to   *)
(* be taken back, its page is closed meanwhile, and the error that says so *)
(* is the one nobody hears.                                                *)
ChoiceIsRestored ==
  turn.outcome \in {"ok", "failed", "unread"} /\ turn.receipt # 2 /\ ~turn.proven => page.choice = turn.receipt

(* What was streamed is a part of what the turn returns; the turn returns  *)
(* no text that was there when the last batch was noticed, and has noticed *)
(* every batch.                                                            *)
AnswersAreFinal ==
  turn.outcome = "ok" =>
    /\ watch.out = answer.blocks /\ watch.out # watch.shown
    /\ watch.revision = calls.made /\ ~calls.open

(* Where a turn waits for ever without the deadline nobody configures: the *)
(* page says it is still answering, a call never ends, or the page shows   *)
(* an answer without text, button or action.                               *)
Waits == /\ At("watch")
         /\ \/ answer.present /\ answer.running
            \/ calls.open
            \/ answer.present /\ Text = <<>> /\ ~answer.action

TurnTypeOK ==
  /\ job \in Jobs
  /\ turn.part \in 1..job.parts /\ turn.chunk \in 1..job.chunks /\ turn.rebinds \in 0..MaxRebinds
  /\ turn.outcome \in {"none", "ok", "failed", "persistent", "unread", "expired"}
  /\ At("over") => turn.outcome # "none"
  /\ ~At("over") => turn.outcome \in {"none", "expired"}
  /\ page.effort \in 0..3 /\ page.choice \in {0, 1} /\ page.composer \in Seq(0..2)
  /\ answer.blocks \in Seq({1, 2}) /\ Len(answer.blocks) <= 2
  /\ watch.since \in -1..Settle /\ {watch.missing, watch.empty, watch.unclosed, watch.silent} \subseteq 0..Grace
  /\ watch.revision <= calls.made /\ calls.made <= Calls
=============================================================================
