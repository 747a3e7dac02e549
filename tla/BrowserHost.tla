---------------------------- MODULE BrowserHost ----------------------------
(***************************************************************************)
(* The launcher's home page and its manual operations, beside the turn     *)
(* tabs: the rest of src/launcher/electron/browser-host.cjs.               *)
(*                                                                         *)
(* A manual operation holds the home page from withManualOperation's check *)
(* until its finally.  Meanwhile the pages, the account holder and the     *)
(* recovery from a Cloudflare challenge go on.                             *)
(***************************************************************************)
EXTENDS TurnTabs

VARIABLES
  page,           \* what the home view shows: the idle page, ChatGPT, another site, or it loads
  account,        \* whether the partition holds a valid session
  authenticated,  \* state.authenticated
  authView,       \* whether a sign-in page is open
  navigationError, \* authNavigationError
  refreshed,      \* whether the operation has a fresh page of its own
  recovery,       \* cloudflareChallengeRecovery: none, delayed, reloading
  armed,          \* cloudflareChallengeRecoveryArmed
  homeSteps

homeVars == <<page, account, authenticated, authView, navigationError, refreshed, recovery, armed, homeSteps>>
vars == <<tabsVars, homeVars>>

Operations == {"login", "logout", "refresh", "smoke", "verify", "inspect"}
Pages      == {"idle", "chat", "elsewhere", "loading"}

Init ==
  /\ InitTabs
  /\ page = "idle" /\ account \in {scenario.home = 0, TRUE} /\ authenticated = FALSE /\ authView = FALSE
  /\ navigationError = FALSE /\ refreshed = FALSE /\ recovery = "none" /\ armed = TRUE /\ homeSteps = 0

TabsStay == UNCHANGED <<tabVars, leaseVars, externalVars, client, wire, history, scenario>>
Counted  == homeSteps < scenario.home /\ homeSteps' = homeSteps + 1

\* withManualOperation, with openLogin's early return for an account that is signed in
BeginOperation(op) ==
  /\ Counted /\ activeTraces = {} /\ manualOperation = "none"
  /\ op = "login" => ~authenticated
  /\ manualOperation' = op
  /\ refreshed' = (op = "smoke")
  /\ navigationError' = (navigationError /\ op # "login")
  /\ UNCHANGED <<page, account, authenticated, authView, recovery, armed>> /\ TabsStay

Loads == page' = "loading"

\* What each operation does to the page first: refreshChatGptHomeDocument, loadURL or nothing
OperationLoads ==
  /\ manualOperation \in {"login", "logout", "refresh", "verify", "inspect"} /\ ~refreshed
  /\ refreshed' = TRUE
  /\ IF manualOperation \in {"logout", "verify", "inspect"} \/ page # "chat" THEN Loads ELSE UNCHANGED page
  /\ account' = (account /\ manualOperation # "logout")
  /\ authenticated' = (authenticated /\ manualOperation # "logout")
  /\ authView' = (authView /\ manualOperation # "logout")
  /\ UNCHANGED <<navigationError, recovery, armed, manualOperation, homeSteps>> /\ TabsStay

\* bindWebContents: the page finishes loading, or goes to another site, fails or dies
PageArrives ==
  /\ page = "loading" /\ page' \in {"chat", "elsewhere"}
  /\ UNCHANGED <<account, authenticated, authView, navigationError, refreshed, recovery, armed,
                 manualOperation, homeSteps>> /\ TabsStay

\* probeAuthentication: a sign-in page that holds a session closes and the home page reloads
Probe ==
  /\ page # "loading"
  /\ \E checked \in BOOLEAN :
       IF page = "idle" THEN UNCHANGED <<page, authView, authenticated>>
       ELSE /\ authenticated' = (page = "chat" /\ account /\ checked)
            /\ authView' = (authView /\ ~(account /\ checked))
            /\ IF authView /\ ~authView' /\ page # "chat" THEN Loads ELSE UNCHANGED page
  /\ UNCHANGED <<account, navigationError, refreshed, recovery, armed, manualOperation, homeSteps>>
  /\ TabsStay

\* createAuthView, closeAuthView after a failure, and the account holder in it
OpenAuthView ==
  /\ Counted /\ page \in {"chat", "elsewhere"} /\ authView' = TRUE /\ navigationError' = FALSE
  /\ UNCHANGED <<page, account, authenticated, refreshed, recovery, armed, manualOperation>> /\ TabsStay
AuthViewFails ==
  /\ authView /\ authView' = FALSE /\ navigationError' = TRUE
  /\ UNCHANGED <<page, account, authenticated, refreshed, recovery, armed, manualOperation, homeSteps>> /\ TabsStay
CloseAuthView ==
  /\ authView /\ authView' = FALSE
  /\ IF manualOperation = "login" THEN Loads ELSE UNCHANGED page
  /\ UNCHANGED <<account, authenticated, navigationError, refreshed, recovery, armed, manualOperation, homeSteps>>
  /\ TabsStay
SignsIn ==
  /\ Counted /\ ~account /\ account' = TRUE
  /\ authView \/ page = "elsewhere"
  /\ UNCHANGED <<page, authenticated, authView, navigationError, refreshed, recovery, armed, manualOperation>>
  /\ TabsStay

\* An operation succeeds on what it sees, fails, or times out; the finally clears it.
EndOperation ==
  /\ manualOperation # "none" /\ refreshed /\ page # "loading"
  /\ manualOperation' = "none" /\ refreshed' = FALSE
  /\ navigationError' = (navigationError /\ manualOperation # "login")
  /\ \E worked \in BOOLEAN :
       authenticated' = (authenticated \/ (worked /\ account /\ manualOperation \in {"smoke", "verify"}))
  /\ UNCHANGED <<page, account, authView, recovery, armed, homeSteps>> /\ TabsStay

\* reveal and returnToIdle
Reveal ==
  /\ page = "idle" /\ scenario.home > 0 /\ Loads
  /\ UNCHANGED <<homeSteps, account, authenticated, authView, navigationError, refreshed, recovery, armed, manualOperation>>
  /\ TabsStay
ReturnToIdle ==
  /\ manualOperation = "inspect" /\ refreshed /\ page = "chat" /\ page' = "idle"
  /\ UNCHANGED <<homeSteps, account, authenticated, authView, navigationError, refreshed, recovery, armed, manualOperation>>
  /\ TabsStay
\* navigate: a user's reload, refused during a turn or an operation
Navigate ==
  /\ Counted /\ activeTraces = {} /\ manualOperation = "none" /\ page \in {"chat", "elsewhere"} /\ Loads
  /\ UNCHANGED <<account, authenticated, authView, navigationError, refreshed, recovery, armed, manualOperation>>
  /\ TabsStay

\* handleChatGptBackendResponse: an answer that proves the page works, or a challenge
BackendAnswers ==
  /\ Counted /\ page = "chat" /\ armed' = TRUE
  /\ UNCHANGED <<page, account, authenticated, authView, navigationError, refreshed, recovery, manualOperation>>
  /\ TabsStay
Challenged ==
  /\ Counted /\ page = "chat"
  /\ \/ recovery # "none" /\ armed' = FALSE /\ UNCHANGED recovery
     \/ /\ recovery = "none" /\ activeTraces = {} /\ manualOperation = "none" /\ armed
        /\ armed' = FALSE /\ recovery' = "delayed"
  /\ UNCHANGED <<page, account, authenticated, authView, navigationError, refreshed, manualOperation>>
  /\ TabsStay
\* reloadHomeAfterCloudflareChallenge: after its delay, it looks only at the page
RecoveryReloads ==
  /\ recovery = "delayed"
  /\ IF page \in {"chat", "loading"} THEN Loads /\ recovery' = "reloading" ELSE recovery' = "none" /\ UNCHANGED page
  /\ armed' = FALSE
  /\ UNCHANGED <<account, authenticated, authView, navigationError, refreshed, manualOperation, homeSteps>>
  /\ TabsStay
RecoveryEnds ==
  /\ recovery = "reloading" /\ page # "loading" /\ recovery' = "none"
  /\ UNCHANGED <<page, account, authenticated, authView, navigationError, refreshed, armed, manualOperation, homeSteps>>
  /\ TabsStay

HomeNext ==
  \/ \E op \in Operations : BeginOperation(op)
  \/ OperationLoads \/ PageArrives \/ Probe \/ OpenAuthView \/ AuthViewFails \/ CloseAuthView \/ SignsIn
  \/ EndOperation \/ Reveal \/ ReturnToIdle \/ Navigate \/ BackendAnswers \/ Challenged
  \/ RecoveryReloads \/ RecoveryEnds
Next == (TabsNext /\ UNCHANGED homeVars) \/ HomeNext

\* Calls are delivered, the sweep runs, time passes for those who are silent, the daemon
\* answers in the end: what the launcher's timers guarantee.
Fairness ==
  /\ WF_vars(Handle /\ UNCHANGED homeVars)
  /\ WF_vars((\E i \in DOMAIN tabs : Silent(i) /\ Lapses(i)) /\ UNCHANGED homeVars)
  /\ WF_vars((\E i \in DOMAIN tabs : Reap(i)) /\ UNCHANGED homeVars)
  /\ WF_vars((\E c \in cancellations : Reaped(c)) /\ UNCHANGED homeVars)
Spec == Init /\ [][Next]_vars /\ Fairness

-----------------------------------------------------------------------------
(* Properties.                                                             *)

\* The values of the state: at most MAX_BROWSER_TABS tabs.
TypeOK ==
  /\ tabs \in Seq(Tab) /\ Len(tabs) <= scenario.room /\ retained \in Seq(Ids)
  /\ wire \in Seq(Message)
  /\ closedTurnOwners \in [Turns -> Helpers \cup {NoHelper}]
  /\ userCancelledTurnOwners \in [Turns -> Helpers \cup {NoHelper}]
  /\ cancellations \subseteq [id : Ids, trace : Turns, helper : Helpers] /\ failures \in 0 .. scenario.refusals
  /\ external \in [Turns -> Helpers \cup {NoHelper}]
  /\ previews \in SUBSET Turns /\ actions \in SUBSET Turns /\ alive \in SUBSET Helpers
  /\ manualOperation \in Operations \cup {"none"} /\ scenario \in Scenarios
  /\ \A t \in Turns : turn[t].stage \in Stages /\ heard[t] \in {"nothing", "cancelled", "released", "mismatch"}
  /\ page \in Pages /\ recovery \in {"none", "delayed", "reloading"}
  /\ {account, authenticated, authView, navigationError, refreshed, armed} \subseteq BOOLEAN

\* No two pages serve one trace, every retained page waits in the order of its retirement, and
\* no turn runs while a manual operation holds the browser.
OneOwner == \A i, j \in DOMAIN tabs :
  i # j => /\ tabs[i].id # tabs[j].id
           /\ tabs[i].status = "running" /\ tabs[j].status = "running" => tabs[i].trace # tabs[j].trace
RetiredAreKnown == IsInjective(retained) /\
  ToSet(retained) = {tab.id : tab \in {x \in ToSet(tabs) : x.status = "ready"}}
NoTurnDuringOperation == manualOperation # "none" => activeTraces = {}
\* beginTurn throws when a conversation owns several retained pages: only a turn that failed in
\* the daemon while its page went on to complete can leave a second one.
OneRetainedPage == \A k \in Keys :
  Cardinality({i \in DOMAIN tabs : tabs[i].status = "ready" /\ KeyOf[tabs[i].trace] = k}) > 1
    => \E t \in abandoned : KeyOf[t] = k
\* A preview, or an action that waits for its helper, belongs to a turn that is still owned.
PreviewsAreOwned == actions \subseteq previews /\ \A t \in previews : external[t] # NoHelper
Owned == OneOwner /\ RetiredAreKnown /\ NoTurnDuringOperation /\ OneRetainedPage /\ PreviewsAreOwned

\* A helper's end is answered with cancelledByUser exactly when the user closed the page of that
\* attempt while it ran: a death, an expiry or another attempt's closing is never taken for it.
\* (A page that could not be marked and whose attempt was lost answers in place of the retry's.)
Shadowed(t) == \E i \in DOMAIN tabs : tabs[i].trace = t /\ tabs[i].status = "error"
ToldOfUser == \A t \in Turns :
  heard'[t] # heard[t] /\ heard'[t] \in {"cancelled", "released"} /\ ~Shadowed(t) =>
  (heard'[t] = "cancelled" <=> <<t, turn[t].attempts>> \in closedByUser)

\* A running turn keeps its page until its own helper ends it, the page dies or is closed, its
\* lease ran out and the daemon has stopped it, or its helper is gone: never by an eviction, a
\* release, a late call of another helper, or a cancellation that was meant for an earlier owner.
SamePage(i) == \E j \in DOMAIN tabs' :
  /\ tabs'[j].id = tabs[i].id /\ tabs'[j].trace = tabs[i].trace /\ tabs'[j].helper = tabs[i].helper
EndArrives(i) == /\ wire # <<>> /\ wire' = Tail(wire) /\ Head(wire).type = "end"
                 /\ Head(wire).trace = tabs[i].trace /\ Head(wire).helper = tabs[i].helper
Stopped(i) == \E c \in cancellations \ cancellations' :
  c.id = tabs[i].id /\ c.trace = tabs[i].trace /\ c.helper = tabs[i].helper
Closed(i) == wire' = wire /\ cancellations' = cancellations /\ closedTurnOwners'[tabs[i].trace] = tabs[i].helper
RunningTabsAreKept == \A i \in DOMAIN tabs : tabs[i].status = "running" =>
  SamePage(i) \/ EndArrives(i) \/ Stopped(i) \/ Closed(i) \/ tabs[i].helper \notin alive

\* A turn has a page of its own and keeps it, and is told the truth of how it lost it.
TurnsKeepTheirPages == [][Owned' /\ ToldOfUser /\ RunningTabsAreKept]_vars

\* A running page is reclaimed when nobody works on it any more: its start was not heard, its end
\* was not answered, or its helper is gone.
OrphansGo == []<>(\A i \in DOMAIN tabs : ~Silent(i))
=============================================================================
