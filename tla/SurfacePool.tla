----------------------------- MODULE SurfacePool -----------------------------
(***************************************************************************)
(* The pages of an external browser (RoxyBrowser or the system browser) as *)
(* browser-worker.ts shares them between turns: at most Limit at a time,   *)
(* one retained page per conversation, turns of one conversation one after *)
(* the other, the idle page used longest ago closed for a new conversation,*)
(* and a connection that became suspect given up when one turn is left.    *)
(*                                                                         *)
(* A page has two sides: the tab in the browser, and the handle the worker *)
(* uses it by.  A user closes a tab, a broken connection takes all handles *)
(* at once; both are faults, at most Faults of them.                       *)
(***************************************************************************)
EXTENDS Integers, Sequences, FiniteSets, SequencesExt, Subsequences

CONSTANTS Runs, Keys, NoKey, Limit, Faults

ASSUME PoolBounds == /\ IsFiniteSet(Runs) /\ NoKey \notin Keys
                     /\ Limit \in Nat \ {0} /\ Faults \in Nat

VARIABLES plan,      \* per run: its conversation, whether its page is kept, whether it needs a kept page
          phase,     \* per run: where it is
          slot,      \* per run: the page it needs room for
          tab,       \* per run: its tab, 0 for none
          reused,    \* per run: it continues a retained conversation
          tails,     \* per conversation: the runs in the order they go
          retained,  \* the retained pages, the one used longest ago first
          live,      \* tabs with a handle
          tabs,      \* tabs open in the browser
          opened,    \* how many tabs there have been
          suspect,   \* externalBrowserResetPending
          release,   \* per conversation: releaseRetainedConversation
          faults,    \* faults left
          stuck,     \* tabs that could not be closed, or that lost their place to one
          gone,      \* tabs the user closed or the connection lost
          lost       \* tabs left open without a handle

pvars == <<plan, phase, slot, tab, reused, tails, retained, live, tabs, opened, suspect, release, faults, stuck, gone, lost>>

Plans == [key : Keys \cup {NoKey}, retain : BOOLEAN, require : BOOLEAN]
Open(slotOf) == [state |-> slotOf, key |-> NoKey, tab |-> 0]

(* The turns in asks arrive, the conversations in frees are released.      *)
PoolInit(asks, frees) ==
  /\ phase = [r \in Runs |-> IF r \in asks THEN "idle" ELSE "over"]
  /\ slot = [r \in Runs |-> Open("none")]
  /\ tab = [r \in Runs |-> 0]
  /\ reused = [r \in Runs |-> FALSE]
  /\ tails = [k \in Keys |-> <<>>]
  /\ retained = <<>> /\ live = {} /\ tabs = {} /\ opened = 0
  /\ suspect = FALSE
  /\ release = [k \in Keys |-> Open(IF k \in frees THEN "no" ELSE "done")]
  /\ faults = Faults /\ stuck = {} /\ gone = {} /\ lost = {}

Active == {r \in Runs : phase[r] \notin {"idle", "over"}}
Key(r) == plan[r].key
Retained == {retained[i].key : i \in DOMAIN retained}

(* The map of retained pages keeps the order of insertion; setting a key   *)
(* it has keeps the key's place.                                           *)
PageOf(k) == IF k \in Retained THEN (CHOOSE e \in ToSet(retained) : e.key = k).tab ELSE 0
Without(pages, k) == Picked(pages, {i \in DOMAIN pages : pages[i].key # k})
With(k, t) == IF k \in Retained THEN [i \in DOMAIN retained |-> IF retained[i].key = k THEN [key |-> k, tab |-> t] ELSE retained[i]]
              ELSE Append(retained, [key |-> k, tab |-> t])
Refreshed(k, t) == Append(Without(retained, k), [key |-> k, tab |-> t])

(* A page is closed by its handle; without one the tab stays.              *)
Close(t) == live' = live \ {t} /\ tabs' = (IF t \in live THEN tabs \ {t} ELSE tabs)

(* page.close().catch: what does not close is forgotten all the same, and  *)
(* its tab stays.                                                          *)
Stays(t) ==
  /\ t \in live /\ faults > 0 /\ faults' = faults - 1
  /\ stuck' = stuck \cup {t} /\ UNCHANGED <<live, tabs>>
Closes(t) == (Close(t) /\ UNCHANGED <<faults, stuck>>) \/ Stays(t)

(* Mutant: a turn that ends does not leave the queue of its conversation.  *)
EndedInQueue(r) == phase' = [phase EXCEPT ![r] = "over"] /\ UNCHANGED tails

Ended(r) ==
  /\ phase' = [phase EXCEPT ![r] = "over"]
  /\ tails' = [k \in Keys |-> Picked(tails[k], {i \in DOMAIN tails[k] : tails[k][i] # r})]
Goes(r, where) == phase' = [phase EXCEPT ![r] = where] /\ UNCHANGED tails
IsNext(r) == \A k \in {Key(r)} \ {NoKey} : Head(tails[k]) = r

-----------------------------------------------------------------------------
(* chatGptPhysicalTaskSurfacePlan and the candidate for eviction.          *)

Surfaces(kept) ==
  LET keys == {kept[i].key : i \in DOMAIN kept} \cup {Key(r) : r \in {x \in Active : Key(x) # NoKey}}
  IN [occupied |-> Cardinality(keys) + Cardinality({r \in Active : Key(r) = NoKey}), keys |-> keys]

NeedsSlot(r, kept) == Key(r) = NoKey \/ Key(r) \notin Surfaces(kept).keys

(* Mutant: the page of a conversation at work may be evicted.              *)
EvictableAtWork(r, kept) == {i \in DOMAIN kept : kept[i].key # Key(r)}

Evictable(r, kept) == {i \in DOMAIN kept : kept[i].key \notin {Key(r)} \cup {Key(x) : x \in Active}}
Candidate(r, kept) == kept[CHOOSE i \in Evictable(r, kept) : \A j \in Evictable(r, kept) : i <= j]

(* A turn arrives.  Pages whose handle is gone are forgotten, room is made *)
(* for a new page, and the turn goes behind those of its conversation.  A  *)
(* turn without room is refused; none of its conversation is before it.    *)
Enqueued(r) ==
  /\ phase' = [phase EXCEPT ![r] = "queued"]
  /\ tails' = [k \in Keys |-> IF k = Key(r) THEN Append(tails[k], r) ELSE tails[k]]

RunOwned(r) ==
  /\ phase[r] = "idle"
  /\ LET kept == Picked(retained, {i \in DOMAIN retained : retained[i].tab \in live})
     IN IF ~NeedsSlot(r, kept) \/ Surfaces(kept).occupied < Limit
        THEN Enqueued(r) /\ retained' = kept /\ slot' = [slot EXCEPT ![r].state = "ready"]
        ELSE IF Evictable(r, kept) = {}
        THEN Ended(r) /\ retained' = kept /\ UNCHANGED slot
        ELSE LET idle == Candidate(r, kept)
             IN /\ Enqueued(r) /\ retained' = Without(kept, idle.key)
                /\ slot' = [slot EXCEPT ![r] = [state |-> "closing", key |-> idle.key, tab |-> idle.tab]]
  /\ UNCHANGED <<plan, tab, reused, live, tabs, opened, suspect, release, faults, stuck, gone, lost>>

Evicted(r) ==
  /\ slot[r].state = "closing"
  /\ Close(slot[r].tab)
  /\ slot' = [slot EXCEPT ![r].state = "ready"]
  /\ UNCHANGED <<plan, phase, tab, reused, tails, retained, opened, suspect, release, faults, stuck, gone, lost>>

(* A page that could not be closed is put back, and the turn refused.      *)
EvictionFails(r) ==
  /\ slot[r].state = "closing" /\ slot[r].tab \in live
  /\ faults > 0 /\ faults' = faults - 1
  /\ retained' = With(slot[r].key, slot[r].tab) /\ stuck' = stuck \cup ({slot[r].tab, PageOf(slot[r].key)} \ {0})
  /\ slot' = [slot EXCEPT ![r] = Open("failed")] /\ Ended(r)
  /\ UNCHANGED <<plan, tab, reused, live, tabs, opened, suspect, release, gone, lost>>

-----------------------------------------------------------------------------
(* runBrowserTurn.                                                         *)

Unkept(r) == IF plan[r].require THEN Ended(r) ELSE Goes(r, "fresh")

(* The page of the conversation is looked up, and probed if it has a       *)
(* handle.                                                                 *)
Start(r) ==
  /\ phase[r] = "queued" /\ IsNext(r) /\ slot[r].state = "ready"
  /\ LET t == PageOf(Key(r))
     IN IF t \in live
        THEN tab' = [tab EXCEPT ![r] = t] /\ Goes(r, "probing") /\ UNCHANGED retained
        ELSE UNCHANGED tab /\ Unkept(r) /\ retained' = Without(retained, Key(r))
  /\ UNCHANGED <<plan, slot, reused, live, tabs, opened, suspect, release, faults, stuck, gone, lost>>

Reuse(r) ==
  /\ phase[r] = "probing" /\ tab[r] \in live
  /\ Goes(r, "kept") /\ reused' = [reused EXCEPT ![r] = TRUE]
  /\ retained' = Refreshed(Key(r), tab[r])
  /\ UNCHANGED <<plan, slot, tab, live, tabs, opened, suspect, release, faults, stuck, gone, lost>>

(* A page that does not answer is forgotten and closed.                    *)
Unobservable(r) ==
  /\ phase[r] = "probing"
  /\ \/ tab[r] \notin live /\ UNCHANGED faults
     \/ faults > 0 /\ faults' = faults - 1
  /\ retained' = Without(retained, Key(r)) /\ Goes(r, "dropping")
  /\ UNCHANGED <<plan, slot, tab, reused, live, tabs, opened, suspect, release, stuck, gone, lost>>

Drop(r) ==
  /\ phase[r] = "dropping"
  /\ Closes(tab[r]) /\ tab' = [tab EXCEPT ![r] = 0] /\ Unkept(r)
  /\ UNCHANGED <<plan, slot, reused, retained, opened, suspect, release, gone, lost>>

(* The prompt cannot be made, or the turn is aborted before it has a page: *)
(* a retained page stays as it is.                                         *)
Unprepared(r) ==
  /\ phase[r] \in {"kept", "fresh"}
  /\ Ended(r) /\ tab' = [tab EXCEPT ![r] = 0]
  /\ UNCHANGED <<plan, slot, reused, retained, live, tabs, opened, suspect, release, faults, stuck, gone, lost>>

Continue(r) ==
  /\ phase[r] = "kept" /\ Goes(r, "working")
  /\ UNCHANGED <<plan, slot, tab, reused, retained, live, tabs, opened, suspect, release, faults, stuck, gone, lost>>

(* resetSuspectExternalBrowserConnectionIfSafe: the connection is closed   *)
(* when the turn is the only one; the retained pages are forgotten, their  *)
(* tabs stay.                                                              *)
Resets(r) == suspect /\ Cardinality(Active) <= 1
Connect(r) ==
  /\ phase[r] = "fresh" /\ Goes(r, "connected")
  /\ IF Resets(r)
     THEN suspect' = FALSE /\ retained' = <<>> /\ live' = {} /\ lost' = lost \cup tabs
     ELSE UNCHANGED <<suspect, retained, live, lost>>
  /\ UNCHANGED <<plan, slot, tab, reused, tabs, opened, release, faults, stuck, gone>>

OpenPage(r) ==
  /\ phase[r] = "connected" /\ Goes(r, "working")
  /\ opened' = opened + 1 /\ tab' = [tab EXCEPT ![r] = opened']
  /\ live' = live \cup {opened'} /\ tabs' = tabs \cup {opened'}
  /\ UNCHANGED <<plan, slot, reused, retained, suspect, release, faults, stuck, gone, lost>>

(* No browser, or no page within the stage's time; a page that comes after *)
(* all is closed at once, if it can be.                                    *)
NoPage(r) ==
  /\ phase[r] = "connected" /\ Ended(r)
  /\ \/ UNCHANGED <<live, tabs, opened, faults, stuck>>
     \/ /\ faults > 0 /\ faults' = faults - 1 /\ opened' = opened + 1
        /\ live' = live \cup {opened'} /\ tabs' = tabs \cup {opened'} /\ stuck' = stuck \cup {opened'}
  /\ UNCHANGED <<plan, slot, tab, reused, retained, suspect, release, gone, lost>>

Forgotten(r) == IF Key(r) # NoKey /\ PageOf(Key(r)) = tab[r] THEN Without(retained, Key(r)) ELSE retained

(* The answer is complete: the page is kept for its conversation, or closed.*)
Complete(r) ==
  /\ phase[r] = "working"
  /\ IF plan[r].retain /\ Key(r) # NoKey /\ tab[r] \in live
     THEN /\ retained' = With(Key(r), tab[r])
          /\ Ended(r) /\ tab' = [tab EXCEPT ![r] = 0]
     ELSE retained' = Forgotten(r) /\ Goes(r, "closing") /\ UNCHANGED tab
  /\ UNCHANGED <<plan, slot, reused, live, tabs, opened, suspect, release, faults, stuck, gone, lost>>

(* The turn fails; a page that could not be read makes the connection      *)
(* suspect.                                                                *)
Fail(r, unread) ==
  /\ phase[r] = "working"
  /\ suspect' = (suspect \/ unread)
  /\ retained' = Forgotten(r) /\ Goes(r, "closing")
  /\ UNCHANGED <<plan, slot, tab, reused, live, tabs, opened, release, faults, stuck, gone, lost>>

(* tab[r] goes on naming the page: what the turn started may still run on  *)
(* it (see BrowserWorker).                                                 *)
Closed(r) ==
  /\ phase[r] = "closing"
  /\ Closes(tab[r]) /\ Ended(r)
  /\ UNCHANGED <<plan, slot, tab, reused, retained, opened, suspect, release, gone, lost>>

-----------------------------------------------------------------------------
(* releaseRetainedConversation waits for every run of the conversation.    *)
Release(k) ==
  /\ release[k].state = "no"
  /\ release' = [release EXCEPT ![k].state = "waiting"]
  /\ UNCHANGED <<plan, phase, slot, tab, reused, tails, retained, live, tabs, opened, suspect, faults, stuck, gone, lost>>

ReleasePage(k) ==
  /\ release[k].state = "waiting" /\ tails[k] = <<>>
  /\ retained' = Without(retained, k)
  /\ release' = [release EXCEPT ![k] = IF PageOf(k) \in live THEN [state |-> "closing", key |-> k, tab |-> PageOf(k)]
                                       ELSE Open("done")]
  /\ UNCHANGED <<plan, phase, slot, tab, reused, tails, live, tabs, opened, suspect, faults, stuck, gone, lost>>

Released(k) ==
  /\ release[k].state = "closing"
  /\ Closes(release[k].tab) /\ release' = [release EXCEPT ![k] = Open("done")]
  /\ UNCHANGED <<plan, phase, slot, tab, reused, tails, retained, opened, suspect, gone, lost>>

(* The user closes a tab, or the connection breaks.                        *)
UserCloses(t) ==
  /\ t \in live /\ faults > 0 /\ faults' = faults - 1
  /\ live' = live \ {t} /\ tabs' = tabs \ {t} /\ gone' = gone \cup {t}
  /\ UNCHANGED <<plan, phase, slot, tab, reused, tails, retained, opened, suspect, release, stuck, lost>>

Disconnect ==
  /\ live # {} /\ faults > 0 /\ faults' = faults - 1
  /\ live' = {} /\ gone' = gone \cup live /\ lost' = lost \cup tabs
  /\ UNCHANGED <<plan, phase, slot, tab, reused, tails, retained, tabs, opened, suspect, release, stuck>>

-----------------------------------------------------------------------------
Holding == {r \in Runs : phase[r] \in {"probing", "kept", "working"}}

(* A page a turn works on is that turn's alone: no other turn has it, no   *)
(* eviction, release or reset closes it under the turn.                    *)
PagesAreExclusive ==
  \A r \in Holding :
    /\ tab[r] \in live \cup gone
    /\ \A s \in Holding : s = r \/ tab[s] # tab[r]
    /\ \A s \in Runs : slot[s].state = "closing" => slot[s].tab # tab[r]
    /\ \A k \in Keys : release[k].state = "closing" => release[k].tab # tab[r]

Held == {retained[i].tab : i \in DOMAIN retained} \cup {tab[r] : r \in {x \in Active : tab[x] # 0}}
Closing == {slot[r].tab : r \in {x \in Runs : slot[x].state = "closing"}}
           \cup {release[k].tab : k \in {x \in Keys : release[x].state = "closing"}}

(* The worker holds at most Limit pages, and one more for each eviction    *)
(* that failed: its page is put back although turns of another             *)
(* conversation queue for its place, and although a turn of its own may    *)
(* have a page by then.  Every tab the worker opened is held, is about to  *)
(* be closed, or was lost with its connection, but for the tabs whose own  *)
(* closing failed (or that gave their place to one): at the end of a turn, *)
(* in a release, after a failed probe and of a page that came too late the *)
(* failure is swallowed, and such a tab stays open with nobody to close it.*)
Failed == {r \in Runs : slot[r].state = "failed"}
SurfacesAreCounted ==
  /\ Cardinality(Held) <= Limit + Cardinality(Failed)
  /\ tabs \subseteq Held \cup Closing \cup lost \cup stuck

(* Pages are never shared, never lost sight of and never too many.         *)
PagesAreAccounted == PagesAreExclusive /\ SurfacesAreCounted

(* Every request's turn ends, and every released conversation is released. *)
Settled == Active = {} /\ \A k \in Keys : release[k].state \in {"no", "done"}

PoolTypeOK ==
  /\ plan \in [Runs -> Plans]
  /\ phase \in [Runs -> {"idle", "queued", "probing", "dropping", "kept", "fresh", "connected", "working", "closing", "over"}]
  /\ tab \in [Runs -> 0..opened] /\ reused \in [Runs -> BOOLEAN]
  /\ \A k \in Keys : ToSet(tails[k]) \subseteq {r \in Active : Key(r) = k} /\ IsInjective(tails[k])
  /\ \A i, j \in DOMAIN retained : i # j => retained[i].key # retained[j].key
  /\ live \subseteq tabs /\ tabs \cup gone \cup lost \subseteq 1..opened
=============================================================================
