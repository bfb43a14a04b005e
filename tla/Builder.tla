------------------------------ MODULE Builder ------------------------------
(***************************************************************************)
(* The form builder's draft and its autosave (src/src/frontend/pages/      *)
(* console/Builder/useBuilder.ts): typing, the debounce timer, the two     *)
(* requests of a save, its one silent retry and the button after that.     *)
(*                                                                         *)
(* A draft is how often each of its two parts was edited.  A request that  *)
(* fails may have reached the server or not, but does not reach it later;  *)
(* two requests may reach it in either order.  The load, and a template    *)
(* that is read-only (every control is off), are left out.                 *)
(***************************************************************************)
EXTENDS Naturals

CONSTANTS
  InFlight,  \* the saves that may be under way at a time: one per element
  MaxEdits,  \* bound on the edits of each part
  NoSave

ASSUME MaxEditsAssumption == MaxEdits \in Nat

Parts == {"meta", "questions"}

VARIABLES
  latest,   \* Parts -> the edit the reader sees
  dirty,    \* the parts marked as not saved
  timer,    \* whether the debounce timer is set
  save,     \* what the indicator says
  retried,  \* whether the one silent retry is spent
  alive,    \* whether the page is still mounted
  saves,    \* InFlight -> the save under way there, or NoSave
  server,   \* Parts -> the edit the server holds
  reached   \* Parts -> the newest edit the server ever held

builderVars == <<latest, dirty, timer, save, retried, alive, saves, server, reached>>

Edits == 0..MaxEdits

\* A save under way: the part it is sending now, and whether the server has it.
Saves == [pending : SUBSET Parts, sending : [Parts -> Edits], stage : Parts, applied : BOOLEAN]

ASSUME NoneAssumption == NoSave \notin Saves

Running == {i \in InFlight : saves[i] # NoSave}

BuilderTypeOK ==
  /\ latest \in [Parts -> Edits]
  /\ dirty \in SUBSET Parts
  /\ timer \in BOOLEAN
  /\ save \in {"idle", "dirty", "saving", "saved", "error"}
  /\ retried \in BOOLEAN
  /\ alive \in BOOLEAN
  /\ saves \in [InFlight -> Saves \cup {NoSave}]
  /\ \A i \in Running : saves[i].stage \in saves[i].pending
  /\ server \in [Parts -> Edits]
  /\ reached \in [Parts -> Edits]

BuilderInit ==
  /\ latest = [p \in Parts |-> 0]
  /\ dirty = {}
  /\ timer = FALSE
  /\ save = "idle"
  /\ retried = FALSE
  /\ alive = TRUE
  /\ saves = [i \in InFlight |-> NoSave]
  /\ server = [p \in Parts |-> 0]
  /\ reached = [p \in Parts |-> 0]

-----------------------------------------------------------------------------
(* The page: every step is one callback, run to its first await.           *)

\* touch: an edit marks its part and restarts the debounce.
Touch(p) ==
  /\ alive
  /\ latest[p] < MaxEdits
  /\ latest' = [latest EXCEPT ![p] = @ + 1]
  /\ dirty' = dirty \cup {p}
  /\ save' = "dirty"
  /\ timer' = TRUE
  /\ UNCHANGED <<retried, alive, saves, server, reached>>

\* persist, up to its first request: what is dirty is taken over by the save,
\* and with nothing dirty there is none.
persist(i) ==
  /\ saves[i] = NoSave
  /\ IF dirty = {}
       THEN UNCHANGED <<dirty, save, saves>>
       ELSE /\ saves' = [saves EXCEPT ![i] =
                 [pending |-> dirty, sending |-> latest, applied |-> FALSE,
                  stage |-> IF "meta" \in dirty THEN "meta" ELSE "questions"]]
            /\ dirty' = {}
            /\ save' = "saving"
  /\ timer' = FALSE
  /\ UNCHANGED <<latest, alive, server, reached>>

TimerFires(i) ==
  /\ timer
  /\ persist(i)
  /\ UNCHANGED retried

\* The button, which only the error state shows; the retry is spent in any case.
Flush(i) ==
  /\ alive
  /\ save = "error"
  /\ persist(i)
  /\ retried' = TRUE

GoesOn(r) == r.stage = "meta" /\ "questions" \in r.pending

\* The meta is saved, the questions come next.
SucceedMeta(i) ==
  /\ saves[i] # NoSave
  /\ saves[i].applied
  /\ GoesOn(saves[i])
  /\ saves' = [saves EXCEPT ![i].stage = "questions", ![i].applied = FALSE]
  /\ UNCHANGED <<latest, dirty, timer, save, retried, alive, server, reached>>

\* Mutant: the indicator does not look at what was typed meanwhile.
SucceedBlind(i) ==
  /\ saves[i] # NoSave
  /\ saves[i].applied
  /\ ~GoesOn(saves[i])
  /\ saves' = [saves EXCEPT ![i] = NoSave]
  /\ IF alive
       THEN retried' = FALSE /\ save' = "saved"
       ELSE UNCHANGED <<retried, save>>
  /\ UNCHANGED <<latest, dirty, timer, alive, server, reached>>

\* Everything the save was sent for is saved.
Succeed(i) ==
  /\ saves[i] # NoSave
  /\ saves[i].applied
  /\ ~GoesOn(saves[i])
  /\ saves' = [saves EXCEPT ![i] = NoSave]
  /\ IF alive
       THEN retried' = FALSE /\ save' = IF dirty = {} THEN "saved" ELSE "dirty"
       ELSE UNCHANGED <<retried, save>>
  /\ UNCHANGED <<latest, dirty, timer, alive, server, reached>>

\* Mutant: what the save took over is not marked dirty again.
FailForgets(i) ==
  /\ saves[i] # NoSave
  /\ saves' = [saves EXCEPT ![i] = NoSave]
  /\ IF ~alive
       THEN UNCHANGED <<timer, save, retried>>
       ELSE /\ save' = IF retried THEN "error" ELSE "dirty"
            /\ timer' = (timer \/ ~retried)
            /\ retried' = TRUE
  /\ UNCHANGED <<latest, dirty, alive, server, reached>>

\* Mutant: the silent retry is not scheduled.
FailWithoutRetry(i) ==
  /\ saves[i] # NoSave
  /\ saves' = [saves EXCEPT ![i] = NoSave]
  /\ IF ~alive
       THEN UNCHANGED <<dirty, save, retried>>
       ELSE /\ dirty' = dirty \cup saves[i].pending
            /\ save' = IF retried THEN "error" ELSE "dirty"
            /\ retried' = TRUE
  /\ UNCHANGED <<latest, timer, alive, server, reached>>

\* A request failed, on its way there or back: once it is retried silently, then it is an error.
RequestFails(i) ==
  /\ saves[i] # NoSave
  /\ saves' = [saves EXCEPT ![i] = NoSave]
  /\ IF ~alive
       THEN UNCHANGED <<dirty, timer, save, retried>>
       ELSE /\ dirty' = dirty \cup saves[i].pending
            /\ save' = IF retried THEN "error" ELSE "dirty"
            /\ timer' = (timer \/ ~retried)
            /\ retried' = TRUE
  /\ UNCHANGED <<latest, alive, server, reached>>

\* The page is unmounted: the timer is cleared, requests under way go on.
Leave ==
  /\ alive
  /\ alive' = FALSE
  /\ timer' = FALSE
  /\ UNCHANGED <<latest, dirty, save, retried, saves, server, reached>>

-----------------------------------------------------------------------------
(* The server: updateTemplate and putQuestions, each one transaction.      *)

RequestArrives(i) ==
  LET p == saves[i].stage
      edit == saves[i].sending[p]
  IN
  /\ saves[i] # NoSave
  /\ ~saves[i].applied
  /\ saves' = [saves EXCEPT ![i].applied = TRUE]
  /\ server' = [server EXCEPT ![p] = edit]
  /\ reached' = [reached EXCEPT ![p] = IF edit > @ THEN edit ELSE @]
  /\ UNCHANGED <<latest, dirty, timer, save, retried, alive>>

-----------------------------------------------------------------------------
BuilderNext ==
  \/ \E p \in Parts : Touch(p)
  \/ \E i \in InFlight : TimerFires(i) \/ Flush(i) \/ RequestArrives(i)
                         \/ SucceedMeta(i) \/ Succeed(i) \/ RequestFails(i)
  \/ Leave

BuilderSpec == BuilderInit /\ [][BuilderNext]_builderVars

\* The browser runs the timer, and every request is answered or fails.
Fairness ==
  /\ WF_builderVars(\E i \in InFlight : TimerFires(i))
  /\ \A i \in InFlight :
       WF_builderVars(RequestArrives(i) \/ SucceedMeta(i) \/ Succeed(i) \/ RequestFails(i))

FairSpec == BuilderSpec /\ Fairness

-----------------------------------------------------------------------------
\* An edit that is still somewhere: the server has had it, or it is marked, or it is on its way.
Kept(p) ==
  \/ reached[p] = latest[p]
  \/ p \in dirty
  \/ \E i \in Running : p \in saves[i].pending /\ saves[i].sending[p] = latest[p]

(* "Never discard typed input" while the page is open: not on a failed     *)
(* save, not on a retry, not on a save that lands while the reader is      *)
(* still typing, and whatever the overlap of saves.                        *)
NothingForgotten == alive => \A p \in Parts : Kept(p)

(* The same when the page may be left: nothing is dropped on the way out.  *)
TypedIsKept == \A p \in Parts : Kept(p)

(* The indicator never lies: when it says Saved, the server holds what the *)
(* reader sees.                                                            *)
SavedMeansSaved == save = "saved" /\ alive => server = latest

(* An open page does not stay on Unsaved changes or Saving: the save       *)
(* succeeds, or the reader is told and gets the button.                    *)
Settles == save \in {"dirty", "saving"} ~> save \in {"saved", "error"} \/ ~alive
=============================================================================
