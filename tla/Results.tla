------------------------------ MODULE Results ------------------------------
(***************************************************************************)
(* What may be read of the responses, and the anonymity threshold in front *)
(* of it (src/src/backend/features/results/service.ts, home/service.ts):   *)
(* below K_ANON_THRESHOLD responses nothing at all is shown.               *)
(*                                                                         *)
(* Three shapes of read share the threshold and apply it differently.  A   *)
(* page is one campaign, perhaps one slice of it, counted as it will be    *)
(* shown (readResults, readResponses, exportResults).  Comments come from  *)
(* every campaign that passes by itself (readComments, the home page).  A  *)
(* corpus passes twice, by campaign and then as the slice asked for        *)
(* (readCorpus).  Every read counts in one query and fetches in a later    *)
(* one.  A response is a count of its cell; dates, paging, the arithmetic  *)
(* of a summary and a campaign with no subjects are left out.              *)
(***************************************************************************)
EXTENDS Naturals, FiniteSets

CONSTANTS
  Campaigns, Subjects, Units,
  Of,            \* Campaigns -> its subjects
  Below,         \* Units -> the units of its subtree, itself included (unitSubtree)
  FirstResponses, \* Cells -> how many responses there are to begin with
  FirstUnit,     \* Subjects -> the unit each starts in, or None
  Organisation,  \* the subject that is the organisation itself, or None
  Readers,       \* requests that read
  Sees,          \* Readers -> the units the reader's grants reach (visibleUnits)
  SeesAll,       \* the readers they let see everything (visibility.all)
  Threshold,     \* K_ANON_THRESHOLD
  None,
  MaxResponses, MaxChanges  \* bounds: responses in all, changes made to a subject

Cells == {cell \in Campaigns \X Subjects : cell[2] \in Of[cell[1]]}

ASSUME ResultsAssumption ==
  /\ IsFiniteSet(Campaigns) /\ IsFiniteSet(Subjects)
  /\ Of \in [Campaigns -> (SUBSET Subjects) \ {{}}]
  /\ Below \in [Units -> SUBSET Units]
  /\ FirstUnit \in [Subjects -> Units \cup {None}]
  /\ Sees \in [Readers -> SUBSET Units]
  /\ SeesAll \subseteq Readers
  /\ FirstResponses \in [Cells -> 0..MaxResponses]
  /\ Threshold \in Nat \ {0}
  /\ MaxResponses \in Nat /\ MaxChanges \in Nat
  /\ None \notin Units \cup Subjects \cup {"page", "comments", "corpus"}

VARIABLES
  responses,  \* Cells -> how many there are
  unitOf,     \* Subjects -> the unit it is in now
  changes,    \* how often a subject has been changed
  read        \* Readers -> the read: its shape, how far it is, the campaigns and subjects it is
              \*   about, the unit it filters by; history: a subject has moved since it counted

resultsVars == <<responses, unitOf, changes, read>>

NoRead == [shape |-> None, stage |-> "idle", campaigns |-> {}, slice |-> {}, unit |-> None,
           moved |-> FALSE]

ResultsTypeOK ==
  /\ responses \in [Cells -> 0..MaxResponses]
  /\ unitOf \in [Subjects -> Units \cup {None}]
  /\ changes \in 0..MaxChanges
  /\ read \in [Readers ->
       [shape : {"page", "comments", "corpus", None},
        stage : {"idle", "asked", "readable", "counted", "shown"},
        campaigns : SUBSET Campaigns, slice : SUBSET Subjects, unit : Units \cup {None},
        moved : BOOLEAN]]

ResultsInit ==
  /\ responses = FirstResponses
  /\ unitOf = FirstUnit
  /\ changes = 0
  /\ read = [r \in Readers |-> NoRead]

-----------------------------------------------------------------------------
\* The responses of a cell are numbered from 1.
Count(cells) ==
  Cardinality({one \in cells \X (1..MaxResponses) : one[2] <= responses[one[1]]})

CellsOf(C, S) == {cell \in Cells : cell[1] \in C /\ cell[2] \in S}

inUnit(u) == {s \in Subjects : unitOf[s] # None /\ unitOf[s] \in Below[u]}

\* The rows a read selects now: subjects in hand stay, a unit is looked up in every query.
Rows(r) == CellsOf(read[r].campaigns,
                   IF read[r].unit = None THEN read[r].slice ELSE inUnit(read[r].unit))

\* A campaign has no unit of its own: it is reached through those of its subjects, and
\* by whoever sees everything also when none of them is in one.
campaignInScope(c, r) ==
  \/ r \in SeesAll
  \/ \E s \in Of[c] : unitOf[s] \in Sees[r] \/ (unitOf[s] = None /\ s = Organisation)

\* Mutant: the campaigns are counted together.
readableCampaignsMerged(C) == IF Count(CellsOf(C, Subjects)) >= Threshold THEN C ELSE {}

readableCampaigns(C) == {c \in C : Count(CellsOf({c}, Subjects)) >= Threshold}

Stop(r) == read' = [read EXCEPT ![r] = NoRead]

-----------------------------------------------------------------------------
(* Asking: the campaigns in scope, and the filter.                         *)

\* One campaign, whole or narrowed to a subject or to the subjects now in a unit
\* (assertVisible, filterSubjects): the subjects are settled here.
AskPage(r, c) ==
  /\ read[r].stage = "idle"
  /\ campaignInScope(c, r)
  /\ \E S \in {Of[c]} \cup {{s} : s \in Of[c]} \cup {Of[c] \cap inUnit(u) : u \in Units} :
       read' = [read EXCEPT ![r] = [NoRead EXCEPT !.shape = "page", !.stage = "asked",
                                                  !.campaigns = {c}, !.slice = S]]
  /\ UNCHANGED <<responses, unitOf, changes>>

\* Every campaign in scope, or one asked for by id.  Comments are
\* narrowed by a subject, a corpus by a subject or a unit.
AskMany(r, shape) ==
  /\ read[r].stage = "idle"
  /\ \E C \in {Campaigns} \cup {{c} : c \in Campaigns} :
     \E S \in {Subjects} \cup {{s} : s \in Subjects} :
     \E u \in {None} \cup IF shape = "corpus" /\ S = Subjects THEN Units ELSE {} :
       LET visible == {c \in C : campaignInScope(c, r)} IN
       /\ visible # {}
       /\ read' = [read EXCEPT ![r] = [NoRead EXCEPT !.shape = shape, !.stage = "asked",
                                        !.campaigns = visible, !.slice = S, !.unit = u]]
  /\ UNCHANGED <<responses, unitOf, changes>>

-----------------------------------------------------------------------------
(* The gates and the rows.                                                 *)

GateCampaigns(r) ==
  LET open == readableCampaigns(read[r].campaigns) IN
  /\ read[r].stage = "asked"
  /\ read[r].shape # "page"
  /\ IF open = {} THEN Stop(r)
     ELSE read' = [read EXCEPT ![r].campaigns = open,
            ![r].stage = IF read[r].shape = "corpus" THEN "readable" ELSE "counted"]
  /\ UNCHANGED <<responses, unitOf, changes>>

\* Mutant: a filtered page is counted over the whole campaign.
GateSliceWhole(r) ==
  /\ <<read[r].shape, read[r].stage>> \in {<<"page", "asked">>, <<"corpus", "readable">>}
  /\ IF Count(CellsOf(read[r].campaigns, Subjects)) < Threshold THEN Stop(r)
     ELSE read' = [read EXCEPT ![r].stage = "counted"]
  /\ UNCHANGED <<responses, unitOf, changes>>

GateSlice(r) ==
  /\ <<read[r].shape, read[r].stage>> \in {<<"page", "asked">>, <<"corpus", "readable">>}
  /\ IF Count(Rows(r)) < Threshold THEN Stop(r) ELSE read' = [read EXCEPT ![r].stage = "counted"]
  /\ UNCHANGED <<responses, unitOf, changes>>

\* The rows as they are when they are fetched: what is shown is its cells.
Show(r) ==
  /\ read[r].stage = "counted"
  /\ read' = [read EXCEPT ![r].stage = "shown", ![r].unit = None,
                          ![r].slice = {cell[2] : cell \in Rows(r)}]
  /\ UNCHANGED <<responses, unitOf, changes>>

Leave(r) ==
  /\ read[r].stage = "shown"
  /\ Stop(r)
  /\ UNCHANGED <<responses, unitOf, changes>>

-----------------------------------------------------------------------------
(* What happens meanwhile.                                                 *)

\* submitResponse; nothing deletes a response.
Respond(cell) ==
  /\ Count(Cells) < MaxResponses
  /\ responses' = [responses EXCEPT ![cell] = @ + 1]
  /\ UNCHANGED <<unitOf, changes, read>>

\* updateSubject with a unitId: null takes it out of every unit.
MoveSubject(s, u) ==
  /\ changes < MaxChanges
  /\ s # Organisation
  /\ unitOf[s] # u
  /\ unitOf' = [unitOf EXCEPT ![s] = u]
  /\ changes' = changes + 1
  /\ read' = [r \in Readers |->
       IF read[r].stage = "counted" /\ read[r].unit # None
         THEN [read[r] EXCEPT !.moved = TRUE] ELSE read[r]]
  /\ UNCHANGED responses

ResultsNext ==
  \/ \E r \in Readers :
       \/ \E c \in Campaigns : AskPage(r, c)
       \/ \E shape \in {"comments", "corpus"} : AskMany(r, shape)
       \/ GateCampaigns(r) \/ GateSlice(r) \/ Show(r) \/ Leave(r)
  \/ \E cell \in Cells : Respond(cell)
  \/ \E s \in Subjects, u \in Units \cup {None} : MoveSubject(s, u)

ResultsSpec == ResultsInit /\ [][ResultsNext]_resultsVars

-----------------------------------------------------------------------------
(* The threshold in front of everything read (results/service.ts:55): no   *)
(* campaign below it contributes to what is shown, however campaigns are   *)
(* merged, and a page or a corpus that is a slice holds at least as many   *)
(* responses itself.  A corpus of a unit is let off when a subject moved   *)
(* between its count and its rows: the unit is looked up again.            *)
GateHolds ==
  \A r \in Readers : read[r].stage = "shown" =>
    /\ \A c \in read[r].campaigns : Count(CellsOf({c}, Subjects)) >= Threshold
    /\ read[r].shape # "comments" /\ ~read[r].moved => Count(Rows(r)) >= Threshold

(* The same without the exception: a comment of readCorpus says that the   *)
(* second gate decides whether the slice is big enough to be safe.         *)
SliceHolds ==
  \A r \in Readers : read[r].stage = "shown" /\ read[r].shape = "corpus" =>
    Count(Rows(r)) >= Threshold

=============================================================================
