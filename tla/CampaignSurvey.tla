--------------------------- MODULE CampaignSurvey ---------------------------
(***************************************************************************)
(* What a campaign promises to the people who answer it and to those who   *)
(* read its results, with no tokens, dates, rows or transactions: who may  *)
(* hold a form, and whose ballot counts.                                   *)
(***************************************************************************)
EXTENDS Naturals, FiniteSets

CONSTANTS Respondents, Members, MemberOf, None

VARIABLES
  phase,   \* "draft", "live" or "shut"
  access,  \* "public" or "organization"
  inHand,  \* the respondents who hold a form
  cast     \* the respondents whose ballot counts

vars == <<phase, access, inHand, cast>>

Voted == {MemberOf[r] : r \in cast}

Init ==
  /\ \/ phase = "draft" /\ access \in {"public", "organization"}
     \/ phase = "live" /\ access = "public"
  /\ inHand = {}
  /\ cast = {}

\* Who gets in can be reconsidered until the campaign is launched.
Reconsider ==
  /\ phase = "draft"
  /\ access' \in {"public", "organization"}
  /\ UNCHANGED <<phase, inHand, cast>>

Launch ==
  /\ phase = "draft"
  /\ phase' = "live"
  /\ UNCHANGED <<access, inHand, cast>>

Shut ==
  /\ phase = "live"
  /\ phase' = "shut"
  /\ UNCHANGED <<access, inHand, cast>>

\* Forms are handed out only while the campaign is live, and only to those who get in.
HandOut(r) ==
  /\ phase = "live" /\ r \notin inHand \cup cast
  /\ access = "organization" => MemberOf[r] # None
  /\ inHand' = inHand \cup {r}
  /\ UNCHANGED <<phase, access, cast>>

\* A form handed out in time still counts, once for each member.
Cast(r) ==
  /\ r \in inHand
  /\ access = "organization" => MemberOf[r] \notin Voted
  /\ cast' = cast \cup {r}
  /\ inHand' = inHand \ {r}
  /\ UNCHANGED <<phase, access>>

Discard(r) ==
  /\ r \in inHand
  /\ inHand' = inHand \ {r}
  /\ UNCHANGED <<phase, access, cast>>

Next ==
  \/ Reconsider \/ Launch \/ Shut
  \/ \E r \in Respondents : HandOut(r) \/ Cast(r) \/ Discard(r)

Spec == Init /\ [][Next]_vars
=============================================================================
