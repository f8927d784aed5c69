---------------------------- MODULE QualityProfiles ----------------------------
(***************************************************************************)
(* search/quality_profile.py and search/evaluation.py: the search settings *)
(* of a workspace.  Admins edit one draft, measure it with an evaluation   *)
(* run in the background, discard it or put it in force; each request      *)
(* carries the revision of the draft its admin has seen.  A request locks  *)
(* the workspace, the active revision and the draft, and is one step; an   *)
(* evaluation is several, and may be cut off between them.                 *)
(*                                                                         *)
(* The generation settings and the prompts are one value, other: they have *)
(* no evaluator.  Executor receipts keep two executions of one run apart.  *)
(***************************************************************************)
EXTENDS Naturals

CONSTANTS
  Editors,     \* admins of the workspace
  Fields,      \* retrieval settings; 0 is the default of each
  RunIds,      \* evaluation runs
  MaxDrafts,   \* bound: drafts created
  MaxRevisions \* bound: revisions of a draft

ASSUME ProfileAssumption == MaxDrafts \in Nat /\ MaxRevisions \in Nat

VARIABLES
  inForce,   \* the active revision
  draft,     \* the draft, or NoDraft
  drafts,    \* drafts created so far
  viewed,    \* viewed[u]: the draft as u saw it last
  evaluation \* evaluation[r]: the evaluation, or NoRun

profileVars == <<inForce, draft, drafts, viewed, evaluation>>

Settings == [retrieval : [Fields -> {0, 1}], other : {0, 1}]
Defaults == [retrieval |-> [f \in Fields |-> 0], other |-> 0]
Axes == {"retrieval", "other"}

Drafts == [id : 0..MaxDrafts, revision : 0..MaxRevisions, content : Settings,
           axes : SUBSET Axes, verified : BOOLEAN]
NoDraft == [id |-> 0, revision |-> 0, content |-> Defaults, axes |-> {}, verified |-> FALSE]
(* tested: the retrieval settings of the run it was applied with; seen: the *)
(* draft as the admin who applied it had seen it (ghost).                   *)
InForce == [draft : Drafts, verified : BOOLEAN, tested : [Fields -> {0, 1}], seen : Drafts]
Runs == [status : {"none", "pending", "running", "succeeded", "failed"},
         step : {"rest", "measure", "mark"}, draft : 0..MaxDrafts, revision : 0..MaxRevisions,
         config : [Fields -> {0, 1}]]
NoRun == [status |-> "none", step |-> "rest", draft |-> 0, revision |-> 0,
          config |-> Defaults.retrieval]

(* The server's defaults are in force, as verified.                         *)
ProfileInit ==
  /\ inForce = [draft |-> NoDraft, verified |-> TRUE, tested |-> Defaults.retrieval, seen |-> NoDraft]
  /\ draft = NoDraft /\ drafts = 0
  /\ viewed = [u \in Editors |-> NoDraft]
  /\ evaluation = [r \in RunIds |-> NoRun]

-----------------------------------------------------------------------------
View(u) ==
  /\ viewed' = [viewed EXCEPT ![u] = draft]
  /\ UNCHANGED <<inForce, draft, drafts, evaluation>>

(* 409 PROFILE_REVISION_CONFLICT otherwise.                                 *)
UpToDate(u) == viewed[u].revision = draft.revision

(* What an axis differs from is the content in force.                       *)
ChangedAxes(c) ==
  {a \in Axes : \/ a = "retrieval" /\ c.retrieval # inForce.draft.content.retrieval
                \/ a = "other" /\ c.other # inForce.draft.content.other}

(* A save without any change is refused.                                    *)
Save(u, c) ==
  LET next == IF draft = NoDraft THEN drafts + 1 ELSE draft.id IN
  /\ UpToDate(u)
  /\ next <= MaxDrafts /\ draft.revision < MaxRevisions
  /\ ChangedAxes(c) # {}
  /\ draft' = [id |-> next, revision |-> draft.revision + 1, content |-> c,
               axes |-> ChangedAxes(c), verified |-> FALSE]
  /\ drafts' = IF draft = NoDraft THEN next ELSE drafts
  /\ viewed' = [viewed EXCEPT ![u] = draft']
  /\ UNCHANGED <<inForce, evaluation>>

DiscardDraft(u) ==
  /\ draft # NoDraft /\ UpToDate(u)
  /\ draft' = NoDraft
  /\ viewed' = [viewed EXCEPT ![u] = NoDraft]
  /\ evaluation' = [r \in RunIds |->
                      [evaluation[r] EXCEPT !.draft = IF @ = draft.id THEN 0 ELSE @]]
  /\ UNCHANGED <<inForce, drafts>>

(* A draft stores what differs from the defaults; laid over the settings in *)
(* force, it does not take one of those back to its default.                *)
Snapshot ==
  [f \in Fields |-> IF draft.content.retrieval[f] # 0 THEN draft.content.retrieval[f]
                    ELSE inForce.draft.content.retrieval[f]]

Evaluate(u, r) ==
  /\ evaluation[r] = NoRun
  /\ draft # NoDraft /\ UpToDate(u)
  /\ evaluation' =
       [evaluation EXCEPT ![r] = [status |-> "pending", step |-> "rest", draft |-> draft.id,
                                  revision |-> draft.revision, config |-> Snapshot]]
  /\ UNCHANGED <<inForce, draft, drafts, viewed>>

-----------------------------------------------------------------------------
(* Wrong variant of Matches: the draft may have changed since the run.     *)
MatchesDraft(r) ==
  /\ evaluation[r].status = "succeeded"
  /\ evaluation[r].draft = draft.id
  /\ "retrieval" \in draft.axes

(* resolve_verified_evaluation_run; the other axes have no evaluator.       *)
Matches(r) ==
  /\ evaluation[r].status = "succeeded"
  /\ evaluation[r].draft = draft.id /\ evaluation[r].revision = draft.revision
  /\ "retrieval" \in draft.axes

PutInForce(u, verified, tested) ==
  /\ inForce' = [draft |-> draft, verified |-> verified, tested |-> tested, seen |-> viewed[u]]
  /\ draft' = NoDraft
  /\ viewed' = [viewed EXCEPT ![u] = NoDraft]
  /\ UNCHANGED <<drafts, evaluation>>

(* Without a run only with allow_unverified.                                *)
ApplyUnverified(u) ==
  /\ draft # NoDraft /\ UpToDate(u)
  /\ PutInForce(u, FALSE, Defaults.retrieval)

(* With other changes the run still needs allow_unverified.                 *)
ApplyVerified(u, r) ==
  /\ draft # NoDraft /\ UpToDate(u)
  /\ Matches(r)
  /\ PutInForce(u, draft.axes = {"retrieval"}, evaluation[r].config)

-----------------------------------------------------------------------------
(* execute_quality_evaluation_run.                                          *)

StartRun(r) ==
  /\ evaluation[r].status \notin {"none", "succeeded"} /\ evaluation[r].step = "rest"
  /\ evaluation' = [evaluation EXCEPT ![r].status = "running", ![r].step = "measure"]
  /\ UNCHANGED <<inForce, draft, drafts, viewed>>

EndRun(r) ==
  /\ evaluation[r].step = "measure"
  /\ \/ evaluation' = [evaluation EXCEPT ![r].status = "succeeded", ![r].step = "mark"]
     \/ evaluation' = [evaluation EXCEPT ![r].status = "failed", ![r].step = "rest"]
  /\ UNCHANGED <<inForce, draft, drafts, viewed>>

MarkDraft(r) ==
  /\ evaluation[r].step = "mark"
  /\ evaluation' = [evaluation EXCEPT ![r].step = "rest"]
  /\ draft' = IF /\ draft # NoDraft /\ evaluation[r].draft = draft.id
                 /\ evaluation[r].revision = draft.revision
                THEN [draft EXCEPT !.verified = TRUE] ELSE draft
  /\ UNCHANGED <<inForce, drafts, viewed>>

(* The executor dies; its job is released and delivered again.              *)
CutRun(r) ==
  /\ evaluation[r].step # "rest"
  /\ evaluation' = [evaluation EXCEPT ![r].step = "rest"]
  /\ UNCHANGED <<inForce, draft, drafts, viewed>>

ProfileNext ==
  \/ \E u \in Editors :
       \/ View(u) \/ DiscardDraft(u) \/ ApplyUnverified(u)
       \/ \E c \in Settings : Save(u, c)
       \/ \E r \in RunIds : Evaluate(u, r) \/ ApplyVerified(u, r)
  \/ \E r \in RunIds : StartRun(r) \/ EndRun(r) \/ MarkDraft(r) \/ CutRun(r)

ProfileSpec == ProfileInit /\ [][ProfileNext]_profileVars

-----------------------------------------------------------------------------
(* Properties.                                                              *)

ProfileTypeOK ==
  /\ inForce \in InForce
  /\ draft \in Drafts /\ drafts \in 0..MaxDrafts
  /\ viewed \in [Editors -> Drafts]
  /\ evaluation \in [RunIds -> Runs]

(* The run named by a mark or by a revision measured that revision of that  *)
(* draft, in every setting that is not the default.                         *)
Measured(d, config) ==
  \A f \in Fields : d.content.retrieval[f] # 0 => config[f] = d.content.retrieval[f]

(* Whatever edits, evaluations, crashes and replays overlap: settings in    *)
(* force that are called verified, and a draft that is marked so, were      *)
(* measured as they are (in what they override) by a run that succeeded,    *)
(* and contain no change that nothing measures; and what an admin put in    *)
(* force is what that admin had seen, unless the draft was discarded and    *)
(* begun again, which gives out the same revision numbers.                  *)
InForceAsSeen ==
  /\ inForce.verified => Measured(inForce.draft, inForce.tested) /\ "other" \notin inForce.draft.axes
  /\ draft.verified =>
       \E r \in RunIds : /\ evaluation[r].status = "succeeded"
                         /\ evaluation[r].draft = draft.id
                         /\ Measured(draft, evaluation[r].config)
  /\ inForce.seen.id = inForce.draft.id => inForce.seen.content = inForce.draft.content

=============================================================================
