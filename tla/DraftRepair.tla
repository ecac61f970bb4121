---------------------------- MODULE DraftRepair -----------------------------
(***************************************************************************)
(* Draft pull requests from a proposed patch: the worker's llm.enhance and *)
(* repair.draft_pr jobs of one analysis.  A job runs again from the        *)
(* beginning when it fails or its worker dies, two jobs may run side by    *)
(* side, every call of GitHub may fail before or after its effect, and     *)
(* somebody may push to a repair branch.                                   *)
(***************************************************************************)
EXTENDS Faults, FiniteSets

CONSTANTS
    Workers,       \* the jobs of the analysis, each with its worker
    Patches,       \* the patches the model may propose
    Paths,         \* the files a patch changes
    NewPaths,      \* those of them that it adds
    MaxJobRuns,    \* how often a job is started, a bound
    MaxPushes      \* how often somebody else pushes, a bound

VARIABLES
    jobs,          \* of each worker: the kind of its job, where it is and what it holds
    proposal,      \* the stored enhancement: a patch, or no patch yet
    result,        \* the stored repair result
    notices,       \* how many notifications of a draft were queued
    branch,        \* of each patch: what its branch holds at each path, or no branch
    pulls,         \* the patches whose branch has a pull request
    pushed         \* what somebody else pushed: pairs of a patch and a path

draftVars == <<jobs, proposal, result, notices, branch, pulls, pushed>>

NoPatch == "none"
ASSUME DraftAssumption == NewPaths \subseteq Paths /\ NoPatch \notin Patches

NoBranch == [p \in Paths |-> "absent"]
Untouched == [p \in Paths |-> IF p \in NewPaths THEN "missing" ELSE "old"]
Idle(kind) == [kind |-> kind, at |-> "idle", runs |-> 0, patch |-> NoPatch, left |-> {}, file |-> "none"]

DraftInit(kinds) ==
    /\ jobs = [w \in Workers |-> Idle(kinds[w])]
    /\ proposal = NoPatch
    /\ result = "none"
    /\ notices = 0
    /\ branch = [c \in Patches |-> NoBranch]
    /\ pulls = {}
    /\ pushed = {}

-----------------------------------------------------------------------------
At(w, step) == jobs[w].at = step
Turns(w, step) ==
    jobs' = [jobs EXCEPT ![w] =
        IF step \in {"idle", "done"} THEN [Idle(jobs[w].kind) EXCEPT !.at = step, !.runs = jobs[w].runs]
        ELSE [jobs[w] EXCEPT !.at = step]]

(* What a failure anywhere means: the automatic path logs it and its job is
   done, the explicit one fails and is tried again.  Before that the failure
   is stored as the result. *)
Fails(w) == Turns(w, "refused")

GitHubIs == UNCHANGED <<branch, pulls, pushed>>
StoreIs == UNCHANGED <<proposal, result, notices>>

-----------------------------------------------------------------------------
(* The two ways in *)

Begins(w, patch, step) ==
    jobs' = [jobs EXCEPT ![w] = [jobs[w] EXCEPT !.runs = jobs[w].runs + 1, !.patch = patch, !.at = step]]

(* The model is asked unless the stored proposal answers the same prompt; the
   context it is asked with may differ, and so the patch.  An answer without a
   usable patch is stored too and ends the automatic path. *)
Enhance(w) ==
    /\ At(w, "idle") /\ jobs[w].kind = "auto" /\ jobs[w].runs < MaxJobRuns
    /\ \/ \E c \in Patches \cup {NoPatch} :
            /\ proposal' = c /\ Fine
            /\ Begins(w, c, IF c = NoPatch THEN "done" ELSE "look")
       \/ Fault /\ proposal' \in Patches \cup {proposal} /\ Begins(w, NoPatch, "idle")
    /\ UNCHANGED <<result, notices>> /\ GitHubIs

(* An enhancement asked for through the API replaces the stored one.  Nothing
   else reads it in between, so it is part of the step that reads it next. *)
CreateEnhancement == proposal' \in Patches \cup {NoPatch}

(* A request for a draft is only queued when there is a patch, *)
Requested(w) == jobs[w].runs > 0 \/ proposal' # NoPatch

(* and its job fails when there is none any more. *)
ReadProposal(w) ==
    /\ At(w, "idle") /\ jobs[w].kind = "explicit" /\ jobs[w].runs < MaxJobRuns
    /\ CreateEnhancement \/ UNCHANGED proposal
    /\ Requested(w)
    /\ Begins(w, proposal', IF proposal' = NoPatch THEN "idle" ELSE "look")
    /\ Fine /\ UNCHANGED <<result, notices>> /\ GitHubIs

(* A draft made before is only announced again. *)
FindResult(w) ==
    /\ At(w, "look")
    /\ \/ Fine /\ Turns(w, IF result = "created" THEN "announce" ELSE "findPull")
       \/ Fault /\ Turns(w, IF jobs[w].kind = "auto" THEN "done" ELSE "idle")
    /\ StoreIs /\ GitHubIs

-----------------------------------------------------------------------------
(* The draft at GitHub.  The branch is named after the analysis and the patch. *)

Mine(w) == branch[jobs[w].patch]
HasPull(w) == jobs[w].patch \in pulls

(* Reads the files at the failing commit and looks for a pull request of the
   branch, of any state. *)
FindPull(w) ==
    /\ At(w, "findPull")
    /\ \/ Fine /\ Turns(w, IF HasPull(w) THEN "created" ELSE "branch")
       \/ Fault /\ Fails(w)
    /\ StoreIs /\ GitHubIs

(* A branch that is there is taken as it is. *)
CreateBranch(w) ==
    /\ At(w, "branch")
    /\ LET c == jobs[w].patch
           there == Mine(w) # NoBranch
           made == [branch EXCEPT ![c] = Untouched]
           goOn == jobs' = [jobs EXCEPT ![w] = [jobs[w] EXCEPT !.at = "file", !.left = Paths]] IN
       \/ there /\ Fine /\ goOn /\ UNCHANGED branch
       \/ ~there /\ Fine /\ goOn /\ branch' = made
       \/ ~there /\ Fault /\ goOn /\ branch' = made      \* an error, and yet it is there
       \/ Fault /\ Fails(w) /\ branch' \in {branch, IF there THEN branch ELSE made}
    /\ StoreIs /\ UNCHANGED <<pulls, pushed>>

Expected(p) == IF p \in NewPaths THEN "missing" ELSE "old"

(* What the branch holds at the next file: the new content is skipped, what
   the plan started from is replaced, anything else is a divergence. *)
ReadFile(w, p) ==
    /\ At(w, "file") /\ p \in jobs[w].left
    /\ LET now == Mine(w)[p] IN
       \/ Fine /\ IF now = "new" THEN jobs' = [jobs EXCEPT ![w] = [jobs[w] EXCEPT !.left = jobs[w].left \ {p}]]
                  ELSE IF now = Expected(p)
                  THEN jobs' = [jobs EXCEPT ![w] = [jobs[w] EXCEPT !.at = "put", !.left = jobs[w].left \ {p}, !.file = p]]
                  ELSE Fails(w)
       \/ Fault /\ Fails(w)
    /\ StoreIs /\ GitHubIs

(* Mutant: the file is written over whatever is there. *)
PutFile_Blind(w) ==
    /\ At(w, "put")
    /\ LET put == [branch EXCEPT ![jobs[w].patch][jobs[w].file] = "new"] IN
       \/ Fine /\ Turns(w, "file") /\ branch' = put
       \/ Fault /\ Fails(w) /\ branch' \in {branch, put}
    /\ StoreIs /\ UNCHANGED <<pulls, pushed>>

(* GitHub refuses a write whose SHA is not the one of the file as it is.
   After an error the file is read again. *)
PutFile(w) ==
    /\ At(w, "put")
    /\ LET p == jobs[w].file
           taken == Mine(w)[p] = Expected(p)
           put == [branch EXCEPT ![jobs[w].patch][p] = "new"] IN
       \/ taken /\ (Fine \/ Fault) /\ Turns(w, "file") /\ branch' = put
       \/ ~taken /\ Fine /\ UNCHANGED branch
          /\ IF Mine(w)[p] = "new" THEN Turns(w, "file") ELSE Fails(w)
       \/ Fault /\ Fails(w) /\ branch' \in {branch, IF taken THEN put ELSE branch}
    /\ StoreIs /\ UNCHANGED <<pulls, pushed>>

FindPullAgain(w) ==
    /\ At(w, "file") /\ jobs[w].left = {}
    /\ \/ Fine /\ Turns(w, IF HasPull(w) THEN "created" ELSE "open")
       \/ Fault /\ Fails(w)
    /\ StoreIs /\ GitHubIs

(* GitHub keeps one pull request per branch: a second is refused, and the
   first is found after the error. *)
OpenPull(w) ==
    /\ At(w, "open")
    /\ \/ (Fine \/ Fault) /\ Turns(w, "created") /\ pulls' = pulls \cup {jobs[w].patch}
       \/ Fault /\ Fails(w) /\ pulls' \in {pulls, pulls \cup {jobs[w].patch}}
    /\ StoreIs /\ UNCHANGED <<branch, pushed>>

-----------------------------------------------------------------------------
(* What is kept of it *)

AfterFailure(w) == IF jobs[w].kind = "auto" THEN "done" ELSE "idle"

(* An error of storing joins the error of the job; the draft is announced
   all the same. *)
StoreResult(w) ==
    /\ At(w, "created") \/ At(w, "refused")
    /\ LET status == IF At(w, "created") THEN "created" ELSE "failed"
           next == IF At(w, "created") THEN "announce" ELSE AfterFailure(w)
           unstored == IF At(w, "created") THEN "announceUnstored" ELSE AfterFailure(w) IN
       \/ result' = status /\ Fine /\ Turns(w, next)
       \/ result' \in {result, status} /\ Fault /\ Turns(w, unstored)
    /\ UNCHANGED <<proposal, notices>> /\ GitHubIs

Announce(w) ==
    /\ At(w, "announce") \/ At(w, "announceUnstored")
    /\ \/ notices' = notices + 1 /\ Fine
          /\ Turns(w, IF At(w, "announce") THEN "done" ELSE AfterFailure(w))
       \/ Fault /\ notices' \in {notices, notices + 1} /\ Turns(w, AfterFailure(w))
    /\ UNCHANGED <<proposal, result>> /\ GitHubIs

-----------------------------------------------------------------------------
(* The worker dies; the job is taken up again from its beginning. *)
WorkerDies(w) ==
    /\ ~At(w, "idle") /\ ~At(w, "done")
    /\ Fault /\ Turns(w, "idle") /\ StoreIs /\ GitHubIs

(* Somebody else pushes to a repair branch. *)
Push(c, p) ==
    /\ branch[c] # NoBranch /\ Cardinality(pushed) < MaxPushes
    /\ branch' = [branch EXCEPT ![c][p] = "other"]
    /\ pushed' = pushed \cup {<<c, p>>}
    /\ UNCHANGED <<jobs, pulls, faults>> /\ StoreIs

DraftStep ==
    \/ \E w \in Workers :
          \/ Enhance(w) \/ ReadProposal(w) \/ FindResult(w) \/ FindPull(w) \/ CreateBranch(w)
          \/ (\E p \in Paths : ReadFile(w, p)) \/ PutFile(w) \/ FindPullAgain(w) \/ OpenPull(w)
          \/ StoreResult(w) \/ Announce(w) \/ WorkerDies(w)
    \/ \E c \in Patches, p \in Paths : Push(c, p)

-----------------------------------------------------------------------------

(* A draft is whole: the branch of a pull request holds every file of its
   patch, but for what somebody else pushed, and no push is ever overwritten,
   whatever failed and however the jobs overlapped.  A result that says a draft
   was created is about a pull request that exists, and a request for a draft
   that is done has a pull request and was announced. *)
DraftWhole ==
    /\ \A c \in pulls, p \in Paths : branch[c][p] = "new" \/ <<c, p>> \in pushed
    /\ \A x \in pushed : branch[x[1]][x[2]] = "other"
    /\ result = "created" => pulls # {}
    /\ \A w \in Workers : At(w, "done") /\ jobs[w].kind = "explicit" => pulls # {} /\ notices > 0
=============================================================================
