------------------------- MODULE RemediationProofs -------------------------
(***************************************************************************)
(* Proofs about module Remediation: a log stays within its limit, a draft  *)
(* is whole, a plan is applied whole or not at all, and what happens       *)
(* outside agrees with the records of it; for any limits, patches, paths,  *)
(* files and teams, any number of jobs, handlers and faults.               *)
(***************************************************************************)
EXTENDS Remediation, FiniteSetTheorems, TLAPS

-----------------------------------------------------------------------------
(* LogFetch *)

FetchRecord ==
    [kind: Kinds, limit: Nat \ {0}, pieces: Nat, got: Nat, asked: SUBSET (Nat \ {0}),
     outcome: {"pending", "log", "error"}]

(* While the fetch goes on there is something left to ask for. *)
LogInv ==
    /\ fetch \in FetchRecord
    /\ fetch.got <= IF fetch.kind = "wrapped" THEN 3 * fetch.limit ELSE fetch.limit
    /\ Pending => fetch.got < fetch.limit

FaultsOK == faults \in Nat

LEMMA LogStart ==
  ASSUME LogInit \/ fetch = NoLog
  PROVE  LogInv
  BY LogAssumption DEF LogInit, NoLog, LogInv, FetchRecord, Kinds, Pending

LEMMA FetchBytesFacts ==
  ASSUME NEW size \in Nat, NEW limit \in Nat
  PROVE  FetchBytes(size, limit) \in Nat /\ (limit > 0 => FetchBytes(size, limit) <= limit)
  BY LogAssumption DEF FetchBytes, Smaller

LEMMA DecodingsFacts ==
  ASSUME NEW size \in Nat, NEW limit \in Nat \ {0}, NEW content \in Decodings(size, limit)
  PROVE  content \in Nat /\ content <= 3 * limit
  <1>1. FetchBytes(size, limit) \in Nat /\ FetchBytes(size, limit) <= limit
    BY FetchBytesFacts
  <1>2. QED
    BY <1>1 DEF Decodings

LEMMA FetchFields ==
  ASSUME LogInv
  PROVE  /\ fetch.kind \in Kinds /\ fetch.limit \in Nat \ {0} /\ fetch.pieces \in Nat /\ fetch.got \in Nat
         /\ fetch.asked \in SUBSET (Nat \ {0}) /\ fetch.outcome \in {"pending", "log", "error"}
         /\ fetch.got <= IF fetch.kind = "wrapped" THEN 3 * fetch.limit ELSE fetch.limit
         /\ (Pending => fetch.got < fetch.limit)
         /\ MaxSize \in Nat /\ MaxPieces \in Nat
  BY LogAssumption DEF LogInv, FetchRecord

LEMMA WithinLimit ==
  ASSUME fetch' \in FetchRecord, fetch'.got <= fetch'.limit, Pending' => fetch'.got < fetch'.limit
  PROVE  LogInv'
  <1>1. fetch'.limit \in Nat /\ fetch'.got \in Nat
    BY DEF FetchRecord
  <1>2. fetch'.got <= IF fetch'.kind = "wrapped" THEN 3 * fetch'.limit ELSE fetch'.limit
    BY <1>1
  <1>3. QED
    BY <1>2 DEF LogInv

LEMMA EndsKeeps ==
  ASSUME LogInv, NEW outcome \in {"log", "error"}, NEW got \in Nat, got <= fetch.limit, Ends(outcome, got)
  PROVE  LogInv'
  <1>1. fetch' \in FetchRecord /\ fetch'.got <= fetch'.limit /\ fetch'.outcome # "pending"
    BY DEF Ends, LogInv, FetchRecord
  <1>2. QED
    BY <1>1, WithinLimit DEF Pending

LEMMA LogKept ==
  ASSUME LogInv, LogStep
  PROVE  LogInv'
  <1>1. CASE Inline
    <2>1. PICK size \in 1..MaxSize : Ends("log", Smaller(size, fetch.limit))
      BY <1>1 DEF Inline
    <2>2. Smaller(size, fetch.limit) \in Nat /\ Smaller(size, fetch.limit) <= fetch.limit
      BY FetchFields DEF Smaller
    <2>3. QED
      BY <2>1, <2>2, EndsKeeps
  <1>2. CASE Missing
    BY <1>2, FetchFields, EndsKeeps DEF Missing
  <1>3. CASE Whole
    <2>1. CASE Ends("error", 0)
      BY <2>1, FetchFields, EndsKeeps
    <2>2. ASSUME NEW size \in 0..MaxSize, NEW content \in Decodings(size, fetch.limit),
                 fetch' = [fetch EXCEPT !.outcome = "log", !.asked = {fetch.limit},
                              !.got = IF fetch.kind = "wrapped" THEN content ELSE Smaller(content, fetch.limit)]
          PROVE  LogInv'
      <3> DEFINE got == IF fetch.kind = "wrapped" THEN content ELSE Smaller(content, fetch.limit)
      <3>1. got \in Nat /\ got <= IF fetch.kind = "wrapped" THEN 3 * fetch.limit ELSE fetch.limit
        <4>1. size \in Nat /\ fetch.limit \in Nat \ {0}
          BY FetchFields
        <4>2. content \in Nat /\ content <= 3 * fetch.limit
          BY <4>1, DecodingsFacts
        <4>3. QED
          BY <4>1, <4>2 DEF Smaller
      <3>2. fetch' = [fetch EXCEPT !.outcome = "log", !.asked = {fetch.limit}, !.got = got]
        BY <2>2
      <3>3. {fetch.limit} \in SUBSET (Nat \ {0})
        BY FetchFields
      <3> HIDE DEF got
      <3>4. QED
        BY <3>1, <3>2, <3>3, FetchFields DEF LogInv, FetchRecord, Pending
    <2>3. QED
      BY <1>3, <2>1, <2>2 DEF Whole
  <1>4. CASE List
    <2>1. CASE Ends("error", 0)
      BY <2>1, FetchFields, EndsKeeps
    <2>2. ASSUME NEW n \in 0..MaxPieces, fetch' = [fetch EXCEPT !.kind = "pieces", !.pieces = n]
          PROVE  LogInv'
      <3>1. n \in Nat /\ "pieces" \in Kinds
        BY FetchFields DEF Kinds
      <3>2. fetch.got < fetch.limit
        BY <1>4, FetchFields, Zenon DEF List
      <3>3. fetch' \in FetchRecord /\ fetch'.got = fetch.got /\ fetch'.limit = fetch.limit
        BY <2>2, <3>1, FetchFields DEF LogInv, FetchRecord
      <3>4. QED
        BY <3>2, <3>3, FetchFields, WithinLimit
    <2>3. QED
      BY <1>4, <2>1, <2>2 DEF List
  <1>5. CASE Piece
    <2> DEFINE rest == fetch.limit - fetch.got
    <2>1. rest \in Nat \ {0} /\ fetch.pieces - 1 \in Nat
      <3>1. Pending /\ fetch.pieces > 0
        BY <1>5, Zenon DEF Piece
      <3>2. QED
        BY <3>1, FetchFields
    <2>2. CASE fetch' = [fetch EXCEPT !.pieces = fetch.pieces - 1]
      <3> DEFINE pieces == fetch.pieces - 1
      <3>1. pieces \in Nat /\ fetch' = [fetch EXCEPT !.pieces = pieces]
        BY <2>1, <2>2
      <3> HIDE DEF pieces
      <3>2. QED
        BY <3>1, FetchFields DEF LogInv, FetchRecord, Pending
    <2>3. ASSUME NEW size \in 0..MaxSize, NEW break \in 0..1, NEW content \in Decodings(size, rest),
                 fetch' = [fetch EXCEPT !.pieces = fetch.pieces - 1, !.asked = fetch.asked \cup {rest},
                              !.got = IF Full(fetch.got + content + break) THEN fetch.limit
                                      ELSE fetch.got + content + break,
                              !.outcome = IF Full(fetch.got + content + break) THEN "log" ELSE "pending"]
          PROVE  LogInv'
      <3> DEFINE got == fetch.got + content + break
                 more == IF Full(got) THEN fetch.limit ELSE got
                 outcome == IF Full(got) THEN "log" ELSE "pending"
      <3>1. /\ more \in Nat /\ more <= fetch.limit /\ outcome \in {"log", "pending"}
            /\ outcome = "pending" => more < fetch.limit
        <4>1. content \in Nat
          BY <2>1, FetchFields, DecodingsFacts
        <4>2. got \in Nat
          BY <4>1, FetchFields
        <4> HIDE DEF got
        <4>3. QED
          BY <4>2, FetchFields DEF Full
      <3>2. fetch' = [fetch EXCEPT !.pieces = fetch.pieces - 1, !.asked = fetch.asked \cup {rest},
                                   !.got = more, !.outcome = outcome]
        BY <2>3
      <3> HIDE DEF more, outcome, rest
      <3>3. /\ fetch' \in FetchRecord /\ fetch'.got = more /\ fetch'.limit = fetch.limit
            /\ fetch'.outcome = outcome
        BY <2>1, <3>1, <3>2, FetchFields DEF LogInv, FetchRecord
      <3>4. QED
        BY <3>1, <3>3, WithinLimit DEF Pending
    <2>4. QED
      BY <1>5, <2>2, <2>3 DEF Piece
  <1>6. CASE LastPiece
    BY <1>6, FetchFields, EndsKeeps DEF LastPiece
  <1>7. QED
    BY <1>1, <1>2, <1>3, <1>4, <1>5, <1>6 DEF LogStep

-----------------------------------------------------------------------------
(* DraftRepair *)

JobRecord ==
    [kind: {"auto", "explicit", "none"},
     at: {"idle", "look", "findPull", "branch", "file", "put", "open", "created", "refused",
          "announce", "announceUnstored", "done"},
     runs: Nat, patch: Patches \cup {NoPatch}, left: SUBSET Paths, file: Paths \cup {"none"}]

DraftTypeOK ==
    /\ jobs \in [Workers -> JobRecord]
    /\ proposal \in Patches \cup {NoPatch}
    /\ result \in {"none", "created", "failed"}
    /\ notices \in Nat
    /\ branch \in [Patches -> [Paths -> {"absent", "missing", "old", "new", "other"}]]
    /\ pulls \subseteq Patches
    /\ pushed \subseteq Patches \X Paths

(* A path is good when it is new, or somebody else has pushed it. *)
Good(c, p) == branch[c][p] = "new" \/ <<c, p>> \in pushed

(* What a job has behind it. *)
Worked(w) ==
    LET c == jobs[w].patch IN
    /\ jobs[w].at \notin {"idle", "done"} => c \in Patches
    /\ jobs[w].at = "file" => \A p \in Paths \ jobs[w].left : Good(c, p)
    /\ jobs[w].at = "put" =>
         /\ jobs[w].file \in Paths
         /\ \A p \in Paths \ jobs[w].left : p = jobs[w].file \/ Good(c, p)
    /\ jobs[w].at = "open" => \A p \in Paths : Good(c, p)
    /\ jobs[w].at \in {"created", "announce", "announceUnstored"} => pulls # {}
    /\ jobs[w].at = "done" /\ jobs[w].kind = "explicit" => pulls # {} /\ notices > 0

DraftInv ==
    /\ DraftTypeOK
    /\ \A c \in pulls : \A p \in Paths : Good(c, p)
    /\ \A x \in pushed : branch[x[1]][x[2]] = "other"
    /\ result = "created" => pulls # {}
    /\ \A w \in Workers : Worked(w)

JobSteps == {"idle", "look", "findPull", "branch", "file", "put", "open", "created", "refused",
             "announce", "announceUnstored", "done"}

LEMMA DraftStart ==
  ASSUME NEW kinds \in [Workers -> {"auto", "explicit", "none"}], DraftInit(kinds),
         \A w \in Workers : kinds[w] \in {"auto", "explicit", "none"}
  PROVE  DraftInv
  <1>1. DraftTypeOK
    BY DEF DraftInit, DraftTypeOK, JobRecord, Idle, NoBranch
  <1>2. \A w \in Workers : Worked(w)
    BY DEF DraftInit, Worked, Idle
  <1>3. QED
    BY <1>1, <1>2 DEF DraftInit, DraftInv

LEMMA JobFields ==
  ASSUME DraftTypeOK, NEW w \in Workers
  PROVE  /\ jobs[w] \in JobRecord
         /\ jobs[w].kind \in {"auto", "explicit", "none"} /\ jobs[w].at \in JobSteps
         /\ jobs[w].runs \in Nat /\ jobs[w].patch \in Patches \cup {NoPatch}
         /\ jobs[w].left \in SUBSET Paths /\ jobs[w].file \in Paths \cup {"none"}
  BY DEF DraftTypeOK, JobRecord, JobSteps

(* Only w moves, and to a record of the right shape. *)
Moved(w) ==
    /\ jobs' \in [Workers -> JobRecord]
    /\ jobs'[w].kind = jobs[w].kind
    /\ \A v \in Workers \ {w} : jobs'[v] = jobs[v]

LEMMA TurnsFacts ==
  ASSUME DraftTypeOK, NEW w \in Workers, NEW step \in JobSteps, Turns(w, step)
  PROVE  /\ Moved(w) /\ jobs'[w].at = step
         /\ step \notin {"idle", "done"} =>
              /\ jobs'[w].patch = jobs[w].patch
              /\ jobs'[w].left = jobs[w].left /\ jobs'[w].file = jobs[w].file
  <1> DEFINE j == IF step \in {"idle", "done"} THEN [Idle(jobs[w].kind) EXCEPT !.at = step, !.runs = jobs[w].runs]
                  ELSE [jobs[w] EXCEPT !.at = step]
  <1>1. /\ j \in JobRecord /\ j.at = step /\ j.kind = jobs[w].kind
        /\ step \notin {"idle", "done"} =>
             j.patch = jobs[w].patch /\ j.left = jobs[w].left /\ j.file = jobs[w].file
    <2>1. CASE step \in {"idle", "done"}
      BY <2>1, JobFields DEF JobRecord, Idle
    <2>2. CASE step \notin {"idle", "done"}
      BY <2>2, JobFields DEF JobRecord, JobSteps
    <2>3. QED
      BY <2>1, <2>2
  <1>2. jobs' = [jobs EXCEPT ![w] = j]
    BY DEF Turns
  <1>3. jobs \in [Workers -> JobRecord]
    BY DEF DraftTypeOK
  <1> HIDE DEF j
  <1>4. jobs'[w] = j
    BY <1>2, <1>3
  <1>5. QED
    BY <1>1, <1>2, <1>3, <1>4 DEF Moved

LEMMA BeginsFacts ==
  ASSUME DraftTypeOK, NEW w \in Workers, NEW patch \in Patches \cup {NoPatch}, NEW step \in JobSteps,
         Begins(w, patch, step)
  PROVE  Moved(w) /\ jobs'[w].at = step /\ jobs'[w].patch = patch
  <1> DEFINE j == [jobs[w] EXCEPT !.runs = jobs[w].runs + 1, !.patch = patch, !.at = step]
  <1>1. j \in JobRecord /\ j.at = step /\ j.patch = patch /\ j.kind = jobs[w].kind
    <2> DEFINE n == jobs[w].runs + 1
    <2>1. n \in Nat /\ j = [jobs[w] EXCEPT !.runs = n, !.patch = patch, !.at = step]
      BY JobFields
    <2> HIDE DEF n, j
    <2>2. QED
      BY <2>1, JobFields DEF JobRecord, JobSteps
  <1>2. jobs' = [jobs EXCEPT ![w] = j]
    BY DEF Begins
  <1>3. jobs \in [Workers -> JobRecord]
    BY DEF DraftTypeOK
  <1> HIDE DEF j
  <1>4. jobs'[w] = j
    BY <1>2, <1>3
  <1>5. QED
    BY <1>1, <1>2, <1>3, <1>4 DEF Moved

(* What a step may do to what the jobs share: nothing that was good is     *)
(* undone, and nothing pushed is overwritten.                              *)
Shared ==
    /\ proposal' \in Patches \cup {NoPatch} /\ result' \in {"none", "created", "failed"}
    /\ notices' \in Nat /\ notices' >= notices
    /\ branch' \in [Patches -> [Paths -> {"absent", "missing", "old", "new", "other"}]]
    /\ pushed' \subseteq Patches \X Paths
    /\ \A c \in Patches, p \in Paths : Good(c, p) => Good(c, p)'
    /\ \A x \in pushed' : branch'[x[1]][x[2]] = "other"

LEMMA DraftFrame ==
  ASSUME DraftInv, Shared, pulls \subseteq pulls', pulls' \subseteq Patches,
         \A c \in pulls' \ pulls : \A p \in Paths : Good(c, p)',
         result' = "created" => pulls' # {},
         NEW w \in Workers, Moved(w), Worked(w)'
  PROVE  DraftInv'
  <1>1. DraftTypeOK'
    BY DEF DraftTypeOK, Shared, Moved
  <1>2. ASSUME NEW c \in pulls', NEW p \in Paths PROVE Good(c, p)'
    BY DEF DraftInv, Shared
  <1>3. ASSUME NEW v \in Workers PROVE Worked(v)'
    <2>1. CASE v = w
      BY <2>1
    <2>2. CASE v # w
      <3>1. jobs'[v] = jobs[v] /\ Worked(v)
        BY <2>2 DEF Moved, DraftInv
      <3>2. \A c \in Patches, p \in Paths : Good(c, p) => Good(c, p)'
        BY DEF Shared
      <3>3. pulls # {} => pulls' # {}
        OBVIOUS
      <3>4. notices > 0 => notices' > 0
        BY DEF Shared, DraftInv, DraftTypeOK
      <3>5. QED
        BY <3>1, <3>2, <3>3, <3>4, Zenon DEF Worked
    <2>3. QED
      BY <2>1, <2>2
  <1>4. QED
    BY <1>1, <1>2, <1>3 DEF DraftInv, Shared

(* The records change, GitHub does not. *)
LEMMA RecordsOnly ==
  ASSUME DraftInv, GitHubIs,
         proposal' \in Patches \cup {NoPatch}, result' \in {"none", "created", "failed"},
         notices' \in Nat, notices' >= notices
  PROVE  Shared /\ pulls' = pulls
  BY DEF DraftInv, DraftTypeOK, GitHubIs, Shared, Good

LEMMA NothingShared ==
  ASSUME DraftInv, GitHubIs, StoreIs
  PROVE  Shared /\ pulls' = pulls /\ result' = result
  <1>1. /\ proposal' \in Patches \cup {NoPatch} /\ result' \in {"none", "created", "failed"}
        /\ notices' \in Nat /\ notices' >= notices
    BY DEF DraftInv, DraftTypeOK, StoreIs
  <1>2. QED
    BY <1>1, RecordsOnly DEF StoreIs

(* A branch may be written where nothing good is. *)
LEMMA BranchWritten ==
  ASSUME DraftInv, StoreIs, pushed' = pushed, NEW c \in Patches,
         NEW files \in [Paths -> {"absent", "missing", "old", "new", "other"}],
         branch' = [branch EXCEPT ![c] = files],
         \A p \in Paths : files[p] = "new" \/ (files[p] # branch[c][p] => branch[c][p] # "new"),
         \A p \in Paths : branch[c][p] = "other" => files[p] = "other"
  PROVE  Shared
  <1>1. /\ branch \in [Patches -> [Paths -> {"absent", "missing", "old", "new", "other"}]]
        /\ pushed \subseteq Patches \X Paths /\ \A x \in pushed : branch[x[1]][x[2]] = "other"
    BY DEF DraftInv, DraftTypeOK
  <1>2. branch'[c] = files /\ \A d \in Patches \ {c} : branch'[d] = branch[d]
    BY <1>1
  <1>3. branch' \in [Patches -> [Paths -> {"absent", "missing", "old", "new", "other"}]]
    BY <1>1
  <1>4. ASSUME NEW d \in Patches, NEW p \in Paths, Good(d, p) PROVE Good(d, p)'
    <2>1. CASE d = c
      BY <1>2, <1>4, <2>1 DEF Good
    <2>2. CASE d # c
      BY <1>2, <1>4, <2>2 DEF Good
    <2>3. QED
      BY <2>1, <2>2
  <1>5. ASSUME NEW x \in pushed' PROVE branch'[x[1]][x[2]] = "other"
    <2>1. x[1] \in Patches /\ x[2] \in Paths /\ branch[x[1]][x[2]] = "other"
      BY <1>1, <1>5
    <2>2. QED
      BY <1>2, <2>1
  <1>6. /\ proposal' \in Patches \cup {NoPatch} /\ result' \in {"none", "created", "failed"}
        /\ notices' \in Nat /\ notices' >= notices
    BY DEF DraftInv, DraftTypeOK, StoreIs
  <1>7. QED
    BY <1>1, <1>3, <1>4, <1>5, <1>6 DEF Shared

LEMMA EnhanceKeeps ==
  ASSUME DraftInv, NEW w \in Workers, Enhance(w)
  PROVE  DraftInv'
  <1>1. DraftTypeOK /\ jobs[w].kind = "auto" /\ GitHubIs /\ result' = result /\ notices' = notices
    BY DEF Enhance, DraftInv
  <1>2. proposal' \in Patches \cup {NoPatch}
    BY <1>1 DEF Enhance, DraftTypeOK
  <1>3. Shared /\ pulls' = pulls
    BY <1>1, <1>2, RecordsOnly DEF DraftTypeOK
  <1>4. Moved(w) /\ Worked(w)'
    <2>1. CASE Begins(w, NoPatch, "idle")
      <3>1. Moved(w) /\ jobs'[w].at = "idle"
        BY <1>1, <2>1, BeginsFacts DEF JobSteps
      <3>2. QED
        BY <3>1 DEF Worked
    <2>2. ASSUME NEW c \in Patches \cup {NoPatch}, Begins(w, c, IF c = NoPatch THEN "done" ELSE "look")
          PROVE  Moved(w) /\ Worked(w)'
      <3>1. /\ Moved(w) /\ jobs'[w].patch = c
            /\ jobs'[w].at = IF c = NoPatch THEN "done" ELSE "look"
        BY <1>1, <2>2, BeginsFacts DEF JobSteps
      <3>2. jobs'[w].kind = "auto"
        BY <1>1, <3>1 DEF Moved
      <3>3. QED
        BY <3>1, <3>2 DEF Worked
    <2>3. QED
      BY <2>1, <2>2 DEF Enhance
  <1>5. QED
    BY <1>1, <1>3, <1>4, DraftFrame DEF DraftInv, DraftTypeOK

LEMMA ReadProposalKeeps ==
  ASSUME DraftInv, NEW w \in Workers, ReadProposal(w)
  PROVE  DraftInv'
  <1>1. DraftTypeOK /\ GitHubIs /\ result' = result /\ notices' = notices
    BY DEF ReadProposal, DraftInv
  <1>2. proposal' \in Patches \cup {NoPatch}
    BY <1>1 DEF ReadProposal, CreateEnhancement, DraftTypeOK
  <1>3. Shared /\ pulls' = pulls
    BY <1>1, <1>2, RecordsOnly DEF DraftTypeOK
  <1>4. Moved(w) /\ Worked(w)'
    <2> DEFINE c == proposal'
    <2>1. Begins(w, c, IF c = NoPatch THEN "idle" ELSE "look")
      BY DEF ReadProposal
    <2>2. c \in Patches \cup {NoPatch}
      BY <1>2
    <2>3. Moved(w) /\ jobs'[w].patch = c /\ jobs'[w].at = IF c = NoPatch THEN "idle" ELSE "look"
      BY <1>1, <2>1, <2>2, BeginsFacts DEF JobSteps
    <2>4. QED
      BY <2>2, <2>3 DEF Worked
  <1>5. QED
    BY <1>1, <1>3, <1>4, DraftFrame DEF DraftInv, DraftTypeOK

(* A job that turns to one of these steps has nothing to show for it. *)
LEMMA Turned ==
  ASSUME DraftInv, NEW w \in Workers,
         NEW step \in {"idle", "done", "look", "findPull", "branch", "refused"},
         step = "done" => jobs[w].kind # "explicit",
         step \notin {"idle", "done"} => jobs[w].patch \in Patches,
         Turns(w, step)
  PROVE  Moved(w) /\ Worked(w)'
  <1>1. /\ Moved(w) /\ jobs'[w].at = step
        /\ step \notin {"idle", "done"} => jobs'[w].patch = jobs[w].patch
    BY TurnsFacts DEF DraftInv, JobSteps
  <1>2. jobs'[w].kind = jobs[w].kind
    BY <1>1 DEF Moved
  <1>3. QED
    BY <1>1, <1>2 DEF Worked

LEMMA FindResultKeeps ==
  ASSUME DraftInv, NEW w \in Workers, FindResult(w)
  PROVE  DraftInv'
  <1>1. jobs[w].at = "look" /\ jobs[w].patch \in Patches /\ (result = "created" => pulls # {})
    BY DEF FindResult, At, DraftInv, Worked
  <1>2. Shared /\ pulls' = pulls /\ result' = result
    BY NothingShared DEF FindResult
  <1>3. Moved(w) /\ Worked(w)'
    <2>1. CASE Turns(w, "announce") /\ result = "created"
      <3>1. Moved(w) /\ jobs'[w].at = "announce" /\ jobs'[w].patch = jobs[w].patch
        BY <2>1, TurnsFacts DEF DraftInv, JobSteps
      <3>2. QED
        BY <1>1, <1>2, <2>1, <3>1 DEF Worked
    <2>2. CASE Turns(w, "findPull")
      BY <1>1, <2>2, Turned
    <2>3. CASE Turns(w, IF jobs[w].kind = "auto" THEN "done" ELSE "idle")
      BY <1>1, <2>3, Turned
    <2>4. QED
      BY <2>1, <2>2, <2>3 DEF FindResult
  <1>4. QED
    BY <1>1, <1>2, <1>3, DraftFrame DEF DraftInv, DraftTypeOK

LEMMA FindPullKeeps ==
  ASSUME DraftInv, NEW w \in Workers, FindPull(w)
  PROVE  DraftInv'
  <1>1. jobs[w].at = "findPull" /\ jobs[w].patch \in Patches /\ (result = "created" => pulls # {})
    BY DEF FindPull, At, DraftInv, Worked
  <1>2. Shared /\ pulls' = pulls /\ result' = result
    BY NothingShared DEF FindPull
  <1>3. Moved(w) /\ Worked(w)'
    <2>1. CASE Turns(w, "created") /\ HasPull(w)
      <3>1. Moved(w) /\ jobs'[w].at = "created" /\ jobs'[w].patch = jobs[w].patch
        BY <2>1, TurnsFacts DEF DraftInv, JobSteps
      <3>2. QED
        BY <1>1, <1>2, <2>1, <3>1 DEF Worked, HasPull
    <2>2. CASE Turns(w, "branch") \/ Turns(w, "refused")
      BY <1>1, <2>2, Turned
    <2>3. QED
      BY <2>1, <2>2 DEF FindPull, Fails
  <1>4. QED
    BY <1>1, <1>2, <1>3, DraftFrame DEF DraftInv, DraftTypeOK

LEMMA CreateBranchKeeps ==
  ASSUME DraftInv, NEW w \in Workers, CreateBranch(w)
  PROVE  DraftInv'
  <1> DEFINE c == jobs[w].patch
             there == branch[c] # NoBranch
             made == [branch EXCEPT ![c] = Untouched]
             goOn == jobs' = [jobs EXCEPT ![w] = [jobs[w] EXCEPT !.at = "file", !.left = Paths]]
  <1>1. jobs[w].at = "branch" /\ c \in Patches /\ (result = "created" => pulls # {}) /\ DraftTypeOK
    BY DEF CreateBranch, At, DraftInv, Worked
  <1>2. StoreIs /\ pulls' = pulls /\ pushed' = pushed /\ result' = result
    BY DEF CreateBranch, StoreIs
  <1>3. Shared
    <2>1. CASE branch' = branch
      BY <1>2, <2>1, NothingShared DEF GitHubIs
    <2>2. CASE ~there /\ branch' = made
      <3>1. Untouched \in [Paths -> {"absent", "missing", "old", "new", "other"}]
        BY DEF Untouched
      <3>2. \A p \in Paths : branch[c][p] = "absent"
        BY <2>2 DEF NoBranch
      <3>3. QED
        BY <1>1, <1>2, <2>2, <3>1, <3>2, BranchWritten
    <2>3. QED
      BY <2>1, <2>2 DEF CreateBranch, Mine
  <1>4. Moved(w) /\ Worked(w)'
    <2>1. CASE Fails(w)
      BY <1>1, <2>1, Turned DEF Fails
    <2>2. CASE goOn
      <3> DEFINE j == [jobs[w] EXCEPT !.at = "file", !.left = Paths]
      <3>1. j \in JobRecord /\ j.at = "file" /\ j.left = Paths /\ j.patch = c /\ j.kind = jobs[w].kind
        BY <1>1, JobFields DEF JobRecord
      <3>2. jobs \in [Workers -> JobRecord] /\ jobs' = [jobs EXCEPT ![w] = j]
        BY <1>1, <2>2 DEF DraftTypeOK
      <3> HIDE DEF j
      <3>3. Moved(w) /\ jobs'[w] = j
        BY <3>1, <3>2 DEF Moved
      <3>4. QED
        BY <1>1, <3>1, <3>3 DEF Worked
    <2>3. QED
      BY <2>1, <2>2 DEF CreateBranch
  <1>5. QED
    BY <1>1, <1>2, <1>3, <1>4, DraftFrame DEF DraftTypeOK

LEMMA ReadFileKeeps ==
  ASSUME DraftInv, NEW w \in Workers, NEW p \in Paths, ReadFile(w, p)
  PROVE  DraftInv'
  <1>1. jobs[w].at = "file" /\ jobs[w].patch \in Patches /\ (result = "created" => pulls # {}) /\ DraftTypeOK
    BY DEF ReadFile, At, DraftInv, Worked
  <1>2. PICK c \in Patches : c = jobs[w].patch
    BY <1>1
  <1>3. \A q \in Paths \ jobs[w].left : Good(c, q)
    BY <1>1, <1>2 DEF DraftInv, Worked
  <1>4. Shared /\ pulls' = pulls /\ result' = result
    BY NothingShared DEF ReadFile
  <1>5. \A q \in Paths : Good(c, q) => Good(c, q)'
    BY <1>4 DEF Shared
  <1>6. Moved(w) /\ Worked(w)'
    <2> DEFINE left == jobs[w].left \ {p}
    <2>1. left \in SUBSET Paths /\ \A q \in Paths \ left : q = p \/ q \in Paths \ jobs[w].left
      BY <1>1, JobFields
    <2>2. jobs \in [Workers -> JobRecord]
      BY <1>1 DEF DraftTypeOK
    <2>3. CASE Fails(w)
      BY <1>1, <2>3, Turned DEF Fails
    <2>4. CASE branch[c][p] = "new" /\ jobs' = [jobs EXCEPT ![w] = [jobs[w] EXCEPT !.left = left]]
      <3> DEFINE j == [jobs[w] EXCEPT !.left = left]
      <3> HIDE DEF left
      <3>1. j \in JobRecord /\ j.at = "file" /\ j.left = left /\ j.patch = c /\ j.kind = jobs[w].kind
        BY <1>1, <1>2, <2>1, JobFields DEF JobRecord
      <3>2. jobs' = [jobs EXCEPT ![w] = j]
        BY <2>4
      <3> HIDE DEF j
      <3>3. Moved(w) /\ jobs'[w] = j
        BY <2>2, <3>1, <3>2 DEF Moved
      <3>4. Good(c, p)
        BY <2>4 DEF Good
      <3>5. \A q \in Paths \ left : Good(c, q)'
        BY <1>3, <1>5, <2>1, <3>4
      <3>6. QED
        BY <3>1, <3>3, <3>5 DEF Worked
    <2>5. CASE jobs' = [jobs EXCEPT ![w] = [jobs[w] EXCEPT !.at = "put", !.left = left, !.file = p]]
      <3> DEFINE j == [jobs[w] EXCEPT !.at = "put", !.left = left, !.file = p]
      <3> HIDE DEF left
      <3>1. j \in JobRecord /\ j.at = "put" /\ j.left = left /\ j.file = p /\ j.patch = c /\ j.kind = jobs[w].kind
        BY <1>1, <1>2, <2>1, JobFields DEF JobRecord
      <3>2. jobs' = [jobs EXCEPT ![w] = j]
        BY <2>5
      <3> HIDE DEF j
      <3>3. Moved(w) /\ jobs'[w] = j
        BY <2>2, <3>1, <3>2 DEF Moved
      <3>4. \A q \in Paths \ left : q = p \/ Good(c, q)'
        BY <1>3, <1>5, <2>1
      <3>5. QED
        BY <3>1, <3>3, <3>4 DEF Worked
    <2>6. QED
      BY <1>2, <2>3, <2>4, <2>5 DEF ReadFile, Mine
  <1>7. QED
    BY <1>1, <1>4, <1>6, DraftFrame DEF DraftTypeOK

LEMMA PutFileKeeps ==
  ASSUME DraftInv, NEW w \in Workers, PutFile(w)
  PROVE  DraftInv'
  <1>1. /\ jobs[w].at = "put" /\ jobs[w].patch \in Patches /\ jobs[w].file \in Paths
        /\ (result = "created" => pulls # {}) /\ DraftTypeOK
    BY DEF PutFile, At, DraftInv, Worked
  <1>2. PICK c \in Patches, p \in Paths : c = jobs[w].patch /\ p = jobs[w].file
    BY <1>1
  <1> DEFINE put == [branch EXCEPT ![c][p] = "new"]
             taken == branch[c][p] = Expected(p)
  <1>3. \A q \in Paths \ jobs[w].left : q = p \/ Good(c, q)
    BY <1>1, <1>2 DEF DraftInv, Worked
  <1>4. StoreIs /\ pulls' = pulls /\ pushed' = pushed /\ result' = result
    BY DEF PutFile, StoreIs
  <1>5. branch \in [Patches -> [Paths -> {"absent", "missing", "old", "new", "other"}]]
    BY <1>1 DEF DraftTypeOK
  <1>6. branch' = branch \/ (taken /\ branch' = put)
    BY <1>2 DEF PutFile, Mine
  <1>7. Shared
    <2>1. CASE branch' = branch
      BY <1>4, <2>1, NothingShared DEF GitHubIs
    <2>2. CASE taken /\ branch' = put
      <3> DEFINE files == [branch[c] EXCEPT ![p] = "new"]
      <3>1. /\ files \in [Paths -> {"absent", "missing", "old", "new", "other"}] /\ files[p] = "new"
            /\ \A q \in Paths \ {p} : files[q] = branch[c][q]
        BY <1>5
      <3>2. branch' = [branch EXCEPT ![c] = files]
        BY <2>2
      <3>3. branch[c][p] # "other"
        BY <2>2 DEF Expected
      <3> HIDE DEF files
      <3>4. /\ \A q \in Paths : files[q] = "new" \/ (files[q] # branch[c][q] => branch[c][q] # "new")
            /\ \A q \in Paths : branch[c][q] = "other" => files[q] = "other"
        BY <3>1, <3>3
      <3>5. QED
        BY <1>4, <3>1, <3>2, <3>4, BranchWritten
    <2>3. QED
      BY <1>6, <2>1, <2>2
  <1>8. \A q \in Paths : Good(c, q) => Good(c, q)'
    BY <1>7 DEF Shared
  <1>9. Moved(w) /\ Worked(w)'
    <2>1. CASE Fails(w)
      BY <1>1, <2>1, Turned DEF Fails
    <2>2. CASE Turns(w, "file") /\ branch'[c][p] = "new"
      <3>1. Moved(w) /\ jobs'[w].at = "file" /\ jobs'[w].patch = c /\ jobs'[w].left = jobs[w].left
        BY <1>1, <1>2, <2>2, TurnsFacts DEF JobSteps
      <3>2. Good(c, p)'
        BY <2>2 DEF Good
      <3>3. \A q \in Paths \ jobs[w].left : Good(c, q)'
        BY <1>3, <1>8, <3>2
      <3>4. QED
        BY <3>1, <3>3 DEF Worked
    <2>3. taken /\ branch' = put => branch'[c][p] = "new"
      BY <1>5
    <2>4. QED
      BY <1>2, <2>1, <2>2, <2>3 DEF PutFile, Mine
  <1>10. QED
    BY <1>1, <1>4, <1>7, <1>9, DraftFrame DEF DraftTypeOK

LEMMA FindPullAgainKeeps ==
  ASSUME DraftInv, NEW w \in Workers, FindPullAgain(w)
  PROVE  DraftInv'
  <1>1. /\ jobs[w].at = "file" /\ jobs[w].left = {} /\ jobs[w].patch \in Patches
        /\ (result = "created" => pulls # {}) /\ DraftTypeOK
    BY DEF FindPullAgain, At, DraftInv, Worked
  <1>2. PICK c \in Patches : c = jobs[w].patch
    BY <1>1
  <1>3. Shared /\ pulls' = pulls /\ result' = result
    BY NothingShared DEF FindPullAgain
  <1>4. \A q \in Paths : Good(c, q)'
    <2>1. \A q \in Paths : Good(c, q)
      BY <1>1, <1>2 DEF DraftInv, Worked
    <2>2. QED
      BY <1>3, <2>1 DEF Shared
  <1>5. Moved(w) /\ Worked(w)'
    <2>1. CASE Turns(w, "created") /\ HasPull(w)
      <3>1. Moved(w) /\ jobs'[w].at = "created" /\ jobs'[w].patch = c
        BY <1>1, <1>2, <2>1, TurnsFacts DEF JobSteps
      <3>2. QED
        BY <1>3, <2>1, <3>1 DEF Worked, HasPull
    <2>2. CASE Turns(w, "open")
      <3>1. Moved(w) /\ jobs'[w].at = "open" /\ jobs'[w].patch = c
        BY <1>1, <1>2, <2>2, TurnsFacts DEF JobSteps
      <3>2. QED
        BY <1>4, <3>1 DEF Worked
    <2>3. CASE Fails(w)
      BY <1>1, <2>3, Turned DEF Fails
    <2>4. QED
      BY <2>1, <2>2, <2>3 DEF FindPullAgain
  <1>6. QED
    BY <1>1, <1>3, <1>5, DraftFrame DEF DraftTypeOK

LEMMA OpenPullKeeps ==
  ASSUME DraftInv, NEW w \in Workers, OpenPull(w)
  PROVE  DraftInv'
  <1>1. jobs[w].at = "open" /\ jobs[w].patch \in Patches /\ (result = "created" => pulls # {}) /\ DraftTypeOK
    BY DEF OpenPull, At, DraftInv, Worked
  <1>2. PICK c \in Patches : c = jobs[w].patch
    BY <1>1
  <1>3. StoreIs /\ branch' = branch /\ pushed' = pushed /\ result' = result
    BY DEF OpenPull, StoreIs
  <1>4. /\ proposal' \in Patches \cup {NoPatch} /\ result' \in {"none", "created", "failed"}
        /\ notices' \in Nat /\ notices' >= notices
    BY <1>1, <1>3 DEF DraftTypeOK, StoreIs
  <1>5. Shared
    BY <1>3, <1>4 DEF DraftInv, DraftTypeOK, Shared, Good
  <1>6. pulls' \in {pulls, pulls \cup {c}} /\ pulls \subseteq Patches
    BY <1>1, <1>2 DEF OpenPull, DraftTypeOK
  <1>7. \A p \in Paths : Good(c, p)'
    BY <1>1, <1>2, <1>3 DEF DraftInv, Worked, Good
  <1>8. Moved(w) /\ Worked(w)'
    <2>1. CASE Turns(w, "created") /\ pulls' = pulls \cup {jobs[w].patch}
      <3>1. Moved(w) /\ jobs'[w].at = "created" /\ jobs'[w].patch = c
        BY <1>1, <1>2, <2>1, TurnsFacts DEF JobSteps
      <3>2. QED
        BY <2>1, <3>1 DEF Worked
    <2>2. CASE Fails(w)
      BY <1>1, <2>2, Turned DEF Fails
    <2>3. QED
      BY <2>1, <2>2 DEF OpenPull
  <1>9. QED
    BY <1>1, <1>3, <1>5, <1>6, <1>7, <1>8, DraftFrame

LEMMA StoreResultKeeps ==
  ASSUME DraftInv, NEW w \in Workers, StoreResult(w)
  PROVE  DraftInv'
  <1>1. /\ jobs[w].at \in {"created", "refused"} /\ jobs[w].patch \in Patches
        /\ (result = "created" => pulls # {}) /\ (jobs[w].at = "created" => pulls # {}) /\ DraftTypeOK
    BY DEF StoreResult, At, DraftInv, Worked
  <1>2. /\ GitHubIs /\ proposal' = proposal /\ notices' = notices
        /\ result' \in {result, IF jobs[w].at = "created" THEN "created" ELSE "failed"}
    BY DEF StoreResult, At
  <1>3. Shared /\ pulls' = pulls
    <2>1. /\ proposal' \in Patches \cup {NoPatch} /\ result' \in {"none", "created", "failed"}
          /\ notices' \in Nat /\ notices' >= notices
      BY <1>1, <1>2 DEF DraftTypeOK
    <2>2. QED
      BY <1>2, <2>1, RecordsOnly
  <1>4. Moved(w) /\ Worked(w)'
    <2>1. CASE jobs[w].at = "created" /\ (Turns(w, "announce") \/ Turns(w, "announceUnstored"))
      <3>1. Moved(w) /\ jobs'[w].at \in {"announce", "announceUnstored"} /\ jobs'[w].patch = jobs[w].patch
        BY <1>1, <2>1, TurnsFacts DEF JobSteps
      <3>2. QED
        BY <1>1, <1>3, <2>1, <3>1 DEF Worked
    <2>2. CASE Turns(w, AfterFailure(w))
      BY <1>1, <2>2, Turned DEF AfterFailure
    <2>3. QED
      BY <1>1, <2>1, <2>2 DEF StoreResult, At
  <1>5. QED
    BY <1>1, <1>2, <1>3, <1>4, DraftFrame DEF DraftTypeOK

LEMMA AnnounceKeeps ==
  ASSUME DraftInv, NEW w \in Workers, Announce(w)
  PROVE  DraftInv'
  <1>1. /\ jobs[w].at \in {"announce", "announceUnstored"} /\ pulls # {} /\ DraftTypeOK
    BY DEF Announce, At, DraftInv, Worked
  <1>2. GitHubIs /\ proposal' = proposal /\ result' = result /\ notices' \in {notices, notices + 1}
    BY DEF Announce
  <1>3. Shared /\ pulls' = pulls
    <2>1. notices \in Nat /\ notices' \in Nat /\ notices' >= notices
      BY <1>1, <1>2 DEF DraftTypeOK
    <2>2. proposal' \in Patches \cup {NoPatch} /\ result' \in {"none", "created", "failed"}
      BY <1>1, <1>2 DEF DraftTypeOK
    <2>3. QED
      BY <1>2, <2>1, <2>2, RecordsOnly
  <1>4. Moved(w) /\ Worked(w)'
    <2>1. CASE Turns(w, "done") /\ notices' = notices + 1
      <3>1. Moved(w) /\ jobs'[w].at = "done"
        BY <1>1, <2>1, TurnsFacts DEF JobSteps
      <3>2. notices' > 0
        BY <1>1, <2>1 DEF DraftTypeOK
      <3>3. QED
        BY <1>1, <1>3, <3>1, <3>2 DEF Worked
    <2>2. CASE Turns(w, AfterFailure(w))
      BY <1>1, <2>2, Turned DEF AfterFailure
    <2>3. QED
      BY <1>1, <2>1, <2>2 DEF Announce, At
  <1>5. QED
    BY <1>1, <1>2, <1>3, <1>4, DraftFrame DEF DraftTypeOK

LEMMA WorkerDiesKeeps ==
  ASSUME DraftInv, NEW w \in Workers, WorkerDies(w)
  PROVE  DraftInv'
  <1>1. DraftTypeOK /\ (result = "created" => pulls # {}) /\ Turns(w, "idle")
    BY DEF DraftInv, WorkerDies
  <1>2. Shared /\ pulls' = pulls /\ result' = result
    BY NothingShared DEF WorkerDies
  <1>3. Moved(w) /\ Worked(w)'
    BY <1>1, Turned
  <1>4. QED
    BY <1>1, <1>2, <1>3, DraftFrame DEF DraftTypeOK

LEMMA PushKeeps ==
  ASSUME DraftInv, NEW c \in Patches, NEW p \in Paths, Push(c, p)
  PROVE  DraftInv'
  <1>1. /\ branch \in [Patches -> [Paths -> {"absent", "missing", "old", "new", "other"}]]
        /\ pushed \subseteq Patches \X Paths /\ \A x \in pushed : branch[x[1]][x[2]] = "other"
        /\ DraftTypeOK
    BY DEF DraftInv, DraftTypeOK
  <1>2. /\ pushed' = pushed \cup {<<c, p>>} /\ jobs' = jobs /\ pulls' = pulls
        /\ proposal' = proposal /\ result' = result /\ notices' = notices
    BY DEF Push, StoreIs
  <1> DEFINE files == [branch[c] EXCEPT ![p] = "other"]
  <1>3. /\ files \in [Paths -> {"absent", "missing", "old", "new", "other"}] /\ files[p] = "other"
        /\ \A q \in Paths \ {p} : files[q] = branch[c][q]
    BY <1>1
  <1>4. branch' = [branch EXCEPT ![c] = files]
    BY DEF Push
  <1> HIDE DEF files
  <1>5. /\ branch' \in [Patches -> [Paths -> {"absent", "missing", "old", "new", "other"}]]
        /\ branch'[c] = files /\ \A d \in Patches \ {c} : branch'[d] = branch[d]
    BY <1>1, <1>3, <1>4
  <1>6. ASSUME NEW d \in Patches, NEW q \in Paths, Good(d, q) PROVE Good(d, q)'
    <2>1. CASE d = c /\ q = p
      BY <1>2, <2>1 DEF Good
    <2>2. CASE ~(d = c /\ q = p)
      <3>1. branch'[d][q] = branch[d][q]
        BY <1>3, <1>5, <2>2
      <3>2. QED
        BY <1>2, <1>6, <3>1 DEF Good
    <2>3. QED
      BY <2>1, <2>2
  <1>7. ASSUME NEW x \in pushed' PROVE branch'[x[1]][x[2]] = "other"
    <2>1. CASE x = <<c, p>>
      BY <1>3, <1>5, <2>1
    <2>2. CASE x \in pushed
      <3>1. x[1] \in Patches /\ x[2] \in Paths /\ branch[x[1]][x[2]] = "other"
        BY <1>1, <2>2
      <3>2. QED
        BY <1>3, <1>5, <3>1
    <2>3. QED
      BY <1>2, <1>7, <2>1, <2>2
  <1>8. DraftTypeOK'
    BY <1>1, <1>2, <1>5 DEF DraftTypeOK
  <1>9. ASSUME NEW w \in Workers PROVE Worked(w)'
    <2>1. jobs'[w] = jobs[w] /\ Worked(w)
      BY <1>2 DEF DraftInv
    <2>2. \A d \in Patches, q \in Paths : Good(d, q) => Good(d, q)'
      BY <1>6
    <2>3. QED
      BY <1>2, <2>1, <2>2, Zenon DEF Worked
  <1>10. QED
    BY <1>2, <1>6, <1>7, <1>8, <1>9 DEF DraftInv, DraftTypeOK

LEMMA DraftKept ==
  ASSUME DraftInv, DraftStep
  PROVE  DraftInv'
  BY EnhanceKeeps, ReadProposalKeeps, FindResultKeeps, FindPullKeeps, CreateBranchKeeps,
     ReadFileKeeps, PutFileKeeps, FindPullAgainKeeps, OpenPullKeeps, StoreResultKeeps,
     AnnounceKeeps, WorkerDiesKeeps, PushKeeps
  DEF DraftStep

-----------------------------------------------------------------------------
(* ApplyRepair *)

Staging == {"backup", "temp", "unstage"}
Committing == {"verify", "link", "unlink", "aside", "place", "restore"}
Undoing == {"undo", "moveBack", "sweep"}

Contents == {"none", "old", "new", "user"}
FileRecord ==
    [target: Contents, backup: {"none", "old"}, temp: {"none", "new"}, rollback: Contents]

CommandRecord ==
    [phase: Staging \cup Committing \cup Undoing \cup {"off", "clean", "ended"},
     i: 0..NFiles, committed: SUBSET Files, ok: BOOLEAN,
     found: [Files -> Contents], failures: Nat]

ApplyTypeOK ==
    /\ added \subseteq Files
    /\ disk \in [Files -> FileRecord]
    /\ apply \in CommandRecord
    /\ applies \in Nat /\ edited \subseteq Files /\ unsafe \subseteq Files
    /\ apply.phase \notin {"unstage", "undo", "off", "ended"} => apply.i # 0

Planned(f) == IF Exists(f) THEN "old" ELSE "none"
Budget == IF edited = {} THEN 1 ELSE 0
WithinBudget == apply.failures <= Budget

(* A command that goes on has found every file as planned. *)
FoundAsPlanned == apply.phase \notin {"off", "ended"} =>
    /\ ~apply.ok
    /\ \A f \in Files \ edited : apply.found[f] = Planned(f)

(* Until it commits, the files are as planned; then what is committed is   *)
(* new, with what was there moved aside.                                   *)
IsNew(f) == disk[f].target = "new" /\ (Exists(f) => disk[f].rollback = "old")
AsFound(f) == disk[f].target = Planned(f)

Current(f) ==
    CASE apply.phase \in {"verify", "link", "aside"} -> AsFound(f)
      [] apply.phase = "unlink" -> IsNew(f)
      [] apply.phase \in {"place", "restore"} -> disk[f].target = "none" /\ disk[f].rollback = "old"

Progress ==
    /\ apply.phase \in Staging => \A f \in Files \ edited : AsFound(f)
    /\ apply.phase \in Committing =>
         /\ \A f \in Files \ edited :
              /\ f < apply.i => IsNew(f)
              /\ f > apply.i => AsFound(f)
              /\ f = apply.i => Current(f)
         /\ \A f \in Files : f < apply.i => disk[f].temp = "none"
    /\ apply.phase \in {"link", "unlink"} => ~Exists(apply.i)
    /\ apply.phase \in {"aside", "place", "restore", "moveBack"} => Exists(apply.i)

(* Files are taken back completely as long as nothing fails again. *)
TakingBack ==
    /\ apply.phase \in Undoing \cup {"restore"} /\ edited = {} => apply.failures > 0
    /\ apply.phase \in Undoing /\ WithinBudget => \A f \in Files \ edited :
         /\ f < apply.i /\ apply.phase # "sweep" => IsNew(f)
         /\ f > apply.i \/ apply.phase = "sweep" => AsFound(f)
         /\ f = apply.i /\ apply.phase = "undo" => IsNew(f)
         /\ f = apply.i /\ apply.phase = "moveBack" => disk[f].target = "none" /\ disk[f].rollback = "old"

(* Once it commits there is a backup of everything. *)
BackedUp ==
    /\ apply.phase \in Committing \cup Undoing \cup {"clean"} =>
         \A f \in Files : Exists(f) => disk[f].backup = "old"
    /\ apply.phase \in {"backup", "temp"} =>
         \A f \in Files : Exists(f) /\ (f < apply.i \/ (f = apply.i /\ Here("temp"))) => disk[f].backup = "old"

Finishing ==
    /\ Here("clean") =>
         /\ \A f \in Files : disk[f].temp = "none" /\ (f < apply.i => disk[f].rollback = "none")
         /\ \A f \in Files \ edited : disk[f].target = "new"
    /\ apply.ok => /\ Here("ended")
                   /\ \A f \in Files : disk[f].rollback = "none" /\ disk[f].temp = "none"
    /\ Here("ended") /\ WithinBudget =>
         \/ \A f \in Files \ edited : disk[f].target = "new"
         \/ ~apply.ok /\ \A f \in Files \ edited : disk[f].target = apply.found[f]

(* What the command has in hand it has looked at for the last time. *)
InHand(f) ==
    \/ apply.phase \in Committing \cup {"undo", "moveBack"} /\ f < apply.i
    \/ apply.phase \in (Committing \ {"verify"}) \cup {"undo", "moveBack"} /\ f = apply.i

NothingLost ==
    /\ \A f \in Files \ edited : Exists(f) => Has(f, "old")
    /\ \A f \in edited \ unsafe : disk[f].target = "user" /\ ~InHand(f)

ApplyInv ==
    /\ ApplyTypeOK /\ FoundAsPlanned /\ Progress /\ TakingBack /\ BackedUp /\ Finishing /\ NothingLost

Phases == Staging \cup Committing \cup Undoing \cup {"off", "clean", "ended"}

LEMMA CommandFields ==
  ASSUME ApplyTypeOK
  PROVE  /\ apply.phase \in Phases /\ apply.i \in 0..NFiles /\ apply.committed \in SUBSET Files
         /\ apply.ok \in BOOLEAN /\ apply.found \in [Files -> Contents] /\ apply.failures \in Nat
         /\ NFiles \in Nat \ {0} /\ apply.i \in Nat
         /\ apply.phase \notin {"unstage", "undo", "off", "ended"} => apply.i \in Files
         /\ apply.i # 0 => apply.i \in Files
  BY ApplyAssumption DEF ApplyTypeOK, CommandRecord, Phases, Contents, Files

(* The command goes on, and counts what fails. *)
GoesTo(phase, i) ==
    /\ apply' \in CommandRecord /\ apply'.phase = phase /\ apply'.i = i
    /\ apply'.ok = apply.ok /\ apply'.found = apply.found

LEMMA MovesFacts ==
  ASSUME ApplyTypeOK, FaultsOK, Fine \/ Fault, NEW phase \in Phases, NEW i \in 0..NFiles, Moves(phase, i)
  PROVE  /\ GoesTo(phase, i)
         /\ Fine => apply'.failures = apply.failures
         /\ Fault => apply'.failures = apply.failures + 1
  <1> DEFINE n == apply.failures + (faults' - faults)
  <1>1. n \in Nat /\ (Fine => n = apply.failures) /\ (Fault => n = apply.failures + 1)
    BY CommandFields DEF FaultsOK, Fine, Fault
  <1>2. apply' = [apply EXCEPT !.phase = phase, !.i = i, !.failures = n]
    BY DEF Moves
  <1>3. apply \in CommandRecord
    BY DEF ApplyTypeOK
  <1> HIDE DEF n
  <1>4. /\ apply' \in CommandRecord /\ apply'.phase = phase /\ apply'.i = i /\ apply'.ok = apply.ok
        /\ apply'.found = apply.found /\ apply'.failures = n
    BY <1>1, <1>2, <1>3 DEF CommandRecord, Phases
  <1>5. QED
    BY <1>1, <1>4 DEF GoesTo

LEMMA CommitFacts ==
  ASSUME ApplyTypeOK, NEW f \in Files, Commit(f)
  PROVE  /\ f = NFiles => GoesTo("clean", 1)
         /\ f # NFiles => GoesTo("verify", f + 1)
         /\ apply'.failures = apply.failures
  <1>1. apply \in CommandRecord /\ apply.committed \cup {f} \in SUBSET Files
    BY DEF ApplyTypeOK, CommandRecord
  <1>2. 1 \in 0..NFiles /\ (f # NFiles => f + 1 \in 0..NFiles)
    BY ApplyAssumption DEF Files
  <1>3. CASE f = NFiles
    <2> DEFINE committed == apply.committed \cup {f}
    <2>1. /\ apply' = [apply EXCEPT !.committed = committed, !.phase = "clean", !.i = 1]
          /\ committed \in SUBSET Files
      BY <1>1, <1>3 DEF Commit
    <2> HIDE DEF committed
    <2>2. GoesTo("clean", 1) /\ apply'.failures = apply.failures
      BY <1>1, <1>2, <2>1 DEF GoesTo, CommandRecord
    <2>3. QED
      BY <1>3, <2>2
  <1>4. CASE f # NFiles
    <2> DEFINE next == f + 1
               committed == apply.committed \cup {f}
    <2>1. /\ apply' = [apply EXCEPT !.committed = committed, !.phase = "verify", !.i = next]
          /\ next \in 0..NFiles /\ committed \in SUBSET Files
      BY <1>1, <1>2, <1>4 DEF Commit
    <2> HIDE DEF next, committed
    <2>2. GoesTo("verify", next) /\ apply'.failures = apply.failures
      BY <1>1, <2>1 DEF GoesTo, CommandRecord, Committing
    <2>3. QED
      BY <1>4, <2>2 DEF next
  <1>5. QED
    BY <1>3, <1>4

(* Only f is touched. *)
LEMMA DiskAt ==
  ASSUME ApplyTypeOK, NEW f \in Files, NEW r, disk[f] \in FileRecord => r \in FileRecord,
         disk' = [disk EXCEPT ![f] = r]
  PROVE  /\ disk' \in [Files -> FileRecord] /\ disk'[f] = r
         /\ \A g \in Files \ {f} : disk'[g] = disk[g]
  BY DEF ApplyTypeOK

LEMMA FileFields ==
  ASSUME ApplyTypeOK, NEW f \in Files
  PROVE  /\ disk[f] \in FileRecord
         /\ disk[f].target \in Contents /\ disk[f].backup \in {"none", "old"}
         /\ disk[f].temp \in {"none", "new"} /\ disk[f].rollback \in Contents
  BY DEF ApplyTypeOK, FileRecord, Contents

LEMMA ApplyStart ==
  ASSUME ApplyInit
  PROVE  ApplyInv
  <1>1. /\ added \subseteq Files /\ edited = {} /\ unsafe = {} /\ applies = 0
        /\ apply.phase = "off" /\ apply.i = 0 /\ apply.ok = FALSE /\ apply.failures = 0
    BY DEF ApplyInit, Off
  <1>2. \A f \in Files :
           /\ disk[f] \in FileRecord
           /\ disk[f].target = Planned(f) /\ disk[f].backup = "none"
           /\ disk[f].temp = "none" /\ disk[f].rollback = "none"
    BY DEF ApplyInit, FileRecord, Contents, Planned
  <1>3. apply \in CommandRecord
    BY ApplyAssumption DEF ApplyInit, Off, CommandRecord, Contents
  <1>4. disk \in [Files -> FileRecord]
    BY <1>2 DEF ApplyInit
  <1>5. ApplyTypeOK
    BY <1>1, <1>3, <1>4 DEF ApplyTypeOK
  <1>6. Progress /\ TakingBack /\ BackedUp
    BY <1>1 DEF Progress, TakingBack, BackedUp, Staging, Committing, Undoing, Here
  <1>7. FoundAsPlanned /\ Finishing
    BY <1>1 DEF FoundAsPlanned, Finishing, Here
  <1>8. NothingLost
    BY <1>1, <1>2 DEF NothingLost, Has, Planned
  <1>9. QED
    BY <1>5, <1>6, <1>7, <1>8 DEF ApplyInv

LEMMA BeginKeeps ==
  ASSUME ApplyInv, Begin
  PROVE  ApplyInv'
  <1>1. /\ apply.phase = "off" /\ added' = added /\ disk' = disk /\ edited' = edited /\ unsafe' = unsafe
        /\ applies' = applies + 1 /\ ApplyTypeOK
    BY DEF Begin, Here, ApplyInv
  <1> DEFINE found == [f \in Files |-> disk[f].target]
             phase == IF Plannable THEN "backup" ELSE "ended"
  <1>2. /\ apply'.phase = phase /\ apply'.i = 1 /\ apply'.ok = FALSE /\ apply'.found = found
        /\ apply'.failures = 0 /\ apply' \in CommandRecord
    <2>1. found \in [Files -> Contents] /\ phase \in {"backup", "ended"}
      BY <1>1, FileFields
    <2>2. apply' = [Off EXCEPT !.phase = phase, !.i = 1, !.found = found]
      BY DEF Begin
    <2>3. 1 \in 0..NFiles
      BY ApplyAssumption
    <2> HIDE DEF found, phase
    <2>4. QED
      BY <2>1, <2>2, <2>3 DEF Off, CommandRecord, Staging, Contents
  <1>3. ApplyTypeOK'
    BY <1>1, <1>2 DEF ApplyTypeOK
  <1>4. \A f \in Files : AsPlanned(f) <=> AsFound(f)
    BY DEF AsPlanned, AsFound, Planned
  <1>5. phase = "backup" => \A f \in Files : disk[f].target = Planned(f)
    BY <1>4 DEF Plannable, AsFound
  <1>6. FoundAsPlanned'
    BY <1>1, <1>2, <1>5 DEF FoundAsPlanned, Planned, Exists
  <1>7. Progress'
    BY <1>1, <1>2, <1>5 DEF Progress, AsFound, Planned, Exists, Staging, Committing
  <1>8. TakingBack'
    BY <1>1, <1>2 DEF TakingBack, Undoing
  <1>9. BackedUp'
    BY <1>1, <1>2 DEF BackedUp, Staging, Committing, Undoing, Here, Files
  <1>10. Finishing'
    BY <1>1, <1>2 DEF Finishing, Here, WithinBudget, Budget
  <1>11. NothingLost'
    BY <1>1, <1>2 DEF ApplyInv, NothingLost, InHand, Committing, Undoing, Exists, Has
  <1>12. QED
    BY <1>3, <1>6, <1>7, <1>8, <1>9, <1>10, <1>11 DEF ApplyInv

(* While the command stages, no target is touched. *)
LEMMA StagingKeeps ==
  ASSUME ApplyInv, apply.phase \in Staging, NEW i \in 0..NFiles, NEW phase \in Staging,
         GoesTo(phase, i), apply'.failures \in Nat,
         added' = added, edited' = edited, unsafe' = unsafe, applies' = applies,
         disk' \in [Files -> FileRecord],
         \A g \in Files : disk'[g].target = disk[g].target,
         phase # "unstage" => i # 0,
         phase \in {"backup", "temp"} =>
            \A f \in Files : Exists(f) /\ (f < i \/ (f = i /\ phase = "temp")) => disk'[f].backup = "old"
  PROVE  ApplyInv'
  <1>1. /\ apply'.phase = phase /\ apply'.i = i /\ apply'.ok = apply.ok /\ apply'.found = apply.found
        /\ apply' \in CommandRecord /\ ApplyTypeOK
        /\ phase \notin Committing \cup Undoing \cup {"off", "clean", "ended"}
        /\ apply.phase \notin Committing \cup Undoing \cup {"off", "clean", "ended"}
    BY DEF GoesTo, ApplyInv, Staging, Committing, Undoing
  <1>2. /\ ~apply.ok /\ \A f \in Files \ edited : apply.found[f] = Planned(f)
        /\ \A f \in Files \ edited : disk[f].target = Planned(f)
    BY <1>1 DEF ApplyInv, FoundAsPlanned, Progress, AsFound
  <1>3. ApplyTypeOK'
    BY <1>1 DEF ApplyTypeOK, Undoing
  <1>4. FoundAsPlanned'
    BY <1>1, <1>2 DEF FoundAsPlanned, Planned, Exists
  <1>5. Progress'
    BY <1>1, <1>2 DEF Progress, AsFound, Planned, Exists, Committing, Undoing
  <1>6. TakingBack'
    BY <1>1 DEF TakingBack, Undoing, Committing
  <1>7. BackedUp'
    BY <1>1 DEF BackedUp, Here, Exists
  <1>8. Finishing'
    BY <1>1, <1>2 DEF Finishing, Here
  <1>9. NothingLost'
    <2>1. ASSUME NEW f \in Files \ edited, Exists(f) PROVE Has(f, "old")'
      BY <1>2, <2>1 DEF Planned, Has
    <2>2. ASSUME NEW f \in edited \ unsafe PROVE (disk[f].target = "user" /\ ~InHand(f))'
      BY <1>1, <2>2 DEF ApplyInv, ApplyTypeOK, NothingLost, InHand, Undoing
    <2>3. QED
      BY <2>1, <2>2 DEF NothingLost, Exists
  <1>10. QED
    BY <1>3, <1>4, <1>5, <1>6, <1>7, <1>8, <1>9 DEF ApplyInv

LEMMA BackupKeeps ==
  ASSUME ApplyInv, FaultsOK, Backup
  PROVE  ApplyInv'
  <1>1. /\ apply.phase = "backup" /\ ApplyTypeOK /\ added' = added /\ edited' = edited /\ unsafe' = unsafe
        /\ applies' = applies /\ disk \in [Files -> FileRecord]
    BY DEF Backup, Here, Rest, ApplyInv, ApplyTypeOK
  <1>2. PICK f \in Files : f = apply.i
    BY <1>1, CommandFields
  <1>3. /\ f \in Nat /\ f # 0 /\ f \in 0..NFiles /\ f - 1 \in 0..NFiles
        /\ apply.phase \in Staging /\ "temp" \in Staging /\ "unstage" \in Staging /\ "temp" \in Phases /\ "unstage" \in Phases
    BY <1>1, ApplyAssumption DEF Files, Staging, Phases
  <1>4. \A g \in Files : Exists(g) /\ g < f => disk[g].backup = "old"
    BY <1>1, <1>2 DEF ApplyInv, BackedUp
  <1>5. CASE Moves("unstage", f - 1) /\ (Fine \/ Fault) /\ disk' = disk
    <2>1. GoesTo("unstage", f - 1) /\ apply'.failures \in Nat
      BY <1>1, <1>3, <1>5, MovesFacts, CommandFields
    <2>2. QED
      BY <1>1, <1>3, <1>5, <2>1, StagingKeeps
  <1>6. CASE ~Exists(f) /\ Fine /\ Moves("temp", f) /\ disk' = disk
    <2>1. GoesTo("temp", f) /\ apply'.failures \in Nat
      BY <1>1, <1>3, <1>6, MovesFacts, CommandFields
    <2>2. \A g \in Files : Exists(g) /\ (g < f \/ (g = f /\ "temp" = "temp")) => disk'[g].backup = "old"
      BY <1>4, <1>6
    <2>3. QED
      BY <1>1, <1>3, <1>6, <2>1, <2>2, StagingKeeps
  <1>7. CASE /\ Fine /\ disk' = [disk EXCEPT ![f].backup = "old"]
             /\ Moves("temp", f) \/ Moves("unstage", f)
    <2> DEFINE r == [disk[f] EXCEPT !.backup = "old"]
    <2>1. r \in FileRecord /\ r.target = disk[f].target /\ r.backup = "old"
      BY <1>1 DEF FileRecord, Contents
    <2>2. disk' = [disk EXCEPT ![f] = r]
      BY <1>7
    <2> HIDE DEF r
    <2>3. disk' \in [Files -> FileRecord] /\ disk'[f] = r /\ \A g \in Files \ {f} : disk'[g] = disk[g]
      BY <1>1, <2>1, <2>2
    <2>4. \A g \in Files : disk'[g].target = disk[g].target
      BY <2>1, <2>3
    <2>5. \A g \in Files : Exists(g) /\ (g < f \/ (g = f /\ "temp" = "temp")) => disk'[g].backup = "old"
      BY <1>4, <2>1, <2>3
    <2>6. CASE Moves("temp", f)
      <3>1. GoesTo("temp", f) /\ apply'.failures \in Nat
        BY <1>1, <1>3, <1>7, <2>6, MovesFacts, CommandFields
      <3>2. QED
        BY <1>1, <1>3, <2>3, <2>4, <2>5, <3>1, StagingKeeps
    <2>7. CASE Moves("unstage", f)
      <3>1. GoesTo("unstage", f) /\ apply'.failures \in Nat
        BY <1>1, <1>3, <1>7, <2>7, MovesFacts, CommandFields
      <3>2. QED
        BY <1>1, <1>3, <2>3, <2>4, <3>1, StagingKeeps
    <2>8. QED
      BY <1>7, <2>6, <2>7
  <1>8. QED
    BY <1>2, <1>5, <1>6, <1>7 DEF Backup, Failed

(* A step to a place where the command has nothing to look after any more. *)
LEMMA EndedKeeps ==
  ASSUME ApplyInv, NEW i \in 0..NFiles, GoesTo("ended", i), apply'.failures \in Nat,
         added' = added, edited' = edited, unsafe' = unsafe, applies' = applies,
         disk' \in [Files -> FileRecord],
         \A g \in Files : disk'[g].target = disk[g].target /\ disk'[g].backup = disk[g].backup,
         ~apply.ok,
         WithinBudget' =>
            \/ \A f \in Files \ edited : disk[f].target = "new"
            \/ \A f \in Files \ edited : disk[f].target = apply.found[f],
         \A f \in Files \ edited : Exists(f) => disk[f].target = "old" \/ disk[f].backup = "old"
  PROVE  ApplyInv'
  <1>1. /\ apply'.phase = "ended" /\ apply'.i = i /\ apply'.ok = FALSE /\ apply'.found = apply.found
        /\ apply' \in CommandRecord /\ ApplyTypeOK
    BY CommandFields DEF GoesTo, ApplyInv
  <1>2. ApplyTypeOK'
    BY <1>1 DEF ApplyTypeOK
  <1>3. FoundAsPlanned' /\ Progress' /\ TakingBack' /\ BackedUp'
    BY <1>1 DEF FoundAsPlanned, Progress, TakingBack, BackedUp, Staging, Committing, Undoing, Here
  <1>4. Finishing'
    <2>1. WithinBudget' =>
             \/ \A f \in Files \ edited : disk'[f].target = "new"
             \/ \A f \in Files \ edited : disk'[f].target = apply'.found[f]
      BY <1>1
    <2>2. QED
      BY <1>1, <2>1 DEF Finishing, Here
  <1>5. NothingLost'
    <2>1. ASSUME NEW f \in Files \ edited, Exists(f) PROVE Has(f, "old")'
      BY <2>1 DEF Has
    <2>2. ASSUME NEW f \in edited \ unsafe PROVE (disk[f].target = "user" /\ ~InHand(f))'
      BY <1>1, <2>2 DEF ApplyInv, ApplyTypeOK, NothingLost, InHand, Committing, Undoing
    <2>3. QED
      BY <2>1, <2>2 DEF NothingLost, Exists
  <1>6. QED
    BY <1>2, <1>3, <1>4, <1>5 DEF ApplyInv

(* What somebody wrote is where they wrote it, and not in hand. *)
Untaken == \A f \in edited \ unsafe : disk[f].target = "user" /\ ~InHand(f)

(* The conjuncts that are left to show for a step within the commit, *)
LEMMA CommittingKeeps ==
  ASSUME ApplyInv, apply.phase \notin {"off", "ended"}, NEW phase \in Committing, NEW i \in Files,
         GoesTo(phase, i), apply'.failures \in Nat,
         added' = added, edited' = edited, unsafe' \subseteq Files, applies' = applies,
         disk' \in [Files -> FileRecord],
         phase = "restore" /\ edited = {} => apply'.failures > 0,
         \A f \in Files : Exists(f) => disk'[f].backup = "old",
         Progress', Untaken'
  PROVE  ApplyInv'
  <1>1. /\ apply'.phase = phase /\ apply'.i = i /\ apply'.ok = apply.ok /\ apply'.found = apply.found
        /\ apply' \in CommandRecord /\ ApplyTypeOK /\ i # 0
        /\ phase \notin Staging \cup Undoing \cup {"off", "clean", "ended"}
    BY DEF GoesTo, ApplyInv, Staging, Committing, Undoing, Files
  <1>2. ~apply.ok /\ \A f \in Files \ edited : apply.found[f] = Planned(f)
    BY DEF ApplyInv, FoundAsPlanned
  <1>3. ApplyTypeOK'
    BY <1>1 DEF ApplyTypeOK
  <1>4. FoundAsPlanned'
    BY <1>1, <1>2 DEF FoundAsPlanned, Planned, Exists
  <1>5. TakingBack'
    BY <1>1 DEF TakingBack
  <1>6. BackedUp'
    BY <1>1 DEF BackedUp, Here, Exists, Staging
  <1>7. Finishing'
    BY <1>1, <1>2 DEF Finishing, Here
  <1>8. NothingLost'
    BY DEF NothingLost, Untaken, Exists, Has
  <1>9. QED
    BY <1>3, <1>4, <1>5, <1>6, <1>7, <1>8 DEF ApplyInv

(* and for a step that takes back. *)
LEMMA UndoingKeeps ==
  ASSUME ApplyInv, apply.phase \notin {"off", "ended"}, NEW phase \in Undoing, NEW i \in 0..NFiles,
         GoesTo(phase, i), apply'.failures \in Nat,
         added' = added, edited' = edited, unsafe' = unsafe \/ unsafe' \subseteq Files, applies' = applies,
         disk' \in [Files -> FileRecord],
         phase # "undo" => i # 0, phase = "moveBack" => Exists(i),
         \A f \in Files : Exists(f) => disk'[f].backup = "old",
         TakingBack', Untaken'
  PROVE  ApplyInv'
  <1>1. /\ apply'.phase = phase /\ apply'.i = i /\ apply'.ok = apply.ok /\ apply'.found = apply.found
        /\ apply' \in CommandRecord /\ ApplyTypeOK
        /\ phase \notin Staging \cup Committing \cup {"off", "clean", "ended"}
    BY DEF GoesTo, ApplyInv, Staging, Committing, Undoing
  <1>2. ~apply.ok /\ \A f \in Files \ edited : apply.found[f] = Planned(f)
    BY DEF ApplyInv, FoundAsPlanned
  <1>3. ApplyTypeOK'
    BY <1>1 DEF ApplyTypeOK
  <1>4. FoundAsPlanned'
    BY <1>1, <1>2 DEF FoundAsPlanned, Planned, Exists
  <1>5. Progress'
    BY <1>1 DEF Progress, Committing, Exists
  <1>6. BackedUp'
    BY <1>1 DEF BackedUp, Here, Exists, Staging
  <1>7. Finishing'
    BY <1>1, <1>2 DEF Finishing, Here
  <1>8. NothingLost'
    BY DEF NothingLost, Untaken, Exists, Has
  <1>9. QED
    BY <1>3, <1>4, <1>5, <1>6, <1>7, <1>8 DEF ApplyInv

LEMMA TempKeeps ==
  ASSUME ApplyInv, FaultsOK, Temp
  PROVE  ApplyInv'
  <1>1. /\ apply.phase = "temp" /\ ApplyTypeOK /\ added' = added /\ edited' = edited /\ unsafe' = unsafe
        /\ applies' = applies /\ disk \in [Files -> FileRecord] /\ unsafe \subseteq Files /\ edited \subseteq Files
    BY DEF Temp, Here, Rest, ApplyInv, ApplyTypeOK
  <1>2. PICK f \in Files : f = apply.i
    BY <1>1, CommandFields
  <1>3. /\ f \in Nat /\ f # 0 /\ f \in 0..NFiles
        /\ apply.phase \in Staging /\ "backup" \in Staging /\ "unstage" \in Staging
        /\ "backup" \in Phases /\ "unstage" \in Phases /\ "verify" \in Phases /\ "verify" \in Committing
        /\ apply.phase \notin {"off", "ended"} /\ 1 \in Files /\ 1 \in 0..NFiles
    BY <1>1, ApplyAssumption DEF Files, Staging, Committing, Phases
  <1>4. /\ \A g \in Files : Exists(g) /\ g <= f => disk[g].backup = "old"
        /\ \A g \in Files \ edited : disk[g].target = Planned(g)
    BY <1>1, <1>2, <1>3 DEF ApplyInv, BackedUp, Progress, Here, AsFound, Files
  <1>5. CASE Moves("unstage", f) /\ Failed
    <2>1. GoesTo("unstage", f) /\ apply'.failures \in Nat /\ disk' = disk
      BY <1>1, <1>3, <1>5, MovesFacts, CommandFields DEF Failed
    <2>2. QED
      BY <1>1, <1>3, <1>5, <2>1, StagingKeeps
  <1>6. CASE /\ Fine /\ disk' = [disk EXCEPT ![f].temp = "new"]
             /\ NextFile("backup", "verify")
    <2> DEFINE r == [disk[f] EXCEPT !.temp = "new"]
    <2>1. r \in FileRecord /\ r.target = disk[f].target /\ r.backup = disk[f].backup
      BY <1>1 DEF FileRecord, Contents
    <2>2. disk' = [disk EXCEPT ![f] = r]
      BY <1>6
    <2> HIDE DEF r
    <2>3. disk' \in [Files -> FileRecord] /\ disk'[f] = r /\ \A g \in Files \ {f} : disk'[g] = disk[g]
      BY <1>1, <2>1, <2>2
    <2>4. \A g \in Files : disk'[g].target = disk[g].target /\ disk'[g].backup = disk[g].backup
      BY <2>1, <2>3
    <2>5. CASE f = NFiles
      <3>1. GoesTo("verify", 1) /\ apply'.failures \in Nat
        BY <1>1, <1>2, <1>3, <1>6, <2>5, MovesFacts, CommandFields DEF NextFile
      <3>2. \A g \in Files : Exists(g) => disk'[g].backup = "old"
        BY <1>4, <2>4, <2>5 DEF Files
      <3>3. apply'.phase = "verify" /\ apply'.i = 1
        BY <3>1 DEF GoesTo
      <3>4. Progress'
        BY <1>1, <1>4, <2>4, <3>3 DEF Progress, Current, AsFound, Planned, Exists, Files, Staging
      <3>5. Untaken'
        BY <1>1, <2>4, <3>3 DEF Untaken, ApplyInv, NothingLost, InHand, Files, Undoing, Committing
      <3>6. QED
        BY <1>1, <1>3, <2>3, <3>1, <3>2, <3>4, <3>5, CommittingKeeps
    <2>6. CASE f # NFiles
      <3> DEFINE i == f + 1
      <3>1. i \in 0..NFiles /\ i # 0 /\ \A g \in Files : g < i => g <= f
        BY <1>3, <2>6, ApplyAssumption DEF Files
      <3>2. Moves("backup", i)
        BY <1>2, <1>6, <2>6 DEF NextFile
      <3> HIDE DEF i
      <3>3. GoesTo("backup", i) /\ apply'.failures \in Nat
        BY <1>1, <1>3, <1>6, <3>1, <3>2, MovesFacts, CommandFields
      <3>4. \A g \in Files : Exists(g) /\ (g < i \/ (g = i /\ "backup" = "temp")) => disk'[g].backup = "old"
        BY <1>4, <2>4, <3>1
      <3>5. QED
        BY <1>1, <1>3, <2>3, <2>4, <3>1, <3>3, <3>4, StagingKeeps
    <2>7. QED
      BY <2>5, <2>6
  <1>7. QED
    BY <1>2, <1>5, <1>6 DEF Temp

LEMMA UnstageKeeps ==
  ASSUME ApplyInv, FaultsOK, Unstage
  PROVE  ApplyInv'
  <1>1. /\ apply.phase = "unstage" /\ ApplyTypeOK /\ added' = added /\ edited' = edited /\ unsafe' = unsafe
        /\ applies' = applies /\ disk \in [Files -> FileRecord] /\ Fine
    BY DEF Unstage, Here, Rest, ApplyInv, ApplyTypeOK
  <1>2. /\ apply.phase \in Staging /\ "unstage" \in Staging /\ "unstage" \in Phases /\ "ended" \in Phases
        /\ apply.i \in 0..NFiles /\ 0 \in 0..NFiles
    BY <1>1, CommandFields DEF Staging, Phases
  <1>3. /\ ~apply.ok /\ \A f \in Files \ edited : apply.found[f] = Planned(f)
        /\ \A f \in Files \ edited : disk[f].target = Planned(f)
    BY <1>1, <1>2 DEF ApplyInv, FoundAsPlanned, Progress, AsFound
  <1>4. CASE apply.i = 0
    <2>1. GoesTo("ended", 0) /\ apply'.failures \in Nat /\ disk' = disk
      BY <1>1, <1>2, <1>4, MovesFacts, CommandFields DEF Unstage
    <2>2. \A f \in Files \ edited : Exists(f) => disk[f].target = "old" \/ disk[f].backup = "old"
      BY <1>3 DEF Planned
    <2>3. \A f \in Files \ edited : disk[f].target = apply.found[f]
      BY <1>3
    <2>4. QED
      BY <1>1, <1>2, <1>3, <2>1, <2>2, <2>3, EndedKeeps
  <1>5. CASE apply.i # 0
    <2>1. PICK f \in Files : f = apply.i
      BY <1>1, <1>5, CommandFields
    <2> DEFINE i == f - 1
               r == [disk[f] EXCEPT !.backup = "none", !.temp = "none"]
    <2>2. i \in 0..NFiles
      BY ApplyAssumption DEF Files
    <2>3. Moves("unstage", i) /\ disk' = [disk EXCEPT ![f] = r]
      BY <1>5, <2>1 DEF Unstage
    <2>4. r \in FileRecord /\ r.target = disk[f].target
      BY <1>1 DEF FileRecord, Contents
    <2> HIDE DEF i, r
    <2>5. GoesTo("unstage", i) /\ apply'.failures \in Nat
      BY <1>1, <1>2, <2>2, <2>3, MovesFacts, CommandFields
    <2>6. disk' \in [Files -> FileRecord] /\ \A g \in Files : disk'[g].target = disk[g].target
      BY <1>1, <2>3, <2>4
    <2>7. QED
      BY <1>1, <1>2, <2>2, <2>5, <2>6, StagingKeeps
  <1>6. QED
    BY <1>4, <1>5

(* What holds of the other files while f is committed. *)
LEMMA CommittingFacts ==
  ASSUME ApplyInv, apply.phase \in Committing, NEW f \in Files, f = apply.i
  PROVE  /\ ApplyTypeOK /\ apply.phase \notin {"off", "ended"} /\ ~apply.ok
         /\ disk \in [Files -> FileRecord] /\ unsafe \subseteq Files /\ edited \subseteq Files
         /\ f \in Nat /\ f # 0 /\ f \in 0..NFiles /\ f - 1 \in 0..NFiles /\ f - 1 # f
         /\ \A g \in Files \ edited : /\ g < f => IsNew(g)
                                      /\ g > f => AsFound(g)
                                      /\ g = f => Current(g)
         /\ \A g \in Files : g < f => disk[g].temp = "none"
         /\ \A g \in Files : Exists(g) => disk[g].backup = "old"
         /\ Untaken
  <1>1. /\ ApplyTypeOK /\ apply.phase \notin {"off", "ended"} /\ f \in Nat /\ f # 0
        /\ f \in 0..NFiles /\ f - 1 \in 0..NFiles /\ f - 1 # f
    BY ApplyAssumption DEF ApplyInv, Committing, Files
  <1>2. ~apply.ok /\ disk \in [Files -> FileRecord] /\ unsafe \subseteq Files /\ edited \subseteq Files
    BY <1>1 DEF ApplyInv, FoundAsPlanned, ApplyTypeOK
  <1>3. /\ \A g \in Files \ edited : (g < f => IsNew(g)) /\ (g > f => AsFound(g)) /\ (g = f => Current(g))
        /\ \A g \in Files : g < f => disk[g].temp = "none"
    BY DEF ApplyInv, Progress
  <1>4. \A g \in Files : Exists(g) => disk[g].backup = "old"
    BY DEF ApplyInv, BackedUp
  <1>5. Untaken
    BY DEF ApplyInv, NothingLost, Untaken
  <1>6. QED
    BY <1>1, <1>2, <1>3, <1>4, <1>5

(* The commit goes on with the same file. *)
LEMMA SameFileKeeps ==
  ASSUME ApplyInv, apply.phase \in Committing, NEW f \in Files, f = apply.i,
         NEW phase \in Committing \ {"verify"}, GoesTo(phase, f), apply'.failures \in Nat,
         added' = added, edited' = edited, applies' = applies, unsafe' = unsafe,
         disk' \in [Files -> FileRecord], \A g \in Files \ {f} : disk'[g] = disk[g],
         disk'[f].backup = disk[f].backup,
         f \notin edited \ unsafe, f \notin edited => Current(f)',
         phase \in {"link", "unlink"} => ~Exists(f), phase \in {"aside", "place", "restore"} => Exists(f),
         phase = "restore" /\ edited = {} => apply'.failures > 0
  PROVE  ApplyInv'
  <1>1. apply'.phase = phase /\ apply'.i = f
    BY DEF GoesTo
  <1>2. \A g \in Files : Exists(g) => disk'[g].backup = "old"
    BY CommittingFacts
  <1>3. ASSUME NEW g \in Files \ edited
        PROVE (g < f => IsNew(g)') /\ (g > f => AsFound(g)') /\ (g = f => Current(g)')
    <2>1. CASE g = f
      BY <2>1, CommittingFacts
    <2>2. CASE g # f
      <3>1. disk'[g] = disk[g] /\ (g < f => IsNew(g)) /\ (g > f => AsFound(g))
        BY <2>2, CommittingFacts
      <3>2. QED
        BY <2>2, <3>1 DEF IsNew, AsFound, Planned, Exists
    <2>3. QED
      BY <2>1, <2>2
  <1>4. Progress'
    <2>1. \A g \in Files : g < f => disk'[g].temp = "none"
      BY CommittingFacts
    <2>2. phase \notin Staging
      BY DEF Committing, Staging
    <2>3. QED
      BY <1>1, <1>3, <2>1, <2>2 DEF Progress, Exists, Committing
  <1>5. Untaken'
    <2>1. ASSUME NEW g \in edited \ unsafe PROVE (disk[g].target = "user" /\ ~InHand(g))'
      <3>1. disk[g].target = "user" /\ ~InHand(g) /\ g # f /\ g \in Files
        BY <2>1, CommittingFacts DEF Untaken
      <3>2. ~(g < f)
        BY <3>1 DEF InHand
      <3>3. disk'[g] = disk[g]
        BY <3>1
      <3>4. QED
        BY <1>1, <3>1, <3>2, <3>3 DEF InHand
    <2>2. QED
      BY <2>1 DEF Untaken
  <1>6. QED
    BY <1>1, <1>2, <1>4, <1>5, CommittingFacts, CommittingKeeps

(* The commit gives up at f and takes back what comes before it. *)
LEMMA GivingUpKeeps ==
  ASSUME ApplyInv, apply.phase \in Committing, NEW f \in Files, f = apply.i,
         GoesTo("undo", f - 1), apply'.failures \in Nat,
         added' = added, edited' = edited, applies' = applies,
         unsafe' \subseteq Files, \A g \in Files \ {f} : g \in unsafe' <=> g \in unsafe,
         disk' \in [Files -> FileRecord], \A g \in Files \ {f} : disk'[g] = disk[g],
         disk'[f].backup = disk[f].backup,
         f \in edited \ unsafe' => disk'[f].target = "user",
         edited = {} => apply'.failures > 0,
         WithinBudget' /\ f \notin edited => AsFound(f)'
  PROVE  ApplyInv'
  <1> DEFINE i == f - 1
  <1>1. apply'.phase = "undo" /\ apply'.i = i /\ i \in 0..NFiles
    BY CommittingFacts DEF GoesTo
  <1>2. \A g \in Files : (g < i => g < f) /\ (g = i => g < f) /\ (g > i => g = f \/ g > f) /\ ~(f < i) /\ f # i
    BY DEF Files
  <1>3. \A g \in Files : Exists(g) => disk'[g].backup = "old"
    BY CommittingFacts
  <1> HIDE DEF i
  <1>4. TakingBack'
    <2>1. ASSUME WithinBudget', NEW g \in Files \ edited
          PROVE (g < i => IsNew(g)') /\ (g > i => AsFound(g)') /\ (g = i => IsNew(g)')
      <3>1. CASE g = f
        BY <1>2, <2>1, <3>1
      <3>2. CASE g # f
        <4>1. disk'[g] = disk[g] /\ (g < f => IsNew(g)) /\ (g > f => AsFound(g))
          BY <3>2, CommittingFacts
        <4>2. (IsNew(g) => IsNew(g)') /\ (AsFound(g) => AsFound(g)')
          BY <4>1 DEF IsNew, AsFound, Planned, Exists
        <4>3. QED
          BY <1>2, <3>2, <4>1, <4>2
      <3>3. QED
        BY <3>1, <3>2
    <2>2. QED
      BY <1>1, <2>1 DEF TakingBack
  <1>5. Untaken'
    <2>1. ASSUME NEW g \in edited \ unsafe' PROVE (disk[g].target = "user" /\ ~InHand(g))'
      <3>1. g \in Files
        BY <2>1, CommittingFacts
      <3>2. CASE g = f
        BY <1>1, <1>2, <2>1, <3>2 DEF InHand
      <3>3. CASE g # f
        <4>1. disk[g].target = "user" /\ ~InHand(g) /\ disk'[g] = disk[g]
          BY <2>1, <3>1, <3>3, CommittingFacts DEF Untaken
        <4>2. ~(g < f)
          BY <4>1 DEF InHand
        <4>3. QED
          BY <1>1, <1>2, <3>1, <4>1, <4>2 DEF InHand
      <3>4. QED
        BY <3>2, <3>3
    <2>2. QED
      BY <2>1 DEF Untaken
  <1>6. "undo" \in Undoing
    BY DEF Undoing
  <1>7. GoesTo("undo", i)
    BY DEF i
  <1>8. QED
    BY <1>1, <1>3, <1>4, <1>5, <1>6, <1>7, CommittingFacts, UndoingKeeps

(* All files are committed, and those before i are cleaned. *)
LEMMA CleaningKeeps ==
  ASSUME ApplyInv, apply.phase \notin {"off", "ended"}, NEW i \in Files,
         GoesTo("clean", i), apply'.failures \in Nat,
         added' = added, edited' = edited, unsafe' = unsafe, applies' = applies,
         disk' \in [Files -> FileRecord],
         \A g \in Files : disk'[g].temp = "none" /\ (g < i => disk'[g].rollback = "none"),
         \A g \in Files \ edited : disk'[g].target = "new",
         \A g \in Files : Exists(g) => disk'[g].backup = "old",
         \A g \in edited \ unsafe : disk'[g].target = "user"
  PROVE  ApplyInv'
  <1>1. /\ apply'.phase = "clean" /\ apply'.i = i /\ apply'.ok = apply.ok /\ apply'.found = apply.found
        /\ apply' \in CommandRecord /\ ApplyTypeOK /\ i # 0
    BY DEF GoesTo, ApplyInv, Files
  <1>2. ~apply.ok /\ \A f \in Files \ edited : apply.found[f] = Planned(f)
    BY DEF ApplyInv, FoundAsPlanned
  <1>3. ApplyTypeOK'
    BY <1>1 DEF ApplyTypeOK
  <1>4. FoundAsPlanned'
    BY <1>1, <1>2 DEF FoundAsPlanned, Planned, Exists
  <1>5. Progress' /\ TakingBack'
    BY <1>1 DEF Progress, TakingBack, Staging, Committing, Undoing
  <1>6. BackedUp'
    BY <1>1 DEF BackedUp, Here, Exists
  <1>7. Finishing'
    BY <1>1, <1>2 DEF Finishing, Here
  <1>8. NothingLost'
    <2>1. \A g \in edited \ unsafe : (disk[g].target = "user" /\ ~InHand(g))'
      BY <1>1 DEF InHand, Committing
    <2>2. QED
      BY <2>1 DEF NothingLost, Exists, Has
  <1>9. QED
    BY <1>3, <1>4, <1>5, <1>6, <1>7, <1>8 DEF ApplyInv

(* f is committed: the next one follows, or the cleaning. *)
LEMMA CommitKeeps ==
  ASSUME ApplyInv, NEW f \in Files, f = apply.i, apply.phase \in {"unlink", "place"}, Commit(f),
         added' = added, edited' = edited, applies' = applies, unsafe' = unsafe,
         disk' \in [Files -> FileRecord], \A g \in Files \ {f} : disk'[g] = disk[g],
         disk'[f].backup = disk[f].backup, disk'[f].temp = "none",
         f \notin edited => IsNew(f)', f \notin edited \ unsafe
  PROVE  ApplyInv'
  <1>0. apply.phase \in Committing /\ apply.phase \notin {"off", "ended"}
    BY DEF Committing
  <1>1. /\ f = NFiles => GoesTo("clean", 1)
        /\ f # NFiles => GoesTo("verify", f + 1)
        /\ apply'.failures \in Nat
    BY <1>0, CommittingFacts, CommitFacts, CommandFields
  <1>2. \A g \in Files : Exists(g) => disk'[g].backup = "old"
    BY <1>0, CommittingFacts
  <1>3. ASSUME NEW g \in Files \ edited PROVE (g <= f => IsNew(g)') /\ (g > f => AsFound(g)')
    <2>1. CASE g = f
      BY <1>0, <1>3, <2>1, CommittingFacts
    <2>2. CASE g # f
      <3>1. disk'[g] = disk[g] /\ (g < f => IsNew(g)) /\ (g > f => AsFound(g))
        BY <1>0, <1>3, <2>2, CommittingFacts
      <3>2. (IsNew(g) => IsNew(g)') /\ (AsFound(g) => AsFound(g)')
        BY <3>1 DEF IsNew, AsFound, Planned, Exists
      <3>3. QED
        BY <2>2, <3>1, <3>2 DEF Files
    <2>3. QED
      BY <2>1, <2>2
  <1>4. \A g \in Files : g <= f => disk'[g].temp = "none"
    <2>1. \A g \in Files : g <= f => g = f \/ g < f
      BY DEF Files
    <2>2. QED
      BY <1>0, <2>1, CommittingFacts
  <1>5. \A g \in edited \ unsafe : disk'[g].target = "user" /\ ~(g <= f)
    <2>1. ASSUME NEW g \in edited \ unsafe PROVE disk'[g].target = "user" /\ ~(g <= f)
      <3>1. disk[g].target = "user" /\ ~InHand(g) /\ g # f /\ g \in Files
        BY <1>0, <2>1, CommittingFacts DEF Untaken
      <3>2. ~(g < f)
        BY <1>0, <3>1 DEF InHand
      <3>3. QED
        BY <3>1, <3>2 DEF Files
    <2>2. QED
      BY <2>1
  <1>6. CASE f = NFiles
    <2>1. \A g \in Files : g <= f /\ ~(g < 1)
      BY <1>6, ApplyAssumption DEF Files
    <2>2. \A g \in Files \ edited : disk'[g].target = "new"
      BY <1>3, <2>1 DEF IsNew
    <2>3. 1 \in Files
      BY ApplyAssumption DEF Files
    <2>4. QED
      BY <1>0, <1>1, <1>2, <1>4, <1>5, <1>6, <2>1, <2>2, <2>3, CommittingFacts, CleaningKeeps
  <1>7. CASE f # NFiles
    <2> DEFINE i == f + 1
    <2>1. /\ i \in Files /\ GoesTo("verify", i)
          /\ \A g \in Files : (g < i => g <= f) /\ (g > i => g > f) /\ (g = i => g > f)
      BY <1>1, <1>7, ApplyAssumption DEF Files
    <2> HIDE DEF i
    <2>2. apply'.phase = "verify" /\ apply'.i = i
      BY <2>1 DEF GoesTo
    <2>3. Progress'
      <3>1. \A g \in Files \ edited : /\ (g < i => IsNew(g)')
                                      /\ (g > i => AsFound(g)')
                                      /\ (g = i => Current(g)')
        BY <1>3, <2>1, <2>2 DEF Current
      <3>2. \A g \in Files : g < i => disk'[g].temp = "none"
        BY <1>4, <2>1
      <3>3. QED
        BY <2>2, <3>1, <3>2 DEF Progress, Staging
    <2>4. Untaken'
      <3>1. \A g \in edited \ unsafe : (disk[g].target = "user" /\ ~InHand(g))'
        BY <1>5, <2>1, <2>2, CommittingFacts, <1>0 DEF InHand
      <3>2. QED
        BY <3>1 DEF Untaken
    <2>5. "verify" \in Committing
      BY DEF Committing
    <2>6. QED
      BY <1>0, <1>1, <1>2, <2>1, <2>3, <2>4, <2>5, CommittingFacts, CommittingKeeps
  <1>8. QED
    BY <1>6, <1>7

LEMMA VerifyKeeps ==
  ASSUME ApplyInv, FaultsOK, Verify
  PROVE  ApplyInv'
  <1>1. /\ apply.phase = "verify" /\ ApplyTypeOK /\ added' = added /\ edited' = edited /\ applies' = applies
        /\ disk' = disk /\ (Fine \/ Fault)
        /\ apply.phase \in Committing /\ "undo" \in Phases /\ "aside" \in Phases /\ "link" \in Phases
        /\ "aside" \in Committing \ {"verify"} /\ "link" \in Committing \ {"verify"}
    BY DEF Verify, Here, Rest, ApplyInv, Committing, Undoing, Phases, Failed
  <1>2. PICK f \in Files : f = apply.i
    BY <1>1, CommandFields
  <1> DEFINE undo == f - 1
  <1>3. /\ disk' \in [Files -> FileRecord] /\ \A g \in Files \ {f} : disk'[g] = disk[g]
        /\ disk'[f].backup = disk[f].backup /\ f \in 0..NFiles /\ undo \in 0..NFiles
    BY <1>1, <1>2, CommittingFacts
  <1>4. unsafe' = IF disk[f].target = "user" THEN unsafe \ {f} ELSE unsafe
    BY <1>2 DEF Verify
  <1>5. unsafe' \subseteq Files /\ \A g \in Files \ {f} : g \in unsafe' <=> g \in unsafe
    BY <1>1, <1>2, <1>4, CommittingFacts
  <1>6. f \in edited \ unsafe => disk[f].target = "user"
    BY <1>1, <1>2, CommittingFacts DEF Untaken
  <1>7. f \notin edited => AsFound(f)
    BY <1>1, <1>2, CommittingFacts DEF Current
  <1>8. AsPlanned(f) <=> AsFound(f)
    BY DEF AsPlanned, AsFound, Planned
  <1>9. AsFound(f) => disk[f].target # "user"
    BY DEF AsFound, Planned
  <1>10. AsFound(f)' <=> AsFound(f)
    BY <1>1 DEF AsFound, Planned, Exists
  <1>11. CASE AsPlanned(f) /\ Fine /\ Moves(IF Exists(f) THEN "aside" ELSE "link", f)
    <2> DEFINE phase == IF Exists(f) THEN "aside" ELSE "link"
    <2>1. /\ phase \in Committing \ {"verify"} /\ phase \in Phases
          /\ phase \in {"link", "unlink"} => ~Exists(f)
          /\ phase \in {"aside", "place", "restore"} => Exists(f)
          /\ phase \in {"verify", "link", "aside"} /\ phase # "restore"
      BY <1>1
    <2>2. Moves(phase, f)
      BY <1>11
    <2> HIDE DEF phase
    <2>3. GoesTo(phase, f) /\ apply'.failures \in Nat
      BY <1>1, <1>3, <1>11, <2>1, <2>2, MovesFacts, CommandFields
    <2>4. Current(f)'
      BY <1>8, <1>10, <1>11, <2>1, <2>3 DEF Current, GoesTo
    <2>5. f \notin edited \ unsafe /\ unsafe' = unsafe
      BY <1>4, <1>6, <1>8, <1>9, <1>11
    <2>6. QED
      BY <1>1, <1>2, <1>3, <2>1, <2>3, <2>4, <2>5, SameFileKeeps
  <1>12. CASE Moves("undo", f - 1) /\ ((Fine /\ ~AsPlanned(f)) \/ Fault)
    <2>1. GoesTo("undo", f - 1) /\ apply'.failures \in Nat /\ (Fault => apply'.failures > 0)
      BY <1>1, <1>3, <1>12, MovesFacts, CommandFields
    <2>2. edited = {} => apply'.failures > 0
      BY <1>7, <1>8, <1>12, <2>1
    <2>3. f \in edited \ unsafe' => disk'[f].target = "user"
      BY <1>1, <1>4, <1>6
    <2>4. f \notin edited => AsFound(f)'
      BY <1>7, <1>10
    <2>5. QED
      BY <1>1, <1>2, <1>3, <1>5, <2>1, <2>2, <2>3, <2>4, GivingUpKeeps
  <1>13. QED
    BY <1>2, <1>11, <1>12 DEF Verify, Failed

(* What all steps have in common once a file is verified. *)
LEMMA InHandFacts ==
  ASSUME ApplyInv, apply.phase \in Committing \ {"verify"}
  PROVE  \E f \in Files :
           /\ f = apply.i /\ f \notin edited \ unsafe
           /\ f \in 0..NFiles /\ f - 1 \in 0..NFiles /\ f # f - 1
           /\ f \notin edited => Current(f)
           /\ apply.phase \in {"link", "unlink"} => ~Exists(f)
           /\ apply.phase \in {"aside", "place", "restore"} => Exists(f)
           /\ disk \in [Files -> FileRecord] /\ disk[f] \in FileRecord /\ unsafe \subseteq Files
           /\ ApplyTypeOK /\ apply.phase \in Committing
           /\ "undo" \in Phases /\ Committing \subseteq Phases
  <1>1. ApplyTypeOK
    BY DEF ApplyInv
  <1>2. PICK f \in Files : f = apply.i
    BY <1>1, CommandFields DEF Committing
  <1>3. f \notin edited \ unsafe
    BY <1>2, CommittingFacts DEF Untaken, InHand
  <1>4. /\ apply.phase \in {"link", "unlink"} => ~Exists(f)
        /\ apply.phase \in {"aside", "place", "restore"} => Exists(f)
    BY <1>2 DEF ApplyInv, Progress
  <1>5. "undo" \in Phases /\ Committing \subseteq Phases
    BY DEF Phases, Undoing
  <1>6. /\ f \in 0..NFiles /\ f - 1 \in 0..NFiles /\ f # f - 1
        /\ f \notin edited => Current(f)
        /\ disk \in [Files -> FileRecord] /\ unsafe \subseteq Files /\ disk[f] \in FileRecord
    BY <1>2, CommittingFacts
  <1>7. QED
    BY <1>1, <1>2, <1>3, <1>4, <1>5, <1>6

LEMMA LinkKeeps ==
  ASSUME ApplyInv, FaultsOK, Link
  PROVE  ApplyInv'
  <1>1. /\ apply.phase = "link" /\ added' = added /\ edited' = edited /\ applies' = applies /\ unsafe' = unsafe
        /\ apply.phase \in Committing \ {"verify"} /\ "unlink" \in Committing \ {"verify"}
    BY DEF Link, Here, Rest, Committing
  <1>2. PICK f \in Files :
           /\ f = apply.i /\ f \notin edited \ unsafe
           /\ f \in 0..NFiles /\ f - 1 \in 0..NFiles /\ f # f - 1
           /\ f \notin edited => AsFound(f)
           /\ ~Exists(f)
           /\ disk \in [Files -> FileRecord] /\ disk[f] \in FileRecord /\ unsafe \subseteq Files
           /\ ApplyTypeOK /\ apply.phase \in Committing /\ "undo" \in Phases /\ "unlink" \in Phases
    BY <1>1, InHandFacts DEF Current
  <1>3. CASE Fine /\ disk' = [disk EXCEPT ![f].target = "new"] /\ Moves("unlink", f)
    <2> DEFINE r == [disk[f] EXCEPT !.target = "new"]
    <2>1. r \in FileRecord /\ r.target = "new" /\ r.backup = disk[f].backup
      BY <1>2 DEF FileRecord, Contents
    <2>2. disk' = [disk EXCEPT ![f] = r]
      BY <1>3
    <2> HIDE DEF r
    <2>3. disk' \in [Files -> FileRecord] /\ disk'[f] = r /\ \A g \in Files \ {f} : disk'[g] = disk[g]
      BY <1>2, <2>1, <2>2
    <2>4. GoesTo("unlink", f) /\ apply'.failures \in Nat
      BY <1>2, <1>3, MovesFacts, CommandFields
    <2>5. Current(f)'
      BY <1>1, <1>2, <2>1, <2>3, <2>4 DEF Current, GoesTo, IsNew, Exists
    <2>6. QED
      BY <1>1, <1>2, <2>1, <2>3, <2>4, <2>5, SameFileKeeps
  <1>4. CASE Moves("undo", f - 1) /\ disk' = disk /\ ((Fine /\ disk[f].target # "none") \/ Fault)
    <2>1. GoesTo("undo", f - 1) /\ apply'.failures \in Nat /\ (Fault => apply'.failures > 0)
      BY <1>2, <1>4, MovesFacts, CommandFields
    <2>2. edited = {} => apply'.failures > 0
      BY <1>2, <1>4, <2>1 DEF AsFound, Planned
    <2>3. f \notin edited => AsFound(f)'
      BY <1>1, <1>2, <1>4 DEF AsFound, Planned, Exists
    <2>4. QED
      BY <1>1, <1>2, <1>4, <2>1, <2>2, <2>3, GivingUpKeeps
  <1>5. QED
    BY <1>2, <1>3, <1>4 DEF Link, Failed

LEMMA UnlinkKeeps ==
  ASSUME ApplyInv, FaultsOK, Unlink
  PROVE  ApplyInv'
  <1>1. /\ apply.phase = "unlink" /\ added' = added /\ edited' = edited /\ applies' = applies /\ unsafe' = unsafe
        /\ apply.phase \in Committing \ {"verify"} /\ apply.phase \in {"unlink", "place"}
    BY DEF Unlink, Here, Rest, Committing
  <1>2. PICK f \in Files :
           /\ f = apply.i /\ f \notin edited \ unsafe
           /\ f \in 0..NFiles /\ f - 1 \in 0..NFiles /\ f # f - 1
           /\ f \notin edited => IsNew(f)
           /\ ~Exists(f)
           /\ disk \in [Files -> FileRecord] /\ disk[f] \in FileRecord /\ unsafe \subseteq Files
           /\ ApplyTypeOK /\ apply.phase \in Committing /\ "undo" \in Phases
    BY <1>1, InHandFacts DEF Current
  <1>3. CASE Fine /\ disk' = [disk EXCEPT ![f].temp = "none"] /\ Commit(f)
    <2> DEFINE r == [disk[f] EXCEPT !.temp = "none"]
    <2>1. r \in FileRecord /\ r.target = disk[f].target /\ r.backup = disk[f].backup /\ r.temp = "none"
      BY <1>2 DEF FileRecord, Contents
    <2>2. disk' = [disk EXCEPT ![f] = r]
      BY <1>3
    <2> HIDE DEF r
    <2>3. disk' \in [Files -> FileRecord] /\ disk'[f] = r /\ \A g \in Files \ {f} : disk'[g] = disk[g]
      BY <1>2, <2>1, <2>2
    <2>4. f \notin edited => IsNew(f)'
      BY <1>1, <1>2, <2>1, <2>3 DEF IsNew, Exists
    <2>5. QED
      BY <1>1, <1>2, <1>3, <2>1, <2>3, <2>4, CommitKeeps
  <1>4. CASE Fault /\ disk' = [disk EXCEPT ![f].target = "none"] /\ Moves("undo", f - 1)
    <2> DEFINE r == [disk[f] EXCEPT !.target = "none"]
    <2>1. r \in FileRecord /\ r.target = "none" /\ r.backup = disk[f].backup
      BY <1>2 DEF FileRecord, Contents
    <2>2. disk' = [disk EXCEPT ![f] = r]
      BY <1>4
    <2> HIDE DEF r
    <2>3. disk' \in [Files -> FileRecord] /\ disk'[f] = r /\ \A g \in Files \ {f} : disk'[g] = disk[g]
      BY <1>2, <2>1, <2>2
    <2>4. GoesTo("undo", f - 1) /\ apply'.failures \in Nat /\ apply'.failures > 0
      BY <1>2, <1>4, MovesFacts, CommandFields
    <2>5. AsFound(f)'
      BY <1>1, <1>2, <2>1, <2>3 DEF AsFound, Planned, Exists
    <2>6. QED
      BY <1>1, <1>2, <2>1, <2>3, <2>4, <2>5, GivingUpKeeps
  <1>5. QED
    BY <1>2, <1>3, <1>4 DEF Unlink

LEMMA AsideKeeps ==
  ASSUME ApplyInv, FaultsOK, Aside
  PROVE  ApplyInv'
  <1>1. /\ apply.phase = "aside" /\ added' = added /\ edited' = edited /\ applies' = applies /\ unsafe' = unsafe
        /\ apply.phase \in Committing \ {"verify"} /\ "place" \in Committing \ {"verify"}
    BY DEF Aside, Here, Rest, Committing
  <1>2. PICK f \in Files :
           /\ f = apply.i /\ f \notin edited \ unsafe
           /\ f \in 0..NFiles /\ f - 1 \in 0..NFiles /\ f # f - 1
           /\ f \notin edited => AsFound(f)
           /\ Exists(f)
           /\ disk \in [Files -> FileRecord] /\ disk[f] \in FileRecord /\ unsafe \subseteq Files
           /\ ApplyTypeOK /\ apply.phase \in Committing /\ "undo" \in Phases /\ "place" \in Phases
    BY <1>1, InHandFacts DEF Current
  <1>3. CASE /\ Fine /\ Moves("place", f)
             /\ disk' = [disk EXCEPT ![f] = [disk[f] EXCEPT !.rollback = disk[f].target, !.target = "none"]]
    <2> DEFINE r == [disk[f] EXCEPT !.rollback = disk[f].target, !.target = "none"]
    <2>1. /\ r \in FileRecord /\ r.target = "none" /\ r.rollback = disk[f].target
          /\ r.backup = disk[f].backup
      BY <1>2 DEF FileRecord, Contents
    <2>2. disk' = [disk EXCEPT ![f] = r]
      BY <1>3
    <2> HIDE DEF r
    <2>3. disk' \in [Files -> FileRecord] /\ disk'[f] = r /\ \A g \in Files \ {f} : disk'[g] = disk[g]
      BY <1>2, <2>1, <2>2
    <2>4. GoesTo("place", f) /\ apply'.failures \in Nat
      BY <1>2, <1>3, MovesFacts, CommandFields
    <2>5. f \notin edited => disk'[f].rollback = "old"
      BY <1>2, <2>1, <2>3 DEF AsFound, Planned
    <2>6. f \notin edited => Current(f)'
      BY <2>1, <2>3, <2>4, <2>5 DEF Current, GoesTo
    <2>7. QED
      BY <1>1, <1>2, <2>1, <2>3, <2>4, <2>6, SameFileKeeps
  <1>4. CASE Moves("undo", f - 1) /\ disk' = disk /\ Fault
    <2>1. GoesTo("undo", f - 1) /\ apply'.failures \in Nat /\ apply'.failures > 0
      BY <1>2, <1>4, MovesFacts, CommandFields
    <2>2. f \notin edited => AsFound(f)'
      BY <1>1, <1>2, <1>4 DEF AsFound, Planned, Exists
    <2>3. QED
      BY <1>1, <1>2, <1>4, <2>1, <2>2, GivingUpKeeps
  <1>5. QED
    BY <1>2, <1>3, <1>4 DEF Aside, Failed

LEMMA PlaceKeeps ==
  ASSUME ApplyInv, FaultsOK, Place
  PROVE  ApplyInv'
  <1>1. /\ apply.phase = "place" /\ added' = added /\ edited' = edited /\ applies' = applies /\ unsafe' = unsafe
        /\ apply.phase \in Committing \ {"verify"} /\ "restore" \in Committing \ {"verify"}
        /\ apply.phase \in {"unlink", "place"}
    BY DEF Place, Here, Rest, Committing
  <1>2. PICK f \in Files :
           /\ f = apply.i /\ f \notin edited \ unsafe
           /\ f \in 0..NFiles
           /\ f \notin edited => disk[f].target = "none" /\ disk[f].rollback = "old"
           /\ Exists(f)
           /\ disk \in [Files -> FileRecord] /\ disk[f] \in FileRecord
           /\ ApplyTypeOK /\ apply.phase \in Committing /\ "restore" \in Phases
    BY <1>1, InHandFacts DEF Current
  <1>3. CASE /\ Fine /\ disk' = [disk EXCEPT ![f] = [disk[f] EXCEPT !.target = "new", !.temp = "none"]]
             /\ Commit(f)
    <2> DEFINE r == [disk[f] EXCEPT !.target = "new", !.temp = "none"]
    <2>1. /\ r \in FileRecord /\ r.target = "new" /\ r.temp = "none"
          /\ r.rollback = disk[f].rollback /\ r.backup = disk[f].backup
      BY <1>2 DEF FileRecord, Contents
    <2>2. disk' = [disk EXCEPT ![f] = r]
      BY <1>3
    <2> HIDE DEF r
    <2>3. disk' \in [Files -> FileRecord] /\ disk'[f] = r /\ \A g \in Files \ {f} : disk'[g] = disk[g]
      BY <1>2, <2>1, <2>2
    <2>4. f \notin edited => IsNew(f)'
      BY <1>2, <2>1, <2>3 DEF IsNew
    <2>5. QED
      BY <1>1, <1>2, <1>3, <2>1, <2>3, <2>4, CommitKeeps
  <1>4. CASE Moves("restore", f) /\ disk' = disk /\ Fault
    <2>1. GoesTo("restore", f) /\ apply'.failures \in Nat /\ apply'.failures > 0
      BY <1>2, <1>4, MovesFacts, CommandFields
    <2>2. f \notin edited => Current(f)'
      BY <1>2, <1>4, <2>1 DEF Current, GoesTo
    <2>3. QED
      BY <1>1, <1>2, <1>4, <2>1, <2>2, SameFileKeeps
  <1>5. QED
    BY <1>2, <1>3, <1>4 DEF Place, Failed

(* After one failure, or with somebody's edits, another is over budget. *)
LEMMA OverBudget ==
  ASSUME ApplyInv, apply.phase \in Undoing \cup {"restore"}, edited' = edited,
         apply'.failures = apply.failures + 1
  PROVE  ~WithinBudget'
  <1>1. edited = {} => apply.failures > 0
    BY DEF ApplyInv, TakingBack
  <1>2. apply.failures \in Nat
    BY CommandFields DEF ApplyInv
  <1>3. QED
    BY <1>1, <1>2 DEF WithinBudget, Budget

LEMMA TakenBackFacts ==
  ASSUME ApplyTypeOK, NEW f \in Files, TakenBack(f)
  PROVE  /\ disk' \in [Files -> FileRecord] /\ \A g \in Files \ {f} : disk'[g] = disk[g]
         /\ disk'[f].target = disk[f].rollback /\ disk'[f].backup = disk[f].backup
  <1> DEFINE r == [disk[f] EXCEPT !.target = disk[f].rollback, !.rollback = "none"]
  <1>1. disk \in [Files -> FileRecord] /\ disk[f] \in FileRecord
    BY DEF ApplyTypeOK
  <1>2. r \in FileRecord /\ r.target = disk[f].rollback /\ r.backup = disk[f].backup
    BY <1>1 DEF FileRecord, Contents
  <1>3. disk' = [disk EXCEPT ![f] = r]
    BY DEF TakenBack
  <1> HIDE DEF r
  <1>4. disk' \in [Files -> FileRecord] /\ disk'[f] = r /\ \A g \in Files \ {f} : disk'[g] = disk[g]
    BY <1>1, <1>2, <1>3
  <1>5. QED
    BY <1>2, <1>4

LEMMA RestoreKeeps ==
  ASSUME ApplyInv, FaultsOK, Restore
  PROVE  ApplyInv'
  <1>1. /\ apply.phase = "restore" /\ added' = added /\ edited' = edited /\ applies' = applies /\ unsafe' = unsafe
        /\ apply.phase \in Committing \ {"verify"} /\ (Fine \/ Fault)
    BY DEF Restore, Here, Rest, Committing, Failed
  <1>2. PICK f \in Files :
           /\ f = apply.i /\ f \notin edited \ unsafe
           /\ f \in 0..NFiles /\ f - 1 \in 0..NFiles /\ f # f - 1
           /\ f \notin edited => disk[f].target = "none" /\ disk[f].rollback = "old"
           /\ Exists(f)
           /\ disk \in [Files -> FileRecord] /\ disk[f] \in FileRecord /\ unsafe \subseteq Files
           /\ ApplyTypeOK /\ apply.phase \in Committing /\ "undo" \in Phases
    BY <1>1, InHandFacts DEF Current
  <1>3. /\ GoesTo("undo", f - 1) /\ apply'.failures \in Nat
        /\ apply'.failures >= apply.failures /\ (Fault => apply'.failures = apply.failures + 1)
    BY <1>1, <1>2, MovesFacts, CommandFields DEF Restore
  <1>4. edited = {} => apply'.failures > 0
    <2>1. edited = {} => apply.failures > 0
      BY <1>1 DEF ApplyInv, TakingBack
    <2>2. QED
      BY <1>2, <1>3, <2>1, CommandFields
  <1>5. /\ disk' \in [Files -> FileRecord] /\ \A g \in Files \ {f} : disk'[g] = disk[g]
        /\ disk'[f].backup = disk[f].backup
    BY <1>2, TakenBackFacts DEF Restore, Failed
  <1>6. WithinBudget' /\ f \notin edited => AsFound(f)'
    <2>1. CASE Fault
      BY <1>1, <1>3, <2>1, OverBudget
    <2>2. CASE TakenBack(f)
      BY <1>1, <1>2, <2>2, TakenBackFacts DEF AsFound, Planned, Exists
    <2>3. QED
      BY <1>2, <2>1, <2>2 DEF Restore, Failed
  <1>7. QED
    BY <1>1, <1>2, <1>3, <1>4, <1>5, <1>6, GivingUpKeeps

LEMMA UndoingFacts ==
  ASSUME ApplyInv, apply.phase \in Undoing
  PROVE  /\ ApplyTypeOK /\ apply.phase \notin {"off", "ended"} /\ ~apply.ok
         /\ disk \in [Files -> FileRecord] /\ unsafe \subseteq Files /\ edited \subseteq Files
         /\ apply.i \in 0..NFiles /\ apply.failures \in Nat
         /\ edited = {} => apply.failures > 0
         /\ \A g \in Files : Exists(g) => disk[g].backup = "old"
         /\ Untaken
  <1>1. ApplyTypeOK /\ apply.phase \notin {"off", "ended"}
    BY DEF ApplyInv, Undoing
  <1>2. ~apply.ok /\ disk \in [Files -> FileRecord] /\ unsafe \subseteq Files /\ edited \subseteq Files
    BY <1>1 DEF ApplyInv, FoundAsPlanned, ApplyTypeOK
  <1>3. edited = {} => apply.failures > 0
    BY DEF ApplyInv, TakingBack
  <1>4. \A g \in Files : Exists(g) => disk[g].backup = "old"
    BY DEF ApplyInv, BackedUp
  <1>5. Untaken
    BY DEF ApplyInv, NothingLost, Untaken
  <1>6. QED
    BY <1>1, <1>2, <1>3, <1>4, <1>5, CommandFields

LEMMA BudgetShrinks ==
  ASSUME WithinBudget', apply.failures \in Nat, apply'.failures \in Nat,
         apply'.failures >= apply.failures, edited' = edited
  PROVE  WithinBudget
  BY DEF WithinBudget, Budget

(* f is taken back, or half of it is. *)
LEMMA TakeBackKeeps ==
  ASSUME ApplyInv, apply.phase \in {"undo", "moveBack"}, NEW f \in Files, f = apply.i,
         NEW phase \in {"undo", "moveBack"}, NEW i \in 0..NFiles,
         phase = "undo" => i = f - 1, phase = "moveBack" => i = f /\ Exists(f),
         GoesTo(phase, i), apply'.failures \in Nat, apply'.failures >= apply.failures,
         added' = added, edited' = edited, applies' = applies, unsafe' = unsafe,
         disk' \in [Files -> FileRecord], \A g \in Files \ {f} : disk'[g] = disk[g],
         disk'[f].backup = disk[f].backup,
         WithinBudget' /\ f \notin edited /\ phase = "undo" => AsFound(f)',
         WithinBudget' /\ f \notin edited /\ phase = "moveBack" =>
            disk'[f].target = "none" /\ disk'[f].rollback = "old"
  PROVE  ApplyInv'
  <1>1. apply.phase \in Undoing /\ phase \in Undoing /\ phase # "sweep" /\ apply'.phase = phase /\ apply'.i = i
    BY DEF Undoing, GoesTo
  <1>2. /\ \A g \in Files : (g < i => g < f) /\ (g > i => g = f \/ g > f)
        /\ phase = "undo" => (\A g \in Files : g = i => g < f) /\ ~(f < i) /\ f # i
        /\ phase = "moveBack" => ~(f < i) /\ ~(f > i)
        /\ phase = "moveBack" => i # 0
    BY DEF Files
  <1>3. \A g \in Files : Exists(g) => disk'[g].backup = "old"
    BY <1>1, UndoingFacts
  <1>4. TakingBack'
    <2>1. edited = {} => apply'.failures > 0
      BY <1>1, UndoingFacts
    <2>2. ASSUME WithinBudget', NEW g \in Files \ edited
          PROVE  /\ (g < i => IsNew(g)') /\ (g > i => AsFound(g)')
                 /\ (g = i /\ phase = "undo" => IsNew(g)')
                 /\ (g = i /\ phase = "moveBack" => disk'[g].target = "none" /\ disk'[g].rollback = "old")
      <3>1. CASE g = f
        BY <1>2, <2>2, <3>1
      <3>2. CASE g # f
        <4>1. WithinBudget
          BY <1>1, <2>2, UndoingFacts, BudgetShrinks
        <4>2. (g < f => IsNew(g)) /\ (g > f => AsFound(g))
          BY <1>1, <2>2, <4>1 DEF ApplyInv, TakingBack
        <4>3. (IsNew(g) => IsNew(g)') /\ (AsFound(g) => AsFound(g)')
          BY <2>2, <3>2 DEF IsNew, AsFound, Planned, Exists
        <4>4. QED
          BY <1>2, <2>2, <3>2, <4>2, <4>3
      <3>3. QED
        BY <3>1, <3>2
    <2>3. QED
      BY <1>1, <2>1, <2>2 DEF TakingBack
  <1>5. Untaken'
    <2>1. ASSUME NEW g \in edited \ unsafe PROVE (disk[g].target = "user" /\ ~InHand(g))'
      <3>1. disk[g].target = "user" /\ ~InHand(g) /\ g \in Files
        BY <1>1, <2>1, UndoingFacts DEF Untaken
      <3>2. ~(g < f) /\ g # f
        BY <3>1 DEF InHand
      <3>3. QED
        BY <1>1, <1>2, <3>1, <3>2 DEF InHand
    <2>2. QED
      BY <2>1 DEF Untaken
  <1>6. phase = "moveBack" => Exists(i)
    OBVIOUS
  <1>7. QED
    BY <1>1, <1>2, <1>3, <1>4, <1>5, <1>6, UndoingFacts, UndoingKeeps

LEMMA UndoKeeps ==
  ASSUME ApplyInv, FaultsOK, Undo
  PROVE  ApplyInv'
  <1>1. /\ apply.phase = "undo" /\ added' = added /\ edited' = edited /\ applies' = applies /\ unsafe' = unsafe
        /\ apply.phase \in Undoing /\ apply.phase \in {"undo", "moveBack"}
        /\ "sweep" \in Undoing /\ "sweep" \in Phases /\ "undo" \in Phases /\ "moveBack" \in Phases
    BY DEF Undo, Here, Rest, Undoing, Phases
  <1>2. /\ ApplyTypeOK /\ apply.failures \in Nat /\ NFiles \in 0..NFiles /\ NFiles # 0
        /\ disk \in [Files -> FileRecord]
    BY <1>1, UndoingFacts, ApplyAssumption
  <1>3. CASE apply.i = 0
    <2>1. Fine /\ Moves("sweep", NFiles) /\ disk' = disk
      BY <1>3 DEF Undo
    <2>2. GoesTo("sweep", NFiles) /\ apply'.failures = apply.failures
      BY <1>1, <1>2, <2>1, MovesFacts
    <2>3. apply'.phase = "sweep"
      BY <2>2 DEF GoesTo
    <2>4. TakingBack'
      <3>1. edited = {} => apply'.failures > 0
        BY <1>1, <2>2, UndoingFacts
      <3>2. ASSUME WithinBudget', NEW g \in Files \ edited PROVE AsFound(g)'
        <4>1. WithinBudget /\ g > 0
          BY <1>1, <1>2, <2>2, <3>2, BudgetShrinks DEF Files
        <4>2. AsFound(g)
          BY <1>1, <1>3, <3>2, <4>1 DEF ApplyInv, TakingBack
        <4>3. QED
          BY <1>1, <2>1, <4>2 DEF AsFound, Planned, Exists
      <3>3. QED
        BY <1>1, <2>3, <3>1, <3>2 DEF TakingBack
    <2>5. Untaken'
      BY <1>1, <2>1, <2>3, UndoingFacts DEF Untaken, InHand, Committing
    <2>6. QED
      BY <1>1, <1>2, <2>1, <2>2, <2>4, <2>5, UndoingFacts, UndoingKeeps
  <1>4. CASE apply.i # 0
    <2>1. PICK f \in Files : f = apply.i
      BY <1>2, <1>4, CommandFields
    <2> DEFINE before == f - 1
    <2>2. before \in 0..NFiles /\ f \in 0..NFiles
      BY ApplyAssumption DEF Files
    <2>3. CASE Failed /\ Moves("undo", before)
      <3>1. GoesTo("undo", before) /\ apply'.failures = apply.failures + 1 /\ disk' = disk
        BY <1>1, <1>2, <2>2, <2>3, MovesFacts DEF Failed
      <3>2. ~WithinBudget'
        BY <1>1, <3>1, OverBudget
      <3>3. apply'.failures \in Nat /\ apply'.failures >= apply.failures
        BY <1>2, <3>1
      <3>4. QED
        BY <1>1, <1>2, <2>1, <2>2, <3>1, <3>2, <3>3, TakeBackKeeps
    <2>4. CASE /\ Fine /\ disk' = [disk EXCEPT ![f].target = "none"]
               /\ Moves(IF Exists(f) THEN "moveBack" ELSE "undo", IF Exists(f) THEN f ELSE before)
      <3> DEFINE r == [disk[f] EXCEPT !.target = "none"]
                 phase == IF Exists(f) THEN "moveBack" ELSE "undo"
                 i == IF Exists(f) THEN f ELSE before
      <3>1. /\ r \in FileRecord /\ r.target = "none"
            /\ r.rollback = disk[f].rollback /\ r.backup = disk[f].backup
        BY <1>2, FileFields DEF FileRecord, Contents
      <3>2. disk' = [disk EXCEPT ![f] = r] /\ Moves(phase, i)
        BY <2>4
      <3>3. /\ phase \in {"undo", "moveBack"} /\ phase \in Phases /\ i \in 0..NFiles
            /\ phase = "undo" => i = before /\ ~Exists(f)
            /\ phase = "moveBack" => i = f /\ Exists(f)
        BY <1>1, <2>2
      <3> HIDE DEF r, phase, i
      <3>4. disk' \in [Files -> FileRecord] /\ disk'[f] = r /\ \A g \in Files \ {f} : disk'[g] = disk[g]
        BY <1>2, <3>1, <3>2
      <3>5. GoesTo(phase, i) /\ apply'.failures = apply.failures
        BY <1>2, <2>4, <3>2, <3>3, MovesFacts
      <3>6. WithinBudget' /\ f \notin edited => IsNew(f)
        <4>1. WithinBudget' => WithinBudget
          BY <1>1, <1>2, <3>5, BudgetShrinks
        <4>2. QED
          BY <1>1, <2>1, <4>1 DEF ApplyInv, TakingBack
      <3>7. WithinBudget' /\ f \notin edited /\ phase = "undo" => AsFound(f)'
        BY <1>1, <3>1, <3>3, <3>4 DEF AsFound, Planned, Exists
      <3>8. WithinBudget' /\ f \notin edited /\ phase = "moveBack" =>
               disk'[f].target = "none" /\ disk'[f].rollback = "old"
        BY <3>1, <3>3, <3>4, <3>6 DEF IsNew
      <3>9. apply'.failures \in Nat /\ apply'.failures >= apply.failures /\ disk'[f].backup = disk[f].backup
        BY <1>2, <3>1, <3>4, <3>5
      <3>10. QED
        BY <1>1, <2>1, <3>3, <3>4, <3>5, <3>7, <3>8, <3>9, TakeBackKeeps
    <2>5. QED
      BY <1>4, <2>1, <2>3, <2>4 DEF Undo
  <1>5. QED
    BY <1>3, <1>4

LEMMA MoveBackKeeps ==
  ASSUME ApplyInv, FaultsOK, MoveBack
  PROVE  ApplyInv'
  <1>1. /\ apply.phase = "moveBack" /\ added' = added /\ edited' = edited /\ applies' = applies /\ unsafe' = unsafe
        /\ apply.phase \in Undoing /\ apply.phase \in {"undo", "moveBack"} /\ "undo" \in Phases
        /\ (Fine \/ Fault)
    BY DEF MoveBack, Here, Rest, Undoing, Phases, Failed
  <1>2. ApplyTypeOK /\ apply.failures \in Nat /\ disk \in [Files -> FileRecord]
    BY <1>1, UndoingFacts
  <1>3. PICK f \in Files : f = apply.i
    BY <1>1, <1>2, CommandFields
  <1> DEFINE before == f - 1
  <1>4. before \in 0..NFiles /\ Exists(f)
    BY <1>1, <1>3, ApplyAssumption DEF Files, ApplyInv, Progress
  <1>5. /\ GoesTo("undo", before) /\ apply'.failures \in Nat /\ apply'.failures >= apply.failures
        /\ Fault => apply'.failures = apply.failures + 1
    <2>1. Moves("undo", before)
      BY <1>3 DEF MoveBack
    <2> HIDE DEF before
    <2>2. QED
      BY <1>1, <1>2, <1>4, <2>1, MovesFacts
  <1>6. /\ disk' \in [Files -> FileRecord] /\ \A g \in Files \ {f} : disk'[g] = disk[g]
        /\ disk'[f].backup = disk[f].backup
    BY <1>2, <1>3, TakenBackFacts DEF MoveBack, Failed
  <1>7. WithinBudget' /\ f \notin edited => AsFound(f)'
    <2>1. CASE Fault
      BY <1>1, <1>5, <2>1, OverBudget
    <2>2. CASE TakenBack(f)
      <3>1. WithinBudget' => WithinBudget
        BY <1>1, <1>2, <1>5, BudgetShrinks
      <3>2. WithinBudget /\ f \notin edited => disk[f].rollback = "old"
        BY <1>1, <1>3 DEF ApplyInv, TakingBack
      <3>3. QED
        BY <1>1, <1>2, <1>4, <2>2, <3>1, <3>2, TakenBackFacts DEF AsFound, Planned, Exists
    <2>3. QED
      BY <1>3, <2>1, <2>2 DEF MoveBack, Failed
  <1>8. QED
    BY <1>1, <1>3, <1>4, <1>5, <1>6, <1>7, TakeBackKeeps

LEMMA SweepKeeps ==
  ASSUME ApplyInv, FaultsOK, Sweep
  PROVE  ApplyInv'
  <1>1. /\ apply.phase = "sweep" /\ added' = added /\ edited' = edited /\ applies' = applies /\ unsafe' = unsafe
        /\ apply.phase \in Undoing /\ "ended" \in Phases /\ 0 \in 0..NFiles /\ Fine /\ Moves("ended", 0)
    BY ApplyAssumption DEF Sweep, Here, Rest, Undoing, Phases
  <1>2. /\ ApplyTypeOK /\ apply.failures \in Nat /\ disk \in [Files -> FileRecord] /\ ~apply.ok
        /\ \A g \in Files : Exists(g) => disk[g].backup = "old"
    BY <1>1, UndoingFacts
  <1>3. GoesTo("ended", 0) /\ apply'.failures = apply.failures
    BY <1>1, <1>2, MovesFacts
  <1>4. \A g \in Files : /\ [disk[g] EXCEPT !.temp = "none"] \in FileRecord
                         /\ [disk[g] EXCEPT !.temp = "none"].target = disk[g].target
                         /\ [disk[g] EXCEPT !.temp = "none"].backup = disk[g].backup
    BY <1>2 DEF FileRecord
  <1>5. /\ disk' \in [Files -> FileRecord]
        /\ \A g \in Files : disk'[g].target = disk[g].target /\ disk'[g].backup = disk[g].backup
    BY <1>4 DEF Sweep
  <1>6. WithinBudget' => \A g \in Files \ edited : disk[g].target = apply.found[g]
    <2>1. WithinBudget' => WithinBudget
      BY <1>1, <1>2, <1>3, BudgetShrinks
    <2>2. WithinBudget => \A g \in Files \ edited : AsFound(g)
      BY <1>1 DEF ApplyInv, TakingBack
    <2>3. \A g \in Files \ edited : apply.found[g] = Planned(g)
      BY <1>1 DEF ApplyInv, FoundAsPlanned
    <2>4. QED
      BY <2>1, <2>2, <2>3 DEF AsFound
  <1>7. \A f \in Files \ edited : Exists(f) => disk[f].target = "old" \/ disk[f].backup = "old"
    BY <1>2
  <1>8. QED
    BY <1>1, <1>2, <1>3, <1>5, <1>6, <1>7, EndedKeeps

LEMMA CleanKeeps ==
  ASSUME ApplyInv, FaultsOK, Clean
  PROVE  ApplyInv'
  <1>1. /\ apply.phase = "clean" /\ added' = added /\ edited' = edited /\ applies' = applies /\ unsafe' = unsafe
        /\ "ended" \in Phases /\ "clean" \in Phases /\ 0 \in 0..NFiles /\ apply.phase \notin {"off", "ended"}
    BY ApplyAssumption DEF Clean, Here, Rest, Phases
  <1>2. /\ ApplyTypeOK /\ disk \in [Files -> FileRecord] /\ edited \subseteq Files
        /\ apply \in CommandRecord
    BY DEF ApplyInv, ApplyTypeOK
  <1>3. PICK f \in Files : f = apply.i
    BY <1>1, <1>2, CommandFields
  <1>4. /\ \A g \in Files : Exists(g) => disk[g].backup = "old"
        /\ \A g \in Files : disk[g].temp = "none" /\ (g < f => disk[g].rollback = "none")
        /\ \A g \in Files \ edited : disk[g].target = "new"
        /\ \A g \in edited \ unsafe : disk[g].target = "user"
        /\ ~apply.ok
    BY <1>1, <1>3 DEF ApplyInv, BackedUp, Finishing, Here, NothingLost, FoundAsPlanned
  <1>5. CASE Failed /\ Moves("ended", 0)
    <2>1. GoesTo("ended", 0) /\ apply'.failures \in Nat /\ disk' = disk
      BY <1>1, <1>2, <1>5, MovesFacts, CommandFields DEF Failed
    <2>2. \A g \in Files \ edited : Exists(g) => disk[g].target = "old" \/ disk[g].backup = "old"
      BY <1>4
    <2>3. QED
      BY <1>1, <1>2, <1>4, <2>1, <2>2, EndedKeeps
  <1>6. CASE /\ Fine /\ disk' = [disk EXCEPT ![f].rollback = "none"]
             /\ IF f = NFiles THEN apply' = [apply EXCEPT !.phase = "ended", !.ok = TRUE] ELSE Moves("clean", f + 1)
    <2> DEFINE r == [disk[f] EXCEPT !.rollback = "none"]
    <2>1. /\ r \in FileRecord /\ r.target = disk[f].target /\ r.temp = disk[f].temp
          /\ r.backup = disk[f].backup /\ r.rollback = "none"
      BY <1>2 DEF FileRecord, Contents
    <2>2. disk' = [disk EXCEPT ![f] = r]
      BY <1>6
    <2> HIDE DEF r
    <2>3. disk' \in [Files -> FileRecord] /\ disk'[f] = r /\ \A g \in Files \ {f} : disk'[g] = disk[g]
      BY <1>2, <2>1, <2>2
    <2>4. /\ \A g \in Files : disk'[g].temp = "none" /\ (g <= f => disk'[g].rollback = "none")
          /\ \A g \in Files \ edited : disk'[g].target = "new"
          /\ \A g \in Files : Exists(g) => disk'[g].backup = "old"
          /\ \A g \in edited \ unsafe : disk'[g].target = "user"
      <3>1. \A g \in Files : g <= f => g = f \/ g < f
        BY DEF Files
      <3>2. \A g \in Files : /\ disk'[g].target = disk[g].target /\ disk'[g].temp = disk[g].temp
                             /\ disk'[g].backup = disk[g].backup
                             /\ disk'[g].rollback = IF g = f THEN "none" ELSE disk[g].rollback
        BY <2>1, <2>3
      <3>3. QED
        BY <1>2, <1>4, <3>1, <3>2
    <2>5. CASE f # NFiles
      <3> DEFINE i == f + 1
      <3>1. i \in Files /\ i \in 0..NFiles /\ \A g \in Files : g < i => g <= f
        BY <2>5, ApplyAssumption DEF Files
      <3>2. Moves("clean", i)
        BY <1>6, <2>5
      <3> HIDE DEF i
      <3>3. GoesTo("clean", i) /\ apply'.failures \in Nat
        BY <1>1, <1>2, <1>6, <3>1, <3>2, MovesFacts, CommandFields
      <3>4. \A g \in Files : disk'[g].temp = "none" /\ (g < i => disk'[g].rollback = "none")
        BY <2>4, <3>1
      <3>5. QED
        BY <1>1, <2>3, <2>4, <3>1, <3>3, <3>4, CleaningKeeps
    <2>6. CASE f = NFiles
      <3>1. apply' = [apply EXCEPT !.phase = "ended", !.ok = TRUE]
        BY <1>6, <2>6
      <3>2. /\ apply' \in CommandRecord /\ apply'.phase = "ended" /\ apply'.ok = TRUE
            /\ apply'.i = apply.i /\ apply'.failures = apply.failures
        BY <1>2, <3>1 DEF CommandRecord
      <3>3. \A g \in Files : g <= f
        BY <2>6 DEF Files
      <3>4. ApplyTypeOK'
        BY <1>1, <1>2, <2>3, <3>2 DEF ApplyTypeOK
      <3>5. FoundAsPlanned' /\ Progress' /\ TakingBack' /\ BackedUp'
        BY <3>2 DEF FoundAsPlanned, Progress, TakingBack, BackedUp, Staging, Committing, Undoing, Here
      <3>6. Finishing'
        BY <1>1, <2>4, <3>2, <3>3 DEF Finishing, Here
      <3>7. NothingLost'
        <4>1. \A g \in Files \ edited : Exists(g) => Has(g, "old")'
          BY <2>4 DEF Has
        <4>2. \A g \in edited \ unsafe : (disk[g].target = "user" /\ ~InHand(g))'
          BY <2>4, <3>2 DEF InHand, Committing
        <4>3. QED
          BY <1>1, <4>1, <4>2 DEF NothingLost, Exists
      <3>8. QED
        BY <3>4, <3>5, <3>6, <3>7 DEF ApplyInv
    <2>7. QED
      BY <2>5, <2>6
  <1>7. QED
    BY <1>3, <1>5, <1>6 DEF Clean

(* The command is over, and all is left on the disk as it is. *)
LEMMA OffKeeps ==
  ASSUME ApplyInv, apply' = Off, UNCHANGED <<added, disk, applies, edited, unsafe>>
  PROVE  ApplyInv'
  <1>1. /\ apply'.phase = "off" /\ apply'.i = 0 /\ apply'.ok = FALSE /\ apply'.failures = 0
        /\ apply' \in CommandRecord
    BY ApplyAssumption DEF Off, CommandRecord, Contents
  <1>2. ApplyTypeOK'
    BY <1>1 DEF ApplyInv, ApplyTypeOK
  <1>3. FoundAsPlanned' /\ Progress' /\ TakingBack' /\ BackedUp' /\ Finishing'
    BY <1>1 DEF FoundAsPlanned, Progress, TakingBack, BackedUp, Finishing, Staging, Committing, Undoing, Here
  <1>4. NothingLost'
    <2>1. \A g \in edited \ unsafe : (disk[g].target = "user" /\ ~InHand(g))'
      BY <1>1 DEF ApplyInv, NothingLost, InHand, Committing
    <2>2. \A g \in Files \ edited : Exists(g) => Has(g, "old")'
      BY DEF ApplyInv, NothingLost, Has
    <2>3. QED
      BY <2>1, <2>2 DEF NothingLost, Exists
  <1>5. QED
    BY <1>2, <1>3, <1>4 DEF ApplyInv

LEMMA EditKeeps ==
  ASSUME ApplyInv, NEW f \in Files, Edit(f)
  PROVE  ApplyInv'
  <1>1. /\ edited' = edited \cup {f} /\ added' = added /\ apply' = apply /\ applies' = applies
        /\ unsafe' = IF Here("off") \/ Here("ended") THEN unsafe \ {f} ELSE unsafe \cup {f}
    BY DEF Edit
  <1>2. disk \in [Files -> FileRecord] /\ edited \subseteq Files /\ unsafe \subseteq Files /\ ApplyTypeOK
    BY DEF ApplyInv, ApplyTypeOK
  <1> DEFINE r == [disk[f] EXCEPT !.target = "user"]
  <1>3. /\ r \in FileRecord /\ r.target = "user" /\ r.temp = disk[f].temp
        /\ r.backup = disk[f].backup /\ r.rollback = disk[f].rollback
    BY <1>2 DEF FileRecord, Contents
  <1>4. disk' = [disk EXCEPT ![f] = r]
    BY DEF Edit
  <1> HIDE DEF r
  <1>5. disk' \in [Files -> FileRecord] /\ disk'[f] = r /\ \A g \in Files \ {f} : disk'[g] = disk[g]
    BY <1>2, <1>3, <1>4
  <1>6. /\ \A g \in Files : /\ disk'[g].temp = disk[g].temp /\ disk'[g].backup = disk[g].backup
                            /\ disk'[g].rollback = disk[g].rollback
        /\ \A g \in Files \ edited' : disk'[g].target = disk[g].target /\ g \in Files \ edited
        /\ disk'[f].target = "user"
    BY <1>1, <1>3, <1>5
  <1>7. \A g \in Files \ edited' : /\ IsNew(g)' <=> IsNew(g)
                                   /\ AsFound(g)' <=> AsFound(g)
    BY <1>1, <1>6 DEF IsNew, AsFound, Planned, Exists
  <1>8. ASSUME apply.phase \in Committing, NEW g \in Files \ edited', Current(g) PROVE Current(g)'
    <2>1. CASE apply.phase \in {"verify", "link", "aside"}
      BY <1>1, <1>7, <1>8, <2>1 DEF Current
    <2>2. CASE apply.phase = "unlink"
      BY <1>1, <1>7, <1>8, <2>2 DEF Current
    <2>3. CASE apply.phase \in {"place", "restore"}
      BY <1>1, <1>6, <1>8, <2>3 DEF Current
    <2>4. QED
      BY <1>8, <2>1, <2>2, <2>3 DEF Committing
  <1>9. WithinBudget' => WithinBudget
    <2>1. apply.failures \in Nat
      BY <1>2, CommandFields
    <2>2. QED
      BY <1>1, <2>1 DEF WithinBudget, Budget
  <1>10. ApplyTypeOK'
    BY <1>1, <1>2, <1>5 DEF ApplyTypeOK
  <1>11. FoundAsPlanned'
    <2>1. apply.phase \notin {"off", "ended"} =>
             ~apply.ok /\ \A g \in Files \ edited : apply.found[g] = Planned(g)
      BY DEF ApplyInv, FoundAsPlanned
    <2>2. \A g \in Files : Planned(g)' = Planned(g)
      BY <1>1 DEF Planned, Exists
    <2>3. apply.phase \notin {"off", "ended"} =>
             ~apply.ok /\ \A g \in Files \ edited' : apply.found[g] = Planned(g)'
      BY <1>6, <2>1, <2>2
    <2>4. QED
      BY <1>1, <2>3 DEF FoundAsPlanned
  <1>12. Progress'
    <2>1. /\ apply.phase \in Staging => \A g \in Files \ edited : AsFound(g)
          /\ apply.phase \in Committing => \A g \in Files \ edited :
               (g < apply.i => IsNew(g)) /\ (g > apply.i => AsFound(g)) /\ (g = apply.i => Current(g))
          /\ apply.phase \in Committing => \A g \in Files : g < apply.i => disk[g].temp = "none"
          /\ apply.phase \in {"link", "unlink"} => ~Exists(apply.i)
          /\ apply.phase \in {"aside", "place", "restore", "moveBack"} => Exists(apply.i)
      BY DEF ApplyInv, Progress
    <2>2. apply.phase \in Staging => \A g \in Files \ edited' : AsFound(g)'
      BY <1>6, <1>7, <2>1
    <2>3. apply.phase \in Committing =>
            /\ \A g \in Files \ edited' :
                 (g < apply.i => IsNew(g)') /\ (g > apply.i => AsFound(g)') /\ (g = apply.i => Current(g)')
            /\ \A g \in Files : g < apply.i => disk'[g].temp = "none"
      BY <1>6, <1>7, <1>8, <2>1
    <2>4. QED
      BY <1>1, <2>1, <2>2, <2>3 DEF Progress, Exists
  <1>13. TakingBack'
    <2>1. apply.phase \in Undoing /\ WithinBudget => \A g \in Files \ edited :
            /\ g < apply.i /\ apply.phase # "sweep" => IsNew(g)
            /\ g > apply.i \/ apply.phase = "sweep" => AsFound(g)
            /\ g = apply.i /\ apply.phase = "undo" => IsNew(g)
            /\ g = apply.i /\ apply.phase = "moveBack" => disk[g].target = "none" /\ disk[g].rollback = "old"
      BY DEF ApplyInv, TakingBack
    <2>2. apply.phase \in Undoing /\ WithinBudget => \A g \in Files \ edited' :
            /\ g < apply.i /\ apply.phase # "sweep" => IsNew(g)'
            /\ g > apply.i \/ apply.phase = "sweep" => AsFound(g)'
            /\ g = apply.i /\ apply.phase = "undo" => IsNew(g)'
            /\ g = apply.i /\ apply.phase = "moveBack" => disk'[g].target = "none" /\ disk'[g].rollback = "old"
      BY <1>6, <1>7, <2>1
    <2>3. edited' # {}
      BY <1>1
    <2>4. QED
      BY <1>1, <1>9, <2>2, <2>3 DEF TakingBack
  <1>14. BackedUp'
    BY <1>1, <1>6 DEF ApplyInv, BackedUp, Exists, Here
  <1>15. Finishing'
    BY <1>1, <1>6, <1>9 DEF ApplyInv, Finishing, Here
  <1>16. NothingLost'
    <2>1. ASSUME NEW g \in Files \ edited', Exists(g) PROVE Has(g, "old")'
      <3>1. Has(g, "old") /\ disk'[g] = disk[g]
        BY <1>1, <1>5, <2>1 DEF ApplyInv, NothingLost
      <3>2. QED
        BY <3>1 DEF Has
    <2>2. ASSUME NEW g \in edited' \ unsafe' PROVE (disk[g].target = "user" /\ ~InHand(g))'
      <3>1. g = f \/ g \in edited \ unsafe
        BY <1>1, <2>2
      <3>2. CASE g = f
        <4>1. apply.phase \in {"off", "ended"}
          BY <1>1, <2>2, <3>2 DEF Here
        <4>2. QED
          BY <1>1, <1>6, <3>2, <4>1 DEF InHand, Committing
      <3>3. CASE g # f
        BY <1>1, <1>2, <1>5, <3>1, <3>3 DEF ApplyInv, NothingLost, InHand
      <3>4. QED
        BY <3>2, <3>3
    <2>3. QED
      BY <1>1, <2>1, <2>2 DEF NothingLost, Exists
  <1>17. QED
    BY <1>10, <1>11, <1>12, <1>13, <1>14, <1>15, <1>16 DEF ApplyInv

LEMMA ApplyKept ==
  ASSUME ApplyInv, FaultsOK, ApplyStep
  PROVE  ApplyInv'
  <1>1. CASE Return \/ Dies
    BY <1>1, OffKeeps DEF Return, Dies
  <1>2. CASE \E f \in Files : Edit(f)
    BY <1>2, EditKeeps
  <1>3. QED
    BY <1>1, <1>2, BeginKeeps, BackupKeeps, TempKeeps, UnstageKeeps, VerifyKeeps, LinkKeeps, UnlinkKeeps,
       AsideKeeps, PlaceKeeps, RestoreKeeps, UndoKeeps, MoveBackKeeps, SweepKeeps, CleanKeeps
    DEF ApplyStep

-----------------------------------------------------------------------------
(* SideEffects *)

(* An issue, as GitHub, a record or a handler has it. *)
IsLink(l) == l = [number |-> l.number, state |-> l.state, locked |-> l.locked] /\ l.number \in Nat

IsStore(s) ==
    /\ s = [facts |-> s.facts, attempt |-> s.attempt, link |-> s.link, claimed |-> s.claimed, audits |-> s.audits]
    /\ s.facts \subseteq Facts
    /\ s.attempt \in {"none", "requesting", "requested", "failed"}
    /\ IsLink(s.link)

(* Where the handlers of a task can be. *)
InRetry == {"ask", "requested", "refused"}
AfterLook == {"attempt", "claim", "ask", "requested", "refused"}
Ending == {"audit", "done"}
Diagnosed == {"check", "comments", "comment", "rerun"} \cup AfterLook
Deciding == {"create", "get", "patch", "lock", "link"}

Places == {"idle", "failed", "diagnose", "find", "remark", "take", "act"} \cup Ending \cup Diagnosed \cup Deciding

Allowed(t, p) ==
    /\ p \in Places
    /\ p = "diagnose" => t \in {"gitlab", "bare", "workflow"}
    /\ p \in {"check", "rerun"} => t = "workflow"
    /\ p \in {"comments", "comment"} => t \in {"workflow", "gitlab"}
    /\ p \in AfterLook => t \in {"gitlab", "bare"}
    /\ p = "find" => t \in {"create", "edit", "refresh", "remark"}
    /\ p = "create" => t = "create"
    /\ p = "get" => t = "refresh"
    /\ p \in {"patch", "lock"} => t = "edit"
    /\ p = "link" => t \in {"create", "edit", "refresh"}
    /\ p = "remark" => t = "remark"
    /\ p \in {"take", "act"} => t = "slack"

Fits(h) == Allowed(task[h], at[h])

EffectsTypes ==
    /\ task \in [Handlers -> TaskNames]
    /\ ~ \E g, h \in Handlers : task[g] = "gitlab" /\ task[h] = "bare"
    /\ DOMAIN at = Handlers /\ at = [h \in Handlers |-> at[h]]
    /\ \A h \in Handlers : Fits(h)
    /\ saw = [h \in Handlers |-> saw[h]]
    /\ \A h \in Handlers : IsLink(saw[h])
    /\ \A h \in Handlers : task[h] \in {"workflow", "gitlab"} => saw[h] = [Unlinked EXCEPT !.number = saw[h].number]
    /\ IsStore(store)
    /\ outside \in [Effects -> Nat]
    /\ IsLink(issue)
    /\ faults \in Nat
    /\ search = [on |-> search.on, missed |-> search.missed] /\ search.missed \in Nat

(* While nobody looked while another was about to act, one is about to act. *)
LookedAlone == ~overlapped => \A g, h \in Handlers : Between(g) /\ Between(h) => g = h

ChatInv ==
    /\ \A h \in Handlers : at[h] = "act" => store.claimed /\ outside["action"] = 0
    /\ \A g, h \in Handlers : at[g] = "act" /\ at[h] = "act" => g = h
    /\ outside["action"] <= 1
    /\ outside["action"] > 0 => store.claimed
    /\ faults = 0 =>
         /\ store.claimed => outside["action"] = 1 \/ \E h \in Handlers : at[h] = "act"
         /\ \A h \in Handlers : task[h] = "slack" /\ at[h] \in Ending => store.claimed

(* The handlers that have commented or asked for their rerun: each causes its
   effect once, and again only when a fault made it start anew. *)
Authored == {"rerun", "comment", "note"}
Behind(e) == Ending \cup (IF e = "comment" THEN {"rerun"} ELSE IF e = "note" THEN AfterLook ELSE {})
Past(e) == {h \in Handlers : task[h] = Author(e) /\ at[h] \in Behind(e)}
PastInv == \A e \in Authored : outside[e] <= Cardinality(Past(e)) + faults

RetryInv ==
    /\ \A h \in Handlers : at[h] \in InRetry => store.attempt # "none"
    /\ outside["retry"] > 0 => store.attempt # "none"
    /\ outside["retry"] > 0 => \E g \in Handlers : task[g] = "gitlab"
    /\ ~overlapped =>
         /\ \A h \in Handlers : at[h] = "claim" => store.attempt = "none"
         /\ \A g, h \in Handlers : at[g] \in InRetry /\ at[h] \in InRetry => g = h
         /\ \A h \in Handlers : at[h] = "ask" => outside["retry"] = 0
         /\ outside["retry"] <= 1
    /\ (faults = 0 /\ ~overlapped) =>
         /\ \A h \in Handlers : at[h] \in InRetry => store.attempt = "requesting"
         /\ \A h \in Handlers : at[h] = "requested" => outside["retry"] = 1
         /\ \A h \in Handlers : at[h] = "refused" => outside["retry"] = 0 /\ task[h] = "bare"
         /\ store.attempt = "requesting" => \E h \in Handlers : at[h] \in InRetry
         /\ store.attempt = "requested" => outside["retry"] = 1
         /\ store.attempt = "failed" => outside["retry"] = 0 /\ \E h \in Handlers : task[h] = "bare"
         /\ \A h \in Handlers : task[h] \in {"gitlab", "bare"} /\ at[h] \in Ending => store.attempt # "none"

CommentInv ==
    /\ \A h \in Handlers : at[h] = "comment" => saw[h].number <= outside[Note(h)]
    /\ ~overlapped =>
         /\ outside["comment"] <= 1 + search.missed
         /\ outside["note"] <= 1 + faults + search.missed
         /\ \A h \in Handlers : at[h] = "comment" /\ saw[h].number = 0 =>
               IF task[h] = "gitlab" THEN outside["note"] <= faults + search.missed
                                     ELSE outside["comment"] <= search.missed
    /\ faults = 0 =>
         /\ \A h \in Handlers : task[h] = "gitlab" /\ at[h] \in AfterLook \cup Ending => outside["note"] > 0
         /\ \A h \in Handlers : task[h] = "workflow" /\ at[h] \in {"rerun"} \cup Ending => outside["comment"] > 0

FactsInv ==
    /\ \A h \in Handlers : at[h] \in Diagnosed => "analysis" \in store.facts
    /\ \A e \in {"retry", "rerun", "note", "comment"} : outside[e] > 0 => "analysis" \in store.facts
    /\ faults = 0 => \A h \in Handlers :
          task[h] \in {"gitlab", "bare", "workflow"} /\ at[h] \in Diagnosed \cup Ending => store.facts = Facts

IssueInv ==
    /\ issue.number = outside["issue"]
    /\ store.link.number <= outside["issue"]
    /\ \A h \in Handlers : at[h] \in {"lock", "link"} => 0 < saw[h].number /\ saw[h].number <= outside["issue"]
    /\ \A h \in Handlers : at[h] \in {"get", "patch"} => outside["issue"] > 0
    /\ ~overlapped =>
         /\ outside["issue"] <= 1 + faults
         /\ \A h \in Handlers : at[h] = "create" => outside["issue"] <= faults
         /\ (store.link.number = 0 /\ \A h \in Handlers : at[h] # "link") => outside["issue"] <= faults
    /\ (faults = 0 /\ ~overlapped) =>
         /\ \A h \in Handlers : at[h] \in {"lock", "link"} => saw[h] = issue
         /\ (\A h \in Handlers : at[h] \notin {"lock", "link"}) => store.link = issue
    /\ faults = 0 => \A h \in Handlers : task[h] = "create" /\ at[h] \in Ending => store.link.number > 0

EffectsInv ==
    /\ EffectsTypes /\ LookedAlone
    /\ ChatInv /\ PastInv /\ RetryInv /\ CommentInv /\ FactsInv /\ IssueInv

-----------------------------------------------------------------------------
(* What a step of one handler leaves alone. *)
OneMoves(h) ==
    /\ task' = task
    /\ at' = [g \in Handlers |-> at'[g]] /\ DOMAIN at' = Handlers
    /\ \A g \in Handlers : g # h => at'[g] = at[g]
    /\ saw' = [g \in Handlers |-> saw'[g]]
    /\ \A g \in Handlers : g # h => saw'[g] = saw[g]
    /\ faults' \in Nat /\ faults <= faults'
    /\ outside' \in [Effects -> Nat]
    /\ search' = [on |-> search'.on, missed |-> search'.missed]
    /\ search'.missed \in Nat /\ search.missed <= search'.missed

LEMMA SameSearch ==
  ASSUME EffectsTypes, search' = search
  PROVE  /\ search' = [on |-> search'.on, missed |-> search'.missed]
         /\ search'.missed \in Nat /\ search.missed <= search'.missed
  BY DEF EffectsTypes

LEMMA GoesFacts ==
  ASSUME EffectsTypes, NEW h \in Handlers, NEW step, Goes(h, step)
  PROVE  /\ at' = [g \in Handlers |-> at'[g]] /\ DOMAIN at' = Handlers
         /\ at'[h] = step
         /\ \A g \in Handlers : g # h => at'[g] = at[g]
  BY DEF Goes, EffectsTypes

(* One request more outside, or perhaps one and a fault. *)
Sent(effect) ==
    /\ outside' \in [Effects -> Nat]
    /\ \A e \in Effects : e # effect => outside'[e] = outside[e]
    /\ outside[effect] <= outside'[effect] /\ outside'[effect] <= outside[effect] + 1

LEMMA RequestFacts ==
  ASSUME EffectsTypes, NEW h \in Handlers, NEW effect \in Effects, NEW good, NEW bad, Request(h, effect, good, bad)
  PROVE  /\ Sent(effect)
         /\ faults' \in Nat /\ faults <= faults'
         /\ at' = [g \in Handlers |-> at'[g]] /\ DOMAIN at' = Handlers
         /\ \A g \in Handlers : g # h => at'[g] = at[g]
         /\ \/ faults' = faults /\ at'[h] = good /\ outside'[effect] = outside[effect] + 1
            \/ faults' = faults + 1 /\ at'[h] = bad
  <1> DEFINE done == [outside EXCEPT ![effect] = @ + 1]
  <1>1. outside \in [Effects -> Nat] /\ faults \in Nat
    BY DEF EffectsTypes
  <1>2. /\ done \in [Effects -> Nat] /\ done[effect] = outside[effect] + 1
        /\ \A e \in Effects : e # effect => done[e] = outside[e]
    BY <1>1
  <1>3. \/ outside' = done /\ faults' = faults /\ Goes(h, good)
        \/ outside' \in {done, outside} /\ faults' = faults + 1 /\ Goes(h, bad)
    BY Zenon DEF Request, Fine, Fault
  <1> HIDE DEF done
  <1>4. Sent(effect)
    BY <1>1, <1>2, <1>3 DEF Sent
  <1>5. faults' \in Nat /\ faults <= faults'
    BY <1>1, <1>3
  <1>6. \/ faults' = faults /\ Goes(h, good) /\ outside'[effect] = outside[effect] + 1
        \/ faults' = faults + 1 /\ Goes(h, bad)
    BY <1>2, <1>3
  <1>7. QED
    BY <1>4, <1>5, <1>6, GoesFacts

LEMMA WriteFacts ==
  ASSUME EffectsTypes, NEW h \in Handlers, NEW record, NEW good, NEW bad, Write(h, record, good, bad)
  PROVE  /\ faults' \in Nat /\ faults <= faults'
         /\ at' = [g \in Handlers |-> at'[g]] /\ DOMAIN at' = Handlers
         /\ \A g \in Handlers : g # h => at'[g] = at[g]
         /\ \/ faults' = faults /\ at'[h] = good /\ store' = record
            \/ faults' = faults + 1 /\ at'[h] = bad /\ (store' = record \/ store' = store)
  <1>1. \/ store' = record /\ faults' = faults /\ Goes(h, good)
        \/ store' \in {record, store} /\ faults' = faults + 1 /\ Goes(h, bad)
    BY Zenon DEF Write, Fine, Fault
  <1>2. faults \in Nat
    BY DEF EffectsTypes
  <1>3. QED
    BY <1>1, <1>2, GoesFacts

LEMMA LookFacts ==
  ASSUME EffectsTypes, NEW h \in Handlers, NEW good, NEW bad, Look(h, good, bad)
  PROVE  /\ faults' \in Nat /\ faults <= faults'
         /\ at' = [g \in Handlers |-> at'[g]] /\ DOMAIN at' = Handlers
         /\ \A g \in Handlers : g # h => at'[g] = at[g]
         /\ \/ faults' = faults /\ at'[h] = good
            \/ faults' = faults + 1 /\ at'[h] = bad
         /\ task' = task /\ store' = store /\ outside' = outside /\ issue' = issue
         /\ ~overlapped' => ~overlapped /\ \A g \in Handlers : g # h => ~Between(g)
  <1>1. \/ faults' = faults /\ Goes(h, good)
        \/ faults' = faults + 1 /\ Goes(h, bad)
    BY Zenon DEF Look, Fine, Fault
  <1>2. faults \in Nat
    BY DEF EffectsTypes
  <1>3. task' = task /\ store' = store /\ outside' = outside /\ issue' = issue
    BY DEF Look
  <1>4. overlapped' = (overlapped \/ \E g \in Handlers \ {h} : Between(g))
    BY Zenon DEF Look
  <1>5. ~overlapped' => ~overlapped /\ \A g \in Handlers : g # h => ~Between(g)
    BY <1>4
  <1>6. QED
    BY <1>1, <1>2, <1>3, <1>5, GoesFacts

-----------------------------------------------------------------------------
(* What each step does *)

LEMMA TypesParts ==
  ASSUME EffectsTypes, NEW h \in Handlers
  PROVE  /\ IsLink(saw[h]) /\ IsStore(store) /\ IsLink(issue) /\ Fits(h)
         /\ task[h] \in {"workflow", "gitlab"} => saw[h] = [Unlinked EXCEPT !.number = saw[h].number]
         /\ task[h] \in TaskNames /\ IsLink(store.link)
         /\ outside \in [Effects -> Nat] /\ faults \in Nat
  BY DEF EffectsTypes, IsStore

LEMMA StartDoes ==
  ASSUME EffectsTypes, NEW h \in Handlers, Start(h)
  PROVE  /\ OneMoves(h) /\ task[h] # "idle"
         /\ at[h] \in {"idle", "failed", "done"}
         /\ at[h] = "done" => task[h] \notin {"gitlab", "bare", "workflow"}
         /\ at'[h] = First(task[h])
         /\ faults' = faults /\ saw' = saw /\ store' = store /\ outside' = outside
         /\ issue' = issue /\ overlapped' = overlapped
  <1>1. /\ task[h] # "idle" /\ (at[h] \in {"idle", "failed"} \/ (at[h] = "done" /\ task[h] \notin {"gitlab", "bare", "workflow"}))
        /\ Goes(h, First(task[h]))
        /\ UNCHANGED <<task, saw, store, outside, issue, overlapped, search, faults>>
    BY Zenon DEF Start
  <1>2. QED
    BY <1>1, GoesFacts, SameSearch DEF OneMoves, EffectsTypes

LEMMA CrashDoes ==
  ASSUME EffectsTypes, NEW h \in Handlers, Crash(h)
  PROVE  /\ OneMoves(h) /\ at[h] \notin {"idle", "done", "failed"} /\ at'[h] = "failed"
         /\ faults' = faults + 1 /\ saw' = saw /\ store' = store /\ outside' = outside
         /\ issue' = issue /\ overlapped' = overlapped
  <1>1. /\ at[h] \notin {"idle", "done", "failed"} /\ Goes(h, "failed") /\ faults' = faults + 1
        /\ UNCHANGED <<task, saw, store, outside, issue, overlapped, search>>
    BY Zenon DEF Crash, Fault
  <1>2. QED
    BY <1>1, GoesFacts, SameSearch DEF OneMoves, EffectsTypes

LEMMA PublishCheckDoes ==
  ASSUME EffectsTypes, NEW h \in Handlers, PublishCheck(h)
  PROVE  /\ OneMoves(h) /\ at[h] = "check" /\ at'[h] = "comments" /\ Sent("check")
         /\ saw' = saw /\ store' = store /\ issue' = issue /\ overlapped' = overlapped
  <1>1. /\ at[h] = "check" /\ Request(h, "check", "comments", "comments")
        /\ UNCHANGED <<task, runs, saw, store, issue, overlapped, search>>
    BY Zenon DEF PublishCheck
  <1>2. "check" \in Effects
    BY DEF Effects
  <1>3. QED
    BY <1>1, <1>2, RequestFacts DEF OneMoves, Sent, EffectsTypes

LEMMA ListCommentsDoes ==
  ASSUME EffectsTypes, NEW h \in Handlers, ListComments(h)
  PROVE  /\ OneMoves(h) /\ at[h] = "comments"
         /\ saw'[h] = [saw[h] EXCEPT !.number = saw'[h].number] /\ saw'[h].number \in {0, outside[Note(h)]}
         /\ (saw'[h].number = 0 /\ faults' = faults /\ outside[Note(h)] > 0) => search'.missed = search.missed + 1
         /\ \/ faults' = faults /\ at'[h] = "comment"
            \/ /\ faults' = faults + 1 /\ saw'[h].number = 0
               /\ at'[h] = (IF task[h] = "gitlab" THEN "comment" ELSE AfterComment(h))
         /\ store' = store /\ outside' = outside /\ issue' = issue
         /\ ~overlapped' => ~overlapped /\ \A g \in Handlers : g # h => ~Between(g)
  <1> DEFINE bad == IF task[h] = "gitlab" THEN "comment" ELSE AfterComment(h)
             step(found) == IF found = 0 /\ faults' = faults /\ outside[Note(h)] > 0 THEN 1 ELSE 0
  <1>1. at[h] = "comments" /\ Look(h, "comment", bad)
    BY Zenon DEF ListComments
  <1>2. PICK found \in {0, outside[Note(h)]} :
          /\ faults' # faults => found = 0
          /\ saw' = [saw EXCEPT ![h].number = found]
          /\ search' = [search EXCEPT !.missed = @ + step(found)]
    BY Zenon DEF ListComments
  <1> DEFINE more == step(found)
  <1>3. more \in {0, 1} /\ ((found = 0 /\ faults' = faults /\ outside[Note(h)] > 0) => more = 1)
    OBVIOUS
  <1>4. search' = [search EXCEPT !.missed = @ + more]
    BY <1>2
  <1> HIDE DEF more, step, bad
  <1>5. /\ search' = [on |-> search'.on, missed |-> search'.missed]
        /\ search'.missed \in Nat /\ search.missed <= search'.missed /\ search'.missed = search.missed + more
    BY <1>3, <1>4 DEF EffectsTypes
  <1>6. /\ saw' = [g \in Handlers |-> saw'[g]] /\ saw'[h] = [saw[h] EXCEPT !.number = found]
        /\ \A g \in Handlers : g # h => saw'[g] = saw[g]
    BY <1>2 DEF EffectsTypes
  <1>7. saw'[h].number = found
    BY <1>6, TypesParts DEF IsLink
  <1>8. /\ faults' \in Nat /\ faults <= faults'
        /\ at' = [g \in Handlers |-> at'[g]] /\ DOMAIN at' = Handlers
        /\ \A g \in Handlers : g # h => at'[g] = at[g]
        /\ \/ faults' = faults /\ at'[h] = "comment"
           \/ faults' = faults + 1 /\ at'[h] = bad
        /\ task' = task /\ store' = store /\ outside' = outside /\ issue' = issue
        /\ ~overlapped' => ~overlapped /\ \A g \in Handlers : g # h => ~Between(g)
    BY <1>1, LookFacts
  <1>9. OneMoves(h)
    BY <1>5, <1>6, <1>8 DEF OneMoves, EffectsTypes
  <1>10. faults' = faults + 1 => found = 0
    BY <1>2 DEF EffectsTypes
  <1>11. QED
    BY <1>1, <1>2, <1>3, <1>5, <1>6, <1>7, <1>8, <1>9, <1>10 DEF bad

LEMMA WriteCommentDoes ==
  ASSUME EffectsTypes, NEW h \in Handlers, WriteComment(h)
  PROVE  /\ OneMoves(h) /\ at[h] = "comment" /\ at'[h] = AfterComment(h)
         /\ saw[h].number > 0 => outside' = outside
         /\ ~(saw[h].number > 0) => Sent(Note(h)) /\ (faults' = faults => outside'[Note(h)] = outside[Note(h)] + 1)
         /\ saw' = saw /\ store' = store /\ issue' = issue /\ overlapped' = overlapped
  <1>1. /\ at[h] = "comment"
        /\ IF saw[h].number > 0
             THEN (faults' = faults \/ faults' = faults + 1) /\ Goes(h, AfterComment(h)) /\ outside' = outside
             ELSE Request(h, Note(h), AfterComment(h), AfterComment(h))
        /\ UNCHANGED <<task, runs, saw, store, issue, overlapped, search>>
    BY Zenon DEF WriteComment, Fine, Fault
  <1>2. Note(h) \in Effects
    BY DEF Note, Effects
  <1>3. faults \in Nat /\ outside \in [Effects -> Nat] /\ saw = [g \in Handlers |-> saw[g]]
    BY DEF EffectsTypes
  <1>4. CASE saw[h].number > 0
    BY <1>1, <1>3, <1>4, GoesFacts, SameSearch DEF OneMoves
  <1>5. CASE ~(saw[h].number > 0)
    <2>1. Request(h, Note(h), AfterComment(h), AfterComment(h))
      BY <1>1, <1>5
    <2>2. /\ Sent(Note(h)) /\ faults' \in Nat /\ faults <= faults'
          /\ at' = [g \in Handlers |-> at'[g]] /\ DOMAIN at' = Handlers
          /\ \A g \in Handlers : g # h => at'[g] = at[g]
          /\ \/ faults' = faults /\ at'[h] = AfterComment(h) /\ outside'[Note(h)] = outside[Note(h)] + 1
             \/ faults' = faults + 1 /\ at'[h] = AfterComment(h)
      BY <2>1, <1>2, RequestFacts
    <2>3. faults' = faults => outside'[Note(h)] = outside[Note(h)] + 1
      BY <2>2, <1>3
    <2>4. QED
      BY <1>1, <1>3, <1>5, <2>2, <2>3, SameSearch DEF OneMoves, Sent
  <1>6. QED
    BY <1>4, <1>5

LEMMA RerunFailedJobsDoes ==
  ASSUME EffectsTypes, NEW h \in Handlers, RerunFailedJobs(h)
  PROVE  /\ OneMoves(h) /\ at[h] = "rerun" /\ at'[h] \in Ending /\ Sent("rerun")
         /\ saw' = saw /\ store' = store /\ issue' = issue /\ overlapped' = overlapped
  <1>1. /\ at[h] = "rerun" /\ Request(h, "rerun", "audit", "done")
        /\ UNCHANGED <<task, runs, saw, store, issue, overlapped, search>>
    BY Zenon DEF RerunFailedJobs
  <1>2. "rerun" \in Effects
    BY DEF Effects
  <1>3. QED
    BY <1>1, <1>2, RequestFacts DEF OneMoves, Sent, EffectsTypes, Ending

LEMMA FindAttemptDoes ==
  ASSUME EffectsTypes, NEW h \in Handlers, FindAttempt(h)
  PROVE  /\ OneMoves(h) /\ at[h] = "attempt" /\ at'[h] \in {"claim", "done"}
         /\ at'[h] = "claim" => store.attempt = "none"
         /\ at'[h] = "done" => store.attempt # "none" \/ faults' = faults + 1
         /\ saw' = saw /\ store' = store /\ outside' = outside /\ issue' = issue
         /\ ~overlapped' => ~overlapped /\ \A g \in Handlers : g # h => ~Between(g)
  <1>1. /\ at[h] = "attempt" /\ saw' = saw /\ search' = search
        /\ Look(h, IF store.attempt = "none" THEN "claim" ELSE "done", "done")
    BY Zenon DEF FindAttempt
  <1>2. QED
    BY <1>1, LookFacts DEF OneMoves, EffectsTypes

(* The store but for the last attempt, the link, the claims or the audits. *)
LEMMA StoreFacts ==
  ASSUME IsStore(store)
  PROVE  /\ \A v \in {"none", "requesting", "requested", "failed"} :
               LET s == [store EXCEPT !.attempt = v] IN
               /\ IsStore(s) /\ s.attempt = v
               /\ s.facts = store.facts /\ s.link = store.link /\ s.claimed = store.claimed
         /\ \A l : IsLink(l) =>
               LET s == [store EXCEPT !.link = l] IN
               /\ IsStore(s) /\ s.link = l
               /\ s.facts = store.facts /\ s.attempt = store.attempt /\ s.claimed = store.claimed
         /\ \A b : LET s == [store EXCEPT !.claimed = b] IN
               /\ IsStore(s) /\ s.claimed = b
               /\ s.facts = store.facts /\ s.attempt = store.attempt /\ s.link = store.link
         /\ \A t : LET s == [store EXCEPT !.audits = @ \cup {t}] IN
               /\ IsStore(s)
               /\ s.facts = store.facts /\ s.attempt = store.attempt /\ s.link = store.link /\ s.claimed = store.claimed
         /\ \A f : f \subseteq Facts =>
               LET s == [store EXCEPT !.facts = f] IN
               /\ IsStore(s) /\ s.facts = f
               /\ s.attempt = store.attempt /\ s.link = store.link /\ s.claimed = store.claimed
  <1>1. \A v \in {"none", "requesting", "requested", "failed"} :
               LET s == [store EXCEPT !.attempt = v] IN
               /\ IsStore(s) /\ s.attempt = v
               /\ s.facts = store.facts /\ s.link = store.link /\ s.claimed = store.claimed
    BY DEF IsStore
  <1>2. \A l : IsLink(l) =>
               LET s == [store EXCEPT !.link = l] IN
               /\ IsStore(s) /\ s.link = l
               /\ s.facts = store.facts /\ s.attempt = store.attempt /\ s.claimed = store.claimed
    BY DEF IsStore
  <1>3. \A b : LET s == [store EXCEPT !.claimed = b] IN
               /\ IsStore(s) /\ s.claimed = b
               /\ s.facts = store.facts /\ s.attempt = store.attempt /\ s.link = store.link
    BY DEF IsStore
  <1>4. \A t : LET s == [store EXCEPT !.audits = @ \cup {t}] IN
               /\ IsStore(s)
               /\ s.facts = store.facts /\ s.attempt = store.attempt /\ s.link = store.link /\ s.claimed = store.claimed
    BY DEF IsStore
  <1>5. \A f : f \subseteq Facts =>
               LET s == [store EXCEPT !.facts = f] IN
               /\ IsStore(s) /\ s.facts = f
               /\ s.attempt = store.attempt /\ s.link = store.link /\ s.claimed = store.claimed
    BY DEF IsStore
  <1>6. QED
    BY <1>1, <1>2, <1>3, <1>4, <1>5

LEMMA ClaimAttemptDoes ==
  ASSUME EffectsTypes, NEW h \in Handlers, ClaimAttempt(h)
  PROVE  /\ OneMoves(h) /\ at[h] = "claim" /\ at'[h] \in {"ask", "done"}
         /\ IsStore(store') /\ store'.facts = store.facts /\ store'.link = store.link /\ store'.claimed = store.claimed
         /\ store'.attempt \in {"requesting", store.attempt}
         /\ at'[h] = "ask" => store'.attempt = "requesting"
         /\ at'[h] = "done" => faults' = faults + 1
         /\ saw' = saw /\ outside' = outside /\ issue' = issue /\ overlapped' = overlapped
  <1>1. /\ at[h] = "claim" /\ Write(h, [store EXCEPT !.attempt = "requesting"], "ask", "done")
        /\ UNCHANGED <<task, runs, saw, outside, issue, overlapped, search>>
    BY Zenon DEF ClaimAttempt
  <1> DEFINE s == [store EXCEPT !.attempt = "requesting"]
  <1>2. IsStore(s) /\ s.attempt = "requesting" /\ s.facts = store.facts /\ s.link = store.link /\ s.claimed = store.claimed
    BY StoreFacts DEF EffectsTypes
  <1>3. Write(h, s, "ask", "done")
    BY <1>1
  <1> HIDE DEF s
  <1>4. QED
    BY <1>1, <1>2, <1>3, WriteFacts DEF OneMoves, EffectsTypes

LEMMA RetryDoes ==
  ASSUME EffectsTypes, NEW h \in Handlers, Retry(h)
  PROVE  /\ OneMoves(h) /\ at[h] = "ask" /\ at'[h] \in {"requested", "refused"} /\ Sent("retry")
         /\ at'[h] = "requested" => outside'["retry"] = outside["retry"] + 1 \/ faults' = faults + 1
         /\ at'[h] = "refused" => faults' = faults + 1 \/ (task[h] = "bare" /\ outside' = outside)
         /\ outside' # outside => task[h] # "bare"
         /\ saw' = saw /\ store' = store /\ issue' = issue /\ overlapped' = overlapped
  <1>1. /\ at[h] = "ask"
        /\ IF ~Addressed(h) THEN faults' = faults /\ Goes(h, "refused") /\ outside' = outside
           ELSE Request(h, "retry", "requested", "refused")
        /\ UNCHANGED <<task, runs, saw, store, issue, overlapped, search>>
    BY Zenon DEF Retry, Fine
  <1>2. "retry" \in Effects /\ faults \in Nat /\ outside \in [Effects -> Nat] /\ saw = [g \in Handlers |-> saw[g]]
    BY DEF Effects, EffectsTypes
  <1>3. CASE task[h] = "bare"
    <2>1. faults' = faults /\ Goes(h, "refused") /\ outside' = outside
      BY <1>1, <1>3 DEF Addressed
    <2>2. QED
      BY <1>1, <1>2, <1>3, <2>1, GoesFacts, SameSearch DEF OneMoves, Sent
  <1>4. CASE task[h] # "bare"
    <2>1. Request(h, "retry", "requested", "refused")
      BY <1>1, <1>4 DEF Addressed
    <2>2. QED
      BY <1>1, <1>2, <1>4, <2>1, RequestFacts, SameSearch DEF OneMoves, Sent
  <1>5. QED
    BY <1>3, <1>4

LEMMA SettleAttemptDoes ==
  ASSUME EffectsTypes, NEW h \in Handlers, SettleAttempt(h)
  PROVE  /\ OneMoves(h) /\ at[h] \in {"requested", "refused"} /\ at'[h] \in Ending
         /\ IsStore(store') /\ store'.facts = store.facts /\ store'.link = store.link /\ store'.claimed = store.claimed
         /\ store'.attempt \in {store.attempt, IF at[h] = "requested" THEN "requested" ELSE "failed"}
         /\ faults' = faults => store'.attempt = IF at[h] = "requested" THEN "requested" ELSE "failed"
         /\ saw' = saw /\ outside' = outside /\ issue' = issue /\ overlapped' = overlapped
  <1> DEFINE v == IF at[h] = "requested" THEN "requested" ELSE "failed"
             s == [store EXCEPT !.attempt = v]
             bad == IF at[h] = "requested" THEN "done" ELSE "audit"
  <1>1. /\ at[h] \in {"requested", "refused"} /\ Write(h, s, "audit", bad)
        /\ UNCHANGED <<task, runs, saw, outside, issue, overlapped, search>>
    <2>1. CASE at[h] = "requested" /\ Write(h, [store EXCEPT !.attempt = "requested"], "audit", "done")
      BY <2>1 DEF SettleAttempt
    <2>2. CASE at[h] = "refused" /\ Write(h, [store EXCEPT !.attempt = "failed"], "audit", "audit")
      BY <2>2 DEF SettleAttempt
    <2>3. QED
      BY Zenon, <2>1, <2>2 DEF SettleAttempt
  <1>2. v \in {"requested", "failed"} /\ bad \in Ending
    BY DEF Ending
  <1>3. IsStore(s) /\ s.attempt = v /\ s.facts = store.facts /\ s.link = store.link /\ s.claimed = store.claimed
    BY <1>2, StoreFacts DEF EffectsTypes
  <1> HIDE DEF s, v, bad
  <1>4. /\ OneMoves(h) /\ (at'[h] = "audit" \/ at'[h] = bad)
        /\ store' = s \/ store' = store
        /\ faults' = faults => store' = s
    BY <1>1, WriteFacts DEF OneMoves, EffectsTypes
  <1>5. at'[h] \in Ending
    BY <1>2, <1>4 DEF Ending
  <1>6. IsStore(store)
    BY DEF EffectsTypes
  <1>7. QED
    BY <1>1, <1>3, <1>4, <1>5, <1>6 DEF v

LEMMA AuditDoes ==
  ASSUME EffectsTypes, NEW h \in Handlers, Audit(h)
  PROVE  /\ OneMoves(h) /\ at[h] = "audit" /\ at'[h] = "done"
         /\ IsStore(store') /\ store'.facts = store.facts /\ store'.link = store.link /\ store'.claimed = store.claimed
         /\ store'.attempt = store.attempt
         /\ saw' = saw /\ outside' = outside /\ issue' = issue /\ overlapped' = overlapped
  <1>1. /\ at[h] = "audit" /\ Write(h, [store EXCEPT !.audits = @ \cup {task[h]}], "done", "done")
        /\ UNCHANGED <<task, runs, saw, outside, issue, overlapped, search>>
    BY Zenon DEF Audit
  <1> DEFINE s == [store EXCEPT !.audits = @ \cup {task[h]}]
  <1>2. /\ IsStore(s) /\ s.facts = store.facts /\ s.link = store.link /\ s.claimed = store.claimed
        /\ s.attempt = store.attempt
    BY StoreFacts DEF EffectsTypes
  <1>3. Write(h, s, "done", "done")
    BY <1>1
  <1> HIDE DEF s
  <1>4. QED
    BY <1>1, <1>2, <1>3, WriteFacts DEF OneMoves, EffectsTypes

LEMMA LoadLinkDoes ==
  ASSUME EffectsTypes, NEW h \in Handlers, LoadLink(h)
  PROVE  /\ OneMoves(h) /\ at[h] = "find" /\ saw'[h] = store.link
         /\ at'[h] \in {"create", "get", "patch", "remark", "done", "failed"}
         /\ at'[h] = "create" => task[h] = "create" /\ store.link.number = 0
         /\ at'[h] = "get" => task[h] = "refresh" /\ store.link.number > 0
         /\ at'[h] = "patch" => task[h] = "edit" /\ store.link.number > 0
         /\ at'[h] = "remark" => task[h] = "remark"
         /\ at'[h] = "done" /\ task[h] = "create" => store.link.number > 0
         /\ store' = store /\ outside' = outside /\ issue' = issue
         /\ ~overlapped' => ~overlapped /\ \A g \in Handlers : g # h => ~Between(g)
  <1> DEFINE linked == store.link.number > 0
             next == [create |-> "create", refresh |-> "get", edit |-> "patch", remark |-> "remark"][task[h]]
             good == IF linked = (task[h] # "create") THEN next ELSE "done"
  <1>1. /\ at[h] = "find" /\ Look(h, good, "failed") /\ saw' = [saw EXCEPT ![h] = store.link] /\ search' = search
    BY Zenon DEF LoadLink
  <1>2. /\ task[h] \in {"create", "edit", "refresh", "remark"} /\ store.link.number \in Nat
        /\ saw = [g \in Handlers |-> saw[g]]
    BY <1>1 DEF EffectsTypes, Fits, Allowed, IsStore, IsLink
  <1>3. /\ task[h] = "create" => next = "create"
        /\ task[h] = "refresh" => next = "get"
        /\ task[h] = "edit" => next = "patch"
        /\ task[h] = "remark" => next = "remark"
    OBVIOUS
  <1>4. /\ good \in {"create", "get", "patch", "remark", "done"}
        /\ good = "create" => task[h] = "create" /\ store.link.number = 0
        /\ good = "get" => task[h] = "refresh" /\ store.link.number > 0
        /\ good = "patch" => task[h] = "edit" /\ store.link.number > 0
        /\ good = "remark" => task[h] = "remark"
        /\ good = "done" /\ task[h] = "create" => store.link.number > 0
    <2> HIDE DEF next
    <2>1. CASE task[h] = "create"
      BY <1>2, <1>3, <2>1
    <2>2. CASE task[h] # "create"
      BY <1>2, <1>3, <2>2
    <2>3. QED
      BY <2>1, <2>2
  <1> HIDE DEF good
  <1>5. /\ saw' = [g \in Handlers |-> saw'[g]] /\ saw'[h] = store.link
        /\ \A g \in Handlers : g # h => saw'[g] = saw[g]
    BY <1>1, <1>2
  <1>6. /\ OneMoves(h) /\ (at'[h] = good \/ at'[h] = "failed")
        /\ store' = store /\ outside' = outside /\ issue' = issue
        /\ ~overlapped' => ~overlapped /\ \A g \in Handlers : g # h => ~Between(g)
    BY <1>1, <1>5, LookFacts DEF OneMoves, EffectsTypes
  <1>7. QED
    BY <1>1, <1>4, <1>5, <1>6

LEMMA CreateIssueDoes ==
  ASSUME EffectsTypes, NEW h \in Handlers, CreateIssue(h)
  PROVE  /\ OneMoves(h) /\ at[h] = "create" /\ at'[h] \in {"link", "failed"} /\ Sent("issue")
         /\ at'[h] = "link" => outside'["issue"] = outside["issue"] + 1
         /\ at'[h] = "failed" => faults' = faults + 1
         /\ IsLink(saw'[h]) /\ saw'[h].number = outside'["issue"]
         /\ issue' = IF outside' = outside THEN issue ELSE saw'[h]
         /\ store' = store /\ overlapped' = overlapped
  <1> DEFINE made == [number |-> outside'["issue"], state |-> "open", locked |-> FALSE]
  <1>1. /\ at[h] = "create" /\ Request(h, "issue", "link", "failed")
        /\ issue' = IF outside' = outside THEN issue ELSE made
        /\ saw' = [saw EXCEPT ![h] = made]
        /\ UNCHANGED <<task, runs, store, overlapped, search>>
    BY Zenon DEF CreateIssue
  <1>2. "issue" \in Effects /\ saw = [g \in Handlers |-> saw[g]]
    BY DEF Effects, EffectsTypes
  <1>3. /\ Sent("issue") /\ faults' \in Nat /\ faults <= faults'
        /\ at' = [g \in Handlers |-> at'[g]] /\ DOMAIN at' = Handlers
        /\ \A g \in Handlers : g # h => at'[g] = at[g]
        /\ \/ faults' = faults /\ at'[h] = "link" /\ outside'["issue"] = outside["issue"] + 1
           \/ faults' = faults + 1 /\ at'[h] = "failed"
    BY <1>1, <1>2, RequestFacts
  <1>4. outside'["issue"] \in Nat
    BY <1>2, <1>3 DEF Sent
  <1>5. IsLink(made) /\ made.number = outside'["issue"]
    <2>1. made.number = outside'["issue"]
      OBVIOUS
    <2>2. made = [number |-> made.number, state |-> made.state, locked |-> made.locked]
      BY Zenon
    <2>3. QED
      BY <1>4, <2>1, <2>2 DEF IsLink
  <1> HIDE DEF made
  <1>6. /\ saw' = [g \in Handlers |-> saw'[g]] /\ saw'[h] = made
        /\ \A g \in Handlers : g # h => saw'[g] = saw[g]
    BY <1>1, <1>2
  <1>7. OneMoves(h)
    BY <1>1, <1>3, <1>6, SameSearch DEF OneMoves, Sent
  <1>8. QED
    BY <1>1, <1>3, <1>5, <1>6, <1>7

LEMMA GetIssueDoes ==
  ASSUME EffectsTypes, NEW h \in Handlers, GetIssue(h)
  PROVE  /\ OneMoves(h) /\ at[h] = "get" /\ at'[h] \in {"link", "failed"}
         /\ at'[h] = "link" => saw'[h] = issue
         /\ at'[h] = "failed" => saw' = saw
         /\ store' = store /\ outside' = outside /\ issue' = issue /\ overlapped' = overlapped
  <1>1. /\ at[h] = "get"
        /\ \/ faults' = faults /\ Goes(h, "link") /\ saw' = [saw EXCEPT ![h] = issue]
           \/ faults' = faults + 1 /\ Goes(h, "failed") /\ saw' = saw
        /\ UNCHANGED <<task, runs, store, outside, issue, overlapped, search>>
    BY Zenon DEF GetIssue, Fine, Fault
  <1>2. /\ saw = [g \in Handlers |-> saw[g]] /\ faults \in Nat /\ outside \in [Effects -> Nat]
    BY DEF EffectsTypes
  <1>3. QED
    BY <1>1, <1>2, GoesFacts, SameSearch DEF OneMoves

(* An issue that is closed, or locked, keeps its number. *)
LEMMA LinkFacts ==
  ASSUME NEW l, IsLink(l), NEW v
  PROVE  /\ IsLink([l EXCEPT !.state = v]) /\ [l EXCEPT !.state = v].number = l.number
         /\ IsLink([l EXCEPT !.locked = v]) /\ [l EXCEPT !.locked = v].number = l.number
  BY DEF IsLink

LEMMA UpdateIssueDoes ==
  ASSUME EffectsTypes, NEW h \in Handlers, UpdateIssue(h)
  PROVE  /\ OneMoves(h) /\ at[h] = "patch" /\ at'[h] \in {"lock", "failed"}
         /\ at'[h] = "failed" => faults' = faults + 1
         /\ IsLink(issue') /\ issue'.number = issue.number /\ saw'[h] = issue'
         /\ store' = store /\ outside' = outside /\ overlapped' = overlapped
  <1> DEFINE made == [issue EXCEPT !.state = "closed"]
  <1>1. /\ at[h] = "patch"
        /\ \/ issue' = made /\ faults' = faults /\ Goes(h, "lock")
           \/ issue' \in {issue, made} /\ faults' = faults + 1 /\ Goes(h, "failed")
        /\ saw' = [saw EXCEPT ![h] = issue']
        /\ UNCHANGED <<task, runs, store, outside, overlapped, search>>
    BY Zenon DEF UpdateIssue, Fine, Fault
  <1>2. /\ saw = [g \in Handlers |-> saw[g]] /\ faults \in Nat /\ outside \in [Effects -> Nat] /\ IsLink(issue)
    BY DEF EffectsTypes
  <1>3. IsLink(made) /\ made.number = issue.number
    BY <1>2, LinkFacts
  <1> HIDE DEF made
  <1>4. QED
    BY <1>1, <1>2, <1>3, GoesFacts, SameSearch DEF OneMoves

LEMMA LockIssueDoes ==
  ASSUME EffectsTypes, NEW h \in Handlers, LockIssue(h)
  PROVE  /\ OneMoves(h) /\ at[h] = "lock" /\ at'[h] \in {"link", "failed"}
         /\ at'[h] = "failed" => faults' = faults + 1
         /\ IsLink(issue') /\ issue'.number = issue.number
         /\ IsLink(saw'[h]) /\ saw'[h].number = saw[h].number
         /\ faults' = faults /\ saw[h] = issue => saw'[h] = issue'
         /\ store' = store /\ outside' = outside /\ overlapped' = overlapped
  <1> DEFINE made == [issue EXCEPT !.locked = TRUE]
             seen == [saw[h] EXCEPT !.locked = TRUE]
  <1>1. /\ at[h] = "lock"
        /\ \/ issue' = made /\ faults' = faults /\ Goes(h, "link")
           \/ issue' \in {issue, made} /\ faults' = faults + 1 /\ Goes(h, "failed")
        /\ saw' = [saw EXCEPT ![h] = seen]
        /\ UNCHANGED <<task, runs, store, outside, overlapped, search>>
    BY Zenon DEF LockIssue, Fine, Fault
  <1>2. /\ saw = [g \in Handlers |-> saw[g]] /\ faults \in Nat /\ outside \in [Effects -> Nat] /\ IsLink(issue)
        /\ IsLink(saw[h])
    BY DEF EffectsTypes
  <1>3. /\ IsLink(made) /\ made.number = issue.number
        /\ IsLink(seen) /\ seen.number = saw[h].number
        /\ saw[h] = issue => seen = made
    BY <1>2, LinkFacts
  <1> HIDE DEF made, seen
  <1>4. QED
    BY <1>1, <1>2, <1>3, GoesFacts, SameSearch DEF OneMoves

LEMMA CommentIssueDoes ==
  ASSUME EffectsTypes, NEW h \in Handlers, CommentIssue(h)
  PROVE  /\ OneMoves(h) /\ at[h] = "remark" /\ at'[h] \in {"audit", "failed"} /\ Sent("remark")
         /\ saw' = saw /\ store' = store /\ issue' = issue /\ overlapped' = overlapped
  <1>1. /\ at[h] = "remark" /\ Request(h, "remark", "audit", "failed")
        /\ UNCHANGED <<task, runs, saw, store, issue, overlapped, search>>
    BY Zenon DEF CommentIssue
  <1>2. "remark" \in Effects
    BY DEF Effects
  <1>3. QED
    BY <1>1, <1>2, RequestFacts DEF OneMoves, Sent, EffectsTypes

LEMMA SaveLinkDoes ==
  ASSUME EffectsTypes, NEW h \in Handlers, SaveLink(h)
  PROVE  /\ OneMoves(h) /\ at[h] = "link" /\ at'[h] \in {"audit", "done", "failed"}
         /\ at'[h] = "failed" => faults' = faults + 1
         /\ at'[h] # "failed" => store'.link = saw[h]
         /\ IsStore(store') /\ store'.facts = store.facts /\ store'.attempt = store.attempt
         /\ store'.claimed = store.claimed
         /\ store'.link = saw[h] \/ store'.link = store.link
         /\ saw' = saw /\ outside' = outside /\ issue' = issue /\ overlapped' = overlapped
  <1> DEFINE s == [store EXCEPT !.link = saw[h]]
             good == IF task[h] = "refresh" THEN "done" ELSE "audit"
  <1>1. /\ at[h] = "link" /\ Write(h, s, good, "failed")
        /\ UNCHANGED <<task, runs, saw, outside, issue, overlapped, search>>
    BY Zenon DEF SaveLink
  <1>2. IsLink(saw[h]) /\ IsStore(store)
    BY DEF EffectsTypes
  <1>3. /\ IsStore(s) /\ s.link = saw[h] /\ s.facts = store.facts /\ s.attempt = store.attempt
        /\ s.claimed = store.claimed
    BY <1>2, StoreFacts
  <1> HIDE DEF s
  <1>4. QED
    BY <1>1, <1>2, <1>3, WriteFacts DEF OneMoves, EffectsTypes

LEMMA RecordDeliveryDoes ==
  ASSUME EffectsTypes, NEW h \in Handlers, RecordDelivery(h)
  PROVE  /\ OneMoves(h) /\ at[h] = "take" /\ at'[h] \in {"act", "done", "failed"}
         /\ at'[h] = "failed" => faults' = faults + 1
         /\ at'[h] = "act" => ~store.claimed
         /\ at'[h] = "done" => store.claimed
         /\ at'[h] \in {"act", "done"} => store'.claimed
         /\ store.claimed => store'.claimed
         /\ IsStore(store') /\ store'.facts = store.facts /\ store'.attempt = store.attempt
         /\ store'.link = store.link
         /\ saw' = saw /\ outside' = outside /\ issue' = issue /\ overlapped' = overlapped
  <1> DEFINE s == [store EXCEPT !.claimed = TRUE]
             good == IF store.claimed THEN "done" ELSE "act"
  <1>1. /\ at[h] = "take" /\ Write(h, s, good, "failed")
        /\ UNCHANGED <<task, runs, saw, outside, issue, overlapped, search>>
    BY Zenon DEF RecordDelivery
  <1>2. IsStore(store)
    BY DEF EffectsTypes
  <1>3. /\ IsStore(s) /\ s.claimed = TRUE /\ s.facts = store.facts /\ s.attempt = store.attempt
        /\ s.link = store.link
    BY <1>2, StoreFacts
  <1>4. good \in {"act", "done"} /\ (good = "act" => ~store.claimed) /\ (good = "done" => store.claimed)
    BY Zenon
  <1> HIDE DEF s, good
  <1>5. /\ OneMoves(h) /\ (at'[h] = good \/ (at'[h] = "failed" /\ faults' = faults + 1))
        /\ at'[h] # "failed" => store' = s
        /\ store' = s \/ store' = store
    BY <1>1, <1>4, WriteFacts DEF OneMoves, EffectsTypes
  <1>6. store' = s => store'.claimed
    BY <1>3
  <1>7. at'[h] = "act" => ~store.claimed
    BY <1>4, <1>5
  <1>8. at'[h] = "done" => store.claimed
    BY <1>4, <1>5
  <1>9. at'[h] \in {"act", "done"} => store'.claimed
    BY <1>5, <1>6
  <1>10. store.claimed => store'.claimed
    BY <1>5, <1>6
  <1>11. /\ at'[h] \in {"act", "done", "failed"} /\ (at'[h] = "failed" => faults' = faults + 1)
    BY <1>4, <1>5
  <1>12. /\ IsStore(store') /\ store'.facts = store.facts /\ store'.attempt = store.attempt
         /\ store'.link = store.link
    BY <1>2, <1>3, <1>5
  <1>13. QED
    BY <1>1, <1>5, <1>7, <1>8, <1>9, <1>10, <1>11, <1>12

LEMMA PerformChatActionDoes ==
  ASSUME EffectsTypes, NEW h \in Handlers, PerformChatAction(h)
  PROVE  /\ OneMoves(h) /\ at[h] = "act" /\ at'[h] \in Ending /\ Sent("action")
         /\ faults' = faults => outside'["action"] = outside["action"] + 1
         /\ saw' = saw /\ store' = store /\ issue' = issue /\ overlapped' = overlapped
  <1>1. /\ at[h] = "act" /\ Request(h, "action", "audit", "done")
        /\ UNCHANGED <<task, runs, saw, store, issue, overlapped, search>>
    BY Zenon DEF PerformChatAction
  <1>2. "action" \in Effects /\ faults \in Nat
    BY DEF Effects, EffectsTypes
  <1>3. QED
    BY <1>1, <1>2, RequestFacts DEF OneMoves, Sent, EffectsTypes, Ending

(* What a handler calls on its way to the first call of its own. *)
Called(h, upTo) == {Diagnosis(h)[i] : i \in 1..upTo}

LEMMA CallFacts ==
  ASSUME NEW h
  PROVE  /\ Len(Diagnosis(h)) \in Nat
         /\ Facts \subseteq Called(h, Len(Diagnosis(h)))
         /\ \A upTo \in Nat : IsFiniteSet(Called(h, upTo))
         /\ "analysis" \in Facts \cap Fatal(h)
  <1>1. ASSUME Workflow(h)
        PROVE  Len(Diagnosis(h)) \in Nat /\ Facts \subseteq Called(h, Len(Diagnosis(h)))
    <2>1. Diagnosis(h) = WorkflowRunCalls
      BY <1>1 DEF Diagnosis
    <2>2. Len(WorkflowRunCalls) = 10
      BY DEF WorkflowRunCalls
    <2>3. /\ WorkflowRunCalls[2] = "usage" /\ WorkflowRunCalls[5] = "analysis" /\ WorkflowRunCalls[6] = "source"
          /\ WorkflowRunCalls[7] = "enhance" /\ WorkflowRunCalls[8] = "notice" /\ WorkflowRunCalls[9] = "incident"
          /\ WorkflowRunCalls[10] = "announce"
      BY DEF WorkflowRunCalls
    <2>4. Facts \subseteq {WorkflowRunCalls[i] : i \in 1..10}
      <3> SUFFICES ASSUME NEW f \in Facts PROVE \E i \in 1..10 : f = WorkflowRunCalls[i]
        OBVIOUS
      <3>1. f \in {"usage", "analysis", "source", "enhance", "notice", "incident", "announce"}
        BY DEF Facts
      <3>2. QED
        BY <2>3, <3>1
    <2>5. QED
      BY <2>1, <2>2, <2>4 DEF Called
  <1>2. ASSUME ~Workflow(h)
        PROVE  Len(Diagnosis(h)) \in Nat /\ Facts \subseteq Called(h, Len(Diagnosis(h)))
    <2>1. Diagnosis(h) = CIEventCalls
      BY <1>2 DEF Diagnosis
    <2>2. Len(CIEventCalls) = 9
      BY DEF CIEventCalls
    <2>3. /\ CIEventCalls[1] = "usage" /\ CIEventCalls[4] = "analysis" /\ CIEventCalls[5] = "source"
          /\ CIEventCalls[6] = "enhance" /\ CIEventCalls[7] = "notice" /\ CIEventCalls[8] = "incident"
          /\ CIEventCalls[9] = "announce"
      BY DEF CIEventCalls
    <2>4. Facts \subseteq {CIEventCalls[i] : i \in 1..9}
      <3> SUFFICES ASSUME NEW f \in Facts PROVE \E i \in 1..9 : f = CIEventCalls[i]
        OBVIOUS
      <3>1. f \in {"usage", "analysis", "source", "enhance", "notice", "incident", "announce"}
        BY DEF Facts
      <3>2. QED
        BY <2>3, <3>1
    <2>5. QED
      BY <2>1, <2>2, <2>4 DEF Called
  <1>3. \A upTo \in Nat : IsFiniteSet(Called(h, upTo))
    <2> SUFFICES ASSUME NEW upTo \in Nat PROVE IsFiniteSet(Called(h, upTo))
      OBVIOUS
    <2> DEFINE s == Diagnosis(h)
    <2>1. IsFiniteSet(1..upTo)
      BY FS_Interval
    <2>2. IsFiniteSet({s[i] : i \in 1..upTo})
      <3> DEFINE f == [i \in 1..upTo |-> s[i]]
      <3>1. f \in Surjection(1..upTo, {s[i] : i \in 1..upTo})
        BY DEF Surjection
      <3> HIDE DEF f
      <3>2. QED
        BY <2>1, <3>1, FS_Surjection
    <2>3. QED
      BY <2>2 DEF Called
  <1>4. "analysis" \in Facts \cap Fatal(h)
    BY DEF Facts, Fatal
  <1>5. QED
    BY <1>1, <1>2, <1>3, <1>4

LEMMA DiagnoseDoes ==
  ASSUME EffectsTypes, NEW h \in Handlers, Diagnose(h)
  PROVE  /\ OneMoves(h) /\ at[h] = "diagnose" /\ at'[h] \in {"failed", AfterDiagnosis(h)}
         /\ at'[h] # "failed" => "analysis" \in store'.facts
         /\ at'[h] # "failed" /\ faults' = 0 => store'.facts = Facts
         /\ at'[h] = "failed" => faults < faults'
         /\ store.facts \subseteq store'.facts
         /\ IsStore(store') /\ store'.attempt = store.attempt /\ store'.link = store.link
         /\ store'.claimed = store.claimed
         /\ saw' = saw /\ outside' = outside /\ issue' = issue /\ overlapped' = overlapped
  <1> DEFINE calls == Diagnosis(h)
  <1>0. PICK upTo \in 0..Len(calls) : \E wrong \in SUBSET (Called(h, upTo) \ Fatal(h)) :
          LET ended == upTo < Len(calls)
              went  == Cardinality(wrong) + (IF ended THEN 1 ELSE 0) IN
          /\ faults' = faults + went
          /\ store' = [store EXCEPT !.facts = @ \cup ((Called(h, upTo) \cap Facts) \ wrong)]
          /\ Goes(h, IF ended THEN "failed" ELSE AfterDiagnosis(h))
    BY Zenon DEF Diagnose, Called
  <1>1. PICK wrong \in SUBSET (Called(h, upTo) \ Fatal(h)) :
          LET ended == upTo < Len(calls)
              went  == Cardinality(wrong) + (IF ended THEN 1 ELSE 0) IN
          /\ faults' = faults + went
          /\ store' = [store EXCEPT !.facts = @ \cup ((Called(h, upTo) \cap Facts) \ wrong)]
          /\ Goes(h, IF ended THEN "failed" ELSE AfterDiagnosis(h))
    BY Zenon, <1>0
  <1>2. at[h] = "diagnose" /\ UNCHANGED <<task, runs, saw, outside, issue, overlapped, search>>
    BY Zenon DEF Diagnose
  <1> DEFINE new == (Called(h, upTo) \cap Facts) \ wrong
             c == Cardinality(wrong)
             ended == upTo < Len(calls)
  <1>3. IsFiniteSet(wrong) /\ c \in Nat /\ (c = 0 => wrong = {})
    <2>1. upTo \in Nat
      BY CallFacts
    <2>2. IsFiniteSet(Called(h, upTo))
      BY <2>1, CallFacts
    <2>3. IsFiniteSet(wrong)
      BY <2>2, FS_Subset
    <2>4. QED
      BY <2>3, FS_CardinalityType, FS_EmptySet
  <1>4. store' = [store EXCEPT !.facts = store.facts \cup new]
    BY <1>1
  <1>5. faults' = faults + (c + (IF ended THEN 1 ELSE 0))
    BY <1>1
  <1>6. Goes(h, IF ended THEN "failed" ELSE AfterDiagnosis(h))
    BY <1>1
  <1>7. ~ended => upTo = Len(calls)
    BY CallFacts
  <1> HIDE DEF c, new, ended, calls
  <1>8. IsStore(store) /\ faults \in Nat
    BY DEF EffectsTypes
  <1>9. new \subseteq Facts
    BY DEF new
  <1>10. store.facts \cup new \subseteq Facts
    BY <1>8, <1>9 DEF IsStore
  <1>11. /\ IsStore(store') /\ store'.facts = store.facts \cup new
         /\ store'.attempt = store.attempt /\ store'.link = store.link /\ store'.claimed = store.claimed
    <2> DEFINE f == store.facts \cup new
    <2>1. f \subseteq Facts /\ store' = [store EXCEPT !.facts = f]
      BY <1>4, <1>10
    <2>2. f = store.facts \cup new
      OBVIOUS
    <2> HIDE DEF f
    <2>3. LET s == [store EXCEPT !.facts = f] IN
               /\ IsStore(s) /\ s.facts = f
               /\ s.attempt = store.attempt /\ s.link = store.link /\ s.claimed = store.claimed
      BY <1>8, <2>1, StoreFacts
    <2>4. QED
      BY <2>1, <2>2, <2>3
  <1>12. ~ended => Facts \subseteq Called(h, upTo)
    BY <1>7, CallFacts DEF calls
  <1>13. ~ended => "analysis" \in new
    <2>1. "analysis" \in Facts /\ "analysis" \in Fatal(h)
      BY CallFacts
    <2>2. "analysis" \notin wrong
      BY <2>1
    <2>3. QED
      BY <1>12, <2>1, <2>2 DEF new
  <1>14. faults' \in Nat /\ faults <= faults' /\ (ended => faults < faults')
    BY <1>3, <1>5, <1>8
  <1>15. ~ended /\ faults' = 0 => store'.facts = Facts
    <2> SUFFICES ASSUME ~ended, faults' = 0 PROVE store'.facts = Facts
      OBVIOUS
    <2>1. c = 0
      BY <1>3, <1>5, <1>8
    <2>2. new = Facts
      BY <1>3, <1>12, <2>1 DEF new
    <2>3. QED
      BY <1>10, <1>11, <2>2
  <1>16. at'[h] = IF ended THEN "failed" ELSE AfterDiagnosis(h)
    BY <1>6, GoesFacts
  <1>17. AfterDiagnosis(h) # "failed"
    <2>1. task[h] \in {"gitlab", "bare", "workflow"}
      BY <1>2 DEF EffectsTypes, Fits, Allowed
    <2>2. QED
      BY <2>1 DEF AfterDiagnosis
  <1>18. OneMoves(h)
    BY <1>2, <1>6, <1>14, GoesFacts DEF OneMoves, EffectsTypes
  <1>19. QED
    BY <1>2, <1>11, <1>13, <1>14, <1>15, <1>16, <1>17, <1>18

-----------------------------------------------------------------------------
(* A step of one handler. *)
HandlerStep(h) ==
    \/ Start(h) \/ Crash(h) \/ Diagnose(h) \/ PublishCheck(h) \/ ListComments(h) \/ WriteComment(h)
    \/ RerunFailedJobs(h) \/ FindAttempt(h) \/ ClaimAttempt(h) \/ Retry(h) \/ SettleAttempt(h)
    \/ Audit(h) \/ LoadLink(h) \/ CreateIssue(h) \/ GetIssue(h) \/ UpdateIssue(h) \/ LockIssue(h)
    \/ CommentIssue(h) \/ SaveLink(h) \/ RecordDelivery(h) \/ PerformChatAction(h)

LEMMA FirstFacts ==
  ASSUME NEW t \in TaskNames
  PROVE  /\ t \in {"gitlab", "bare", "workflow"} => First(t) = "diagnose"
         /\ t = "slack" => First(t) = "take"
         /\ t \in {"idle", "create", "edit", "refresh", "remark"} => First(t) = "find"
  BY DEF First, TaskNames

LEMMA AllowedFacts ==
  ASSUME NEW t \in TaskNames
  PROVE  /\ \A p \in {"failed", "audit", "done"} : Allowed(t, p)
         /\ t # "idle" => Allowed(t, First(t))
         /\ t = "workflow" => \A p \in {"check", "comments", "comment", "rerun"} : Allowed(t, p)
         /\ t = "gitlab" => \A p \in {"comments", "comment"} \cup AfterLook : Allowed(t, p)
         /\ t = "bare" => \A p \in AfterLook : Allowed(t, p)
         /\ t = "create" => Allowed(t, "create") /\ Allowed(t, "link")
         /\ t = "edit" => Allowed(t, "patch") /\ Allowed(t, "lock") /\ Allowed(t, "link")
         /\ t = "refresh" => Allowed(t, "get") /\ Allowed(t, "link")
         /\ t = "remark" => Allowed(t, "remark")
         /\ t = "slack" => Allowed(t, "act")
  <1> USE DEF Allowed, Places, Ending, Diagnosed, Deciding, AfterLook
  <1>1. t # "idle" => Allowed(t, First(t))
    BY FirstFacts DEF TaskNames
  <1>2. QED
    BY <1>1

LEMMA AllowedHere ==
  ASSUME NEW t, NEW p, Allowed(t, p)
  PROVE  /\ p = "diagnose" => t \in {"gitlab", "bare", "workflow"}
         /\ p \in {"check", "rerun"} => t = "workflow"
         /\ p \in {"comments", "comment"} => t \in {"workflow", "gitlab"}
         /\ p \in AfterLook => t \in {"gitlab", "bare"}
         /\ p = "find" => t \in {"create", "edit", "refresh", "remark"}
         /\ p = "create" => t = "create"
         /\ p = "get" => t = "refresh"
         /\ p \in {"patch", "lock"} => t = "edit"
         /\ p = "link" => t \in {"create", "edit", "refresh"}
         /\ p = "remark" => t = "remark"
         /\ p \in {"take", "act"} => t = "slack"
  BY DEF Allowed

LEMMA AfterFacts ==
  ASSUME NEW h
  PROVE  /\ AfterComment(h) = IF task[h] = "gitlab" THEN "attempt" ELSE "rerun"
         /\ task[h] = "workflow" => AfterDiagnosis(h) = "check"
         /\ task[h] = "gitlab" => AfterDiagnosis(h) = "comments"
         /\ task[h] = "bare" => AfterDiagnosis(h) = "attempt"
  BY DEF AfterComment, AfterDiagnosis

LEMMA TypesFrame ==
  ASSUME EffectsTypes, NEW h \in Handlers, OneMoves(h), Fits(h)',
         IsLink(saw'[h]),
         task[h] \in {"workflow", "gitlab"} => saw'[h] = [Unlinked EXCEPT !.number = saw'[h].number],
         IsStore(store'), IsLink(issue')
  PROVE  EffectsTypes'
  <1>1. \A g \in Handlers : Fits(g)'
    BY DEF EffectsTypes, OneMoves, Fits
  <1>2. \A g \in Handlers : IsLink(saw'[g])
    BY DEF EffectsTypes, OneMoves
  <1>3. \A g \in Handlers : task'[g] \in {"workflow", "gitlab"} => saw'[g] = [Unlinked EXCEPT !.number = saw'[g].number]
    BY DEF EffectsTypes, OneMoves
  <1>4. /\ task' \in [Handlers -> TaskNames]
        /\ ~ \E g, k \in Handlers : task'[g] = "gitlab" /\ task'[k] = "bare"
    BY DEF EffectsTypes, OneMoves
  <1>5. /\ DOMAIN at' = Handlers /\ at' = [g \in Handlers |-> at'[g]]
        /\ saw' = [g \in Handlers |-> saw'[g]]
        /\ outside' \in [Effects -> Nat] /\ faults' \in Nat
        /\ search' = [on |-> search'.on, missed |-> search'.missed] /\ search'.missed \in Nat
    BY DEF OneMoves
  <1>6. QED
    BY <1>1, <1>2, <1>3, <1>4, <1>5 DEF EffectsTypes

LEMMA TypesKept ==
  ASSUME EffectsTypes, NEW h \in Handlers, HandlerStep(h)
  PROVE  EffectsTypes'
  <1> DEFINE Seen == /\ IsLink(saw'[h])
                     /\ task[h] \in {"workflow", "gitlab"} => saw'[h] = [Unlinked EXCEPT !.number = saw'[h].number]
  <1>0. saw' = saw => Seen
    BY TypesParts
  <1>1. CASE Start(h)
    <2>1. Fits(h)'
      <3>1. task'[h] = task[h] /\ task[h] \in TaskNames /\ Allowed(task[h], at[h])
        BY <1>1, StartDoes, TypesParts DEF Fits, OneMoves
      <3>2. Allowed(task[h], at'[h])
        BY <1>1, <3>1, StartDoes, AllowedFacts, AllowedHere, AfterFacts DEF Ending, AfterLook
      <3>3. QED
        BY <3>1, <3>2 DEF Fits
    <2>2. QED
      BY <1>1, <1>0, <2>1, TypesFrame, StartDoes, TypesParts
  <1>2. CASE Crash(h)
    <2>1. Fits(h)'
      <3>1. task'[h] = task[h] /\ task[h] \in TaskNames /\ Allowed(task[h], at[h])
        BY <1>2, CrashDoes, TypesParts DEF Fits, OneMoves
      <3>2. Allowed(task[h], at'[h])
        BY <1>2, <3>1, CrashDoes, AllowedFacts, AllowedHere, AfterFacts DEF Ending, AfterLook
      <3>3. QED
        BY <3>1, <3>2 DEF Fits
    <2>2. QED
      BY <1>2, <1>0, <2>1, TypesFrame, CrashDoes, TypesParts
  <1>3. CASE Diagnose(h)
    <2>1. Fits(h)'
      <3>1. task'[h] = task[h] /\ task[h] \in TaskNames /\ Allowed(task[h], at[h])
        BY <1>3, DiagnoseDoes, TypesParts DEF Fits, OneMoves
      <3>2. Allowed(task[h], at'[h])
        BY <1>3, <3>1, DiagnoseDoes, AllowedFacts, AllowedHere, AfterFacts DEF Ending, AfterLook
      <3>3. QED
        BY <3>1, <3>2 DEF Fits
    <2>2. QED
      BY <1>3, <1>0, <2>1, TypesFrame, DiagnoseDoes, TypesParts
  <1>4. CASE PublishCheck(h)
    <2>1. Fits(h)'
      <3>1. task'[h] = task[h] /\ task[h] \in TaskNames /\ Allowed(task[h], at[h])
        BY <1>4, PublishCheckDoes, TypesParts DEF Fits, OneMoves
      <3>2. Allowed(task[h], at'[h])
        BY <1>4, <3>1, PublishCheckDoes, AllowedFacts, AllowedHere, AfterFacts DEF Ending, AfterLook
      <3>3. QED
        BY <3>1, <3>2 DEF Fits
    <2>2. QED
      BY <1>4, <1>0, <2>1, TypesFrame, PublishCheckDoes, TypesParts
  <1>5. CASE ListComments(h)
    <2>1. task[h] \in {"workflow", "gitlab"}
      BY <1>5, ListCommentsDoes, TypesParts DEF Fits, Allowed
    <2>2. PICK m \in Nat : saw'[h] = [saw[h] EXCEPT !.number = m]
      <3>1. outside[Note(h)] \in Nat
        BY DEF Note, Effects, EffectsTypes
      <3>2. saw'[h] = [saw[h] EXCEPT !.number = saw'[h].number] /\ saw'[h].number \in Nat
        BY <1>5, <3>1, ListCommentsDoes
      <3>3. QED
        BY <3>2
    <2>3. Seen
      BY <2>1, <2>2, TypesParts DEF Unlinked, IsLink
    <2>4. Fits(h)'
      <3>1. task'[h] = task[h] /\ task[h] \in TaskNames
        BY <1>5, ListCommentsDoes, TypesParts DEF OneMoves
      <3>2. at'[h] = "comment" \/ (at'[h] = "rerun" /\ task[h] = "workflow")
        <4>1. at'[h] = "comment" \/ (task[h] # "gitlab" /\ at'[h] = AfterComment(h))
          BY <1>5, ListCommentsDoes
        <4>2. QED
          BY <2>1, <4>1, AfterFacts
      <3>4. Allowed(task[h], at'[h])
        BY <2>1, <3>1, <3>2, AllowedFacts DEF AfterLook
      <3>5. QED
        BY <3>1, <3>4 DEF Fits
    <2>5. QED
      BY <1>5, <2>3, <2>4, TypesFrame, ListCommentsDoes, TypesParts
  <1>6. CASE WriteComment(h)
    <2>1. Fits(h)'
      <3>1. task'[h] = task[h] /\ task[h] \in TaskNames /\ Allowed(task[h], at[h])
        BY <1>6, WriteCommentDoes, TypesParts DEF Fits, OneMoves
      <3>2. Allowed(task[h], at'[h])
        BY <1>6, <3>1, WriteCommentDoes, AllowedFacts, AllowedHere, AfterFacts DEF Ending, AfterLook
      <3>3. QED
        BY <3>1, <3>2 DEF Fits
    <2>2. QED
      BY <1>6, <1>0, <2>1, TypesFrame, WriteCommentDoes, TypesParts
  <1>7. CASE RerunFailedJobs(h)
    <2>1. Fits(h)'
      <3>1. task'[h] = task[h] /\ task[h] \in TaskNames /\ Allowed(task[h], at[h])
        BY <1>7, RerunFailedJobsDoes, TypesParts DEF Fits, OneMoves
      <3>2. Allowed(task[h], at'[h])
        BY <1>7, <3>1, RerunFailedJobsDoes, AllowedFacts, AllowedHere, AfterFacts DEF Ending, AfterLook
      <3>3. QED
        BY <3>1, <3>2 DEF Fits
    <2>2. QED
      BY <1>7, <1>0, <2>1, TypesFrame, RerunFailedJobsDoes, TypesParts
  <1>8. CASE FindAttempt(h)
    <2>1. Fits(h)'
      <3>1. task'[h] = task[h] /\ task[h] \in TaskNames /\ Allowed(task[h], at[h])
        BY <1>8, FindAttemptDoes, TypesParts DEF Fits, OneMoves
      <3>2. Allowed(task[h], at'[h])
        BY <1>8, <3>1, FindAttemptDoes, AllowedFacts, AllowedHere, AfterFacts DEF Ending, AfterLook
      <3>3. QED
        BY <3>1, <3>2 DEF Fits
    <2>2. QED
      BY <1>8, <1>0, <2>1, TypesFrame, FindAttemptDoes, TypesParts
  <1>9. CASE ClaimAttempt(h)
    <2>1. Fits(h)'
      <3>1. task'[h] = task[h] /\ task[h] \in TaskNames /\ Allowed(task[h], at[h])
        BY <1>9, ClaimAttemptDoes, TypesParts DEF Fits, OneMoves
      <3>2. Allowed(task[h], at'[h])
        BY <1>9, <3>1, ClaimAttemptDoes, AllowedFacts, AllowedHere, AfterFacts DEF Ending, AfterLook
      <3>3. QED
        BY <3>1, <3>2 DEF Fits
    <2>2. QED
      BY <1>9, <1>0, <2>1, TypesFrame, ClaimAttemptDoes, TypesParts
  <1>10. CASE Retry(h)
    <2>1. Fits(h)'
      <3>1. task'[h] = task[h] /\ task[h] \in TaskNames /\ Allowed(task[h], at[h])
        BY <1>10, RetryDoes, TypesParts DEF Fits, OneMoves
      <3>2. Allowed(task[h], at'[h])
        BY <1>10, <3>1, RetryDoes, AllowedFacts, AllowedHere, AfterFacts DEF Ending, AfterLook
      <3>3. QED
        BY <3>1, <3>2 DEF Fits
    <2>2. QED
      BY <1>10, <1>0, <2>1, TypesFrame, RetryDoes, TypesParts
  <1>11. CASE SettleAttempt(h)
    <2>1. Fits(h)'
      <3>1. task'[h] = task[h] /\ task[h] \in TaskNames /\ Allowed(task[h], at[h])
        BY <1>11, SettleAttemptDoes, TypesParts DEF Fits, OneMoves
      <3>2. Allowed(task[h], at'[h])
        BY <1>11, <3>1, SettleAttemptDoes, AllowedFacts, AllowedHere, AfterFacts DEF Ending, AfterLook
      <3>3. QED
        BY <3>1, <3>2 DEF Fits
    <2>2. QED
      BY <1>11, <1>0, <2>1, TypesFrame, SettleAttemptDoes, TypesParts
  <1>12. CASE Audit(h)
    <2>1. Fits(h)'
      <3>1. task'[h] = task[h] /\ task[h] \in TaskNames /\ Allowed(task[h], at[h])
        BY <1>12, AuditDoes, TypesParts DEF Fits, OneMoves
      <3>2. Allowed(task[h], at'[h])
        BY <1>12, <3>1, AuditDoes, AllowedFacts, AllowedHere, AfterFacts DEF Ending, AfterLook
      <3>3. QED
        BY <3>1, <3>2 DEF Fits
    <2>2. QED
      BY <1>12, <1>0, <2>1, TypesFrame, AuditDoes, TypesParts
  <1>13. CASE LoadLink(h)
    <2>1. task[h] \notin {"workflow", "gitlab"}
      <3>1. Allowed(task[h], at[h])
        BY TypesParts DEF Fits
      <3>2. at[h] \in {"find", "create", "get", "patch", "lock"}
        BY <1>13, LoadLinkDoes
      <3>3. QED
        BY <3>1, <3>2, AllowedHere
    <2>2. Seen
      BY <1>13, <2>1, LoadLinkDoes, TypesParts
    <2>3. Fits(h)'
      <3>1. task'[h] = task[h] /\ task[h] \in TaskNames /\ Allowed(task[h], at[h])
        BY <1>13, LoadLinkDoes, TypesParts DEF Fits, OneMoves
      <3>2. Allowed(task[h], at'[h])
        BY <1>13, <3>1, LoadLinkDoes, AllowedFacts, AllowedHere DEF Ending
      <3>3. QED
        BY <3>1, <3>2 DEF Fits
    <2>4. QED
      BY <1>13, <2>2, <2>3, TypesFrame, LoadLinkDoes, TypesParts
  <1>14. CASE CreateIssue(h)
    <2>1. task[h] \notin {"workflow", "gitlab"}
      <3>1. Allowed(task[h], at[h])
        BY TypesParts DEF Fits
      <3>2. at[h] \in {"find", "create", "get", "patch", "lock"}
        BY <1>14, CreateIssueDoes
      <3>3. QED
        BY <3>1, <3>2, AllowedHere
    <2>2. Seen
      BY <1>14, <2>1, CreateIssueDoes, TypesParts
    <2>3. Fits(h)'
      <3>1. task'[h] = task[h] /\ task[h] \in TaskNames /\ Allowed(task[h], at[h])
        BY <1>14, CreateIssueDoes, TypesParts DEF Fits, OneMoves
      <3>2. Allowed(task[h], at'[h])
        BY <1>14, <3>1, CreateIssueDoes, AllowedFacts, AllowedHere DEF Ending
      <3>3. QED
        BY <3>1, <3>2 DEF Fits
    <2>4. QED
      BY <1>14, <2>2, <2>3, TypesFrame, CreateIssueDoes, TypesParts
  <1>15. CASE GetIssue(h)
    <2>1. task[h] \notin {"workflow", "gitlab"}
      <3>1. Allowed(task[h], at[h])
        BY TypesParts DEF Fits
      <3>2. at[h] \in {"find", "create", "get", "patch", "lock"}
        BY <1>15, GetIssueDoes
      <3>3. QED
        BY <3>1, <3>2, AllowedHere
    <2>2. Seen
      BY <1>15, <2>1, GetIssueDoes, TypesParts
    <2>3. Fits(h)'
      <3>1. task'[h] = task[h] /\ task[h] \in TaskNames /\ Allowed(task[h], at[h])
        BY <1>15, GetIssueDoes, TypesParts DEF Fits, OneMoves
      <3>2. Allowed(task[h], at'[h])
        BY <1>15, <3>1, GetIssueDoes, AllowedFacts, AllowedHere DEF Ending
      <3>3. QED
        BY <3>1, <3>2 DEF Fits
    <2>4. QED
      BY <1>15, <2>2, <2>3, TypesFrame, GetIssueDoes, TypesParts
  <1>16. CASE UpdateIssue(h)
    <2>1. task[h] \notin {"workflow", "gitlab"}
      <3>1. Allowed(task[h], at[h])
        BY TypesParts DEF Fits
      <3>2. at[h] \in {"find", "create", "get", "patch", "lock"}
        BY <1>16, UpdateIssueDoes
      <3>3. QED
        BY <3>1, <3>2, AllowedHere
    <2>2. Seen
      BY <1>16, <2>1, UpdateIssueDoes, TypesParts
    <2>3. Fits(h)'
      <3>1. task'[h] = task[h] /\ task[h] \in TaskNames /\ Allowed(task[h], at[h])
        BY <1>16, UpdateIssueDoes, TypesParts DEF Fits, OneMoves
      <3>2. Allowed(task[h], at'[h])
        BY <1>16, <3>1, UpdateIssueDoes, AllowedFacts, AllowedHere DEF Ending
      <3>3. QED
        BY <3>1, <3>2 DEF Fits
    <2>4. QED
      BY <1>16, <2>2, <2>3, TypesFrame, UpdateIssueDoes, TypesParts
  <1>17. CASE LockIssue(h)
    <2>1. task[h] \notin {"workflow", "gitlab"}
      <3>1. Allowed(task[h], at[h])
        BY TypesParts DEF Fits
      <3>2. at[h] \in {"find", "create", "get", "patch", "lock"}
        BY <1>17, LockIssueDoes
      <3>3. QED
        BY <3>1, <3>2, AllowedHere
    <2>2. Seen
      BY <1>17, <2>1, LockIssueDoes, TypesParts
    <2>3. Fits(h)'
      <3>1. task'[h] = task[h] /\ task[h] \in TaskNames /\ Allowed(task[h], at[h])
        BY <1>17, LockIssueDoes, TypesParts DEF Fits, OneMoves
      <3>2. Allowed(task[h], at'[h])
        BY <1>17, <3>1, LockIssueDoes, AllowedFacts, AllowedHere DEF Ending
      <3>3. QED
        BY <3>1, <3>2 DEF Fits
    <2>4. QED
      BY <1>17, <2>2, <2>3, TypesFrame, LockIssueDoes, TypesParts
  <1>18. CASE CommentIssue(h)
    <2>1. Fits(h)'
      <3>1. task'[h] = task[h] /\ task[h] \in TaskNames /\ Allowed(task[h], at[h])
        BY <1>18, CommentIssueDoes, TypesParts DEF Fits, OneMoves
      <3>2. Allowed(task[h], at'[h])
        BY <1>18, <3>1, CommentIssueDoes, AllowedFacts, AllowedHere, AfterFacts DEF Ending, AfterLook
      <3>3. QED
        BY <3>1, <3>2 DEF Fits
    <2>2. QED
      BY <1>18, <1>0, <2>1, TypesFrame, CommentIssueDoes, TypesParts
  <1>19. CASE SaveLink(h)
    <2>1. Fits(h)'
      <3>1. task'[h] = task[h] /\ task[h] \in TaskNames /\ Allowed(task[h], at[h])
        BY <1>19, SaveLinkDoes, TypesParts DEF Fits, OneMoves
      <3>2. Allowed(task[h], at'[h])
        BY <1>19, <3>1, SaveLinkDoes, AllowedFacts, AllowedHere, AfterFacts DEF Ending, AfterLook
      <3>3. QED
        BY <3>1, <3>2 DEF Fits
    <2>2. QED
      BY <1>19, <1>0, <2>1, TypesFrame, SaveLinkDoes, TypesParts
  <1>20. CASE RecordDelivery(h)
    <2>1. Fits(h)'
      <3>1. task'[h] = task[h] /\ task[h] \in TaskNames /\ Allowed(task[h], at[h])
        BY <1>20, RecordDeliveryDoes, TypesParts DEF Fits, OneMoves
      <3>2. Allowed(task[h], at'[h])
        BY <1>20, <3>1, RecordDeliveryDoes, AllowedFacts, AllowedHere, AfterFacts DEF Ending, AfterLook
      <3>3. QED
        BY <3>1, <3>2 DEF Fits
    <2>2. QED
      BY <1>20, <1>0, <2>1, TypesFrame, RecordDeliveryDoes, TypesParts
  <1>21. CASE PerformChatAction(h)
    <2>1. Fits(h)'
      <3>1. task'[h] = task[h] /\ task[h] \in TaskNames /\ Allowed(task[h], at[h])
        BY <1>21, PerformChatActionDoes, TypesParts DEF Fits, OneMoves
      <3>2. Allowed(task[h], at'[h])
        BY <1>21, <3>1, PerformChatActionDoes, AllowedFacts, AllowedHere, AfterFacts DEF Ending, AfterLook
      <3>3. QED
        BY <3>1, <3>2 DEF Fits
    <2>2. QED
      BY <1>21, <1>0, <2>1, TypesFrame, PerformChatActionDoes, TypesParts
  <1>22. QED
    BY <1>1, <1>2, <1>3, <1>4, <1>5, <1>6, <1>7, <1>8, <1>9, <1>10, <1>11, <1>12, <1>13, <1>14, <1>15, <1>16, <1>17, <1>18, <1>19, <1>20, <1>21
       DEF HandlerStep

-----------------------------------------------------------------------------
(* Looking alone *)

LEMMA AloneFrame ==
  ASSUME LookedAlone, NEW h \in Handlers, OneMoves(h),
         ~overlapped' => ~overlapped,
         Between(h)' => Between(h)
  PROVE  LookedAlone'
  <1>1. \A g \in Handlers : Between(g)' => Between(g)
    BY DEF OneMoves, Between
  <1>2. QED
    BY <1>1 DEF LookedAlone

LEMMA AloneLook ==
  ASSUME LookedAlone, NEW h \in Handlers, OneMoves(h),
         ~overlapped' => ~overlapped /\ \A g \in Handlers : g # h => ~Between(g)
  PROVE  LookedAlone'
  <1>1. \A g \in Handlers : g # h => (Between(g)' <=> Between(g))
    BY DEF OneMoves, Between
  <1>2. QED
    BY <1>1 DEF LookedAlone

LEMMA AloneKept ==
  ASSUME EffectsTypes, LookedAlone, NEW h \in Handlers, HandlerStep(h)
  PROVE  LookedAlone'
  <1>1. CASE Start(h)
    <2>1. at'[h] \in {"diagnose", "take", "find"}
      BY <1>1, StartDoes, FirstFacts, TypesParts DEF TaskNames
    <2>2. QED
      BY <1>1, <2>1, AloneFrame, StartDoes DEF Between
  <1>2. CASE Crash(h)
    <2>1. Between(h)' => Between(h)
      BY <1>2, CrashDoes DEF Between, Ending
    <2>2. QED
      BY <1>2, <2>1, AloneFrame, CrashDoes
  <1>3. CASE Diagnose(h)
    <2>1. Allowed(task[h], "diagnose")
      BY <1>3, DiagnoseDoes, TypesParts DEF Fits
    <2>2. at'[h] \in {"failed", "check", "comments", "attempt"}
      BY <1>3, <2>1, DiagnoseDoes, AfterFacts, AllowedHere
    <2>3. QED
      BY <1>3, <2>2, AloneFrame, DiagnoseDoes DEF Between
  <1>4. CASE PublishCheck(h)
    <2>1. Between(h)' => Between(h)
      BY <1>4, PublishCheckDoes DEF Between, Ending
    <2>2. QED
      BY <1>4, <2>1, AloneFrame, PublishCheckDoes
  <1>5. CASE ListComments(h)
    BY <1>5, AloneLook, ListCommentsDoes
  <1>6. CASE WriteComment(h)
    <2>1. Between(h)' => Between(h)
      BY <1>6, WriteCommentDoes, AfterFacts DEF Between, Ending
    <2>2. QED
      BY <1>6, <2>1, AloneFrame, WriteCommentDoes
  <1>7. CASE RerunFailedJobs(h)
    <2>1. Between(h)' => Between(h)
      BY <1>7, RerunFailedJobsDoes DEF Between, Ending
    <2>2. QED
      BY <1>7, <2>1, AloneFrame, RerunFailedJobsDoes
  <1>8. CASE FindAttempt(h)
    BY <1>8, AloneLook, FindAttemptDoes
  <1>9. CASE ClaimAttempt(h)
    <2>1. Between(h)' => Between(h)
      BY <1>9, ClaimAttemptDoes DEF Between, Ending
    <2>2. QED
      BY <1>9, <2>1, AloneFrame, ClaimAttemptDoes
  <1>10. CASE Retry(h)
    <2>1. Between(h)' => Between(h)
      BY <1>10, RetryDoes DEF Between, Ending
    <2>2. QED
      BY <1>10, <2>1, AloneFrame, RetryDoes
  <1>11. CASE SettleAttempt(h)
    <2>1. Between(h)' => Between(h)
      BY <1>11, SettleAttemptDoes DEF Between, Ending
    <2>2. QED
      BY <1>11, <2>1, AloneFrame, SettleAttemptDoes
  <1>12. CASE Audit(h)
    <2>1. Between(h)' => Between(h)
      BY <1>12, AuditDoes DEF Between, Ending
    <2>2. QED
      BY <1>12, <2>1, AloneFrame, AuditDoes
  <1>13. CASE LoadLink(h)
    BY <1>13, AloneLook, LoadLinkDoes
  <1>14. CASE CreateIssue(h)
    <2>1. Between(h)' => Between(h)
      BY <1>14, CreateIssueDoes DEF Between, Ending
    <2>2. QED
      BY <1>14, <2>1, AloneFrame, CreateIssueDoes
  <1>15. CASE GetIssue(h)
    <2>1. Between(h)' => Between(h)
      BY <1>15, GetIssueDoes DEF Between, Ending
    <2>2. QED
      BY <1>15, <2>1, AloneFrame, GetIssueDoes
  <1>16. CASE UpdateIssue(h)
    <2>1. Between(h)' => Between(h)
      BY <1>16, UpdateIssueDoes DEF Between, Ending
    <2>2. QED
      BY <1>16, <2>1, AloneFrame, UpdateIssueDoes
  <1>17. CASE LockIssue(h)
    <2>1. Between(h)' => Between(h)
      BY <1>17, LockIssueDoes DEF Between, Ending
    <2>2. QED
      BY <1>17, <2>1, AloneFrame, LockIssueDoes
  <1>18. CASE CommentIssue(h)
    <2>1. Between(h)' => Between(h)
      BY <1>18, CommentIssueDoes DEF Between, Ending
    <2>2. QED
      BY <1>18, <2>1, AloneFrame, CommentIssueDoes
  <1>19. CASE SaveLink(h)
    <2>1. Between(h)' => Between(h)
      BY <1>19, SaveLinkDoes DEF Between, Ending
    <2>2. QED
      BY <1>19, <2>1, AloneFrame, SaveLinkDoes
  <1>20. CASE RecordDelivery(h)
    <2>1. Between(h)' => Between(h)
      BY <1>20, RecordDeliveryDoes DEF Between, Ending
    <2>2. QED
      BY <1>20, <2>1, AloneFrame, RecordDeliveryDoes
  <1>21. CASE PerformChatAction(h)
    <2>1. Between(h)' => Between(h)
      BY <1>21, PerformChatActionDoes DEF Between, Ending
    <2>2. QED
      BY <1>21, <2>1, AloneFrame, PerformChatActionDoes
  <1>22. QED
    BY <1>1, <1>2, <1>3, <1>4, <1>5, <1>6, <1>7, <1>8, <1>9, <1>10, <1>11, <1>12, <1>13, <1>14, <1>15, <1>16, <1>17, <1>18, <1>19, <1>20, <1>21
       DEF HandlerStep

-----------------------------------------------------------------------------
(* Buttons of a chat *)

LEMMA ChatFrame ==
  ASSUME EffectsTypes, ChatInv, NEW h \in Handlers, OneMoves(h), at[h] # "act", at'[h] # "act",
         store'.claimed = store.claimed, outside'["action"] = outside["action"],
         task[h] = "slack" /\ at'[h] \in Ending => at[h] \in Ending
  PROVE  ChatInv'
  <1>1. \A g \in Handlers : at'[g] = "act" <=> at[g] = "act"
    BY DEF OneMoves
  <1>2. faults' = 0 => faults = 0
    BY DEF OneMoves, EffectsTypes
  <1>3. \A g \in Handlers : task'[g] = "slack" /\ at'[g] \in Ending => task[g] = "slack" /\ at[g] \in Ending
    BY DEF OneMoves
  <1>4. QED
    BY <1>1, <1>2, <1>3 DEF ChatInv

LEMMA ChatKept ==
  ASSUME EffectsTypes, ChatInv, NEW h \in Handlers, HandlerStep(h)
  PROVE  ChatInv'
  <1>1. CASE Start(h)
    <2>1. at'[h] \in {"diagnose", "take", "find"}
      BY <1>1, StartDoes, FirstFacts, TypesParts DEF TaskNames
    <2>2. QED
      BY <1>1, <2>1, ChatFrame, StartDoes DEF Ending
  <1>2. CASE Crash(h)
    <2>1. \A g \in Handlers : at'[g] = "act" => at[g] = "act"
      BY <1>2, CrashDoes DEF OneMoves
    <2>2. faults' # 0
      <3>1. faults' = faults + 1
        BY <1>2, CrashDoes
      <3>2. faults \in Nat
        BY TypesParts
      <3>3. QED
        BY <3>1, <3>2
    <2>3. QED
      BY <1>2, <2>1, <2>2, CrashDoes DEF ChatInv
  <1>3. CASE Diagnose(h)
    <2>0. Allowed(task[h], "diagnose")
      BY <1>3, DiagnoseDoes, TypesParts DEF Fits
    <2>1. at'[h] \in {"failed", "check", "comments", "attempt"}
      BY <1>3, <2>0, DiagnoseDoes, AfterFacts, AllowedHere
    <2>2. QED
      BY <1>3, <2>1, ChatFrame, DiagnoseDoes DEF Ending
  <1>4. CASE PublishCheck(h)
    <2>1. outside'["action"] = outside["action"]
      BY <1>4, PublishCheckDoes DEF Sent, Effects, Note
    <2>2. at[h] # "act" /\ at'[h] # "act" /\ (at'[h] \in Ending => at[h] \in Ending)
      BY <1>4, PublishCheckDoes, AfterFacts DEF Ending
    <2>3. QED
      BY <1>4, <2>1, <2>2, ChatFrame, PublishCheckDoes
  <1>5. CASE ListComments(h)
    <2>1. outside'["action"] = outside["action"]
      BY <1>5, ListCommentsDoes DEF Sent, Effects, Note
    <2>2. at[h] # "act" /\ at'[h] # "act" /\ (at'[h] \in Ending => at[h] \in Ending)
      BY <1>5, ListCommentsDoes, AfterFacts DEF Ending
    <2>3. QED
      BY <1>5, <2>1, <2>2, ChatFrame, ListCommentsDoes
  <1>6. CASE WriteComment(h)
    <2>1. outside'["action"] = outside["action"]
      BY <1>6, WriteCommentDoes DEF Sent, Effects, Note
    <2>2. at[h] # "act" /\ at'[h] # "act" /\ (at'[h] \in Ending => at[h] \in Ending)
      BY <1>6, WriteCommentDoes, AfterFacts DEF Ending
    <2>3. QED
      BY <1>6, <2>1, <2>2, ChatFrame, WriteCommentDoes
  <1>7. CASE RerunFailedJobs(h)
    <2>1. task[h] # "slack"
      <3>1. Allowed(task[h], at[h])
        BY TypesParts DEF Fits
      <3>2. at[h] \in {"rerun", "find", "remark", "create", "get", "patch", "lock", "link"} \cup AfterLook
        BY <1>7, RerunFailedJobsDoes DEF AfterLook
      <3>3. QED
        BY <3>1, <3>2, AllowedHere
    <2>2. outside'["action"] = outside["action"]
      BY <1>7, RerunFailedJobsDoes DEF Sent, Effects
    <2>3. at[h] # "act" /\ at'[h] # "act"
      BY <1>7, RerunFailedJobsDoes DEF Ending
    <2>4. QED
      BY <1>7, <2>1, <2>2, <2>3, ChatFrame, RerunFailedJobsDoes
  <1>8. CASE FindAttempt(h)
    <2>1. task[h] # "slack"
      <3>1. Allowed(task[h], at[h])
        BY TypesParts DEF Fits
      <3>2. at[h] \in {"rerun", "find", "remark", "create", "get", "patch", "lock", "link"} \cup AfterLook
        BY <1>8, FindAttemptDoes DEF AfterLook
      <3>3. QED
        BY <3>1, <3>2, AllowedHere
    <2>2. outside'["action"] = outside["action"]
      BY <1>8, FindAttemptDoes DEF Sent, Effects
    <2>3. at[h] # "act" /\ at'[h] # "act"
      BY <1>8, FindAttemptDoes DEF Ending
    <2>4. QED
      BY <1>8, <2>1, <2>2, <2>3, ChatFrame, FindAttemptDoes
  <1>9. CASE ClaimAttempt(h)
    <2>1. task[h] # "slack"
      <3>1. Allowed(task[h], at[h])
        BY TypesParts DEF Fits
      <3>2. at[h] \in {"rerun", "find", "remark", "create", "get", "patch", "lock", "link"} \cup AfterLook
        BY <1>9, ClaimAttemptDoes DEF AfterLook
      <3>3. QED
        BY <3>1, <3>2, AllowedHere
    <2>2. outside'["action"] = outside["action"]
      BY <1>9, ClaimAttemptDoes DEF Sent, Effects
    <2>3. at[h] # "act" /\ at'[h] # "act"
      BY <1>9, ClaimAttemptDoes DEF Ending
    <2>4. QED
      BY <1>9, <2>1, <2>2, <2>3, ChatFrame, ClaimAttemptDoes
  <1>10. CASE Retry(h)
    <2>1. outside'["action"] = outside["action"]
      BY <1>10, RetryDoes DEF Sent, Effects, Note
    <2>2. at[h] # "act" /\ at'[h] # "act" /\ (at'[h] \in Ending => at[h] \in Ending)
      BY <1>10, RetryDoes, AfterFacts DEF Ending
    <2>3. QED
      BY <1>10, <2>1, <2>2, ChatFrame, RetryDoes
  <1>11. CASE SettleAttempt(h)
    <2>1. task[h] # "slack"
      <3>1. Allowed(task[h], at[h])
        BY TypesParts DEF Fits
      <3>2. at[h] \in {"rerun", "find", "remark", "create", "get", "patch", "lock", "link"} \cup AfterLook
        BY <1>11, SettleAttemptDoes DEF AfterLook
      <3>3. QED
        BY <3>1, <3>2, AllowedHere
    <2>2. outside'["action"] = outside["action"]
      BY <1>11, SettleAttemptDoes DEF Sent, Effects
    <2>3. at[h] # "act" /\ at'[h] # "act"
      BY <1>11, SettleAttemptDoes DEF Ending
    <2>4. QED
      BY <1>11, <2>1, <2>2, <2>3, ChatFrame, SettleAttemptDoes
  <1>12. CASE Audit(h)
    <2>1. outside'["action"] = outside["action"]
      BY <1>12, AuditDoes DEF Sent, Effects, Note
    <2>2. at[h] # "act" /\ at'[h] # "act" /\ (at'[h] \in Ending => at[h] \in Ending)
      BY <1>12, AuditDoes, AfterFacts DEF Ending
    <2>3. QED
      BY <1>12, <2>1, <2>2, ChatFrame, AuditDoes
  <1>13. CASE LoadLink(h)
    <2>1. task[h] # "slack"
      <3>1. Allowed(task[h], at[h])
        BY TypesParts DEF Fits
      <3>2. at[h] \in {"rerun", "find", "remark", "create", "get", "patch", "lock", "link"} \cup AfterLook
        BY <1>13, LoadLinkDoes DEF AfterLook
      <3>3. QED
        BY <3>1, <3>2, AllowedHere
    <2>2. outside'["action"] = outside["action"]
      BY <1>13, LoadLinkDoes DEF Sent, Effects
    <2>3. at[h] # "act" /\ at'[h] # "act"
      BY <1>13, LoadLinkDoes DEF Ending
    <2>4. QED
      BY <1>13, <2>1, <2>2, <2>3, ChatFrame, LoadLinkDoes
  <1>14. CASE CreateIssue(h)
    <2>1. task[h] # "slack"
      <3>1. Allowed(task[h], at[h])
        BY TypesParts DEF Fits
      <3>2. at[h] \in {"rerun", "find", "remark", "create", "get", "patch", "lock", "link"} \cup AfterLook
        BY <1>14, CreateIssueDoes DEF AfterLook
      <3>3. QED
        BY <3>1, <3>2, AllowedHere
    <2>2. outside'["action"] = outside["action"]
      BY <1>14, CreateIssueDoes DEF Sent, Effects
    <2>3. at[h] # "act" /\ at'[h] # "act"
      BY <1>14, CreateIssueDoes DEF Ending
    <2>4. QED
      BY <1>14, <2>1, <2>2, <2>3, ChatFrame, CreateIssueDoes
  <1>15. CASE GetIssue(h)
    <2>1. task[h] # "slack"
      <3>1. Allowed(task[h], at[h])
        BY TypesParts DEF Fits
      <3>2. at[h] \in {"rerun", "find", "remark", "create", "get", "patch", "lock", "link"} \cup AfterLook
        BY <1>15, GetIssueDoes DEF AfterLook
      <3>3. QED
        BY <3>1, <3>2, AllowedHere
    <2>2. outside'["action"] = outside["action"]
      BY <1>15, GetIssueDoes DEF Sent, Effects
    <2>3. at[h] # "act" /\ at'[h] # "act"
      BY <1>15, GetIssueDoes DEF Ending
    <2>4. QED
      BY <1>15, <2>1, <2>2, <2>3, ChatFrame, GetIssueDoes
  <1>16. CASE UpdateIssue(h)
    <2>1. task[h] # "slack"
      <3>1. Allowed(task[h], at[h])
        BY TypesParts DEF Fits
      <3>2. at[h] \in {"rerun", "find", "remark", "create", "get", "patch", "lock", "link"} \cup AfterLook
        BY <1>16, UpdateIssueDoes DEF AfterLook
      <3>3. QED
        BY <3>1, <3>2, AllowedHere
    <2>2. outside'["action"] = outside["action"]
      BY <1>16, UpdateIssueDoes DEF Sent, Effects
    <2>3. at[h] # "act" /\ at'[h] # "act"
      BY <1>16, UpdateIssueDoes DEF Ending
    <2>4. QED
      BY <1>16, <2>1, <2>2, <2>3, ChatFrame, UpdateIssueDoes
  <1>17. CASE LockIssue(h)
    <2>1. task[h] # "slack"
      <3>1. Allowed(task[h], at[h])
        BY TypesParts DEF Fits
      <3>2. at[h] \in {"rerun", "find", "remark", "create", "get", "patch", "lock", "link"} \cup AfterLook
        BY <1>17, LockIssueDoes DEF AfterLook
      <3>3. QED
        BY <3>1, <3>2, AllowedHere
    <2>2. outside'["action"] = outside["action"]
      BY <1>17, LockIssueDoes DEF Sent, Effects
    <2>3. at[h] # "act" /\ at'[h] # "act"
      BY <1>17, LockIssueDoes DEF Ending
    <2>4. QED
      BY <1>17, <2>1, <2>2, <2>3, ChatFrame, LockIssueDoes
  <1>18. CASE CommentIssue(h)
    <2>1. task[h] # "slack"
      <3>1. Allowed(task[h], at[h])
        BY TypesParts DEF Fits
      <3>2. at[h] \in {"rerun", "find", "remark", "create", "get", "patch", "lock", "link"} \cup AfterLook
        BY <1>18, CommentIssueDoes DEF AfterLook
      <3>3. QED
        BY <3>1, <3>2, AllowedHere
    <2>2. outside'["action"] = outside["action"]
      BY <1>18, CommentIssueDoes DEF Sent, Effects
    <2>3. at[h] # "act" /\ at'[h] # "act"
      BY <1>18, CommentIssueDoes DEF Ending
    <2>4. QED
      BY <1>18, <2>1, <2>2, <2>3, ChatFrame, CommentIssueDoes
  <1>19. CASE SaveLink(h)
    <2>1. task[h] # "slack"
      <3>1. Allowed(task[h], at[h])
        BY TypesParts DEF Fits
      <3>2. at[h] \in {"rerun", "find", "remark", "create", "get", "patch", "lock", "link"} \cup AfterLook
        BY <1>19, SaveLinkDoes DEF AfterLook
      <3>3. QED
        BY <3>1, <3>2, AllowedHere
    <2>2. outside'["action"] = outside["action"]
      BY <1>19, SaveLinkDoes DEF Sent, Effects
    <2>3. at[h] # "act" /\ at'[h] # "act"
      BY <1>19, SaveLinkDoes DEF Ending
    <2>4. QED
      BY <1>19, <2>1, <2>2, <2>3, ChatFrame, SaveLinkDoes
  <1>20. CASE RecordDelivery(h)
    <2>1. OneMoves(h) /\ outside' = outside /\ at[h] = "take" /\ faults' \in Nat /\ faults \in Nat
      BY <1>20, RecordDeliveryDoes, TypesParts DEF OneMoves
    <2>2. CASE at'[h] = "act"
      <3>1. ~store.claimed /\ store'.claimed
        BY <1>20, <2>2, RecordDeliveryDoes
      <3>2. \A g \in Handlers : at'[g] = "act" <=> g = h
        BY <2>1, <2>2, <3>1 DEF OneMoves, ChatInv
      <3>3. outside'["action"] = 0
        <4>1. outside["action"] \in Nat
          BY TypesParts DEF Effects
        <4>2. ~(outside["action"] > 0)
          BY <3>1 DEF ChatInv
        <4>3. QED
          BY <2>1, <4>1, <4>2
      <3>4. QED
        BY <2>1, <3>1, <3>2, <3>3 DEF ChatInv
    <2>3. CASE at'[h] = "done"
      <3>1. store.claimed /\ store'.claimed
        BY <1>20, <2>3, RecordDeliveryDoes
      <3>2. \A g \in Handlers : at'[g] = "act" <=> at[g] = "act"
        BY <2>1, <2>3 DEF OneMoves
      <3>3. faults' = 0 => faults = 0
        BY <2>1 DEF OneMoves
      <3>4. QED
        BY <2>1, <3>1, <3>2, <3>3 DEF ChatInv
    <2>4. CASE at'[h] = "failed"
      <3>1. (store.claimed => store'.claimed) /\ faults' # 0
        BY <1>20, <2>1, <2>4, RecordDeliveryDoes
      <3>2. \A g \in Handlers : at'[g] = "act" <=> at[g] = "act"
        BY <2>1, <2>4 DEF OneMoves
      <3>3. QED
        BY <2>1, <3>1, <3>2 DEF ChatInv
    <2>5. QED
      BY <1>20, <2>2, <2>3, <2>4, RecordDeliveryDoes
  <1>21. CASE PerformChatAction(h)
    <2>1. /\ OneMoves(h) /\ store' = store /\ at[h] = "act" /\ at'[h] \in Ending /\ faults' \in Nat /\ faults \in Nat
          /\ outside["action"] = 0 /\ outside["action"] \in Nat /\ store.claimed
      BY <1>21, PerformChatActionDoes, TypesParts DEF OneMoves, ChatInv, Effects
    <2>2. outside'["action"] \in {0, 1} /\ (faults' = faults => outside'["action"] = 1)
      <3>1. outside'["action"] \in Nat
        BY <2>1 DEF OneMoves, Effects
      <3>2. QED
        BY <1>21, <2>1, <3>1, PerformChatActionDoes DEF Sent, Effects
    <2>3. \A g \in Handlers : at'[g] # "act"
      BY <2>1 DEF OneMoves, ChatInv, Ending
    <2>4. faults' = 0 => outside'["action"] = 1
      BY <2>1, <2>2 DEF OneMoves
    <2>5. QED
      BY <2>1, <2>2, <2>3, <2>4 DEF ChatInv
  <1>22. QED
    BY <1>1, <1>2, <1>3, <1>4, <1>5, <1>6, <1>7, <1>8, <1>9, <1>10, <1>11, <1>12, <1>13, <1>14, <1>15, <1>16, <1>17, <1>18, <1>19, <1>20, <1>21
       DEF HandlerStep

(* Where a handler is tells what its task is. *)
LEMMA TaskAt ==
  ASSUME EffectsTypes, NEW h \in Handlers
  PROVE  /\ at[h] = "diagnose" => task[h] \in {"gitlab", "bare", "workflow"}
         /\ at[h] \in {"check", "rerun"} => task[h] = "workflow"
         /\ at[h] \in {"comments", "comment"} => task[h] \in {"workflow", "gitlab"}
         /\ at[h] \in AfterLook => task[h] \in {"gitlab", "bare"}
         /\ at[h] = "find" => task[h] \in {"create", "edit", "refresh", "remark"}
         /\ at[h] = "create" => task[h] = "create"
         /\ at[h] = "get" => task[h] = "refresh"
         /\ at[h] \in {"patch", "lock"} => task[h] = "edit"
         /\ at[h] = "link" => task[h] \in {"create", "edit", "refresh"}
         /\ at[h] = "remark" => task[h] = "remark"
         /\ at[h] \in {"take", "act"} => task[h] = "slack"
  <1>1. Allowed(task[h], at[h])
    BY TypesParts DEF Fits
  <1>2. QED
    BY <1>1, AllowedHere

LEMMA StartsAt ==
  ASSUME EffectsTypes, NEW h \in Handlers, Start(h)
  PROVE  at'[h] \in {"diagnose", "take", "find"}
  BY StartDoes, FirstFacts, TypesParts DEF TaskNames

LEMMA DiagnosedAt ==
  ASSUME EffectsTypes, NEW h \in Handlers, Diagnose(h)
  PROVE  at'[h] \in {"failed", "check", "comments", "attempt"}
  BY DiagnoseDoes, TaskAt, AfterFacts

LEMMA FaultsGrow ==
  ASSUME EffectsTypes, NEW h \in Handlers, OneMoves(h)
  PROVE  faults \in Nat /\ faults' \in Nat /\ faults <= faults' /\ (faults' = 0 => faults = 0 /\ faults' = faults)
  BY DEF EffectsTypes, OneMoves

-----------------------------------------------------------------------------
(* Comments and reruns, counted by handler *)

LEMMA AddOne ==
  ASSUME NEW S, IsFiniteSet(S), NEW x
  PROVE  /\ IsFiniteSet(S \cup {x})
         /\ Cardinality(S \cup {x}) \in Nat /\ Cardinality(S) \in Nat
         /\ Cardinality(S \cup {x}) <= Cardinality(S) + 1
  <1>1. IsFiniteSet(S \cup {x}) /\ Cardinality(S \cup {x}) = IF x \in S THEN Cardinality(S) ELSE Cardinality(S) + 1
    BY FS_AddElement
  <1>2. Cardinality(S) \in Nat
    BY FS_CardinalityType
  <1>3. QED
    BY <1>1, <1>2

LEMMA PastFinite ==
  ASSUME EffectsTypes, NEW e \in Authored
  PROVE  IsFiniteSet(Past(e)) /\ Cardinality(Past(e)) \in Nat /\ outside[e] \in Nat
  <1>1. IsFiniteSet(Past(e))
    BY FS_Subset, RemediationAssumption DEF Past
  <1>2. QED
    BY <1>1, FS_CardinalityType DEF EffectsTypes, Effects, Authored

(* A handler that has caused an effect stays behind it, or a fault is counted;
   one that causes it was not behind it and is now. *)
LEMMA PastCounts ==
  ASSUME EffectsTypes, EffectsTypes', PastInv, NEW h \in Handlers, OneMoves(h), NEW e \in Authored,
         \/ outside'[e] = outside[e] /\ (h \in Past(e) => h \in Past(e)' \/ faults' = faults + 1)
         \/ outside'[e] <= outside[e] + 1 /\ h \notin Past(e) /\ h \in Past(e)'
  PROVE  outside'[e] <= Cardinality(Past(e)') + faults'
  <1> DEFINE P == Past(e)
             Q == Past(e)'
  <1>1. IsFiniteSet(P) /\ Cardinality(P) \in Nat /\ outside[e] \in Nat /\ outside[e] <= Cardinality(P) + faults
    BY PastFinite DEF PastInv
  <1>2. IsFiniteSet(Q) /\ Cardinality(Q) \in Nat
    <2>1. Q \subseteq Handlers
      BY DEF Past
    <2>2. QED
      BY <2>1, FS_Subset, FS_CardinalityType, RemediationAssumption
  <1>3. faults \in Nat /\ faults' \in Nat /\ faults <= faults' /\ outside'[e] \in Nat
    BY FaultsGrow DEF EffectsTypes, Effects, Authored
  <1>4. P \subseteq Q \cup {h}
    BY DEF Past, OneMoves
  <1> HIDE DEF P, Q
  <1>5. CASE outside'[e] = outside[e] /\ P \subseteq Q
    <2>1. Cardinality(P) <= Cardinality(Q)
      BY <1>2, <1>5, FS_Subset
    <2>2. QED
      BY <1>1, <1>2, <1>3, <1>5, <2>1 DEF Q
  <1>6. CASE outside'[e] = outside[e] /\ faults' = faults + 1
    <2>1. /\ IsFiniteSet(Q \cup {h}) /\ Cardinality(Q \cup {h}) \in Nat
          /\ Cardinality(Q \cup {h}) <= Cardinality(Q) + 1
      BY <1>2, AddOne
    <2>2. Cardinality(P) <= Cardinality(Q \cup {h})
      BY <1>4, <2>1, FS_Subset
    <2>3. QED
      BY <1>1, <1>2, <1>3, <1>6, <2>1, <2>2 DEF Q
  <1>7. CASE outside'[e] <= outside[e] + 1 /\ h \notin P /\ h \in Q
    <2>1. P \cup {h} \subseteq Q
      <3>1. \A g \in Handlers : g # h /\ g \in P => g \in Q
        BY DEF P, Q, Past, OneMoves
      <3>2. P \subseteq Handlers
        BY DEF P, Past
      <3>3. QED
        BY <1>7, <3>1, <3>2
    <2>2. Cardinality(P \cup {h}) = Cardinality(P) + 1
      BY <1>1, <1>7, FS_AddElement
    <2>3. Cardinality(P \cup {h}) <= Cardinality(Q)
      BY <1>2, <2>1, FS_Subset
    <2>4. QED
      BY <1>1, <1>2, <1>3, <1>7, <2>2, <2>3 DEF Q
  <1>8. h \in P => (h \in Q => P \subseteq Q)
    BY <1>4
  <1>9. h \notin P => P \subseteq Q
    BY <1>4
  <1>10. QED
    BY <1>5, <1>6, <1>7, <1>8, <1>9 DEF P, Q

(* A step that causes none of the effects. *)
LEMMA PastFrame ==
  ASSUME EffectsTypes, EffectsTypes', PastInv, NEW h \in Handlers, OneMoves(h),
         \A e \in Authored : outside'[e] = outside[e],
         faults' = faults + 1
           \/ \A e \in Authored : task[h] = Author(e) /\ at[h] \in Behind(e) => at'[h] \in Behind(e)
  PROVE  PastInv'
  <1> SUFFICES ASSUME NEW e \in Authored PROVE outside'[e] <= Cardinality(Past(e)') + faults'
    BY DEF PastInv
  <1>1. h \in Past(e) => h \in Past(e)' \/ faults' = faults + 1
    BY DEF Past, OneMoves
  <1>2. QED
    BY <1>1, PastCounts

LEMMA PastKept ==
  ASSUME EffectsTypes, EffectsTypes', PastInv, NEW h \in Handlers, HandlerStep(h)
  PROVE  PastInv'
  <1>1. CASE Start(h)
    <2>1. \A e \in Authored : outside'[e] = outside[e]
      BY <1>1, StartDoes DEF Sent, Effects, Authored, Note
    <2>2. \A e \in Authored : task[h] = Author(e) /\ at[h] \in Behind(e) => at'[h] \in Behind(e)
      BY <1>1, StartDoes, TaskAt DEF Author, Behind, AfterLook, Ending, Authored
    <2>3. QED
      BY <1>1, <2>1, <2>2, PastFrame, StartDoes
  <1>2. CASE Crash(h)
    BY <1>2, CrashDoes, PastFrame
  <1>3. CASE Diagnose(h)
    <2>1. \A e \in Authored : outside'[e] = outside[e]
      BY <1>3, DiagnoseDoes DEF Sent, Effects, Authored, Note
    <2>2. \A e \in Authored : task[h] = Author(e) /\ at[h] \in Behind(e) => at'[h] \in Behind(e)
      BY <1>3, DiagnoseDoes, TaskAt DEF Author, Behind, AfterLook, Ending, Authored
    <2>3. QED
      BY <1>3, <2>1, <2>2, PastFrame, DiagnoseDoes
  <1>4. CASE PublishCheck(h)
    <2>1. \A e \in Authored : outside'[e] = outside[e]
      BY <1>4, PublishCheckDoes DEF Sent, Effects, Authored, Note
    <2>2. \A e \in Authored : task[h] = Author(e) /\ at[h] \in Behind(e) => at'[h] \in Behind(e)
      BY <1>4, PublishCheckDoes, TaskAt DEF Author, Behind, AfterLook, Ending, Authored
    <2>3. QED
      BY <1>4, <2>1, <2>2, PastFrame, PublishCheckDoes
  <1>5. CASE ListComments(h)
    <2>1. \A e \in Authored : outside'[e] = outside[e]
      BY <1>5, ListCommentsDoes DEF Sent, Effects, Authored, Note
    <2>2. \A e \in Authored : task[h] = Author(e) /\ at[h] \in Behind(e) => at'[h] \in Behind(e)
      BY <1>5, ListCommentsDoes, TaskAt DEF Author, Behind, AfterLook, Ending, Authored
    <2>3. QED
      BY <1>5, <2>1, <2>2, PastFrame, ListCommentsDoes
  <1>6. CASE WriteComment(h)
    <2> SUFFICES ASSUME NEW e \in Authored PROVE outside'[e] <= Cardinality(Past(e)') + faults'
      BY DEF PastInv
    <2>1. /\ OneMoves(h) /\ at[h] = "comment" /\ at'[h] = AfterComment(h) /\ task'[h] = task[h]
          /\ task[h] \in {"workflow", "gitlab"}
      BY <1>6, WriteCommentDoes, TaskAt DEF OneMoves
    <2>2. outside' = outside \/ Sent(Note(h))
      BY <1>6, WriteCommentDoes, TypesParts DEF IsLink
    <2>3. at'[h] \in {"rerun", "attempt"} /\ (task[h] = "workflow" => at'[h] = "rerun")
      BY <2>1, AfterFacts DEF AfterComment
    <2>4. CASE e = Note(h)
      <3>1. task[h] = Author(e) /\ at'[h] \in Behind(e) /\ at[h] \notin Behind(e)
        BY <2>1, <2>3, <2>4 DEF Note, Author, Behind, AfterComment, AfterLook, Ending
      <3>2. h \notin Past(e) /\ h \in Past(e)'
        BY <2>1, <3>1 DEF Past
      <3>3. outside[e] \in Nat
        BY PastFinite
      <3>4. outside'[e] <= outside[e] + 1
        BY <2>2, <2>4, <3>3 DEF Sent
      <3>5. QED
        BY <2>1, <3>2, <3>4, PastCounts
    <2>5. CASE e # Note(h)
      <3>1. outside'[e] = outside[e]
        BY <2>2, <2>5 DEF Sent, Authored, Effects
      <3>2. h \notin Past(e)
        BY <2>1 DEF Past, Behind, AfterLook, Ending
      <3>3. QED
        BY <2>1, <3>1, <3>2, PastCounts
    <2>6. QED
      BY <2>4, <2>5
  <1>7. CASE RerunFailedJobs(h)
    <2> SUFFICES ASSUME NEW e \in Authored PROVE outside'[e] <= Cardinality(Past(e)') + faults'
      BY DEF PastInv
    <2>1. /\ OneMoves(h) /\ at[h] = "rerun" /\ at'[h] \in Ending /\ Sent("rerun") /\ task[h] = "workflow"
          /\ task'[h] = task[h]
      BY <1>7, RerunFailedJobsDoes, TaskAt DEF OneMoves
    <2>2. CASE e = "rerun"
      <3>1. h \notin Past(e) /\ h \in Past(e)'
        BY <2>1, <2>2 DEF Past, Author, Behind, Ending
      <3>2. outside'[e] <= outside[e] + 1
        BY <2>1, <2>2 DEF Sent
      <3>3. QED
        BY <2>1, <3>1, <3>2, PastCounts
    <2>3. CASE e # "rerun"
      <3>1. outside'[e] = outside[e]
        BY <2>1, <2>3 DEF Sent, Authored, Effects
      <3>2. h \in Past(e) => h \in Past(e)'
        BY <2>1 DEF Past, Behind
      <3>3. QED
        BY <2>1, <3>1, <3>2, PastCounts
    <2>4. QED
      BY <2>2, <2>3
  <1>8. CASE FindAttempt(h)
    <2>1. \A e \in Authored : outside'[e] = outside[e]
      BY <1>8, FindAttemptDoes DEF Sent, Effects, Authored, Note
    <2>2. \A e \in Authored : task[h] = Author(e) /\ at[h] \in Behind(e) => at'[h] \in Behind(e)
      BY <1>8, FindAttemptDoes, TaskAt DEF Author, Behind, AfterLook, Ending, Authored
    <2>3. QED
      BY <1>8, <2>1, <2>2, PastFrame, FindAttemptDoes
  <1>9. CASE ClaimAttempt(h)
    <2>1. \A e \in Authored : outside'[e] = outside[e]
      BY <1>9, ClaimAttemptDoes DEF Sent, Effects, Authored, Note
    <2>2. \A e \in Authored : task[h] = Author(e) /\ at[h] \in Behind(e) => at'[h] \in Behind(e)
      BY <1>9, ClaimAttemptDoes, TaskAt DEF Author, Behind, AfterLook, Ending, Authored
    <2>3. QED
      BY <1>9, <2>1, <2>2, PastFrame, ClaimAttemptDoes
  <1>10. CASE Retry(h)
    <2>1. \A e \in Authored : outside'[e] = outside[e]
      BY <1>10, RetryDoes DEF Sent, Effects, Authored, Note
    <2>2. \A e \in Authored : task[h] = Author(e) /\ at[h] \in Behind(e) => at'[h] \in Behind(e)
      BY <1>10, RetryDoes, TaskAt DEF Author, Behind, AfterLook, Ending, Authored
    <2>3. QED
      BY <1>10, <2>1, <2>2, PastFrame, RetryDoes
  <1>11. CASE SettleAttempt(h)
    <2>1. \A e \in Authored : outside'[e] = outside[e]
      BY <1>11, SettleAttemptDoes DEF Sent, Effects, Authored, Note
    <2>2. \A e \in Authored : task[h] = Author(e) /\ at[h] \in Behind(e) => at'[h] \in Behind(e)
      BY <1>11, SettleAttemptDoes, TaskAt DEF Author, Behind, AfterLook, Ending, Authored
    <2>3. QED
      BY <1>11, <2>1, <2>2, PastFrame, SettleAttemptDoes
  <1>12. CASE Audit(h)
    <2>1. \A e \in Authored : outside'[e] = outside[e]
      BY <1>12, AuditDoes DEF Sent, Effects, Authored, Note
    <2>2. \A e \in Authored : task[h] = Author(e) /\ at[h] \in Behind(e) => at'[h] \in Behind(e)
      BY <1>12, AuditDoes, TaskAt DEF Author, Behind, AfterLook, Ending, Authored
    <2>3. QED
      BY <1>12, <2>1, <2>2, PastFrame, AuditDoes
  <1>13. CASE LoadLink(h)
    <2>1. \A e \in Authored : outside'[e] = outside[e]
      BY <1>13, LoadLinkDoes DEF Sent, Effects, Authored, Note
    <2>2. \A e \in Authored : task[h] = Author(e) /\ at[h] \in Behind(e) => at'[h] \in Behind(e)
      BY <1>13, LoadLinkDoes, TaskAt DEF Author, Behind, AfterLook, Ending, Authored
    <2>3. QED
      BY <1>13, <2>1, <2>2, PastFrame, LoadLinkDoes
  <1>14. CASE CreateIssue(h)
    <2>1. \A e \in Authored : outside'[e] = outside[e]
      BY <1>14, CreateIssueDoes DEF Sent, Effects, Authored, Note
    <2>2. \A e \in Authored : task[h] = Author(e) /\ at[h] \in Behind(e) => at'[h] \in Behind(e)
      BY <1>14, CreateIssueDoes, TaskAt DEF Author, Behind, AfterLook, Ending, Authored
    <2>3. QED
      BY <1>14, <2>1, <2>2, PastFrame, CreateIssueDoes
  <1>15. CASE GetIssue(h)
    <2>1. \A e \in Authored : outside'[e] = outside[e]
      BY <1>15, GetIssueDoes DEF Sent, Effects, Authored, Note
    <2>2. \A e \in Authored : task[h] = Author(e) /\ at[h] \in Behind(e) => at'[h] \in Behind(e)
      BY <1>15, GetIssueDoes, TaskAt DEF Author, Behind, AfterLook, Ending, Authored
    <2>3. QED
      BY <1>15, <2>1, <2>2, PastFrame, GetIssueDoes
  <1>16. CASE UpdateIssue(h)
    <2>1. \A e \in Authored : outside'[e] = outside[e]
      BY <1>16, UpdateIssueDoes DEF Sent, Effects, Authored, Note
    <2>2. \A e \in Authored : task[h] = Author(e) /\ at[h] \in Behind(e) => at'[h] \in Behind(e)
      BY <1>16, UpdateIssueDoes, TaskAt DEF Author, Behind, AfterLook, Ending, Authored
    <2>3. QED
      BY <1>16, <2>1, <2>2, PastFrame, UpdateIssueDoes
  <1>17. CASE LockIssue(h)
    <2>1. \A e \in Authored : outside'[e] = outside[e]
      BY <1>17, LockIssueDoes DEF Sent, Effects, Authored, Note
    <2>2. \A e \in Authored : task[h] = Author(e) /\ at[h] \in Behind(e) => at'[h] \in Behind(e)
      BY <1>17, LockIssueDoes, TaskAt DEF Author, Behind, AfterLook, Ending, Authored
    <2>3. QED
      BY <1>17, <2>1, <2>2, PastFrame, LockIssueDoes
  <1>18. CASE CommentIssue(h)
    <2>1. \A e \in Authored : outside'[e] = outside[e]
      BY <1>18, CommentIssueDoes DEF Sent, Effects, Authored, Note
    <2>2. \A e \in Authored : task[h] = Author(e) /\ at[h] \in Behind(e) => at'[h] \in Behind(e)
      BY <1>18, CommentIssueDoes, TaskAt DEF Author, Behind, AfterLook, Ending, Authored
    <2>3. QED
      BY <1>18, <2>1, <2>2, PastFrame, CommentIssueDoes
  <1>19. CASE SaveLink(h)
    <2>1. \A e \in Authored : outside'[e] = outside[e]
      BY <1>19, SaveLinkDoes DEF Sent, Effects, Authored, Note
    <2>2. \A e \in Authored : task[h] = Author(e) /\ at[h] \in Behind(e) => at'[h] \in Behind(e)
      BY <1>19, SaveLinkDoes, TaskAt DEF Author, Behind, AfterLook, Ending, Authored
    <2>3. QED
      BY <1>19, <2>1, <2>2, PastFrame, SaveLinkDoes
  <1>20. CASE RecordDelivery(h)
    <2>1. \A e \in Authored : outside'[e] = outside[e]
      BY <1>20, RecordDeliveryDoes DEF Sent, Effects, Authored, Note
    <2>2. \A e \in Authored : task[h] = Author(e) /\ at[h] \in Behind(e) => at'[h] \in Behind(e)
      BY <1>20, RecordDeliveryDoes, TaskAt DEF Author, Behind, AfterLook, Ending, Authored
    <2>3. QED
      BY <1>20, <2>1, <2>2, PastFrame, RecordDeliveryDoes
  <1>21. CASE PerformChatAction(h)
    <2>1. \A e \in Authored : outside'[e] = outside[e]
      BY <1>21, PerformChatActionDoes DEF Sent, Effects, Authored, Note
    <2>2. \A e \in Authored : task[h] = Author(e) /\ at[h] \in Behind(e) => at'[h] \in Behind(e)
      BY <1>21, PerformChatActionDoes, TaskAt DEF Author, Behind, AfterLook, Ending, Authored
    <2>3. QED
      BY <1>21, <2>1, <2>2, PastFrame, PerformChatActionDoes
  <1>22. QED
    BY <1>1, <1>2, <1>3, <1>4, <1>5, <1>6, <1>7, <1>8, <1>9, <1>10, <1>11, <1>12, <1>13, <1>14, <1>15, <1>16, <1>17, <1>18, <1>19, <1>20, <1>21
       DEF HandlerStep

-----------------------------------------------------------------------------
(* What was concluded first *)

LEMMA FactsFrame ==
  ASSUME EffectsTypes, FactsInv, NEW h \in Handlers, OneMoves(h), store'.facts = store.facts,
         (\A e \in {"retry", "rerun", "note", "comment"} : outside'[e] = outside[e]) \/ at[h] \in Diagnosed,
         at'[h] \in Diagnosed => at[h] \in Diagnosed,
         task[h] \in {"gitlab", "bare", "workflow"} /\ at'[h] \in Ending => at[h] \in Diagnosed \cup Ending
  PROVE  FactsInv'
  <1>1. \A g \in Handlers : at'[g] \in Diagnosed => at[g] \in Diagnosed
    BY DEF OneMoves
  <1>2. \A g \in Handlers : task'[g] \in {"gitlab", "bare", "workflow"} /\ at'[g] \in Diagnosed \cup Ending =>
           task[g] \in {"gitlab", "bare", "workflow"} /\ at[g] \in Diagnosed \cup Ending
    BY DEF OneMoves
  <1>3. \A e \in {"retry", "rerun", "note", "comment"} : outside'[e] > 0 => "analysis" \in store.facts
    BY DEF FactsInv
  <1>4. faults' = 0 => faults = 0
    BY FaultsGrow
  <1>5. QED
    BY <1>1, <1>2, <1>3, <1>4 DEF FactsInv

LEMMA FactsKept ==
  ASSUME EffectsTypes, FactsInv, NEW h \in Handlers, HandlerStep(h)
  PROVE  FactsInv'
  <1>1. CASE Start(h)
    <2>1. (\A e \in {"retry", "rerun", "note", "comment"} : outside'[e] = outside[e]) \/ at[h] \in Diagnosed
      BY <1>1, StartDoes DEF Sent, Effects, Diagnosed, AfterLook
    <2>2. at'[h] \in Diagnosed => at[h] \in Diagnosed
      BY <1>1, StartDoes, StartsAt DEF Ending, Diagnosed, AfterLook
    <2>3. task[h] \in {"gitlab", "bare", "workflow"} /\ at'[h] \in Ending => at[h] \in Diagnosed \cup Ending
      BY <1>1, StartDoes, TaskAt, StartsAt DEF Ending, Diagnosed, AfterLook
    <2>4. QED
      BY <1>1, <2>1, <2>2, <2>3, FactsFrame, StartDoes
  <1>2. CASE Crash(h)
    <2>1. (\A e \in {"retry", "rerun", "note", "comment"} : outside'[e] = outside[e]) \/ at[h] \in Diagnosed
      BY <1>2, CrashDoes DEF Sent, Effects, Diagnosed, AfterLook
    <2>2. at'[h] \in Diagnosed => at[h] \in Diagnosed
      BY <1>2, CrashDoes DEF Ending, Diagnosed, AfterLook
    <2>3. task[h] \in {"gitlab", "bare", "workflow"} /\ at'[h] \in Ending => at[h] \in Diagnosed \cup Ending
      BY <1>2, CrashDoes, TaskAt DEF Ending, Diagnosed, AfterLook
    <2>4. QED
      BY <1>2, <2>1, <2>2, <2>3, FactsFrame, CrashDoes
  <1>3. CASE Diagnose(h)
    <2>1. /\ OneMoves(h) /\ store.facts \subseteq store'.facts /\ IsStore(store') /\ outside' = outside
          /\ at'[h] \in {"failed", "check", "comments", "attempt"}
          /\ at'[h] # "failed" => "analysis" \in store'.facts
          /\ at'[h] # "failed" /\ faults' = 0 => store'.facts = Facts
      BY <1>3, DiagnoseDoes, DiagnosedAt
    <2>2. \A g \in Handlers : at'[g] \in Diagnosed => "analysis" \in store'.facts
      BY <2>1 DEF OneMoves, FactsInv, Diagnosed, AfterLook
    <2>3. \A e \in {"retry", "rerun", "note", "comment"} : outside'[e] > 0 => "analysis" \in store'.facts
      BY <2>1 DEF FactsInv
    <2>4. ASSUME faults' = 0, NEW g \in Handlers, task'[g] \in {"gitlab", "bare", "workflow"},
                 at'[g] \in Diagnosed \cup Ending
          PROVE  store'.facts = Facts
      <3>1. CASE g = h
        BY <2>1, <2>4, <3>1 DEF Diagnosed, Ending, AfterLook
      <3>2. CASE g # h
        <4>1. at'[g] = at[g] /\ task'[g] = task[g] /\ faults = 0
          BY <2>1, <2>4, <3>2, FaultsGrow DEF OneMoves
        <4>2. store.facts = Facts
          BY <2>4, <4>1 DEF FactsInv
        <4>3. QED
          BY <2>1, <4>2 DEF IsStore
      <3>3. QED
        BY <3>1, <3>2
    <2>5. QED
      BY <2>2, <2>3, <2>4 DEF FactsInv
  <1>4. CASE PublishCheck(h)
    <2>1. (\A e \in {"retry", "rerun", "note", "comment"} : outside'[e] = outside[e]) \/ at[h] \in Diagnosed
      BY <1>4, PublishCheckDoes DEF Sent, Effects, Diagnosed, AfterLook
    <2>2. at'[h] \in Diagnosed => at[h] \in Diagnosed
      BY <1>4, PublishCheckDoes DEF Ending, Diagnosed, AfterLook
    <2>3. task[h] \in {"gitlab", "bare", "workflow"} /\ at'[h] \in Ending => at[h] \in Diagnosed \cup Ending
      BY <1>4, PublishCheckDoes, TaskAt DEF Ending, Diagnosed, AfterLook
    <2>4. QED
      BY <1>4, <2>1, <2>2, <2>3, FactsFrame, PublishCheckDoes
  <1>5. CASE ListComments(h)
    <2>1. (\A e \in {"retry", "rerun", "note", "comment"} : outside'[e] = outside[e]) \/ at[h] \in Diagnosed
      BY <1>5, ListCommentsDoes DEF Sent, Effects, Diagnosed, AfterLook
    <2>2. at'[h] \in Diagnosed => at[h] \in Diagnosed
      BY <1>5, ListCommentsDoes DEF Ending, Diagnosed, AfterLook
    <2>3. task[h] \in {"gitlab", "bare", "workflow"} /\ at'[h] \in Ending => at[h] \in Diagnosed \cup Ending
      BY <1>5, ListCommentsDoes, TaskAt DEF Ending, Diagnosed, AfterLook
    <2>4. QED
      BY <1>5, <2>1, <2>2, <2>3, FactsFrame, ListCommentsDoes
  <1>6. CASE WriteComment(h)
    <2>1. (\A e \in {"retry", "rerun", "note", "comment"} : outside'[e] = outside[e]) \/ at[h] \in Diagnosed
      BY <1>6, WriteCommentDoes DEF Sent, Effects, Diagnosed, AfterLook
    <2>2. at'[h] \in Diagnosed => at[h] \in Diagnosed
      BY <1>6, WriteCommentDoes DEF Ending, Diagnosed, AfterLook
    <2>3. task[h] \in {"gitlab", "bare", "workflow"} /\ at'[h] \in Ending => at[h] \in Diagnosed \cup Ending
      BY <1>6, WriteCommentDoes, TaskAt DEF Ending, Diagnosed, AfterLook
    <2>4. QED
      BY <1>6, <2>1, <2>2, <2>3, FactsFrame, WriteCommentDoes
  <1>7. CASE RerunFailedJobs(h)
    <2>1. (\A e \in {"retry", "rerun", "note", "comment"} : outside'[e] = outside[e]) \/ at[h] \in Diagnosed
      BY <1>7, RerunFailedJobsDoes DEF Sent, Effects, Diagnosed, AfterLook
    <2>2. at'[h] \in Diagnosed => at[h] \in Diagnosed
      BY <1>7, RerunFailedJobsDoes DEF Ending, Diagnosed, AfterLook
    <2>3. task[h] \in {"gitlab", "bare", "workflow"} /\ at'[h] \in Ending => at[h] \in Diagnosed \cup Ending
      BY <1>7, RerunFailedJobsDoes, TaskAt DEF Ending, Diagnosed, AfterLook
    <2>4. QED
      BY <1>7, <2>1, <2>2, <2>3, FactsFrame, RerunFailedJobsDoes
  <1>8. CASE FindAttempt(h)
    <2>1. (\A e \in {"retry", "rerun", "note", "comment"} : outside'[e] = outside[e]) \/ at[h] \in Diagnosed
      BY <1>8, FindAttemptDoes DEF Sent, Effects, Diagnosed, AfterLook
    <2>2. at'[h] \in Diagnosed => at[h] \in Diagnosed
      BY <1>8, FindAttemptDoes DEF Ending, Diagnosed, AfterLook
    <2>3. task[h] \in {"gitlab", "bare", "workflow"} /\ at'[h] \in Ending => at[h] \in Diagnosed \cup Ending
      BY <1>8, FindAttemptDoes, TaskAt DEF Ending, Diagnosed, AfterLook
    <2>4. QED
      BY <1>8, <2>1, <2>2, <2>3, FactsFrame, FindAttemptDoes
  <1>9. CASE ClaimAttempt(h)
    <2>1. (\A e \in {"retry", "rerun", "note", "comment"} : outside'[e] = outside[e]) \/ at[h] \in Diagnosed
      BY <1>9, ClaimAttemptDoes DEF Sent, Effects, Diagnosed, AfterLook
    <2>2. at'[h] \in Diagnosed => at[h] \in Diagnosed
      BY <1>9, ClaimAttemptDoes DEF Ending, Diagnosed, AfterLook
    <2>3. task[h] \in {"gitlab", "bare", "workflow"} /\ at'[h] \in Ending => at[h] \in Diagnosed \cup Ending
      BY <1>9, ClaimAttemptDoes, TaskAt DEF Ending, Diagnosed, AfterLook
    <2>4. QED
      BY <1>9, <2>1, <2>2, <2>3, FactsFrame, ClaimAttemptDoes
  <1>10. CASE Retry(h)
    <2>1. (\A e \in {"retry", "rerun", "note", "comment"} : outside'[e] = outside[e]) \/ at[h] \in Diagnosed
      BY <1>10, RetryDoes DEF Sent, Effects, Diagnosed, AfterLook
    <2>2. at'[h] \in Diagnosed => at[h] \in Diagnosed
      BY <1>10, RetryDoes DEF Ending, Diagnosed, AfterLook
    <2>3. task[h] \in {"gitlab", "bare", "workflow"} /\ at'[h] \in Ending => at[h] \in Diagnosed \cup Ending
      BY <1>10, RetryDoes, TaskAt DEF Ending, Diagnosed, AfterLook
    <2>4. QED
      BY <1>10, <2>1, <2>2, <2>3, FactsFrame, RetryDoes
  <1>11. CASE SettleAttempt(h)
    <2>1. (\A e \in {"retry", "rerun", "note", "comment"} : outside'[e] = outside[e]) \/ at[h] \in Diagnosed
      BY <1>11, SettleAttemptDoes DEF Sent, Effects, Diagnosed, AfterLook
    <2>2. at'[h] \in Diagnosed => at[h] \in Diagnosed
      BY <1>11, SettleAttemptDoes DEF Ending, Diagnosed, AfterLook
    <2>3. task[h] \in {"gitlab", "bare", "workflow"} /\ at'[h] \in Ending => at[h] \in Diagnosed \cup Ending
      BY <1>11, SettleAttemptDoes, TaskAt DEF Ending, Diagnosed, AfterLook
    <2>4. QED
      BY <1>11, <2>1, <2>2, <2>3, FactsFrame, SettleAttemptDoes
  <1>12. CASE Audit(h)
    <2>1. (\A e \in {"retry", "rerun", "note", "comment"} : outside'[e] = outside[e]) \/ at[h] \in Diagnosed
      BY <1>12, AuditDoes DEF Sent, Effects, Diagnosed, AfterLook
    <2>2. at'[h] \in Diagnosed => at[h] \in Diagnosed
      BY <1>12, AuditDoes DEF Ending, Diagnosed, AfterLook
    <2>3. task[h] \in {"gitlab", "bare", "workflow"} /\ at'[h] \in Ending => at[h] \in Diagnosed \cup Ending
      BY <1>12, AuditDoes, TaskAt DEF Ending, Diagnosed, AfterLook
    <2>4. QED
      BY <1>12, <2>1, <2>2, <2>3, FactsFrame, AuditDoes
  <1>13. CASE LoadLink(h)
    <2>1. (\A e \in {"retry", "rerun", "note", "comment"} : outside'[e] = outside[e]) \/ at[h] \in Diagnosed
      BY <1>13, LoadLinkDoes DEF Sent, Effects, Diagnosed, AfterLook
    <2>2. at'[h] \in Diagnosed => at[h] \in Diagnosed
      BY <1>13, LoadLinkDoes DEF Ending, Diagnosed, AfterLook
    <2>3. task[h] \in {"gitlab", "bare", "workflow"} /\ at'[h] \in Ending => at[h] \in Diagnosed \cup Ending
      BY <1>13, LoadLinkDoes, TaskAt DEF Ending, Diagnosed, AfterLook
    <2>4. QED
      BY <1>13, <2>1, <2>2, <2>3, FactsFrame, LoadLinkDoes
  <1>14. CASE CreateIssue(h)
    <2>1. (\A e \in {"retry", "rerun", "note", "comment"} : outside'[e] = outside[e]) \/ at[h] \in Diagnosed
      BY <1>14, CreateIssueDoes DEF Sent, Effects, Diagnosed, AfterLook
    <2>2. at'[h] \in Diagnosed => at[h] \in Diagnosed
      BY <1>14, CreateIssueDoes DEF Ending, Diagnosed, AfterLook
    <2>3. task[h] \in {"gitlab", "bare", "workflow"} /\ at'[h] \in Ending => at[h] \in Diagnosed \cup Ending
      BY <1>14, CreateIssueDoes, TaskAt DEF Ending, Diagnosed, AfterLook
    <2>4. QED
      BY <1>14, <2>1, <2>2, <2>3, FactsFrame, CreateIssueDoes
  <1>15. CASE GetIssue(h)
    <2>1. (\A e \in {"retry", "rerun", "note", "comment"} : outside'[e] = outside[e]) \/ at[h] \in Diagnosed
      BY <1>15, GetIssueDoes DEF Sent, Effects, Diagnosed, AfterLook
    <2>2. at'[h] \in Diagnosed => at[h] \in Diagnosed
      BY <1>15, GetIssueDoes DEF Ending, Diagnosed, AfterLook
    <2>3. task[h] \in {"gitlab", "bare", "workflow"} /\ at'[h] \in Ending => at[h] \in Diagnosed \cup Ending
      BY <1>15, GetIssueDoes, TaskAt DEF Ending, Diagnosed, AfterLook
    <2>4. QED
      BY <1>15, <2>1, <2>2, <2>3, FactsFrame, GetIssueDoes
  <1>16. CASE UpdateIssue(h)
    <2>1. (\A e \in {"retry", "rerun", "note", "comment"} : outside'[e] = outside[e]) \/ at[h] \in Diagnosed
      BY <1>16, UpdateIssueDoes DEF Sent, Effects, Diagnosed, AfterLook
    <2>2. at'[h] \in Diagnosed => at[h] \in Diagnosed
      BY <1>16, UpdateIssueDoes DEF Ending, Diagnosed, AfterLook
    <2>3. task[h] \in {"gitlab", "bare", "workflow"} /\ at'[h] \in Ending => at[h] \in Diagnosed \cup Ending
      BY <1>16, UpdateIssueDoes, TaskAt DEF Ending, Diagnosed, AfterLook
    <2>4. QED
      BY <1>16, <2>1, <2>2, <2>3, FactsFrame, UpdateIssueDoes
  <1>17. CASE LockIssue(h)
    <2>1. (\A e \in {"retry", "rerun", "note", "comment"} : outside'[e] = outside[e]) \/ at[h] \in Diagnosed
      BY <1>17, LockIssueDoes DEF Sent, Effects, Diagnosed, AfterLook
    <2>2. at'[h] \in Diagnosed => at[h] \in Diagnosed
      BY <1>17, LockIssueDoes DEF Ending, Diagnosed, AfterLook
    <2>3. task[h] \in {"gitlab", "bare", "workflow"} /\ at'[h] \in Ending => at[h] \in Diagnosed \cup Ending
      BY <1>17, LockIssueDoes, TaskAt DEF Ending, Diagnosed, AfterLook
    <2>4. QED
      BY <1>17, <2>1, <2>2, <2>3, FactsFrame, LockIssueDoes
  <1>18. CASE CommentIssue(h)
    <2>1. (\A e \in {"retry", "rerun", "note", "comment"} : outside'[e] = outside[e]) \/ at[h] \in Diagnosed
      BY <1>18, CommentIssueDoes DEF Sent, Effects, Diagnosed, AfterLook
    <2>2. at'[h] \in Diagnosed => at[h] \in Diagnosed
      BY <1>18, CommentIssueDoes DEF Ending, Diagnosed, AfterLook
    <2>3. task[h] \in {"gitlab", "bare", "workflow"} /\ at'[h] \in Ending => at[h] \in Diagnosed \cup Ending
      BY <1>18, CommentIssueDoes, TaskAt DEF Ending, Diagnosed, AfterLook
    <2>4. QED
      BY <1>18, <2>1, <2>2, <2>3, FactsFrame, CommentIssueDoes
  <1>19. CASE SaveLink(h)
    <2>1. (\A e \in {"retry", "rerun", "note", "comment"} : outside'[e] = outside[e]) \/ at[h] \in Diagnosed
      BY <1>19, SaveLinkDoes DEF Sent, Effects, Diagnosed, AfterLook
    <2>2. at'[h] \in Diagnosed => at[h] \in Diagnosed
      BY <1>19, SaveLinkDoes DEF Ending, Diagnosed, AfterLook
    <2>3. task[h] \in {"gitlab", "bare", "workflow"} /\ at'[h] \in Ending => at[h] \in Diagnosed \cup Ending
      BY <1>19, SaveLinkDoes, TaskAt DEF Ending, Diagnosed, AfterLook
    <2>4. QED
      BY <1>19, <2>1, <2>2, <2>3, FactsFrame, SaveLinkDoes
  <1>20. CASE RecordDelivery(h)
    <2>1. (\A e \in {"retry", "rerun", "note", "comment"} : outside'[e] = outside[e]) \/ at[h] \in Diagnosed
      BY <1>20, RecordDeliveryDoes DEF Sent, Effects, Diagnosed, AfterLook
    <2>2. at'[h] \in Diagnosed => at[h] \in Diagnosed
      BY <1>20, RecordDeliveryDoes DEF Ending, Diagnosed, AfterLook
    <2>3. task[h] \in {"gitlab", "bare", "workflow"} /\ at'[h] \in Ending => at[h] \in Diagnosed \cup Ending
      BY <1>20, RecordDeliveryDoes, TaskAt DEF Ending, Diagnosed, AfterLook
    <2>4. QED
      BY <1>20, <2>1, <2>2, <2>3, FactsFrame, RecordDeliveryDoes
  <1>21. CASE PerformChatAction(h)
    <2>1. (\A e \in {"retry", "rerun", "note", "comment"} : outside'[e] = outside[e]) \/ at[h] \in Diagnosed
      BY <1>21, PerformChatActionDoes DEF Sent, Effects, Diagnosed, AfterLook
    <2>2. at'[h] \in Diagnosed => at[h] \in Diagnosed
      BY <1>21, PerformChatActionDoes DEF Ending, Diagnosed, AfterLook
    <2>3. task[h] \in {"gitlab", "bare", "workflow"} /\ at'[h] \in Ending => at[h] \in Diagnosed \cup Ending
      BY <1>21, PerformChatActionDoes, TaskAt DEF Ending, Diagnosed, AfterLook
    <2>4. QED
      BY <1>21, <2>1, <2>2, <2>3, FactsFrame, PerformChatActionDoes
  <1>22. QED
    BY <1>1, <1>2, <1>3, <1>4, <1>5, <1>6, <1>7, <1>8, <1>9, <1>10, <1>11, <1>12, <1>13, <1>14, <1>15, <1>16, <1>17, <1>18, <1>19, <1>20, <1>21
       DEF HandlerStep

-----------------------------------------------------------------------------
(* Reruns by the record of the run *)

LEMMA RetryFrame ==
  ASSUME EffectsTypes, RetryInv, NEW h \in Handlers, OneMoves(h),
         at[h] \notin InRetry, at'[h] \notin InRetry \cup {"claim"},
         store'.attempt = store.attempt, outside'["retry"] = outside["retry"],
         ~overlapped' => ~overlapped,
         task[h] \in {"gitlab", "bare"} /\ at'[h] \in Ending =>
            at[h] \in Ending \/ store.attempt # "none" \/ faults' # 0
  PROVE  RetryInv'
  <1>1. \A g \in Handlers : at'[g] \in InRetry <=> at[g] \in InRetry
    BY DEF OneMoves
  <1>2. \A g \in Handlers : at'[g] \in InRetry \cup {"claim"} => at'[g] = at[g]
    BY DEF OneMoves
  <1>3. task' = task
    BY DEF OneMoves
  <1>4. faults' = 0 => faults = 0
    BY FaultsGrow
  <1>5. /\ \A g \in Handlers : at'[g] \in InRetry => store'.attempt # "none"
        /\ outside'["retry"] > 0 => store'.attempt # "none"
        /\ outside'["retry"] > 0 => \E g \in Handlers : task'[g] = "gitlab"
    BY <1>1, <1>3 DEF RetryInv
  <1>6. ~overlapped' =>
          /\ \A g \in Handlers : at'[g] = "claim" => store'.attempt = "none"
          /\ \A g, k \in Handlers : at'[g] \in InRetry /\ at'[k] \in InRetry => g = k
          /\ \A g \in Handlers : at'[g] = "ask" => outside'["retry"] = 0
          /\ outside'["retry"] <= 1
    BY <1>1, <1>2 DEF RetryInv, InRetry
  <1>7. ASSUME faults' = 0, ~overlapped'
        PROVE  /\ \A g \in Handlers : at'[g] \in InRetry => store'.attempt = "requesting"
               /\ \A g \in Handlers : at'[g] = "requested" => outside'["retry"] = 1
               /\ \A g \in Handlers : at'[g] = "refused" => outside'["retry"] = 0 /\ task'[g] = "bare"
               /\ store'.attempt = "requesting" => \E g \in Handlers : at'[g] \in InRetry
               /\ store'.attempt = "requested" => outside'["retry"] = 1
               /\ store'.attempt = "failed" => outside'["retry"] = 0 /\ \E g \in Handlers : task'[g] = "bare"
    <2>1. faults = 0 /\ ~overlapped
      BY <1>4, <1>7
    <2>2. \A g \in Handlers : at'[g] \in InRetry => at[g] = at'[g]
      BY <1>2
    <2>3. QED
      BY <1>1, <1>3, <2>1, <2>2 DEF RetryInv, InRetry
  <1>8. ASSUME faults' = 0, ~overlapped', NEW g \in Handlers, task'[g] \in {"gitlab", "bare"}, at'[g] \in Ending
        PROVE  store'.attempt # "none"
    <2>1. faults = 0 /\ ~overlapped
      BY <1>4, <1>8
    <2>2. CASE g = h
      BY <1>3, <1>8, <2>1, <2>2 DEF RetryInv
    <2>3. CASE g # h
      BY <1>3, <1>8, <2>1, <2>3 DEF RetryInv, OneMoves
    <2>4. QED
      BY <2>2, <2>3
  <1>9. QED
    BY <1>5, <1>6, <1>7, <1>8 DEF RetryInv

(* A handler that fails or dies leaves with a fault. *)
LEMMA RetryDrop ==
  ASSUME EffectsTypes, RetryInv, NEW h \in Handlers, OneMoves(h), faults' # 0,
         at'[h] \notin InRetry \cup {"claim"},
         store'.attempt = store.attempt, outside' = outside,
         ~overlapped' => ~overlapped
  PROVE  RetryInv'
  <1>1. \A g \in Handlers : at'[g] \in InRetry \cup {"claim"} => at'[g] = at[g]
    BY DEF OneMoves
  <1>2. task' = task
    BY DEF OneMoves
  <1>3. QED
    BY <1>1, <1>2 DEF RetryInv, InRetry

(* With nobody else about to act, one who has claimed the rerun is alone. *)
LEMMA ClaimAlone ==
  ASSUME LookedAlone, ~overlapped, NEW h \in Handlers, at[h] = "claim", NEW g \in Handlers, g # h
  PROVE  at[g] # "claim"
  BY DEF LookedAlone, Between

LEMMA RetryKept ==
  ASSUME EffectsTypes, LookedAlone, RetryInv, NEW h \in Handlers, HandlerStep(h)
  PROVE  RetryInv'
  <1>0. outside["retry"] \in Nat
    BY DEF EffectsTypes, Effects
  <1>1. CASE Start(h)
    <2>1. at[h] \notin InRetry /\ at'[h] \notin InRetry \cup {"claim"}
      BY <1>1, StartDoes, StartsAt DEF InRetry, Ending
    <2>2. outside'["retry"] = outside["retry"] /\ store'.attempt = store.attempt /\ (~overlapped' => ~overlapped)
      BY <1>1, StartDoes DEF Sent, Effects, Note
    <2>3. task[h] \in {"gitlab", "bare"} /\ at'[h] \in Ending => at[h] \in Ending
      BY <1>1, StartDoes, TaskAt, StartsAt DEF Ending
    <2>4. QED
      BY <1>1, <2>1, <2>2, <2>3, RetryFrame, StartDoes
  <1>2. CASE Crash(h)
    <2>1. faults' # 0
      <3>1. faults' = faults + 1
        BY <1>2, CrashDoes
      <3>2. QED
        BY <3>1 DEF EffectsTypes
    <2>2. QED
      BY <1>2, <2>1, RetryDrop, CrashDoes DEF InRetry
  <1>3. CASE Diagnose(h)
    <2>1. at[h] \notin InRetry /\ at'[h] \notin InRetry \cup {"claim"}
      BY <1>3, DiagnoseDoes, DiagnosedAt DEF InRetry, Ending
    <2>2. outside'["retry"] = outside["retry"] /\ store'.attempt = store.attempt /\ (~overlapped' => ~overlapped)
      BY <1>3, DiagnoseDoes DEF Sent, Effects, Note
    <2>3. task[h] \in {"gitlab", "bare"} /\ at'[h] \in Ending => at[h] \in Ending
      BY <1>3, DiagnoseDoes, TaskAt, DiagnosedAt DEF Ending
    <2>4. QED
      BY <1>3, <2>1, <2>2, <2>3, RetryFrame, DiagnoseDoes
  <1>4. CASE PublishCheck(h)
    <2>1. at[h] \notin InRetry /\ at'[h] \notin InRetry \cup {"claim"}
      BY <1>4, PublishCheckDoes DEF InRetry, Ending
    <2>2. outside'["retry"] = outside["retry"] /\ store'.attempt = store.attempt /\ (~overlapped' => ~overlapped)
      BY <1>4, PublishCheckDoes DEF Sent, Effects, Note
    <2>3. task[h] \in {"gitlab", "bare"} /\ at'[h] \in Ending => at[h] \in Ending
      BY <1>4, PublishCheckDoes, TaskAt DEF Ending
    <2>4. QED
      BY <1>4, <2>1, <2>2, <2>3, RetryFrame, PublishCheckDoes
  <1>5. CASE ListComments(h)
    <2>1. at[h] \notin InRetry /\ at'[h] \notin InRetry \cup {"claim"}
      BY <1>5, ListCommentsDoes, AfterFacts DEF InRetry, Ending
    <2>2. outside'["retry"] = outside["retry"] /\ store'.attempt = store.attempt /\ (~overlapped' => ~overlapped)
      BY <1>5, ListCommentsDoes DEF Sent, Effects, Note
    <2>3. task[h] \in {"gitlab", "bare"} /\ at'[h] \in Ending => at[h] \in Ending
      BY <1>5, ListCommentsDoes, TaskAt, AfterFacts DEF Ending
    <2>4. QED
      BY <1>5, <2>1, <2>2, <2>3, RetryFrame, ListCommentsDoes
  <1>6. CASE WriteComment(h)
    <2>1. at[h] \notin InRetry /\ at'[h] \notin InRetry \cup {"claim"}
      BY <1>6, WriteCommentDoes, AfterFacts DEF InRetry, Ending
    <2>2. outside'["retry"] = outside["retry"] /\ store'.attempt = store.attempt /\ (~overlapped' => ~overlapped)
      BY <1>6, WriteCommentDoes DEF Sent, Effects, Note
    <2>3. task[h] \in {"gitlab", "bare"} /\ at'[h] \in Ending => at[h] \in Ending
      BY <1>6, WriteCommentDoes, TaskAt, AfterFacts DEF Ending
    <2>4. QED
      BY <1>6, <2>1, <2>2, <2>3, RetryFrame, WriteCommentDoes
  <1>7. CASE RerunFailedJobs(h)
    <2>1. at[h] \notin InRetry /\ at'[h] \notin InRetry \cup {"claim"}
      BY <1>7, RerunFailedJobsDoes DEF InRetry, Ending
    <2>2. outside'["retry"] = outside["retry"] /\ store'.attempt = store.attempt /\ (~overlapped' => ~overlapped)
      BY <1>7, RerunFailedJobsDoes DEF Sent, Effects, Note
    <2>3. task[h] \in {"gitlab", "bare"} /\ at'[h] \in Ending => at[h] \in Ending
      BY <1>7, RerunFailedJobsDoes, TaskAt DEF Ending
    <2>4. QED
      BY <1>7, <2>1, <2>2, <2>3, RetryFrame, RerunFailedJobsDoes
  <1>8. CASE FindAttempt(h)
    <2>1. /\ OneMoves(h) /\ at[h] = "attempt" /\ at'[h] \in {"claim", "done"}
          /\ at'[h] = "claim" => store.attempt = "none"
          /\ at'[h] = "done" => store.attempt # "none" \/ faults' = faults + 1
          /\ store' = store /\ outside' = outside
          /\ ~overlapped' => ~overlapped
      BY <1>8, FindAttemptDoes
    <2>2. CASE at'[h] = "claim"
      <3>1. store.attempt = "none" /\ (\A g \in Handlers : at[g] \notin InRetry) /\ ~(outside["retry"] > 0)
        BY <2>1, <2>2 DEF RetryInv
      <3>2. \A g \in Handlers : at'[g] \notin InRetry
        BY <2>1, <2>2, <3>1 DEF OneMoves, InRetry
      <3>3. outside'["retry"] = 0
        BY <1>0, <2>1, <3>1
      <3>4. ASSUME faults' = 0, ~overlapped', NEW g \in Handlers, task'[g] \in {"gitlab", "bare"}, at'[g] \in Ending
            PROVE  FALSE
        <4>1. g # h /\ at[g] \in Ending /\ task[g] \in {"gitlab", "bare"}
          BY <2>1, <2>2, <3>4 DEF OneMoves, Ending
        <4>2. faults = 0 /\ ~overlapped
          BY <2>1, <3>4, FaultsGrow
        <4>3. QED
          BY <3>1, <4>1, <4>2 DEF RetryInv
      <3>5. store'.attempt = "none"
        BY <2>1, <3>1
      <3>6. QED
        BY <3>2, <3>3, <3>4, <3>5 DEF RetryInv, InRetry
    <2>3. CASE at'[h] = "done"
      <3>1. store.attempt # "none" \/ faults' # 0
        <4>1. faults \in Nat
          BY FaultsGrow, <2>1
        <4>2. QED
          BY <2>1, <2>3, <4>1
      <3>2. QED
        BY <2>1, <2>3, <3>1, RetryFrame DEF InRetry
    <2>4. QED
      BY <2>1, <2>2, <2>3
  <1>9. CASE ClaimAttempt(h)
    <2>1. /\ OneMoves(h) /\ at[h] = "claim" /\ at'[h] \in {"ask", "done"}
          /\ store'.attempt \in {"requesting", store.attempt}
          /\ at'[h] = "ask" => store'.attempt = "requesting"
          /\ at'[h] = "done" => faults' = faults + 1
          /\ outside' = outside /\ overlapped' = overlapped
      BY <1>9, ClaimAttemptDoes
    <2>2. /\ \A g \in Handlers : at'[g] \in InRetry => store'.attempt # "none"
          /\ outside'["retry"] > 0 => store'.attempt # "none"
          /\ outside'["retry"] > 0 => \E g \in Handlers : task'[g] = "gitlab"
      <3>1. ASSUME NEW g \in Handlers, at'[g] \in InRetry
            PROVE  store'.attempt # "none"
        <4>1. CASE g = h
          BY <2>1, <3>1, <4>1 DEF InRetry
        <4>2. CASE g # h
          BY <2>1, <3>1, <4>2 DEF OneMoves, RetryInv
        <4>3. QED
          BY <4>1, <4>2
      <3>2. QED
        BY <2>1, <3>1 DEF RetryInv, OneMoves
    <2>3. ASSUME ~overlapped
          PROVE  /\ store.attempt = "none" /\ outside["retry"] = 0
                 /\ \A g \in Handlers : at[g] \notin InRetry
                 /\ \A g \in Handlers : g # h => at[g] # "claim"
      <3>1. store.attempt = "none"
        BY <2>1, <2>3 DEF RetryInv
      <3>2. \A g \in Handlers : at[g] \notin InRetry
        BY <3>1 DEF RetryInv
      <3>3. outside["retry"] = 0
        BY <1>0, <3>1 DEF RetryInv
      <3>4. QED
        BY <2>1, <2>3, <3>1, <3>2, <3>3, ClaimAlone
    <2>4. ASSUME ~overlapped
          PROVE  /\ \A g \in Handlers : at'[g] # "claim"
                 /\ \A g \in Handlers : at'[g] \in InRetry => g = h /\ at'[h] = "ask"
                 /\ outside'["retry"] = 0
      BY <2>1, <2>3, <2>4 DEF OneMoves, InRetry
    <2>5. ASSUME ~overlapped', faults' = 0
          PROVE  /\ at'[h] = "ask" /\ store'.attempt = "requesting"
                 /\ \A g \in Handlers : task'[g] \in {"gitlab", "bare"} /\ at'[g] \in Ending => store'.attempt # "none"
      <3>1. faults \in Nat
        BY DEF EffectsTypes
      <3>2. at'[h] # "done"
        BY <2>1, <2>5, <3>1
      <3>3. QED
        BY <2>1, <3>2
    <2>6. QED
      BY <2>1, <2>2, <2>4, <2>5 DEF RetryInv, InRetry
  <1>10. CASE Retry(h)
    <2>1. /\ OneMoves(h) /\ at[h] = "ask" /\ at'[h] \in {"requested", "refused"} /\ store' = store
          /\ overlapped' = overlapped /\ Sent("retry")
          /\ at'[h] = "requested" => outside'["retry"] = outside["retry"] + 1 \/ faults' = faults + 1
          /\ at'[h] = "refused" => faults' = faults + 1 \/ (task[h] = "bare" /\ outside' = outside)
          /\ outside' # outside => task[h] # "bare"
      BY <1>10, RetryDoes
    <2>2. task' = task /\ task[h] \in {"gitlab", "bare"} /\ at[h] \in InRetry /\ at'[h] \in InRetry
      BY <2>1, TaskAt DEF OneMoves, AfterLook, InRetry
    <2>3. outside'["retry"] \in Nat /\ outside["retry"] <= outside'["retry"] /\ outside'["retry"] <= outside["retry"] + 1
      BY <2>1 DEF Sent, Effects
    <2>4. store.attempt # "none"
      BY <2>2 DEF RetryInv
    <2>5. outside'["retry"] > 0 => \E g \in Handlers : task[g] = "gitlab"
      <3>1. CASE outside' = outside
        BY <3>1 DEF RetryInv
      <3>2. CASE outside' # outside
        BY <2>1, <2>2, <3>2
      <3>3. QED
        BY <3>1, <3>2
    <2>6. ASSUME ~overlapped
          PROVE  /\ \A g \in Handlers : at'[g] # "claim"
                 /\ \A g \in Handlers : at'[g] \in InRetry => g = h
                 /\ \A g \in Handlers : at'[g] # "ask"
                 /\ outside["retry"] = 0 /\ outside'["retry"] <= 1
      <3>1. \A g \in Handlers : at[g] \in InRetry => g = h
        BY <2>2, <2>6 DEF RetryInv
      <3>2. \A g \in Handlers : at'[g] \in InRetry => g = h
        BY <2>1, <3>1 DEF OneMoves
      <3>3. \A g \in Handlers : at'[g] # "claim"
        BY <2>1, <2>4, <2>6 DEF OneMoves, RetryInv
      <3>4. \A g \in Handlers : at'[g] # "ask"
        BY <2>1, <3>2 DEF InRetry
      <3>5. outside["retry"] = 0
        BY <2>1, <2>6 DEF RetryInv
      <3>6. QED
        BY <2>3, <3>2, <3>3, <3>4, <3>5
    <2>7. ASSUME ~overlapped, faults' = 0
          PROVE  /\ store.attempt = "requesting"
                 /\ at'[h] = "requested" => outside'["retry"] = 1
                 /\ at'[h] = "refused" => outside'["retry"] = 0 /\ task[h] = "bare"
      <3>1. faults = 0 /\ faults' = faults
        BY <2>1, <2>7, FaultsGrow
      <3>2. store.attempt = "requesting"
        BY <2>2, <2>7, <3>1 DEF RetryInv
      <3>3. at'[h] = "requested" => outside'["retry"] = 1
        BY <2>1, <2>6, <2>7, <3>1
      <3>4. at'[h] = "refused" => outside'["retry"] = 0 /\ task[h] = "bare"
        BY <2>1, <2>6, <2>7, <3>1
      <3>5. QED
        BY <3>2, <3>3, <3>4
    <2>8. /\ \A g \in Handlers : at'[g] \in InRetry => store'.attempt # "none"
          /\ outside'["retry"] > 0 => store'.attempt # "none"
          /\ outside'["retry"] > 0 => \E g \in Handlers : task'[g] = "gitlab"
      BY <2>1, <2>2, <2>4, <2>5
    <2>9. ~overlapped' =>
            /\ \A g \in Handlers : at'[g] = "claim" => store'.attempt = "none"
            /\ \A g, k \in Handlers : at'[g] \in InRetry /\ at'[k] \in InRetry => g = k
            /\ \A g \in Handlers : at'[g] = "ask" => outside'["retry"] = 0
            /\ outside'["retry"] <= 1
      BY <2>1, <2>6
    <2>10. (faults' = 0 /\ ~overlapped') =>
            /\ \A g \in Handlers : at'[g] \in InRetry => store'.attempt = "requesting"
            /\ \A g \in Handlers : at'[g] = "requested" => outside'["retry"] = 1
            /\ \A g \in Handlers : at'[g] = "refused" => outside'["retry"] = 0 /\ task'[g] = "bare"
            /\ store'.attempt = "requesting" /\ \E g \in Handlers : at'[g] \in InRetry
      BY <2>1, <2>2, <2>6, <2>7 DEF InRetry
    <2>11. QED
      BY <2>8, <2>9, <2>10 DEF RetryInv
  <1>11. CASE SettleAttempt(h)
    <2> DEFINE v == IF at[h] = "requested" THEN "requested" ELSE "failed"
    <2>1. /\ OneMoves(h) /\ at[h] \in {"requested", "refused"} /\ at'[h] \in Ending
          /\ store'.attempt \in {store.attempt, v} /\ (faults' = faults => store'.attempt = v)
          /\ outside' = outside /\ overlapped' = overlapped
      BY <1>11, SettleAttemptDoes
    <2>2. task' = task /\ at[h] \in InRetry /\ at'[h] \notin InRetry /\ at'[h] # "claim"
      BY <2>1 DEF OneMoves, InRetry, Ending
    <2>3. store.attempt # "none" /\ store'.attempt # "none"
      BY <2>1, <2>2 DEF RetryInv
    <2>4. ASSUME ~overlapped
          PROVE  /\ \A g \in Handlers : at'[g] # "claim"
                 /\ \A g \in Handlers : at'[g] \notin InRetry
      <3>1. \A g \in Handlers : at[g] # "claim"
        BY <2>3, <2>4 DEF RetryInv
      <3>2. \A g \in Handlers : at[g] \in InRetry => g = h
        BY <2>2, <2>4 DEF RetryInv
      <3>3. QED
        BY <2>1, <2>2, <3>1, <3>2 DEF OneMoves
    <2>5. ASSUME ~overlapped, faults' = 0
          PROVE  /\ store'.attempt = "requested" => outside'["retry"] = 1
                 /\ store'.attempt = "failed" => outside'["retry"] = 0 /\ \E g \in Handlers : task'[g] = "bare"
                 /\ store'.attempt # "requesting"
      <3>1. faults = 0 /\ faults' = faults
        BY <2>1, <2>5, FaultsGrow
      <3>2. store'.attempt = v
        BY <2>1, <3>1
      <3>3. CASE at[h] = "requested"
        BY <2>1, <2>5, <3>1, <3>2, <3>3 DEF RetryInv
      <3>4. CASE at[h] = "refused"
        BY <2>1, <2>2, <2>5, <3>1, <3>2, <3>4 DEF RetryInv
      <3>5. QED
        BY <2>1, <3>3, <3>4
    <2> HIDE DEF v
    <2>6. outside'["retry"] > 0 => \E g \in Handlers : task'[g] = "gitlab"
      BY <2>1, <2>2 DEF RetryInv
    <2>7. ~overlapped' => outside'["retry"] <= 1
      BY <2>1 DEF RetryInv
    <2>8. QED
      BY <2>1, <2>3, <2>4, <2>5, <2>6, <2>7 DEF RetryInv, InRetry
  <1>12. CASE Audit(h)
    <2>1. at[h] \notin InRetry /\ at'[h] \notin InRetry \cup {"claim"}
      BY <1>12, AuditDoes DEF InRetry, Ending
    <2>2. outside'["retry"] = outside["retry"] /\ store'.attempt = store.attempt /\ (~overlapped' => ~overlapped)
      BY <1>12, AuditDoes DEF Sent, Effects, Note
    <2>3. task[h] \in {"gitlab", "bare"} /\ at'[h] \in Ending => at[h] \in Ending
      BY <1>12, AuditDoes, TaskAt DEF Ending
    <2>4. QED
      BY <1>12, <2>1, <2>2, <2>3, RetryFrame, AuditDoes
  <1>13. CASE LoadLink(h)
    <2>1. at[h] \notin InRetry /\ at'[h] \notin InRetry \cup {"claim"}
      BY <1>13, LoadLinkDoes DEF InRetry, Ending
    <2>2. outside'["retry"] = outside["retry"] /\ store'.attempt = store.attempt /\ (~overlapped' => ~overlapped)
      BY <1>13, LoadLinkDoes DEF Sent, Effects, Note
    <2>3. task[h] \in {"gitlab", "bare"} /\ at'[h] \in Ending => at[h] \in Ending
      BY <1>13, LoadLinkDoes, TaskAt DEF Ending
    <2>4. QED
      BY <1>13, <2>1, <2>2, <2>3, RetryFrame, LoadLinkDoes
  <1>14. CASE CreateIssue(h)
    <2>1. at[h] \notin InRetry /\ at'[h] \notin InRetry \cup {"claim"}
      BY <1>14, CreateIssueDoes DEF InRetry, Ending
    <2>2. outside'["retry"] = outside["retry"] /\ store'.attempt = store.attempt /\ (~overlapped' => ~overlapped)
      BY <1>14, CreateIssueDoes DEF Sent, Effects, Note
    <2>3. task[h] \in {"gitlab", "bare"} /\ at'[h] \in Ending => at[h] \in Ending
      BY <1>14, CreateIssueDoes, TaskAt DEF Ending
    <2>4. QED
      BY <1>14, <2>1, <2>2, <2>3, RetryFrame, CreateIssueDoes
  <1>15. CASE GetIssue(h)
    <2>1. at[h] \notin InRetry /\ at'[h] \notin InRetry \cup {"claim"}
      BY <1>15, GetIssueDoes DEF InRetry, Ending
    <2>2. outside'["retry"] = outside["retry"] /\ store'.attempt = store.attempt /\ (~overlapped' => ~overlapped)
      BY <1>15, GetIssueDoes DEF Sent, Effects, Note
    <2>3. task[h] \in {"gitlab", "bare"} /\ at'[h] \in Ending => at[h] \in Ending
      BY <1>15, GetIssueDoes, TaskAt DEF Ending
    <2>4. QED
      BY <1>15, <2>1, <2>2, <2>3, RetryFrame, GetIssueDoes
  <1>16. CASE UpdateIssue(h)
    <2>1. at[h] \notin InRetry /\ at'[h] \notin InRetry \cup {"claim"}
      BY <1>16, UpdateIssueDoes DEF InRetry, Ending
    <2>2. outside'["retry"] = outside["retry"] /\ store'.attempt = store.attempt /\ (~overlapped' => ~overlapped)
      BY <1>16, UpdateIssueDoes DEF Sent, Effects, Note
    <2>3. task[h] \in {"gitlab", "bare"} /\ at'[h] \in Ending => at[h] \in Ending
      BY <1>16, UpdateIssueDoes, TaskAt DEF Ending
    <2>4. QED
      BY <1>16, <2>1, <2>2, <2>3, RetryFrame, UpdateIssueDoes
  <1>17. CASE LockIssue(h)
    <2>1. at[h] \notin InRetry /\ at'[h] \notin InRetry \cup {"claim"}
      BY <1>17, LockIssueDoes DEF InRetry, Ending
    <2>2. outside'["retry"] = outside["retry"] /\ store'.attempt = store.attempt /\ (~overlapped' => ~overlapped)
      BY <1>17, LockIssueDoes DEF Sent, Effects, Note
    <2>3. task[h] \in {"gitlab", "bare"} /\ at'[h] \in Ending => at[h] \in Ending
      BY <1>17, LockIssueDoes, TaskAt DEF Ending
    <2>4. QED
      BY <1>17, <2>1, <2>2, <2>3, RetryFrame, LockIssueDoes
  <1>18. CASE CommentIssue(h)
    <2>1. at[h] \notin InRetry /\ at'[h] \notin InRetry \cup {"claim"}
      BY <1>18, CommentIssueDoes DEF InRetry, Ending
    <2>2. outside'["retry"] = outside["retry"] /\ store'.attempt = store.attempt /\ (~overlapped' => ~overlapped)
      BY <1>18, CommentIssueDoes DEF Sent, Effects, Note
    <2>3. task[h] \in {"gitlab", "bare"} /\ at'[h] \in Ending => at[h] \in Ending
      BY <1>18, CommentIssueDoes, TaskAt DEF Ending
    <2>4. QED
      BY <1>18, <2>1, <2>2, <2>3, RetryFrame, CommentIssueDoes
  <1>19. CASE SaveLink(h)
    <2>1. at[h] \notin InRetry /\ at'[h] \notin InRetry \cup {"claim"}
      BY <1>19, SaveLinkDoes DEF InRetry, Ending
    <2>2. outside'["retry"] = outside["retry"] /\ store'.attempt = store.attempt /\ (~overlapped' => ~overlapped)
      BY <1>19, SaveLinkDoes DEF Sent, Effects, Note
    <2>3. task[h] \in {"gitlab", "bare"} /\ at'[h] \in Ending => at[h] \in Ending
      BY <1>19, SaveLinkDoes, TaskAt DEF Ending
    <2>4. QED
      BY <1>19, <2>1, <2>2, <2>3, RetryFrame, SaveLinkDoes
  <1>20. CASE RecordDelivery(h)
    <2>1. at[h] \notin InRetry /\ at'[h] \notin InRetry \cup {"claim"}
      BY <1>20, RecordDeliveryDoes DEF InRetry, Ending
    <2>2. outside'["retry"] = outside["retry"] /\ store'.attempt = store.attempt /\ (~overlapped' => ~overlapped)
      BY <1>20, RecordDeliveryDoes DEF Sent, Effects, Note
    <2>3. task[h] \in {"gitlab", "bare"} /\ at'[h] \in Ending => at[h] \in Ending
      BY <1>20, RecordDeliveryDoes, TaskAt DEF Ending
    <2>4. QED
      BY <1>20, <2>1, <2>2, <2>3, RetryFrame, RecordDeliveryDoes
  <1>21. CASE PerformChatAction(h)
    <2>1. at[h] \notin InRetry /\ at'[h] \notin InRetry \cup {"claim"}
      BY <1>21, PerformChatActionDoes DEF InRetry, Ending
    <2>2. outside'["retry"] = outside["retry"] /\ store'.attempt = store.attempt /\ (~overlapped' => ~overlapped)
      BY <1>21, PerformChatActionDoes DEF Sent, Effects, Note
    <2>3. task[h] \in {"gitlab", "bare"} /\ at'[h] \in Ending => at[h] \in Ending
      BY <1>21, PerformChatActionDoes, TaskAt DEF Ending
    <2>4. QED
      BY <1>21, <2>1, <2>2, <2>3, RetryFrame, PerformChatActionDoes
  <1>22. QED
    BY <1>1, <1>2, <1>3, <1>4, <1>5, <1>6, <1>7, <1>8, <1>9, <1>10, <1>11, <1>12, <1>13, <1>14, <1>15, <1>16, <1>17, <1>18, <1>19, <1>20, <1>21
       DEF HandlerStep

-----------------------------------------------------------------------------
(* Comments *)

WithComment(h) ==
    \/ task[h] = "gitlab" /\ at[h] \in AfterLook \cup Ending
    \/ task[h] = "workflow" /\ at[h] \in {"rerun"} \cup Ending

LEMMA CommentFrame ==
  ASSUME EffectsTypes, CommentInv, NEW h \in Handlers, OneMoves(h),
         at'[h] # "comment",
         outside'["comment"] = outside["comment"], outside'["note"] = outside["note"],
         ~overlapped' => ~overlapped,
         WithComment(h)' => WithComment(h) \/ faults' # 0
  PROVE  CommentInv'
  <1>1. \A g \in Handlers : at'[g] = "comment" => at[g] = "comment" /\ saw'[g] = saw[g]
    BY DEF OneMoves
  <1>2. task' = task
    BY DEF OneMoves
  <1>3. faults \in Nat /\ faults' \in Nat /\ faults <= faults' /\ (faults' = 0 => faults = 0)
    BY FaultsGrow
  <1>4. /\ outside["note"] \in Nat /\ outside["comment"] \in Nat
        /\ search.missed \in Nat /\ search'.missed \in Nat /\ search.missed <= search'.missed
    BY DEF EffectsTypes, Effects, OneMoves
  <1>5. \A g \in Handlers : outside'[Note(g)'] = outside[Note(g)] /\ Note(g)' = Note(g)
    BY <1>2 DEF Note
  <1>6. \A g \in Handlers : at'[g] = "comment" => saw'[g].number <= outside'[Note(g)']
    BY <1>1, <1>5 DEF CommentInv
  <1>7. ~overlapped' =>
         /\ outside'["comment"] <= 1 + search'.missed
         /\ outside'["note"] <= 1 + faults' + search'.missed
         /\ \A g \in Handlers : at'[g] = "comment" /\ saw'[g].number = 0 =>
               IF task'[g] = "gitlab" THEN outside'["note"] <= faults' + search'.missed ELSE outside'["comment"] <= search'.missed
    BY <1>1, <1>2, <1>3, <1>4 DEF CommentInv
  <1>8. ASSUME faults' = 0, NEW g \in Handlers, WithComment(g)'
        PROVE  WithComment(g) /\ faults = 0
    BY <1>3, <1>8 DEF OneMoves, WithComment
  <1>9. faults' = 0 =>
         /\ \A g \in Handlers : task'[g] = "gitlab" /\ at'[g] \in AfterLook \cup Ending => outside'["note"] > 0
         /\ \A g \in Handlers : task'[g] = "workflow" /\ at'[g] \in {"rerun"} \cup Ending => outside'["comment"] > 0
    BY <1>2, <1>8 DEF CommentInv, WithComment
  <1>10. QED
    BY <1>6, <1>7, <1>9 DEF CommentInv

(* One who found no comment is about to write one. *)
LEMMA CommentBetween ==
  ASSUME EffectsTypes, NEW h \in Handlers, at[h] = "comment", saw[h].number = 0
  PROVE  Between(h)
  <1>1. saw[h] = [Unlinked EXCEPT !.number = saw[h].number]
    BY TypesParts, TaskAt
  <1>2. [Unlinked EXCEPT !.number = 0] = Unlinked
    BY DEF Unlinked
  <1>3. saw[h] = Unlinked
    BY <1>1, <1>2
  <1>4. QED
    BY <1>3 DEF Between

LEMMA CommentKept ==
  ASSUME EffectsTypes, LookedAlone, CommentInv, NEW h \in Handlers, HandlerStep(h)
  PROVE  CommentInv'
  <1>0. outside["note"] \in Nat /\ outside["comment"] \in Nat /\ search.missed \in Nat
    BY DEF EffectsTypes, Effects
  <1>1. CASE Start(h)
    <2>1. at'[h] # "comment" /\ outside'["comment"] = outside["comment"] /\ outside'["note"] = outside["note"]
      BY <1>1, StartDoes, StartsAt DEF Sent, Effects, Ending
    <2>2. ~overlapped' => ~overlapped
      BY <1>1, StartDoes
    <2>3. WithComment(h)' => WithComment(h)
      <3>1. task'[h] = task[h]
        BY <1>1, StartDoes DEF OneMoves
      <3>2. QED
        BY <1>1, <3>1, StartDoes, TaskAt, StartsAt DEF WithComment, Ending, AfterLook
    <2>4. QED
      BY <1>1, <2>1, <2>2, <2>3, CommentFrame, StartDoes
  <1>2. CASE Crash(h)
    <2>1. at'[h] # "comment" /\ outside'["comment"] = outside["comment"] /\ outside'["note"] = outside["note"]
      BY <1>2, CrashDoes DEF Sent, Effects, Ending
    <2>2. ~overlapped' => ~overlapped
      BY <1>2, CrashDoes
    <2>3. WithComment(h)' => WithComment(h)
      <3>1. task'[h] = task[h]
        BY <1>2, CrashDoes DEF OneMoves
      <3>2. QED
        BY <1>2, <3>1, CrashDoes, TaskAt DEF WithComment, Ending, AfterLook
    <2>4. QED
      BY <1>2, <2>1, <2>2, <2>3, CommentFrame, CrashDoes
  <1>3. CASE Diagnose(h)
    <2>1. OneMoves(h) /\ outside' = outside /\ overlapped' = overlapped /\ at'[h] # "comment" /\ at[h] = "diagnose"
      BY <1>3, DiagnoseDoes, DiagnosedAt
    <2>2. task[h] # "bare" => at'[h] \in {"failed", "check", "comments"}
      BY <1>3, DiagnoseDoes, TaskAt, AfterFacts
    <2>3. ~WithComment(h)'
      BY <2>1, <2>2 DEF WithComment, OneMoves, AfterLook, Ending
    <2>4. QED
      BY <2>1, <2>3, CommentFrame
  <1>4. CASE PublishCheck(h)
    <2>1. at'[h] # "comment" /\ outside'["comment"] = outside["comment"] /\ outside'["note"] = outside["note"]
      BY <1>4, PublishCheckDoes DEF Sent, Effects, Ending
    <2>2. ~overlapped' => ~overlapped
      BY <1>4, PublishCheckDoes
    <2>3. WithComment(h)' => WithComment(h)
      <3>1. task'[h] = task[h]
        BY <1>4, PublishCheckDoes DEF OneMoves
      <3>2. QED
        BY <1>4, <3>1, PublishCheckDoes, TaskAt DEF WithComment, Ending, AfterLook
    <2>4. QED
      BY <1>4, <2>1, <2>2, <2>3, CommentFrame, PublishCheckDoes
  <1>5. CASE ListComments(h)
    <2>1. /\ OneMoves(h) /\ at[h] = "comments"
          /\ \/ faults' = faults /\ at'[h] = "comment"
             \/ faults' = faults + 1 /\ at'[h] = (IF task[h] = "gitlab" THEN "comment" ELSE AfterComment(h))
          /\ outside' = outside /\ (~overlapped' => ~overlapped)
      BY <1>5, ListCommentsDoes
    <2>2. /\ saw'[h].number \in {0, outside[Note(h)]}
          /\ (saw'[h].number = 0 /\ faults' = faults /\ outside[Note(h)] > 0) => search'.missed = search.missed + 1
      BY <1>5, ListCommentsDoes
    <2>3. /\ faults \in Nat /\ task' = task /\ task[h] \in {"workflow", "gitlab"}
          /\ search'.missed \in Nat /\ search.missed <= search'.missed
      BY <2>1, TaskAt DEF EffectsTypes, OneMoves
    <2>4. CASE at'[h] = "comment"
      <3>1. saw'[h].number <= outside[Note(h)]
        BY <1>0, <2>2 DEF Note
      <3>2. ASSUME saw'[h].number = 0
            PROVE  outside[Note(h)] = 0 \/ search'.missed = search.missed + 1 \/ (task[h] = "gitlab" /\ faults' = faults + 1)
        <4>1. faults' = faults + 1 => task[h] = "gitlab"
          <5>1. task[h] # "gitlab" => AfterComment(h) = "rerun"
            BY AfterFacts
          <5>2. QED
            BY <2>1, <2>3, <2>4, <5>1
        <4>2. outside[Note(h)] \in Nat
          BY <1>0 DEF Note
        <4>3. QED
          BY <2>1, <2>2, <3>2, <4>1, <4>2
      <3>3. \A g \in Handlers : Note(g)' = Note(g)
        BY <2>3 DEF Note
      <3>4. \A g \in Handlers : at'[g] = "comment" => saw'[g].number <= outside'[Note(g)']
        BY <2>1, <3>1, <3>3 DEF OneMoves, CommentInv
      <3>5. ASSUME ~overlapped'
            PROVE  /\ outside'["comment"] <= 1 + search'.missed
                   /\ outside'["note"] <= 1 + faults' + search'.missed
                   /\ \A g \in Handlers : at'[g] = "comment" /\ saw'[g].number = 0 =>
                         IF task'[g] = "gitlab" THEN outside'["note"] <= faults' + search'.missed
                                                ELSE outside'["comment"] <= search'.missed
        <4>1. outside["comment"] <= 1 + search.missed /\ outside["note"] <= 1 + faults + search.missed
          BY <2>1, <3>5 DEF CommentInv
        <4>2. faults' \in Nat /\ faults <= faults'
          BY <2>1, FaultsGrow
        <4>3. ASSUME NEW g \in Handlers, at'[g] = "comment", saw'[g].number = 0
              PROVE  IF task'[g] = "gitlab" THEN outside'["note"] <= faults' + search'.missed
                                            ELSE outside'["comment"] <= search'.missed
          <5>1. CASE g = h /\ task[h] = "gitlab"
            <6>1. outside["note"] = 0 \/ search'.missed = search.missed + 1 \/ faults' = faults + 1
              BY <3>2, <4>3, <5>1 DEF Note
            <6>2. outside["note"] <= faults' + search'.missed
              BY <1>0, <2>3, <4>1, <4>2, <6>1
            <6>3. QED
              BY <2>1, <2>3, <5>1, <6>2
          <5>2. CASE g = h /\ task[h] # "gitlab"
            <6>1. outside["comment"] = 0 \/ search'.missed = search.missed + 1
              BY <3>2, <4>3, <5>2 DEF Note
            <6>2. outside["comment"] <= search'.missed
              BY <1>0, <2>3, <4>1, <6>1
            <6>3. QED
              BY <2>1, <2>3, <5>2, <6>2
          <5>3. CASE g # h
            <6>1. at[g] = "comment" /\ saw[g].number = 0
              BY <2>1, <4>3, <5>3 DEF OneMoves
            <6>2. IF task[g] = "gitlab" THEN outside["note"] <= faults + search.missed
                                        ELSE outside["comment"] <= search.missed
              BY <2>1, <3>5, <6>1 DEF CommentInv
            <6>3. QED
              BY <1>0, <2>1, <2>3, <4>2, <6>2
          <5>4. QED
            BY <5>1, <5>2, <5>3
        <4>4. QED
          BY <1>0, <2>1, <2>3, <4>1, <4>2, <4>3
      <3>6. ASSUME faults' = 0, NEW g \in Handlers, WithComment(g)'
            PROVE  WithComment(g) /\ faults = 0
        <4>1. faults = 0
          BY <2>1, <3>6, FaultsGrow
        <4>2. g # h
          BY <2>4, <3>6 DEF WithComment, AfterLook, Ending
        <4>3. QED
          BY <2>1, <3>6, <4>1, <4>2 DEF OneMoves, WithComment
      <3>7. faults' = 0 =>
             /\ \A g \in Handlers : task'[g] = "gitlab" /\ at'[g] \in AfterLook \cup Ending => outside'["note"] > 0
             /\ \A g \in Handlers : task'[g] = "workflow" /\ at'[g] \in {"rerun"} \cup Ending => outside'["comment"] > 0
        BY <2>1, <2>3, <3>6 DEF CommentInv, WithComment
      <3>8. QED
        BY <3>4, <3>5, <3>7 DEF CommentInv
    <2>5. CASE at'[h] # "comment"
      <3>1. faults' # 0
        BY <2>1, <2>3, <2>5
      <3>2. QED
        BY <2>1, <2>5, <3>1, CommentFrame
    <2>6. QED
      BY <2>4, <2>5
  <1>6. CASE WriteComment(h)
    <2>1. /\ OneMoves(h) /\ at[h] = "comment" /\ at'[h] = AfterComment(h)
          /\ saw[h].number > 0 => outside' = outside
          /\ ~(saw[h].number > 0) => Sent(Note(h)) /\ (faults' = faults => outside'[Note(h)] = outside[Note(h)] + 1)
          /\ saw' = saw /\ overlapped' = overlapped
      BY <1>6, WriteCommentDoes
    <2>2. /\ task' = task /\ at'[h] # "comment" /\ faults \in Nat /\ faults' \in Nat /\ faults <= faults'
          /\ saw[h].number \in Nat /\ Note(h) \in {"note", "comment"} /\ task[h] \in {"workflow", "gitlab"}
          /\ search'.missed \in Nat /\ search.missed <= search'.missed
      BY <2>1, AfterFacts, FaultsGrow, TypesParts, TaskAt DEF OneMoves, IsLink, Note
    <2>3. /\ outside'["note"] \in Nat /\ outside'["comment"] \in Nat
          /\ outside["note"] <= outside'["note"] /\ outside["comment"] <= outside'["comment"]
      BY <1>0, <2>1, <2>2 DEF Sent, Effects
    <2>4. \A g \in Handlers : at'[g] = "comment" => g # h /\ at[g] = "comment"
      BY <2>1, <2>2 DEF OneMoves
    <2>5. \A g \in Handlers : at'[g] = "comment" => saw'[g].number <= outside'[Note(g)']
      <3> SUFFICES ASSUME NEW g \in Handlers, at'[g] = "comment" PROVE saw'[g].number <= outside'[Note(g)']
        OBVIOUS
      <3>1. saw[g].number <= outside[Note(g)] /\ Note(g)' = Note(g) /\ Note(g) \in {"note", "comment"}
        BY <2>2, <2>4 DEF CommentInv, Note
      <3>2. saw[g].number \in Nat
        BY TypesParts DEF IsLink
      <3>3. QED
        BY <1>0, <2>1, <2>3, <3>1, <3>2
    <2>6. ASSUME ~overlapped'
          PROVE  /\ outside'["comment"] <= 1 + search'.missed
                 /\ outside'["note"] <= 1 + faults' + search'.missed
                 /\ \A g \in Handlers : at'[g] = "comment" /\ saw'[g].number = 0 =>
                       IF task'[g] = "gitlab" THEN outside'["note"] <= faults' + search'.missed ELSE outside'["comment"] <= search'.missed
      <3>1. outside["comment"] <= 1 + search.missed /\ outside["note"] <= 1 + faults + search.missed /\ ~overlapped
        BY <2>1, <2>6 DEF CommentInv
      <3>2. CASE saw[h].number > 0
        <4>1. ASSUME NEW g \in Handlers, at'[g] = "comment", saw'[g].number = 0
              PROVE  IF task'[g] = "gitlab" THEN outside'["note"] <= faults' + search'.missed ELSE outside'["comment"] <= search'.missed
          <5>1. IF task[g] = "gitlab" THEN outside["note"] <= faults + search.missed ELSE outside["comment"] <= search.missed
            BY <2>1, <2>4, <3>1, <4>1 DEF CommentInv
          <5>2. QED
            BY <1>0, <2>1, <2>2, <3>2, <5>1
        <4>2. QED
          BY <1>0, <2>1, <2>2, <3>1, <3>2, <4>1
      <3>3. CASE ~(saw[h].number > 0)
        <4>1. saw[h].number = 0
          BY <2>2, <3>3
        <4>2. ASSUME NEW g \in Handlers, at'[g] = "comment", saw'[g].number = 0
              PROVE  FALSE
          <5>1. Between(g) /\ Between(h) /\ g # h
            BY <2>1, <2>4, <4>1, <4>2, CommentBetween
          <5>2. QED
            BY <3>1, <5>1 DEF LookedAlone
        <4>3. IF task[h] = "gitlab" THEN outside["note"] <= faults + search.missed ELSE outside["comment"] <= search.missed
          BY <2>1, <3>1, <4>1 DEF CommentInv
        <4>4. /\ task[h] = "gitlab" => outside'["note"] <= outside["note"] + 1 /\ outside'["comment"] = outside["comment"]
              /\ task[h] # "gitlab" => outside'["comment"] <= outside["comment"] + 1 /\ outside'["note"] = outside["note"]
          BY <2>1, <3>3 DEF Sent, Note, Effects
        <4>5. CASE task[h] = "gitlab"
          BY <1>0, <2>2, <2>3, <3>1, <4>2, <4>3, <4>4, <4>5
        <4>6. CASE task[h] # "gitlab"
          BY <1>0, <2>2, <2>3, <3>1, <4>2, <4>3, <4>4, <4>6
        <4>7. QED
          BY <4>5, <4>6
      <3>4. QED
        BY <3>2, <3>3
    <2>7. ASSUME faults' = 0
          PROVE  outside'[Note(h)] > 0 /\ faults = 0
      <3>1. faults' = faults /\ faults = 0
        BY <2>1, <2>7, FaultsGrow
      <3>2. saw[h].number <= outside[Note(h)]
        BY <2>1 DEF CommentInv
      <3>3. CASE saw[h].number > 0
        BY <1>0, <2>1, <2>2, <3>1, <3>2, <3>3
      <3>4. CASE ~(saw[h].number > 0)
        BY <1>0, <2>1, <2>2, <3>1, <3>4
      <3>5. QED
        BY <3>3, <3>4
    <2>8. ASSUME faults' = 0, NEW g \in Handlers, WithComment(g)'
          PROVE  outside'[Note(g)] > 0
      <3>1. CASE g = h
        BY <2>7, <2>8, <3>1
      <3>2. CASE g # h
        <4>1. WithComment(g)
          BY <2>1, <2>8, <3>2 DEF OneMoves, WithComment
        <4>2. outside[Note(g)] > 0 /\ Note(g) \in {"note", "comment"}
          BY <2>7, <2>8, <4>1 DEF CommentInv, WithComment, Note
        <4>3. QED
          BY <1>0, <2>3, <4>2
      <3>3. QED
        BY <3>1, <3>2
    <2>9. faults' = 0 =>
           /\ \A g \in Handlers : task'[g] = "gitlab" /\ at'[g] \in AfterLook \cup Ending => outside'["note"] > 0
           /\ \A g \in Handlers : task'[g] = "workflow" /\ at'[g] \in {"rerun"} \cup Ending => outside'["comment"] > 0
      BY <2>2, <2>8 DEF WithComment, Note
    <2>10. QED
      BY <2>5, <2>6, <2>9 DEF CommentInv
  <1>7. CASE RerunFailedJobs(h)
    <2>1. at'[h] # "comment" /\ outside'["comment"] = outside["comment"] /\ outside'["note"] = outside["note"]
      BY <1>7, RerunFailedJobsDoes DEF Sent, Effects, Ending
    <2>2. ~overlapped' => ~overlapped
      BY <1>7, RerunFailedJobsDoes
    <2>3. WithComment(h)' => WithComment(h)
      <3>1. task'[h] = task[h]
        BY <1>7, RerunFailedJobsDoes DEF OneMoves
      <3>2. QED
        BY <1>7, <3>1, RerunFailedJobsDoes, TaskAt DEF WithComment, Ending, AfterLook
    <2>4. QED
      BY <1>7, <2>1, <2>2, <2>3, CommentFrame, RerunFailedJobsDoes
  <1>8. CASE FindAttempt(h)
    <2>1. at'[h] # "comment" /\ outside'["comment"] = outside["comment"] /\ outside'["note"] = outside["note"]
      BY <1>8, FindAttemptDoes DEF Sent, Effects, Ending
    <2>2. ~overlapped' => ~overlapped
      BY <1>8, FindAttemptDoes
    <2>3. WithComment(h)' => WithComment(h)
      <3>1. task'[h] = task[h]
        BY <1>8, FindAttemptDoes DEF OneMoves
      <3>2. QED
        BY <1>8, <3>1, FindAttemptDoes, TaskAt DEF WithComment, Ending, AfterLook
    <2>4. QED
      BY <1>8, <2>1, <2>2, <2>3, CommentFrame, FindAttemptDoes
  <1>9. CASE ClaimAttempt(h)
    <2>1. at'[h] # "comment" /\ outside'["comment"] = outside["comment"] /\ outside'["note"] = outside["note"]
      BY <1>9, ClaimAttemptDoes DEF Sent, Effects, Ending
    <2>2. ~overlapped' => ~overlapped
      BY <1>9, ClaimAttemptDoes
    <2>3. WithComment(h)' => WithComment(h)
      <3>1. task'[h] = task[h]
        BY <1>9, ClaimAttemptDoes DEF OneMoves
      <3>2. QED
        BY <1>9, <3>1, ClaimAttemptDoes, TaskAt DEF WithComment, Ending, AfterLook
    <2>4. QED
      BY <1>9, <2>1, <2>2, <2>3, CommentFrame, ClaimAttemptDoes
  <1>10. CASE Retry(h)
    <2>1. at'[h] # "comment" /\ outside'["comment"] = outside["comment"] /\ outside'["note"] = outside["note"]
      BY <1>10, RetryDoes DEF Sent, Effects, Ending
    <2>2. ~overlapped' => ~overlapped
      BY <1>10, RetryDoes
    <2>3. WithComment(h)' => WithComment(h)
      <3>1. task'[h] = task[h]
        BY <1>10, RetryDoes DEF OneMoves
      <3>2. QED
        BY <1>10, <3>1, RetryDoes, TaskAt DEF WithComment, Ending, AfterLook
    <2>4. QED
      BY <1>10, <2>1, <2>2, <2>3, CommentFrame, RetryDoes
  <1>11. CASE SettleAttempt(h)
    <2>1. at'[h] # "comment" /\ outside'["comment"] = outside["comment"] /\ outside'["note"] = outside["note"]
      BY <1>11, SettleAttemptDoes DEF Sent, Effects, Ending
    <2>2. ~overlapped' => ~overlapped
      BY <1>11, SettleAttemptDoes
    <2>3. WithComment(h)' => WithComment(h)
      <3>1. task'[h] = task[h]
        BY <1>11, SettleAttemptDoes DEF OneMoves
      <3>2. QED
        BY <1>11, <3>1, SettleAttemptDoes, TaskAt DEF WithComment, Ending, AfterLook
    <2>4. QED
      BY <1>11, <2>1, <2>2, <2>3, CommentFrame, SettleAttemptDoes
  <1>12. CASE Audit(h)
    <2>1. at'[h] # "comment" /\ outside'["comment"] = outside["comment"] /\ outside'["note"] = outside["note"]
      BY <1>12, AuditDoes DEF Sent, Effects, Ending
    <2>2. ~overlapped' => ~overlapped
      BY <1>12, AuditDoes
    <2>3. WithComment(h)' => WithComment(h)
      <3>1. task'[h] = task[h]
        BY <1>12, AuditDoes DEF OneMoves
      <3>2. QED
        BY <1>12, <3>1, AuditDoes, TaskAt DEF WithComment, Ending, AfterLook
    <2>4. QED
      BY <1>12, <2>1, <2>2, <2>3, CommentFrame, AuditDoes
  <1>13. CASE LoadLink(h)
    <2>1. at'[h] # "comment" /\ outside'["comment"] = outside["comment"] /\ outside'["note"] = outside["note"]
      BY <1>13, LoadLinkDoes DEF Sent, Effects, Ending
    <2>2. ~overlapped' => ~overlapped
      BY <1>13, LoadLinkDoes
    <2>3. WithComment(h)' => WithComment(h)
      <3>1. task'[h] = task[h]
        BY <1>13, LoadLinkDoes DEF OneMoves
      <3>2. QED
        BY <1>13, <3>1, LoadLinkDoes, TaskAt DEF WithComment, Ending, AfterLook
    <2>4. QED
      BY <1>13, <2>1, <2>2, <2>3, CommentFrame, LoadLinkDoes
  <1>14. CASE CreateIssue(h)
    <2>1. at'[h] # "comment" /\ outside'["comment"] = outside["comment"] /\ outside'["note"] = outside["note"]
      BY <1>14, CreateIssueDoes DEF Sent, Effects, Ending
    <2>2. ~overlapped' => ~overlapped
      BY <1>14, CreateIssueDoes
    <2>3. WithComment(h)' => WithComment(h)
      <3>1. task'[h] = task[h]
        BY <1>14, CreateIssueDoes DEF OneMoves
      <3>2. QED
        BY <1>14, <3>1, CreateIssueDoes, TaskAt DEF WithComment, Ending, AfterLook
    <2>4. QED
      BY <1>14, <2>1, <2>2, <2>3, CommentFrame, CreateIssueDoes
  <1>15. CASE GetIssue(h)
    <2>1. at'[h] # "comment" /\ outside'["comment"] = outside["comment"] /\ outside'["note"] = outside["note"]
      BY <1>15, GetIssueDoes DEF Sent, Effects, Ending
    <2>2. ~overlapped' => ~overlapped
      BY <1>15, GetIssueDoes
    <2>3. WithComment(h)' => WithComment(h)
      <3>1. task'[h] = task[h]
        BY <1>15, GetIssueDoes DEF OneMoves
      <3>2. QED
        BY <1>15, <3>1, GetIssueDoes, TaskAt DEF WithComment, Ending, AfterLook
    <2>4. QED
      BY <1>15, <2>1, <2>2, <2>3, CommentFrame, GetIssueDoes
  <1>16. CASE UpdateIssue(h)
    <2>1. at'[h] # "comment" /\ outside'["comment"] = outside["comment"] /\ outside'["note"] = outside["note"]
      BY <1>16, UpdateIssueDoes DEF Sent, Effects, Ending
    <2>2. ~overlapped' => ~overlapped
      BY <1>16, UpdateIssueDoes
    <2>3. WithComment(h)' => WithComment(h)
      <3>1. task'[h] = task[h]
        BY <1>16, UpdateIssueDoes DEF OneMoves
      <3>2. QED
        BY <1>16, <3>1, UpdateIssueDoes, TaskAt DEF WithComment, Ending, AfterLook
    <2>4. QED
      BY <1>16, <2>1, <2>2, <2>3, CommentFrame, UpdateIssueDoes
  <1>17. CASE LockIssue(h)
    <2>1. at'[h] # "comment" /\ outside'["comment"] = outside["comment"] /\ outside'["note"] = outside["note"]
      BY <1>17, LockIssueDoes DEF Sent, Effects, Ending
    <2>2. ~overlapped' => ~overlapped
      BY <1>17, LockIssueDoes
    <2>3. WithComment(h)' => WithComment(h)
      <3>1. task'[h] = task[h]
        BY <1>17, LockIssueDoes DEF OneMoves
      <3>2. QED
        BY <1>17, <3>1, LockIssueDoes, TaskAt DEF WithComment, Ending, AfterLook
    <2>4. QED
      BY <1>17, <2>1, <2>2, <2>3, CommentFrame, LockIssueDoes
  <1>18. CASE CommentIssue(h)
    <2>1. at'[h] # "comment" /\ outside'["comment"] = outside["comment"] /\ outside'["note"] = outside["note"]
      BY <1>18, CommentIssueDoes DEF Sent, Effects, Ending
    <2>2. ~overlapped' => ~overlapped
      BY <1>18, CommentIssueDoes
    <2>3. WithComment(h)' => WithComment(h)
      <3>1. task'[h] = task[h]
        BY <1>18, CommentIssueDoes DEF OneMoves
      <3>2. QED
        BY <1>18, <3>1, CommentIssueDoes, TaskAt DEF WithComment, Ending, AfterLook
    <2>4. QED
      BY <1>18, <2>1, <2>2, <2>3, CommentFrame, CommentIssueDoes
  <1>19. CASE SaveLink(h)
    <2>1. at'[h] # "comment" /\ outside'["comment"] = outside["comment"] /\ outside'["note"] = outside["note"]
      BY <1>19, SaveLinkDoes DEF Sent, Effects, Ending
    <2>2. ~overlapped' => ~overlapped
      BY <1>19, SaveLinkDoes
    <2>3. WithComment(h)' => WithComment(h)
      <3>1. task'[h] = task[h]
        BY <1>19, SaveLinkDoes DEF OneMoves
      <3>2. QED
        BY <1>19, <3>1, SaveLinkDoes, TaskAt DEF WithComment, Ending, AfterLook
    <2>4. QED
      BY <1>19, <2>1, <2>2, <2>3, CommentFrame, SaveLinkDoes
  <1>20. CASE RecordDelivery(h)
    <2>1. at'[h] # "comment" /\ outside'["comment"] = outside["comment"] /\ outside'["note"] = outside["note"]
      BY <1>20, RecordDeliveryDoes DEF Sent, Effects, Ending
    <2>2. ~overlapped' => ~overlapped
      BY <1>20, RecordDeliveryDoes
    <2>3. WithComment(h)' => WithComment(h)
      <3>1. task'[h] = task[h]
        BY <1>20, RecordDeliveryDoes DEF OneMoves
      <3>2. QED
        BY <1>20, <3>1, RecordDeliveryDoes, TaskAt DEF WithComment, Ending, AfterLook
    <2>4. QED
      BY <1>20, <2>1, <2>2, <2>3, CommentFrame, RecordDeliveryDoes
  <1>21. CASE PerformChatAction(h)
    <2>1. at'[h] # "comment" /\ outside'["comment"] = outside["comment"] /\ outside'["note"] = outside["note"]
      BY <1>21, PerformChatActionDoes DEF Sent, Effects, Ending
    <2>2. ~overlapped' => ~overlapped
      BY <1>21, PerformChatActionDoes
    <2>3. WithComment(h)' => WithComment(h)
      <3>1. task'[h] = task[h]
        BY <1>21, PerformChatActionDoes DEF OneMoves
      <3>2. QED
        BY <1>21, <3>1, PerformChatActionDoes, TaskAt DEF WithComment, Ending, AfterLook
    <2>4. QED
      BY <1>21, <2>1, <2>2, <2>3, CommentFrame, PerformChatActionDoes
  <1>22. QED
    BY <1>1, <1>2, <1>3, <1>4, <1>5, <1>6, <1>7, <1>8, <1>9, <1>10, <1>11, <1>12, <1>13, <1>14, <1>15, <1>16, <1>17, <1>18, <1>19, <1>20, <1>21
       DEF HandlerStep

-----------------------------------------------------------------------------
(* The issue of an analysis *)

Shown == {"lock", "link"}
Issued(h) == task[h] = "create" /\ at[h] \in Ending

LEMMA IssueNats ==
  ASSUME EffectsTypes, NEW h \in Handlers
  PROVE  /\ outside["issue"] \in Nat /\ store.link.number \in Nat /\ saw[h].number \in Nat /\ faults \in Nat
         /\ issue.number \in Nat
  BY DEF EffectsTypes, Effects, IsStore, IsLink

LEMMA IssueFrame ==
  ASSUME EffectsTypes, IssueInv, NEW h \in Handlers, OneMoves(h),
         at[h] \notin Deciding, at'[h] \notin Deciding,
         outside'["issue"] = outside["issue"], issue' = issue, store'.link = store.link,
         ~overlapped' => ~overlapped,
         Issued(h)' => Issued(h)
  PROVE  IssueInv'
  <1>1. \A g \in Handlers : at'[g] \in Deciding => at'[g] = at[g] /\ saw'[g] = saw[g]
    BY DEF OneMoves
  <1>2. \A g \in Handlers : at[g] \in Deciding => at'[g] = at[g] /\ saw'[g] = saw[g]
    BY DEF OneMoves
  <1>3. faults \in Nat /\ faults' \in Nat /\ faults <= faults' /\ (faults' = 0 => faults = 0)
    BY FaultsGrow
  <1>4. outside["issue"] \in Nat
    BY IssueNats
  <1>5. /\ issue'.number = outside'["issue"] /\ store'.link.number <= outside'["issue"]
        /\ \A g \in Handlers : at'[g] \in Shown => 0 < saw'[g].number /\ saw'[g].number <= outside'["issue"]
        /\ \A g \in Handlers : at'[g] \in {"get", "patch"} => outside'["issue"] > 0
    BY <1>1 DEF IssueInv, Deciding, Shown
  <1>6. ~overlapped' =>
         /\ outside'["issue"] <= 1 + faults'
         /\ \A g \in Handlers : at'[g] = "create" => outside'["issue"] <= faults'
         /\ (store'.link.number = 0 /\ \A g \in Handlers : at'[g] # "link") => outside'["issue"] <= faults'
    <2>1. (\A g \in Handlers : at'[g] # "link") => \A g \in Handlers : at[g] # "link"
      BY <1>2 DEF Deciding
    <2>2. QED
      BY <1>1, <1>3, <1>4, <2>1 DEF IssueInv, Deciding
  <1>7. (faults' = 0 /\ ~overlapped') =>
         /\ \A g \in Handlers : at'[g] \in Shown => saw'[g] = issue'
         /\ (\A g \in Handlers : at'[g] \notin Shown) => store'.link = issue'
    BY <1>1, <1>2, <1>3 DEF IssueInv, Deciding, Shown
  <1>8. faults' = 0 => \A g \in Handlers : Issued(g)' => store'.link.number > 0
    BY <1>3 DEF IssueInv, Issued, OneMoves
  <1>9. QED
    BY <1>5, <1>6, <1>7, <1>8 DEF IssueInv, Shown, Issued

(* With nobody else about to act, one who decides about the issue is alone. *)
LEMMA DecideAlone ==
  ASSUME LookedAlone, ~overlapped, NEW h \in Handlers, at[h] \in Deciding, NEW g \in Handlers, g # h
  PROVE  at[g] \notin Deciding
  BY DEF LookedAlone, Between, Deciding

(* The parts of IssueInv after a step of h, from what holds of the others   *)
(* and of h.                                                                *)
LEMMA IssueStep ==
  ASSUME EffectsTypes, LookedAlone, IssueInv, NEW h \in Handlers, OneMoves(h),
         \/ at[h] \in Deciding /\ (~overlapped' => ~overlapped)
         \/ ~overlapped' => ~overlapped /\ \A g \in Handlers : g # h => ~Between(g),
         outside'["issue"] \in Nat, outside["issue"] <= outside'["issue"],
         issue'.number = outside'["issue"], store'.link.number <= outside'["issue"],
         at'[h] \in Shown => 0 < saw'[h].number /\ saw'[h].number <= outside'["issue"],
         at'[h] \in {"get", "patch"} => outside'["issue"] > 0,
         ~overlapped' => /\ outside'["issue"] <= 1 + faults'
                         /\ at'[h] = "create" => outside'["issue"] <= faults'
                         /\ store'.link.number = 0 /\ at'[h] # "link" => outside'["issue"] <= faults',
         faults' = 0 /\ ~overlapped' =>
            IF at'[h] \in Shown THEN saw'[h] = issue' ELSE store'.link = issue',
         faults' = 0 => (store.link.number > 0 => store'.link.number > 0) /\ (Issued(h)' => store'.link.number > 0)
  PROVE  IssueInv'
  <1>1. ASSUME ~overlapped', NEW g \in Handlers, g # h
        PROVE  at'[g] \notin Deciding
    <2>1. at[g] \notin Deciding
      BY <1>1, DecideAlone DEF Between, Deciding
    <2>2. QED
      BY <1>1, <2>1 DEF OneMoves
  <1>2. faults \in Nat /\ faults' \in Nat /\ faults <= faults' /\ (faults' = 0 => faults = 0)
    BY FaultsGrow
  <1>3. outside["issue"] \in Nat
    BY IssueNats
  <1>4. ASSUME NEW g \in Handlers, at'[g] \in Shown
        PROVE  0 < saw'[g].number /\ saw'[g].number <= outside'["issue"]
    <2>1. CASE g = h
      BY <1>4, <2>1
    <2>2. CASE g # h
      <3>1. at[g] \in Shown /\ saw'[g] = saw[g]
        BY <1>4, <2>2 DEF OneMoves
      <3>2. 0 < saw[g].number /\ saw[g].number <= outside["issue"]
        BY <3>1 DEF IssueInv, Shown
      <3>3. saw[g].number \in Nat
        BY IssueNats
      <3>4. QED
        BY <1>3, <3>1, <3>2, <3>3
    <2>3. QED
      BY <2>1, <2>2
  <1>5. ASSUME NEW g \in Handlers, at'[g] \in {"get", "patch"}
        PROVE  outside'["issue"] > 0
    <2>1. CASE g = h
      BY <1>5, <2>1
    <2>2. CASE g # h
      <3>1. outside["issue"] > 0
        BY <1>5, <2>2 DEF IssueInv, OneMoves
      <3>2. QED
        BY <1>3, <3>1
    <2>3. QED
      BY <2>1, <2>2
  <1>6. ASSUME ~overlapped'
        PROVE  /\ outside'["issue"] <= 1 + faults'
               /\ \A g \in Handlers : at'[g] = "create" => outside'["issue"] <= faults'
               /\ (store'.link.number = 0 /\ \A g \in Handlers : at'[g] # "link") => outside'["issue"] <= faults'
    BY <1>1, <1>6 DEF Deciding
  <1>7. ASSUME faults' = 0, ~overlapped'
        PROVE  /\ \A g \in Handlers : at'[g] \in Shown => saw'[g] = issue'
               /\ (\A g \in Handlers : at'[g] \notin Shown) => store'.link = issue'
    BY <1>1, <1>7 DEF Deciding, Shown
  <1>8. ASSUME faults' = 0, NEW g \in Handlers, Issued(g)'
        PROVE  store'.link.number > 0
    <2>1. CASE g = h
      BY <1>8, <2>1
    <2>2. CASE g # h
      <3>1. Issued(g) /\ faults = 0
        BY <1>2, <1>8, <2>2 DEF OneMoves, Issued
      <3>2. store.link.number > 0
        BY <3>1 DEF IssueInv, Issued
      <3>3. QED
        BY <1>8, <3>2
    <2>3. QED
      BY <2>1, <2>2
  <1>9. QED
    BY <1>4, <1>5, <1>6, <1>7, <1>8 DEF IssueInv, Shown, Issued

LEMMA IssueKept ==
  ASSUME EffectsTypes, LookedAlone, IssueInv, NEW h \in Handlers, HandlerStep(h)
  PROVE  IssueInv'
  <1>0. /\ outside["issue"] \in Nat /\ store.link.number \in Nat /\ saw[h].number \in Nat /\ faults \in Nat
        /\ issue.number = outside["issue"] /\ store.link.number <= outside["issue"]
    BY IssueNats DEF IssueInv
  <1>1. CASE Start(h)
    <2>1. at[h] \notin Deciding /\ at'[h] \notin Deciding
      BY <1>1, StartDoes, StartsAt DEF Deciding, Ending
    <2>2. /\ outside'["issue"] = outside["issue"] /\ issue' = issue /\ store'.link = store.link
          /\ ~overlapped' => ~overlapped
      BY <1>1, StartDoes DEF Sent, Effects, Note
    <2>3. Issued(h)' => Issued(h)
      <3>1. task'[h] = task[h]
        BY <1>1, StartDoes DEF OneMoves
      <3>2. QED
        BY <1>1, <3>1, StartDoes, TaskAt, StartsAt DEF Issued, Ending, AfterLook
    <2>4. QED
      BY <1>1, <2>1, <2>2, <2>3, IssueFrame, StartDoes
  <1>2. CASE Crash(h)
    <2>1. /\ OneMoves(h) /\ at'[h] = "failed" /\ faults' = faults + 1 /\ saw' = saw /\ store' = store
          /\ outside' = outside /\ issue' = issue /\ overlapped' = overlapped
      BY <1>2, CrashDoes
    <2>2. CASE at[h] \notin Deciding
      BY <2>1, <2>2, IssueFrame DEF Deciding, Issued, Ending
    <2>3. CASE at[h] \in Deciding
      <3>1. ~overlapped => outside["issue"] <= 1 + faults
        BY DEF IssueInv
      <3>2. faults' # 0
        BY <1>0, <2>1
      <3>3. QED
        BY <1>0, <2>1, <2>3, <3>1, <3>2, IssueStep DEF Shown, Issued, Ending
    <2>4. QED
      BY <2>2, <2>3
  <1>3. CASE Diagnose(h)
    <2>1. at[h] \notin Deciding /\ at'[h] \notin Deciding
      BY <1>3, DiagnoseDoes, DiagnosedAt DEF Deciding, Ending
    <2>2. /\ outside'["issue"] = outside["issue"] /\ issue' = issue /\ store'.link = store.link
          /\ ~overlapped' => ~overlapped
      BY <1>3, DiagnoseDoes DEF Sent, Effects, Note
    <2>3. Issued(h)' => Issued(h)
      <3>1. task'[h] = task[h]
        BY <1>3, DiagnoseDoes DEF OneMoves
      <3>2. QED
        BY <1>3, <3>1, DiagnoseDoes, TaskAt, DiagnosedAt DEF Issued, Ending, AfterLook
    <2>4. QED
      BY <1>3, <2>1, <2>2, <2>3, IssueFrame, DiagnoseDoes
  <1>4. CASE PublishCheck(h)
    <2>1. at[h] \notin Deciding /\ at'[h] \notin Deciding
      BY <1>4, PublishCheckDoes DEF Deciding, Ending
    <2>2. /\ outside'["issue"] = outside["issue"] /\ issue' = issue /\ store'.link = store.link
          /\ ~overlapped' => ~overlapped
      BY <1>4, PublishCheckDoes DEF Sent, Effects, Note
    <2>3. Issued(h)' => Issued(h)
      <3>1. task'[h] = task[h]
        BY <1>4, PublishCheckDoes DEF OneMoves
      <3>2. QED
        BY <1>4, <3>1, PublishCheckDoes, TaskAt DEF Issued, Ending, AfterLook
    <2>4. QED
      BY <1>4, <2>1, <2>2, <2>3, IssueFrame, PublishCheckDoes
  <1>5. CASE ListComments(h)
    <2>1. at[h] \notin Deciding /\ at'[h] \notin Deciding
      BY <1>5, ListCommentsDoes, AfterFacts DEF Deciding, Ending
    <2>2. /\ outside'["issue"] = outside["issue"] /\ issue' = issue /\ store'.link = store.link
          /\ ~overlapped' => ~overlapped
      BY <1>5, ListCommentsDoes DEF Sent, Effects, Note
    <2>3. Issued(h)' => Issued(h)
      <3>1. task'[h] = task[h]
        BY <1>5, ListCommentsDoes DEF OneMoves
      <3>2. QED
        BY <1>5, <3>1, ListCommentsDoes, TaskAt, AfterFacts DEF Issued, Ending, AfterLook
    <2>4. QED
      BY <1>5, <2>1, <2>2, <2>3, IssueFrame, ListCommentsDoes
  <1>6. CASE WriteComment(h)
    <2>1. at[h] \notin Deciding /\ at'[h] \notin Deciding
      BY <1>6, WriteCommentDoes, AfterFacts DEF Deciding, Ending
    <2>2. /\ outside'["issue"] = outside["issue"] /\ issue' = issue /\ store'.link = store.link
          /\ ~overlapped' => ~overlapped
      BY <1>6, WriteCommentDoes DEF Sent, Effects, Note
    <2>3. Issued(h)' => Issued(h)
      <3>1. task'[h] = task[h]
        BY <1>6, WriteCommentDoes DEF OneMoves
      <3>2. QED
        BY <1>6, <3>1, WriteCommentDoes, TaskAt, AfterFacts DEF Issued, Ending, AfterLook
    <2>4. QED
      BY <1>6, <2>1, <2>2, <2>3, IssueFrame, WriteCommentDoes
  <1>7. CASE RerunFailedJobs(h)
    <2>1. at[h] \notin Deciding /\ at'[h] \notin Deciding
      BY <1>7, RerunFailedJobsDoes DEF Deciding, Ending
    <2>2. /\ outside'["issue"] = outside["issue"] /\ issue' = issue /\ store'.link = store.link
          /\ ~overlapped' => ~overlapped
      BY <1>7, RerunFailedJobsDoes DEF Sent, Effects, Note
    <2>3. Issued(h)' => Issued(h)
      <3>1. task'[h] = task[h]
        BY <1>7, RerunFailedJobsDoes DEF OneMoves
      <3>2. QED
        BY <1>7, <3>1, RerunFailedJobsDoes, TaskAt DEF Issued, Ending, AfterLook
    <2>4. QED
      BY <1>7, <2>1, <2>2, <2>3, IssueFrame, RerunFailedJobsDoes
  <1>8. CASE FindAttempt(h)
    <2>1. at[h] \notin Deciding /\ at'[h] \notin Deciding
      BY <1>8, FindAttemptDoes DEF Deciding, Ending
    <2>2. /\ outside'["issue"] = outside["issue"] /\ issue' = issue /\ store'.link = store.link
          /\ ~overlapped' => ~overlapped
      BY <1>8, FindAttemptDoes DEF Sent, Effects, Note
    <2>3. Issued(h)' => Issued(h)
      <3>1. task'[h] = task[h]
        BY <1>8, FindAttemptDoes DEF OneMoves
      <3>2. QED
        BY <1>8, <3>1, FindAttemptDoes, TaskAt DEF Issued, Ending, AfterLook
    <2>4. QED
      BY <1>8, <2>1, <2>2, <2>3, IssueFrame, FindAttemptDoes
  <1>9. CASE ClaimAttempt(h)
    <2>1. at[h] \notin Deciding /\ at'[h] \notin Deciding
      BY <1>9, ClaimAttemptDoes DEF Deciding, Ending
    <2>2. /\ outside'["issue"] = outside["issue"] /\ issue' = issue /\ store'.link = store.link
          /\ ~overlapped' => ~overlapped
      BY <1>9, ClaimAttemptDoes DEF Sent, Effects, Note
    <2>3. Issued(h)' => Issued(h)
      <3>1. task'[h] = task[h]
        BY <1>9, ClaimAttemptDoes DEF OneMoves
      <3>2. QED
        BY <1>9, <3>1, ClaimAttemptDoes, TaskAt DEF Issued, Ending, AfterLook
    <2>4. QED
      BY <1>9, <2>1, <2>2, <2>3, IssueFrame, ClaimAttemptDoes
  <1>10. CASE Retry(h)
    <2>1. at[h] \notin Deciding /\ at'[h] \notin Deciding
      BY <1>10, RetryDoes DEF Deciding, Ending
    <2>2. /\ outside'["issue"] = outside["issue"] /\ issue' = issue /\ store'.link = store.link
          /\ ~overlapped' => ~overlapped
      BY <1>10, RetryDoes DEF Sent, Effects, Note
    <2>3. Issued(h)' => Issued(h)
      <3>1. task'[h] = task[h]
        BY <1>10, RetryDoes DEF OneMoves
      <3>2. QED
        BY <1>10, <3>1, RetryDoes, TaskAt DEF Issued, Ending, AfterLook
    <2>4. QED
      BY <1>10, <2>1, <2>2, <2>3, IssueFrame, RetryDoes
  <1>11. CASE SettleAttempt(h)
    <2>1. at[h] \notin Deciding /\ at'[h] \notin Deciding
      BY <1>11, SettleAttemptDoes DEF Deciding, Ending
    <2>2. /\ outside'["issue"] = outside["issue"] /\ issue' = issue /\ store'.link = store.link
          /\ ~overlapped' => ~overlapped
      BY <1>11, SettleAttemptDoes DEF Sent, Effects, Note
    <2>3. Issued(h)' => Issued(h)
      <3>1. task'[h] = task[h]
        BY <1>11, SettleAttemptDoes DEF OneMoves
      <3>2. QED
        BY <1>11, <3>1, SettleAttemptDoes, TaskAt DEF Issued, Ending, AfterLook
    <2>4. QED
      BY <1>11, <2>1, <2>2, <2>3, IssueFrame, SettleAttemptDoes
  <1>12. CASE Audit(h)
    <2>1. at[h] \notin Deciding /\ at'[h] \notin Deciding
      BY <1>12, AuditDoes DEF Deciding, Ending
    <2>2. /\ outside'["issue"] = outside["issue"] /\ issue' = issue /\ store'.link = store.link
          /\ ~overlapped' => ~overlapped
      BY <1>12, AuditDoes DEF Sent, Effects, Note
    <2>3. Issued(h)' => Issued(h)
      <3>1. task'[h] = task[h]
        BY <1>12, AuditDoes DEF OneMoves
      <3>2. QED
        BY <1>12, <3>1, AuditDoes, TaskAt DEF Issued, Ending, AfterLook
    <2>4. QED
      BY <1>12, <2>1, <2>2, <2>3, IssueFrame, AuditDoes
  <1>13. CASE LoadLink(h)
    <2>1. /\ OneMoves(h) /\ at[h] = "find" /\ saw'[h] = store.link
          /\ at'[h] \in {"create", "get", "patch", "remark", "done", "failed"}
          /\ at'[h] = "create" => task[h] = "create" /\ store.link.number = 0
          /\ at'[h] = "get" => task[h] = "refresh" /\ store.link.number > 0
          /\ at'[h] = "patch" => task[h] = "edit" /\ store.link.number > 0
          /\ at'[h] = "done" /\ task[h] = "create" => store.link.number > 0
          /\ store' = store /\ outside' = outside /\ issue' = issue
          /\ ~overlapped' => ~overlapped /\ \A g \in Handlers : g # h => ~Between(g)
      BY <1>13, LoadLinkDoes
    <2>2. at'[h] \notin Shown
      BY <2>1 DEF Shown
    <2>3. ASSUME ~overlapped'
          PROVE  \A g \in Handlers : at[g] \notin Deciding
      BY <2>1, <2>3 DEF Between, Deciding
    <2>4. faults' \in Nat /\ faults <= faults' /\ (faults' = 0 => faults = 0)
      BY <2>1, FaultsGrow
    <2>5. ASSUME ~overlapped'
          PROVE  outside["issue"] <= 1 + faults' /\ (store.link.number = 0 => outside["issue"] <= faults')
      <3>1. outside["issue"] <= 1 + faults /\ (store.link.number = 0 => outside["issue"] <= faults)
        BY <2>1, <2>3, <2>5 DEF IssueInv, Deciding
      <3>2. QED
        BY <1>0, <2>4, <3>1
    <2>6. faults' = 0 /\ ~overlapped' => store.link = issue
      BY <2>1, <2>3, <2>4 DEF IssueInv, Deciding
    <2>7. Issued(h)' => store.link.number > 0
      BY <2>1 DEF Issued, Ending, OneMoves
    <2>8. at'[h] \in {"get", "patch"} => outside["issue"] > 0
      BY <1>0, <2>1
    <2>9. QED
      BY <1>0, <2>1, <2>2, <2>5, <2>6, <2>7, <2>8, IssueStep
  <1>14. CASE CreateIssue(h)
    <2>1. /\ OneMoves(h) /\ at[h] = "create" /\ at'[h] \in {"link", "failed"} /\ Sent("issue")
          /\ at'[h] = "link" => outside'["issue"] = outside["issue"] + 1
          /\ at'[h] = "failed" => faults' = faults + 1
          /\ saw'[h].number = outside'["issue"]
          /\ issue' = IF outside' = outside THEN issue ELSE saw'[h]
          /\ store' = store /\ overlapped' = overlapped
      BY <1>14, CreateIssueDoes
    <2>2. /\ outside'["issue"] \in Nat /\ outside["issue"] <= outside'["issue"]
          /\ outside'["issue"] <= outside["issue"] + 1
      BY <2>1 DEF Sent, Effects
    <2>3. faults' \in Nat /\ faults <= faults' /\ (faults' = 0 => faults = 0 /\ faults' = faults)
      BY <2>1, FaultsGrow
    <2>4. issue'.number = outside'["issue"]
      BY <1>0, <2>1
    <2>5. store'.link.number <= outside'["issue"]
      BY <1>0, <2>1, <2>2
    <2>6. at'[h] \in Shown => 0 < saw'[h].number /\ saw'[h].number <= outside'["issue"]
      BY <1>0, <2>1, <2>2 DEF Shown
    <2>7. ASSUME ~overlapped'
          PROVE  outside'["issue"] <= 1 + faults' /\ (at'[h] # "link" => outside'["issue"] <= faults')
      <3>1. outside["issue"] <= faults
        BY <2>1, <2>7 DEF IssueInv
      <3>2. QED
        BY <1>0, <2>1, <2>2, <2>3, <3>1
    <2>8. faults' = 0 => at'[h] = "link" /\ saw'[h] = issue'
      <3>1. faults' = 0 => at'[h] = "link"
        BY <1>0, <2>1
      <3>2. at'[h] = "link" => outside' # outside
        BY <1>0, <2>1
      <3>3. QED
        BY <2>1, <3>1, <3>2
    <2>9. ~(Issued(h)') /\ at'[h] \notin {"get", "patch", "create"}
      BY <2>1 DEF Issued, Ending
    <2>10. at[h] \in Deciding
      BY <2>1 DEF Deciding
    <2>11. at'[h] \in Shown <=> at'[h] = "link"
      BY <2>1 DEF Shown
    <2>12. ~overlapped' => ~overlapped
      BY <2>1
    <2>13. store'.link = store.link
      BY <2>1
    <2>14. QED
      BY <2>1, <2>2, <2>4, <2>5, <2>6, <2>7, <2>8, <2>9, <2>10, <2>11, <2>12, <2>13, IssueStep
  <1>15. CASE GetIssue(h)
    <2>1. /\ OneMoves(h) /\ at[h] = "get" /\ at'[h] \in {"link", "failed"}
          /\ at'[h] = "link" => saw'[h] = issue
          /\ store' = store /\ outside' = outside /\ issue' = issue /\ overlapped' = overlapped
      BY <1>15, GetIssueDoes
    <2>2. at[h] \in Deciding /\ outside["issue"] > 0
      BY <2>1 DEF IssueInv, Deciding
    <2>3. faults' \in Nat /\ faults <= faults' /\ (faults' = 0 => faults = 0)
      BY <2>1, FaultsGrow
    <2>4. at'[h] \in Shown <=> at'[h] = "link"
      BY <2>1 DEF Shown
    <2>5. ASSUME ~overlapped'
          PROVE  /\ outside["issue"] <= 1 + faults'
                 /\ store.link.number = 0 => outside["issue"] <= faults'
                 /\ faults' = 0 => store.link = issue
      <3>1. \A g \in Handlers : at[g] \notin Shown
        BY <2>1, <2>2, <2>5, DecideAlone DEF Shown, Deciding
      <3>2. /\ outside["issue"] <= 1 + faults
            /\ store.link.number = 0 => outside["issue"] <= faults
            /\ faults = 0 => store.link = issue
        BY <2>1, <2>5, <3>1 DEF IssueInv, Shown
      <3>3. QED
        BY <1>0, <2>3, <3>2
    <2>6. ~(Issued(h)') /\ at'[h] \notin {"get", "patch", "create"}
      BY <2>1 DEF Issued, Ending
    <2>7. QED
      BY <1>0, <2>1, <2>2, <2>4, <2>5, <2>6, IssueStep
  <1>16. CASE UpdateIssue(h)
    <2>1. /\ OneMoves(h) /\ at[h] = "patch" /\ at'[h] \in {"lock", "failed"}
          /\ at'[h] = "failed" => faults' = faults + 1
          /\ issue'.number = issue.number /\ saw'[h] = issue'
          /\ store' = store /\ outside' = outside /\ overlapped' = overlapped
      BY <1>16, UpdateIssueDoes
    <2>2. at[h] \in Deciding /\ outside["issue"] > 0
      BY <2>1 DEF IssueInv, Deciding
    <2>3. faults' \in Nat /\ faults <= faults'
      BY <2>1, FaultsGrow
    <2>4. at'[h] \in Shown <=> at'[h] = "lock"
      BY <2>1 DEF Shown
    <2>5. ASSUME ~overlapped'
          PROVE  /\ outside["issue"] <= 1 + faults'
                 /\ store.link.number = 0 => outside["issue"] <= faults'
      <3>1. \A g \in Handlers : at[g] \notin Shown
        BY <2>1, <2>2, <2>5, DecideAlone DEF Shown, Deciding
      <3>2. /\ outside["issue"] <= 1 + faults
            /\ store.link.number = 0 => outside["issue"] <= faults
        BY <2>1, <2>5, <3>1 DEF IssueInv, Shown
      <3>3. QED
        BY <1>0, <2>3, <3>2
    <2>6. ~(Issued(h)') /\ at'[h] \notin {"get", "patch", "create"}
      BY <2>1 DEF Issued, Ending
    <2>7. faults' = 0 => at'[h] = "lock"
      BY <1>0, <2>1
    <2>8. QED
      BY <1>0, <2>1, <2>2, <2>4, <2>5, <2>6, <2>7, IssueStep
  <1>17. CASE LockIssue(h)
    <2>1. /\ OneMoves(h) /\ at[h] = "lock" /\ at'[h] \in {"link", "failed"}
          /\ at'[h] = "failed" => faults' = faults + 1
          /\ issue'.number = issue.number /\ saw'[h].number = saw[h].number
          /\ faults' = faults /\ saw[h] = issue => saw'[h] = issue'
          /\ store' = store /\ outside' = outside /\ overlapped' = overlapped
      BY <1>17, LockIssueDoes
    <2>2. at[h] \in Deciding /\ 0 < saw[h].number /\ saw[h].number <= outside["issue"]
      BY <2>1 DEF IssueInv, Deciding
    <2>3. faults' \in Nat /\ faults <= faults' /\ (faults' = 0 => faults = 0 /\ faults' = faults)
      BY <2>1, FaultsGrow
    <2>4. at'[h] \in Shown <=> at'[h] = "link"
      BY <2>1 DEF Shown
    <2>5. ASSUME ~overlapped'
          PROVE  /\ outside["issue"] <= 1 + faults'
                 /\ store.link.number = 0 => outside["issue"] <= faults'
      <3>1. \A g \in Handlers : at[g] # "link"
        BY <2>1, <2>2, <2>5, DecideAlone DEF Deciding
      <3>2. /\ outside["issue"] <= 1 + faults
            /\ store.link.number = 0 => outside["issue"] <= faults
        BY <2>1, <2>5, <3>1 DEF IssueInv
      <3>3. QED
        BY <1>0, <2>3, <3>2
    <2>6. ~(Issued(h)') /\ at'[h] \notin {"get", "patch", "create"}
      BY <2>1 DEF Issued, Ending
    <2>7. faults' = 0 => at'[h] = "link"
      BY <1>0, <2>1
    <2>8. faults' = 0 /\ ~overlapped' => saw'[h] = issue'
      BY <2>1, <2>3 DEF IssueInv
    <2>9. QED
      BY <1>0, <2>1, <2>2, <2>4, <2>5, <2>6, <2>7, <2>8, IssueStep
  <1>18. CASE CommentIssue(h)
    <2>1. at[h] \notin Deciding /\ at'[h] \notin Deciding
      BY <1>18, CommentIssueDoes DEF Deciding, Ending
    <2>2. /\ outside'["issue"] = outside["issue"] /\ issue' = issue /\ store'.link = store.link
          /\ ~overlapped' => ~overlapped
      BY <1>18, CommentIssueDoes DEF Sent, Effects, Note
    <2>3. Issued(h)' => Issued(h)
      <3>1. task'[h] = task[h]
        BY <1>18, CommentIssueDoes DEF OneMoves
      <3>2. QED
        BY <1>18, <3>1, CommentIssueDoes, TaskAt DEF Issued, Ending, AfterLook
    <2>4. QED
      BY <1>18, <2>1, <2>2, <2>3, IssueFrame, CommentIssueDoes
  <1>19. CASE SaveLink(h)
    <2>1. /\ OneMoves(h) /\ at[h] = "link" /\ at'[h] \in {"audit", "done", "failed"}
          /\ at'[h] = "failed" => faults' = faults + 1
          /\ at'[h] # "failed" => store'.link = saw[h]
          /\ store'.link = saw[h] \/ store'.link = store.link
          /\ saw' = saw /\ outside' = outside /\ issue' = issue /\ overlapped' = overlapped
      BY <1>19, SaveLinkDoes
    <2>2. at[h] \in Deciding /\ 0 < saw[h].number /\ saw[h].number <= outside["issue"]
      BY <2>1 DEF IssueInv, Deciding
    <2>3. faults' \in Nat /\ faults <= faults' /\ (faults' = 0 => faults = 0 /\ faults' = faults)
      BY <2>1, FaultsGrow
    <2>4. at'[h] \notin Shown /\ at'[h] \notin {"get", "patch", "create"}
      BY <2>1 DEF Shown
    <2>5. faults' = 0 => at'[h] # "failed" /\ store'.link = saw[h]
      BY <1>0, <2>1
    <2>6. ASSUME ~overlapped'
          PROVE  /\ outside["issue"] <= 1 + faults'
                 /\ store'.link.number = 0 => outside["issue"] <= faults'
      <3>1. outside["issue"] <= 1 + faults
        BY <2>1, <2>6 DEF IssueInv
      <3>2. store'.link.number = 0 => faults' = faults + 1
        BY <1>0, <2>1, <2>2
      <3>3. QED
        BY <1>0, <2>3, <3>1, <3>2
    <2>7. faults' = 0 /\ ~overlapped' => store'.link = issue'
      BY <2>1, <2>3, <2>5 DEF IssueInv
    <2>8. store'.link.number <= outside["issue"]
      BY <1>0, <2>1, <2>2
    <2>9. faults' = 0 => store'.link.number > 0
      BY <1>0, <2>2, <2>5
    <2>10. QED
      BY <1>0, <2>1, <2>2, <2>4, <2>6, <2>7, <2>8, <2>9, IssueStep
  <1>20. CASE RecordDelivery(h)
    <2>1. at[h] \notin Deciding /\ at'[h] \notin Deciding
      BY <1>20, RecordDeliveryDoes DEF Deciding, Ending
    <2>2. /\ outside'["issue"] = outside["issue"] /\ issue' = issue /\ store'.link = store.link
          /\ ~overlapped' => ~overlapped
      BY <1>20, RecordDeliveryDoes DEF Sent, Effects, Note
    <2>3. Issued(h)' => Issued(h)
      <3>1. task'[h] = task[h]
        BY <1>20, RecordDeliveryDoes DEF OneMoves
      <3>2. QED
        BY <1>20, <3>1, RecordDeliveryDoes, TaskAt DEF Issued, Ending, AfterLook
    <2>4. QED
      BY <1>20, <2>1, <2>2, <2>3, IssueFrame, RecordDeliveryDoes
  <1>21. CASE PerformChatAction(h)
    <2>1. at[h] \notin Deciding /\ at'[h] \notin Deciding
      BY <1>21, PerformChatActionDoes DEF Deciding, Ending
    <2>2. /\ outside'["issue"] = outside["issue"] /\ issue' = issue /\ store'.link = store.link
          /\ ~overlapped' => ~overlapped
      BY <1>21, PerformChatActionDoes DEF Sent, Effects, Note
    <2>3. Issued(h)' => Issued(h)
      <3>1. task'[h] = task[h]
        BY <1>21, PerformChatActionDoes DEF OneMoves
      <3>2. QED
        BY <1>21, <3>1, PerformChatActionDoes, TaskAt DEF Issued, Ending, AfterLook
    <2>4. QED
      BY <1>21, <2>1, <2>2, <2>3, IssueFrame, PerformChatActionDoes
  <1>22. QED
    BY <1>1, <1>2, <1>3, <1>4, <1>5, <1>6, <1>7, <1>8, <1>9, <1>10, <1>11, <1>12, <1>13, <1>14, <1>15, <1>16, <1>17, <1>18, <1>19, <1>20, <1>21
       DEF HandlerStep

-----------------------------------------------------------------------------
(* All of it *)

LEMMA EffectsStart ==
  ASSUME NEW tasks \in [Handlers -> TaskNames],
         ~ \E g, h \in Handlers : tasks[g] = "gitlab" /\ tasks[h] = "bare",
         EffectsInit(tasks), faults = 0
  PROVE  EffectsInv
  <1>1. /\ task = tasks /\ at = [h \in Handlers |-> "idle"] /\ saw = [h \in Handlers |-> Unlinked]
        /\ store = [facts |-> {}, attempt |-> "none", link |-> Unlinked, claimed |-> FALSE, audits |-> {}]
        /\ outside = [e \in Effects |-> 0] /\ issue = Unlinked /\ ~overlapped
        /\ search \in [on : BOOLEAN, missed : {0}]
    BY Zenon DEF EffectsInit
  <1>2. IsLink(Unlinked) /\ Unlinked.number = 0
    <2>1. Unlinked = [number |-> Unlinked.number, state |-> Unlinked.state, locked |-> Unlinked.locked]
      BY Zenon DEF Unlinked
    <2>2. Unlinked.number = 0
      BY Zenon DEF Unlinked
    <2>3. QED
      BY <2>1, <2>2 DEF IsLink
  <1>3. store.facts = {} /\ store.attempt = "none" /\ store.link = Unlinked /\ ~store.claimed
    BY Zenon, <1>1
  <1>4. IsStore(store)
    <2>1. store = [facts |-> store.facts, attempt |-> store.attempt, link |-> store.link,
                   claimed |-> store.claimed, audits |-> store.audits]
      BY Zenon, <1>1
    <2>2. QED
      BY <1>2, <1>3, <2>1 DEF IsStore
  <1>5. \A h \in Handlers : at[h] = "idle" /\ saw[h] = Unlinked
    BY <1>1
  <1>6. \A e \in Effects : outside[e] = 0
    BY <1>1
  <1>7. EffectsTypes
    <2>1. \A h \in Handlers : Fits(h)
      BY <1>5 DEF Fits, Allowed, Places, AfterLook
    <2>2. Unlinked = [Unlinked EXCEPT !.number = Unlinked.number]
      BY <1>2 DEF IsLink
    <2>3. /\ DOMAIN at = Handlers /\ at = [h \in Handlers |-> at[h]] /\ saw = [h \in Handlers |-> saw[h]]
          /\ outside \in [Effects -> Nat]
      BY <1>1
    <2>4. search = [on |-> search.on, missed |-> search.missed] /\ search.missed = 0
      BY <1>1
    <2>5. QED
      BY <1>1, <1>2, <1>4, <1>5, <2>1, <2>2, <2>3, <2>4 DEF EffectsTypes
  <1>8. LookedAlone
    BY <1>5 DEF LookedAlone, Between
  <1>9. ChatInv
    BY <1>3, <1>5, <1>6 DEF ChatInv, Effects, Ending
  <1>10. PastInv
    <2>1. \A e \in Authored : Cardinality(Past(e)) \in Nat /\ outside[e] = 0
      BY <1>6, <1>7, PastFinite DEF Authored, Effects
    <2>2. QED
      BY <2>1 DEF PastInv
  <1>11. RetryInv
    BY <1>3, <1>5, <1>6 DEF RetryInv, Effects, InRetry, Ending
  <1>12. CommentInv
    BY <1>5, <1>6, <1>7 DEF EffectsTypes, CommentInv, Effects, AfterLook, Ending
  <1>13. FactsInv
    BY <1>5, <1>6 DEF FactsInv, Effects, Diagnosed, AfterLook, Ending
  <1>14. IssueInv
    BY <1>1, <1>2, <1>3, <1>5, <1>6 DEF IssueInv, Effects, Ending
  <1>15. QED
    BY <1>7, <1>8, <1>9, <1>10, <1>11, <1>12, <1>13, <1>14 DEF EffectsInv

LEMMA EffectsKept ==
  ASSUME EffectsInv, EffectsStep
  PROVE  EffectsInv'
  <1>1. PICK h \in Handlers : HandlerStep(h)
    BY Zenon DEF EffectsStep, HandlerStep
  <1>2. /\ EffectsTypes /\ LookedAlone
        /\ ChatInv /\ PastInv /\ RetryInv /\ CommentInv /\ FactsInv /\ IssueInv
    BY DEF EffectsInv
  <1>3. EffectsTypes'
    BY <1>1, <1>2, TypesKept
  <1>4. LookedAlone' /\ ChatInv' /\ PastInv'
    BY <1>1, <1>2, <1>3, AloneKept, ChatKept, PastKept
  <1>5. RetryInv' /\ CommentInv' /\ FactsInv' /\ IssueInv'
    BY <1>1, <1>2, RetryKept, CommentKept, FactsKept, IssueKept
  <1>6. QED
    BY <1>3, <1>4, <1>5 DEF EffectsInv

(* A fault elsewhere takes nothing away. *)
Counted == faults' = faults \/ faults' = faults + 1

LEMMA EffectsUntouched ==
  ASSUME EffectsInv, UNCHANGED effectVars, Counted
  PROVE  EffectsInv'
  <1>1. /\ task' = task /\ at' = at /\ saw' = saw /\ store' = store /\ outside' = outside /\ issue' = issue
        /\ overlapped' = overlapped /\ search' = search
    BY DEF effectVars
  <1>2. faults \in Nat /\ faults' \in Nat /\ faults <= faults' /\ (faults' = 0 => faults = 0)
    BY DEF Counted, EffectsInv, EffectsTypes
  <1>3. EffectsTypes'
    BY <1>1, <1>2 DEF EffectsInv, EffectsTypes, Fits
  <1>4. LookedAlone' /\ ChatInv'
    BY <1>1, <1>2 DEF EffectsInv, LookedAlone, Between, ChatInv
  <1>5. /\ outside["note"] \in Nat /\ outside["issue"] \in Nat /\ search.missed \in Nat
    BY DEF EffectsInv, EffectsTypes, Effects
  <1>6. PastInv'
    <2> SUFFICES ASSUME NEW e \in Authored PROVE outside'[e] <= Cardinality(Past(e)') + faults'
      BY DEF PastInv
    <2>1. Past(e)' = Past(e)
      BY <1>1 DEF Past
    <2>2. Cardinality(Past(e)) \in Nat /\ outside[e] \in Nat /\ outside[e] <= Cardinality(Past(e)) + faults
      BY PastFinite DEF EffectsInv, PastInv
    <2>3. QED
      BY <1>1, <1>2, <2>1, <2>2
  <1>7. RetryInv'
    BY <1>1, <1>2 DEF EffectsInv, RetryInv
  <1>8. CommentInv'
    BY <1>1, <1>2, <1>5 DEF EffectsInv, CommentInv, Note
  <1>9. FactsInv'
    BY <1>1, <1>2 DEF EffectsInv, FactsInv
  <1>10. IssueInv'
    BY <1>1, <1>2, <1>5 DEF EffectsInv, IssueInv
  <1>11. QED
    BY <1>3, <1>4, <1>6, <1>7, <1>8, <1>9, <1>10 DEF EffectsInv

(* The property follows. *)
LEMMA EffectsMatch ==
  ASSUME EffectsInv
  PROVE  OutsideMatchesRecords
  <1>1. /\ EffectsTypes /\ ChatInv /\ PastInv /\ RetryInv /\ CommentInv /\ FactsInv /\ IssueInv
    BY DEF EffectsInv
  <1>2. \A e \in Effects : outside[e] \in Nat
    BY <1>1 DEF EffectsTypes
  <1>3. NothingTwice
    <2>4. ASSUME NEW e \in Authored
          PROVE  outside[e] <= Cardinality({h \in Handlers : task[h] = Author(e)}) + faults
      <3> DEFINE Authors == {h \in Handlers : task[h] = Author(e)}
      <3>1. IsFiniteSet(Authors)
        BY FS_Subset, RemediationAssumption
      <3>2. Past(e) \subseteq Authors
        BY DEF Past
      <3>3. Cardinality(Past(e)) <= Cardinality(Authors) /\ Cardinality(Authors) \in Nat
        BY <3>1, <3>2, FS_Subset, FS_CardinalityType
      <3> HIDE DEF Authors
      <3>4. outside[e] <= Cardinality(Authors) + faults
        BY <1>1, <3>3, PastFinite DEF PastInv, EffectsTypes
      <3>5. QED
        BY <3>4 DEF Authors
    <2>5. outside["action"] <= 1
      BY <1>1 DEF ChatInv
    <2>6. ~overlapped =>
            /\ outside["retry"] <= 1 /\ outside["comment"] <= 1 + search.missed
            /\ outside["note"] <= 1 + faults + search.missed /\ outside["issue"] <= 1 + faults
      BY <1>1 DEF RetryInv, CommentInv, IssueInv
    <2>7. QED
      BY <2>4, <2>5, <2>6 DEF NothingTwice, Authored
  <1>4. /\ outside["retry"] > 0 => store.attempt # "none"
        /\ store.link.number <= outside["issue"]
        /\ outside["action"] > 0 => store.claimed
    BY <1>1 DEF RetryInv, IssueInv, ChatInv
  <1>5. (outside["retry"] + outside["rerun"] + outside["note"] + outside["comment"] > 0) => "analysis" \in store.facts
    <2>1. /\ outside["retry"] \in Nat /\ outside["rerun"] \in Nat /\ outside["note"] \in Nat /\ outside["comment"] \in Nat
      BY <1>2 DEF Effects
    <2>2. /\ outside["retry"] > 0 => "analysis" \in store.facts
          /\ outside["rerun"] > 0 => "analysis" \in store.facts
          /\ outside["note"] > 0 => "analysis" \in store.facts
          /\ outside["comment"] > 0 => "analysis" \in store.facts
      BY <1>1 DEF FactsInv
    <2>3. QED
      BY <2>1, <2>2
  <1>6. ASSUME faults = 0, ~overlapped, \A h \in Handlers : task[h] # "idle" => at[h] = "done"
        PROVE  /\ (store.attempt = "requested") = (outside["retry"] = 1)
               /\ store.link = issue
               /\ \A h \in Handlers :
                     CASE task[h] = "gitlab" -> outside["note"] \in 1..1 + search.missed /\ outside["retry"] = 1 /\ store.facts = Facts
                       [] task[h] = "bare" -> outside["retry"] = 0 /\ store.attempt = "failed"
                       [] task[h] = "workflow" -> outside["comment"] \in 1..1 + search.missed /\ store.facts = Facts
                       [] task[h] = "create" -> issue.number = 1
                       [] task[h] = "slack" -> outside["action"] = 1
                       [] OTHER -> TRUE
    <2>1. \A h \in Handlers : at[h] \notin InRetry /\ at[h] \notin {"lock", "link"} /\ at[h] # "act"
      <3> SUFFICES ASSUME NEW h \in Handlers
                   PROVE  at[h] \notin InRetry /\ at[h] \notin {"lock", "link"} /\ at[h] # "act"
        OBVIOUS
      <3>1. CASE task[h] = "idle"
        BY <1>1, <3>1, TaskAt DEF InRetry, AfterLook
      <3>2. CASE task[h] # "idle"
        BY <1>6, <3>2 DEF InRetry
      <3>3. QED
        BY <3>1, <3>2
    <2>2. store.attempt \in {"none", "requesting", "requested", "failed"}
      BY <1>1 DEF EffectsTypes, IsStore
    <2>3. store.attempt # "requesting"
      BY <1>1, <1>6, <2>1 DEF RetryInv
    <2>4. /\ outside["retry"] > 0 => store.attempt # "none" /\ \E g \in Handlers : task[g] = "gitlab"
          /\ store.attempt = "requested" => outside["retry"] = 1
          /\ store.attempt = "failed" => outside["retry"] = 0 /\ \E h \in Handlers : task[h] = "bare"
          /\ \A h \in Handlers : task[h] \in {"gitlab", "bare"} /\ at[h] \in Ending => store.attempt # "none"
      BY <1>1, <1>6 DEF RetryInv
    <2>5. outside["retry"] = 1 => store.attempt = "requested"
      BY <2>2, <2>3, <2>4
    <2>6. store.link = issue
      BY <1>1, <1>6, <2>1 DEF IssueInv
    <2>7. ASSUME NEW h \in Handlers, task[h] = "gitlab"
          PROVE  outside["note"] \in 1..1 + search.missed /\ outside["retry"] = 1 /\ store.facts = Facts
      <3>1. at[h] = "done"
        BY <1>6, <2>7
      <3>2. outside["note"] \in 1..1 + search.missed
        <4>1. outside["note"] \in Nat /\ search.missed \in Nat /\ outside["note"] <= 1 + search.missed
          BY <1>1, <1>2, <1>6 DEF CommentInv, Effects, EffectsTypes
        <4>2. outside["note"] > 0
          BY <1>1, <1>6, <2>7, <3>1 DEF CommentInv, Ending
        <4>3. QED
          BY <4>1, <4>2
      <3>3. store.attempt # "none"
        BY <2>4, <2>7, <3>1 DEF Ending
      <3>4. store.attempt # "failed"
        BY <1>1, <2>4, <2>7 DEF EffectsTypes
      <3>5. outside["retry"] = 1
        BY <2>2, <2>3, <2>4, <3>3, <3>4
      <3>6. store.facts = Facts
        BY <1>1, <1>6, <2>7, <3>1 DEF FactsInv, Ending
      <3>7. QED
        BY <3>2, <3>5, <3>6
    <2>8. ASSUME NEW h \in Handlers, task[h] = "bare"
          PROVE  outside["retry"] = 0 /\ store.attempt = "failed"
      <3>1. at[h] = "done"
        BY <1>6, <2>8
      <3>2. store.attempt # "none"
        BY <2>4, <2>8, <3>1 DEF Ending
      <3>3. ~(outside["retry"] > 0)
        BY <1>1, <2>4, <2>8 DEF EffectsTypes
      <3>4. outside["retry"] = 0
        BY <1>2, <3>3 DEF Effects
      <3>5. QED
        BY <2>2, <2>3, <2>4, <3>2, <3>4
    <2>9. ASSUME NEW h \in Handlers, task[h] = "workflow"
          PROVE  outside["comment"] \in 1..1 + search.missed /\ store.facts = Facts
      <3>1. at[h] = "done"
        BY <1>6, <2>9
      <3>2. outside["comment"] \in Nat /\ search.missed \in Nat /\ outside["comment"] <= 1 + search.missed
        BY <1>1, <1>2, <1>6 DEF CommentInv, Effects, EffectsTypes
      <3>3. outside["comment"] > 0
        BY <1>1, <1>6, <2>9, <3>1 DEF CommentInv, Ending
      <3>4. store.facts = Facts
        BY <1>1, <1>6, <2>9, <3>1 DEF FactsInv, Ending
      <3>5. QED
        BY <3>2, <3>3, <3>4
    <2>10. ASSUME NEW h \in Handlers, task[h] = "create"
           PROVE  issue.number = 1
      <3>1. at[h] = "done"
        BY <1>6, <2>10
      <3>2. /\ outside["issue"] \in Nat /\ outside["issue"] <= 1 + 0 /\ issue.number = outside["issue"]
            /\ store.link.number \in Nat /\ store.link.number <= outside["issue"]
        BY <1>1, <1>6, IssueNats DEF IssueInv
      <3>3. store.link.number > 0
        BY <1>1, <1>6, <2>10, <3>1 DEF IssueInv, Ending
      <3>4. QED
        BY <3>2, <3>3
    <2>11. ASSUME NEW h \in Handlers, task[h] = "slack"
           PROVE  outside["action"] = 1
      <3>1. at[h] = "done"
        BY <1>6, <2>11
      <3>2. store.claimed
        BY <1>1, <1>6, <2>11, <3>1 DEF ChatInv, Ending
      <3>3. QED
        BY <1>1, <1>6, <2>1, <3>2 DEF ChatInv
    <2>12. (store.attempt = "requested") = (outside["retry"] = 1)
      BY <2>4, <2>5
    <2>13. QED
      BY <2>6, <2>7, <2>8, <2>9, <2>10, <2>11, <2>12
  <1>7. RecordsTrue
    BY <1>4, <1>5, <1>6 DEF RecordsTrue
  <1>8. QED
    BY <1>3, <1>7 DEF OutsideMatchesRecords

-----------------------------------------------------------------------------
(* The scenes share only the count of faults. *)

RemediationInv == FaultsOK /\ LogInv /\ DraftInv /\ ApplyInv /\ EffectsInv

LEMMA RemediationStart == Init => RemediationInv
  <1> SUFFICES ASSUME Init PROVE RemediationInv
    OBVIOUS
  <1>1. FaultsOK
    BY DEF Init, FaultsOK
  <1>2. LogInv
    BY LogStart DEF Init
  <1>3. DraftInv
    <2>1. PICK kinds \in (IF scene = "draft" THEN JobKinds ELSE {NoJob}) : DraftInit(kinds)
      BY DEF Init
    <2>2. kinds \in [Workers -> {"auto", "explicit", "none"}]
      BY <2>1, RemediationAssumption DEF NoJob
    <2>3. \A w \in Workers : kinds[w] \in {"auto", "explicit", "none"}
      BY <2>2
    <2>4. QED
      BY <2>1, <2>2, <2>3, DraftStart
  <1>4. ApplyInv
    BY ApplyStart DEF Init
  <1>5. EffectsInv
    <2>1. PICK tasks \in (IF scene = "effects" THEN Teams ELSE {NoTask}) : EffectsInit(tasks)
      BY DEF Init
    <2>2. /\ tasks \in [Handlers -> TaskNames]
          /\ ~ \E g, h \in Handlers : tasks[g] = "gitlab" /\ tasks[h] = "bare"
      BY <2>1, RemediationAssumption DEF NoTask, TaskNames
    <2>3. faults = 0
      BY DEF Init
    <2>4. QED
      BY <2>1, <2>2, <2>3, EffectsStart
  <1>6. QED
    BY <1>1, <1>2, <1>3, <1>4, <1>5 DEF RemediationInv

LEMMA LogUntouched ==
  ASSUME LogInv, UNCHANGED fetch
  PROVE  LogInv'
  BY DEF LogInv, Pending

LEMMA DraftUntouched ==
  ASSUME DraftInv, UNCHANGED draftVars
  PROVE  DraftInv'
  BY DEF DraftInv, DraftTypeOK, draftVars, Worked, Good

LEMMA ApplyUntouched ==
  ASSUME ApplyInv, UNCHANGED applyVars
  PROVE  ApplyInv'
  <1>1. ApplyTypeOK' /\ FoundAsPlanned'
    BY DEF ApplyInv, applyVars, ApplyTypeOK, FoundAsPlanned, Planned, Exists
  <1>2. Progress'
    BY DEF ApplyInv, applyVars, Progress, IsNew, AsFound, Current, Planned, Exists
  <1>3. TakingBack'
    BY DEF ApplyInv, applyVars, TakingBack, IsNew, AsFound, Planned, Exists, WithinBudget, Budget
  <1>4. BackedUp' /\ Finishing'
    BY DEF ApplyInv, applyVars, BackedUp, Finishing, Exists, Here, WithinBudget, Budget
  <1>5. NothingLost'
    BY DEF ApplyInv, applyVars, NothingLost, Exists, Has, InHand
  <1>6. QED
    BY <1>1, <1>2, <1>3, <1>4, <1>5 DEF ApplyInv

(* Every step of the other scenes counts at most one fault. *)
LEMMA CountsFacts ==
  ASSUME Fine \/ Fault
  PROVE  Counted
  BY DEF Fine, Fault, Counted

LEMMA LogCounts ==
  ASSUME LogStep
  PROVE  Counted
  <1>1. Fine \/ Fault
    BY DEF LogStep, Inline, Missing, Whole, List, Piece, LastPiece
  <1>2. QED
    BY <1>1, CountsFacts

LEMMA DraftCounts ==
  ASSUME DraftStep
  PROVE  Counted
  <1>1. ASSUME NEW w \in Workers,
               \/ Enhance(w) \/ ReadProposal(w) \/ FindResult(w) \/ FindPull(w) \/ CreateBranch(w)
               \/ (\E p \in Paths : ReadFile(w, p))
        PROVE  Fine \/ Fault
    BY <1>1 DEF Enhance, ReadProposal, FindResult, FindPull, CreateBranch, ReadFile
  <1>2. ASSUME NEW w \in Workers,
               \/ PutFile(w) \/ FindPullAgain(w) \/ OpenPull(w)
               \/ StoreResult(w) \/ Announce(w) \/ WorkerDies(w)
        PROVE  Fine \/ Fault
    BY <1>2 DEF PutFile, FindPullAgain, OpenPull, StoreResult, Announce, WorkerDies
  <1>3. ASSUME NEW c \in Patches, NEW p \in Paths, Push(c, p)
        PROVE  Fine
    BY <1>3 DEF Push, Fine
  <1>4. Fine \/ Fault
    BY <1>1, <1>2, <1>3 DEF DraftStep
  <1>5. QED
    BY <1>4, CountsFacts

LEMMA ApplyCounts ==
  ASSUME ApplyStep
  PROVE  Counted
  <1>1. CASE \/ Begin \/ Return \/ (\E f \in Files : Edit(f))
    BY <1>1 DEF Begin, Return, Edit, Counted
  <1>2. CASE \/ Backup \/ Temp \/ Unstage \/ Verify \/ Link \/ Unlink \/ Aside
    BY <1>2, CountsFacts DEF Backup, Temp, Unstage, Verify, Link, Unlink, Aside, Failed
  <1>3. CASE \/ Place \/ Restore \/ Undo \/ MoveBack \/ Sweep \/ Clean \/ Dies
    BY <1>3, CountsFacts DEF Place, Restore, Undo, MoveBack, Sweep, Clean, Dies, Failed
  <1>4. QED
    BY <1>1, <1>2, <1>3 DEF ApplyStep

LEMMA RemediationKept == RemediationInv /\ [Next]_vars => RemediationInv'
  <1> SUFFICES ASSUME RemediationInv, [Next]_vars PROVE RemediationInv'
    OBVIOUS
  <1>1. LogInv /\ DraftInv /\ ApplyInv /\ EffectsInv /\ FaultsOK
    BY DEF RemediationInv
  <1>2. ASSUME Counted PROVE FaultsOK'
    BY <1>1, <1>2 DEF Counted, FaultsOK
  <1>3. CASE UNCHANGED vars
    <2>1. UNCHANGED fetch /\ UNCHANGED draftVars /\ UNCHANGED applyVars /\ UNCHANGED effectVars /\ Counted
      BY <1>3 DEF vars, Counted
    <2>2. QED
      BY <1>1, <1>2, <2>1, LogUntouched, DraftUntouched, ApplyUntouched, EffectsUntouched DEF RemediationInv
  <1>4. CASE LogStep /\ UNCHANGED <<effectVars, draftVars, applyVars>>
    <2>1. UNCHANGED draftVars /\ UNCHANGED applyVars /\ UNCHANGED effectVars /\ Counted
      BY <1>4, LogCounts
    <2>2. QED
      BY <1>1, <1>2, <1>4, <2>1, LogKept, DraftUntouched, ApplyUntouched, EffectsUntouched DEF RemediationInv
  <1>5. CASE EffectsStep /\ UNCHANGED <<fetch, draftVars, applyVars>>
    <2>1. UNCHANGED fetch /\ UNCHANGED draftVars /\ UNCHANGED applyVars
      BY <1>5
    <2>2. EffectsInv'
      BY <1>1, <1>5, EffectsKept
    <2>3. FaultsOK'
      BY <2>2 DEF EffectsInv, EffectsTypes, FaultsOK
    <2>4. QED
      BY <1>1, <2>1, <2>2, <2>3, LogUntouched, DraftUntouched, ApplyUntouched DEF RemediationInv
  <1>6. CASE DraftStep /\ UNCHANGED <<fetch, effectVars, applyVars>>
    <2>1. UNCHANGED fetch /\ UNCHANGED applyVars /\ UNCHANGED effectVars /\ Counted
      BY <1>6, DraftCounts
    <2>2. QED
      BY <1>1, <1>2, <1>6, <2>1, LogUntouched, DraftKept, ApplyUntouched, EffectsUntouched DEF RemediationInv
  <1>7. CASE ApplyStep /\ UNCHANGED <<fetch, effectVars, draftVars>>
    <2>1. UNCHANGED fetch /\ UNCHANGED draftVars /\ UNCHANGED effectVars /\ Counted
      BY <1>7, ApplyCounts
    <2>2. QED
      BY <1>1, <1>2, <1>7, <2>1, LogUntouched, DraftUntouched, ApplyKept, EffectsUntouched DEF RemediationInv
  <1>8. QED
    BY <1>3, <1>4, <1>5, <1>6, <1>7 DEF Next

LEMMA RemediationInvariant == Spec => []RemediationInv
  BY RemediationStart, RemediationKept, PTL DEF Spec

(* No log is longer than its limit, and no request for a piece of one is    *)
(* sent with nothing left to ask for, whatever the limit, the sizes and the *)
(* number of pieces.                                                        *)
THEOREM LogsStayBounded == Spec => []LogBounded
  <1>1. RemediationInv => LogBounded
    BY DEF RemediationInv, LogInv, LogBounded, FetchRecord
  <1>2. QED
    BY <1>1, RemediationInvariant, PTL

(* The branch of a pull request holds every file of its patch, but for what *)
(* somebody else pushed, which is never overwritten; a stored success has a *)
(* pull request, and a draft that was asked for and is done was announced:  *)
(* for any number of jobs, patches, paths, failures and pushes.             *)
THEOREM DraftsAreWhole == Spec => []DraftWhole
  <1>1. RemediationInv => DraftWhole
    <2> SUFFICES ASSUME RemediationInv PROVE DraftWhole
      OBVIOUS
    <2>1. DraftInv
      BY DEF RemediationInv
    <2>2. \A c \in pulls, p \in Paths : branch[c][p] = "new" \/ <<c, p>> \in pushed
      BY <2>1 DEF DraftInv, Good
    <2>3. \A w \in Workers : At(w, "done") /\ jobs[w].kind = "explicit" => pulls # {} /\ notices > 0
      BY <2>1 DEF DraftInv, Worked, At
    <2>4. QED
      BY <2>1, <2>2, <2>3 DEF DraftInv, DraftWhole
  <1>2. QED
    BY <1>1, RemediationInvariant, PTL

(* A plan is put in place whole or not at all, nothing a file held is lost, *)
(* and what somebody writes stays unless it was written after the last look *)
(* at the file: for any number of files, failures, deaths and edits.        *)
THEOREM PlansAreAppliedWhole == Spec => []AppliedWhole
  <1>1. RemediationInv => AppliedWhole
    <2> SUFFICES ASSUME RemediationInv PROVE AppliedWhole
      OBVIOUS
    <2>1. Finishing /\ NothingLost
      BY DEF RemediationInv, ApplyInv
    <2>2. QED
      BY <2>1 DEF Finishing, NothingLost, AppliedWhole, WithinBudget, Budget
  <1>2. QED
    BY <1>1, RemediationInvariant, PTL

(* Nothing is done twice outside that the code can tell was done, and what  *)
(* the records say of it is true: for any number of handlers, of any mix of *)
(* tasks in which one pipeline is not both with and without identifiers,    *)
(* for any failures, lost answers, crashes and repetitions.                 *)
THEOREM EffectsMatchRecords == Spec => []OutsideMatchesRecords
  <1>1. RemediationInv => OutsideMatchesRecords
    BY EffectsMatch DEF RemediationInv
  <1>2. QED
    BY <1>1, RemediationInvariant, PTL
=============================================================================
