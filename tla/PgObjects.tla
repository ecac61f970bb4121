----------------------------- MODULE PgObjects -----------------------------
(***************************************************************************)
(* The writing calls of the PostgreSQL backend on its table of objects,    *)
(* internal/db/postgres.go and postgres_relational.go.                     *)
(*                                                                         *)
(* A call opens a READ COMMITTED transaction, takes the advisory locks of  *)
(* its specs in sorted order, selects its objects FOR UPDATE, runs the     *)
(* method of the embedded Store on what it read, writes what has changed   *)
(* and commits.  DeleteObject and Cleanup are statements of their own that *)
(* take no advisory lock.  What other transactions write is seen when they *)
(* commit.                                                                 *)
(*                                                                         *)
(* Of PostgreSQL: a statement that locks rows works from the snapshot it   *)
(* starts with, one row after the other, waits for the row's owner, then   *)
(* looks at the row again and passes over one that was deleted or no       *)
(* longer matches; an insert waits for another of the same key.  A cycle   *)
(* of transactions that wait for each other costs one of them its          *)
(* transaction.                                                            *)
(***************************************************************************)
EXTENDS Integers, FiniteSets, Sequences, SequencesExt

CONSTANTS
    Txs, NoTx, Objects, Present, Open, Menus, Limit, MaxFaults,
    KindOrder   \* the kinds that are locked, in the order of their names

ASSUME PgAssumption ==
    /\ IsFiniteSet(Objects) /\ Objects \subseteq [kind : STRING, tenant : Nat, id : Nat]
    /\ Present \subseteq Objects /\ Open \subseteq Present
    /\ NoTx \notin Txs
    /\ KindOrder \in Seq(STRING) /\ IsInjective(KindOrder)
    /\ Limit \in Nat \ {0} /\ MaxFaults \in Nat

VARIABLES
    rows, call, answer,
    tx,      \* the server's side of each call
    faults   \* callers that have given up on their own

vars == <<rows, call, answer, tx, faults>>

(* The row found in the snapshot is there, and it is still the same row.   *)
Same(e) == e.row \in DOMAIN rows /\ rows[e.row].created = e.created

(* What a transaction has read or can still read, and that this is not     *)
(* enough for its call to do anything.                                     *)
InSight(t) == DOMAIN tx[t].seen \cup {e.row : e \in {f \in Range(tx[t].scan) : Same(f)}}

Doomed(t) ==
    /\ tx[t].pc \in {"scanning", "inserting"}
    /\ \/ ~(call[t].needs \subseteq InSight(t))
       \/ call[t].lacks \cap InSight(t) # {}
       \/ call[t].op = "delete" /\ call[t].removes \cap InSight(t) = {}

Store == INSTANCE ObjectStore WITH
    took <- [t \in Txs |-> tx[t].pc = "committed"],
    doomed <- [t \in Txs |-> Doomed(t)]

(* pc: "locking" specs, "checking" the quota or the observations,          *)
(* "loading" the snapshot, "scanning" its rows, "inserting" new ones,      *)
(* "committed" or "aborted"; locks: specs still to lock; held: advisory    *)
(* locks taken; scan: rows of the snapshot still to lock; seen: what was   *)
(* read; mine: rows locked or written; todo: rows still to insert;         *)
(* statement: the one that locks a spec, or Cleanup, is at.                *)
Fresh(pc, locks) == [pc |-> pc, locks |-> locks, held |-> {}, scan |-> <<>>,
                     seen |-> <<>>, mine |-> {}, todo |-> <<>>, statement |-> 1]

Alive(t) == tx[t].pc \notin {"committed", "aborted"}
Running(t, pc) == tx[t].pc = pc /\ answer[t] = "none"
Update(t, r) == tx' = [tx EXCEPT ![t] = r]
End(t, pc) == Update(t, Fresh(pc, <<>>))
Reply(t, a) == answer' = [answer EXCEPT ![t] = a]

-----------------------------------------------------------------------------
(* Specs and their locks.  A spec is [kind, tenant, id]; Every tenant      *)
(* stands for pgAll, the id 0 for all objects of the tenant.  A spec is    *)
(* locked by one statement per lock.                                       *)
Every == 0

Rank(kind) == CHOOSE i \in DOMAIN KindOrder : KindOrder[i] = kind

Before(a, b) ==
    \/ Rank(a.kind) < Rank(b.kind)
    \/ a.kind = b.kind /\ a.tenant < b.tenant
    \/ a.kind = b.kind /\ a.tenant = b.tenant /\ a.id < b.id

(* Mutant: the specs stay in the order of the call. *)
NormalizeSpecs_Unsorted(specs) == specs

NormalizeSpecs(specs) ==
    LET all == Range(specs)
        Place(s) == Cardinality({r \in all : Before(r, s)}) + 1
    IN  [i \in 1..Cardinality(all) |-> CHOOSE s \in all : Place(s) = i]

MatchesSpec(s, o) ==
    /\ s.kind = o.kind
    /\ s.tenant = Every \/ (s.tenant = o.tenant /\ s.id \in {0, o.id})

Locks(s) ==
    IF s.tenant = Every THEN <<[key |-> <<s.kind>>, shared |-> FALSE]>>
    ELSE <<[key |-> <<s.kind>>, shared |-> TRUE],
           [key |-> <<s.kind, s.tenant, s.id>>, shared |-> FALSE]>>

Conflict(a, b) == a.key = b.key /\ ~(a.shared /\ b.shared)

(* The lock a transaction asks for. *)
Wanted(t) == Locks(Head(tx[t].locks))[tx[t].statement]

(* What the callers of pgStateWith and RecordTestObservations write is in  *)
(* the specs they lock, or an observation of a test whose spec they lock;  *)
(* DeleteObject and Cleanup lock no spec, and but for Cleanup the others   *)
(* touch one object.  The objects of a tenant that some calls lock one by  *)
(* one and others at once (those of the kind "tenant") are locked one by   *)
(* one only by calls that lock one of them, and none of these records      *)
(* observations.                                                           *)
Calls == UNION Menus
StateOps == {"set", "sweep", "observe"}
Specs(c) == Range(c.specs)

Shared(r) ==
    \E c, d \in {e \in Calls : e.op \in StateOps} : \E s \in Specs(c), u \in Specs(d) :
        /\ s.kind = r.kind /\ s.tenant = r.tenant /\ s.id = 0
        /\ u.kind = r.kind /\ u.tenant = r.tenant /\ u.id # 0

ASSUME CallsAssumption ==
    \A c \in Calls :
        /\ c.op \in {"put", "limited", "delete", "cleanup"} \cup StateOps
        /\ c.specs \in Seq([kind : Range(KindOrder), tenant : Nat, id : Nat])
        /\ \A s \in Specs(c) : s.tenant = Every => s.id = 0
        /\ c.op \in {"delete", "cleanup"} => c.specs = <<>>
        /\ c.writes \cup c.removes \subseteq Objects
        /\ c.op \in {"put", "limited", "delete"} => \A o, p \in c.writes \cup c.removes : o = p
        /\ c.op \in {"set", "sweep"} => \A o \in c.writes : \E s \in Specs(c) : MatchesSpec(s, o)
        /\ c.op = "observe" => \A o \in c.writes :
              /\ Store!StatsOf(o) \in Objects
              /\ \E s \in Specs(c) : MatchesSpec(s, Store!StatsOf(o)) /\ ~Shared(s)
              /\ \A d \in Calls : \A s \in Specs(d) : s.kind # o.kind
        /\ c.op \in StateOps => \A r, s \in Specs(c) : Shared(r) /\ Shared(s) /\ r.id # 0 => r = s

(* What a call may write, and what its locks are there to guard: while a   *)
(* call is at work no other puts anything there, though DeleteObject and   *)
(* Cleanup may take it away.  Only the methods of pgStateWith look for     *)
(* other objects, which they lock too; no call deletes observations; the   *)
(* kind that has a quota is written within it.                             *)
Puts(c) == c.writes \cup (IF c.op = "observe" THEN {Store!StatsOf(o) : o \in c.writes} ELSE {})
Guarded(c) == Puts(c) \cup (IF c.op = "set" THEN c.removes ELSE {})

Apart(c, d) ==
    \A r \in Specs(c), s \in Specs(d) :
        \A a \in Range(Locks(r)), b \in Range(Locks(s)) : ~Conflict(a, b)

OfKind(kind, S) == {o \in S : o.kind = kind}

ASSUME WritesAssumption ==
    \A c \in Calls :
        /\ c.op # "set" => c.needs = {} /\ c.lacks = {}
        /\ c.lacks \subseteq c.writes
        /\ c.op = "set" => \A o \in c.needs \cup c.removes : \E s \in Specs(c) : MatchesSpec(s, o)
        /\ c.op \in {"delete", "cleanup"} => c.writes = {}
        /\ c.removes # {} => c.op \in {"set", "delete", "cleanup"}
        /\ \A d \in Calls :
              /\ Guarded(c) \cap Puts(d) # {} => ~Apart(c, d)
              /\ c.op = "observe" => c.writes \cap d.removes = {}
              /\ c.op = "limited" => \A o \in c.writes, p \in Puts(d) :
                    o.kind = p.kind => d.op = "limited" /\ ~Apart(c, d)
        /\ c.op = "limited" => \A o \in c.writes : Cardinality(OfKind(o.kind, Present)) <= Limit

LockHolders(t, lock) == {u \in Txs \ {t} : \E held \in tx[u].held : Conflict(lock, held)}
RowOwners(t, o) == {u \in Txs \ {t} : o \in tx[u].mine}

(* Those t waits for. *)
WaitsFor(t) ==
    CASE Running(t, "locking") -> LockHolders(t, Wanted(t))
      [] Running(t, "scanning") /\ tx[t].scan # <<>> -> RowOwners(t, Head(tx[t].scan).row)
      [] Running(t, "inserting") /\ tx[t].todo # <<>> -> RowOwners(t, Head(tx[t].todo))
      [] OTHER -> {}

(* Those of S that wait for themselves, through others of S. *)
Deadlock(S) ==
    LET awaited == [t \in S |-> WaitsFor(t) \cap S]
    IN  {t \in S : \A C \in SUBSET S :
            (\A u \in C \cup {t} : awaited[u] \subseteq C) => t \in C}

-----------------------------------------------------------------------------
Init ==
    /\ rows = Store!FirstRows
    /\ \E menu \in Menus : call \in [Txs -> menu]
    /\ answer = [t \in Txs |-> "none"]
    /\ tx = [t \in Txs |-> Fresh(IF call[t].specs # <<>> THEN "locking" ELSE "loading",
                              NormalizeSpecs(call[t].specs))]
    /\ faults = 0

(* lockSpecs: spec after spec. *)
Lock(t) ==
    LET more == tx[t].statement < Len(Locks(Head(tx[t].locks)))
        left == IF more THEN tx[t].locks ELSE Tail(tx[t].locks)
    IN  /\ Running(t, "locking") /\ WaitsFor(t) = {}
        /\ Update(t, [tx[t] EXCEPT
              !.locks = left,
              !.statement = IF more THEN @ + 1 ELSE 1,
              !.held = @ \cup {Wanted(t)},
              !.pc = IF left # <<>> THEN "locking"
                     ELSE IF call[t].op \in {"limited", "observe"} THEN "checking" ELSE "loading"])
        /\ UNCHANGED <<rows, call, answer, faults>>

(* PutObjectIfKindBelowLimit counts the objects of its kind.  Its ids are  *)
(* new, so the next statement, which looks for the id, finds nothing.      *)
CheckLimit(t) ==
    /\ Running(t, "checking") /\ call[t].op = "limited"
    /\ IF Store!Refused(call[t], rows)
       THEN End(t, "aborted") /\ Reply(t, "refused")
       ELSE Update(t, [tx[t] EXCEPT !.pc = "loading"]) /\ UNCHANGED answer
    /\ UNCHANGED <<rows, call, faults>>

(* filterExistingNativeTestObservations; a batch that is all there is done. *)
FilterObservations(t) ==
    LET known == call[t].writes \cap DOMAIN rows
    IN  /\ Running(t, "checking") /\ call[t].op = "observe"
        /\ IF known = call[t].writes
           THEN End(t, "committed") /\ Reply(t, "done")
           ELSE /\ Update(t, [tx[t] EXCEPT !.pc = "loading", !.seen = [o \in known |-> rows[o]]])
                /\ UNCHANGED answer
        /\ UNCHANGED <<rows, call, faults>>

(* The kinds of Cleanup's statements, in their order. *)
Retained == <<"analysis", "incident">>

(* The rows the statement that locks rows is about. *)
Selected(t) ==
    LET c == call[t]
    IN  {o \in DOMAIN rows :
            CASE c.op \in {"put", "limited"} -> o \in c.writes
              [] c.op = "delete" -> o \in c.removes
              [] c.op = "cleanup" -> /\ o.kind = Retained[tx[t].statement]
                                     /\ o \in c.removes /\ Store!Expired(o, rows[o])
              [] OTHER -> \E s \in Range(c.specs) : MatchesSpec(s, o)}

Load(t) ==
    /\ Running(t, "loading")
    /\ \E q \in SetToSeqs({[row |-> o, created |-> rows[o].created] : o \in Selected(t)}) :
          Update(t, [tx[t] EXCEPT !.pc = "scanning", !.scan = q])
    /\ UNCHANGED <<rows, call, answer, faults>>

LastStatement(t) == call[t].op = "cleanup" => tx[t].statement = Len(Retained)

NextStatement(t) ==
    /\ Running(t, "scanning") /\ tx[t].scan = <<>> /\ ~LastStatement(t)
    /\ Update(t, [tx[t] EXCEPT !.pc = "loading", !.statement = @ + 1])
    /\ UNCHANGED <<rows, call, answer, faults>>

StillSelected(c, e) ==
    Same(e) /\ (c.op = "cleanup" => Store!Expired(e.row, rows[e.row]))

(* What a transaction has read, with the row as it is now. *)
Reading(seen, row) ==
    [o \in DOMAIN seen \cup {row} |-> IF o = row THEN rows[o] ELSE seen[o]]

(* Mutant: the row keeps the value it had, unlocked, as without FOR UPDATE. *)
Scan_NoLock(t) ==
    /\ Running(t, "scanning") /\ tx[t].scan # <<>>
    /\ LET e == Head(tx[t].scan)
       IN  Update(t, IF StillSelected(call[t], e)
                     THEN [tx[t] EXCEPT !.scan = Tail(@), !.seen = Reading(@, e.row)]
                     ELSE [tx[t] EXCEPT !.scan = Tail(@)])
    /\ UNCHANGED <<rows, call, answer, faults>>

Scan(t) ==
    /\ Running(t, "scanning") /\ tx[t].scan # <<>> /\ WaitsFor(t) = {}
    /\ LET e == Head(tx[t].scan)
       IN  Update(t, IF StillSelected(call[t], e)
                     THEN [tx[t] EXCEPT !.scan = Tail(@), !.mine = @ \cup {e.row},
                                        !.seen = Reading(@, e.row)]
                     ELSE [tx[t] EXCEPT !.scan = Tail(@)])
    /\ UNCHANGED <<rows, call, answer, faults>>

(* Mutant: an error of the Store's method returns and does not roll back. *)
Decide_NoRollback(t) ==
    /\ Running(t, "scanning") /\ tx[t].scan = <<>> /\ LastStatement(t)
    /\ IF Store!Refused(call[t], tx[t].seen)
       THEN Reply(t, "refused") /\ UNCHANGED tx
       ELSE /\ \E q \in SetToSeqs(Store!Written(call[t], tx[t].seen) \ tx[t].mine) :
                  Update(t, [tx[t] EXCEPT !.pc = "inserting", !.todo = q])
            /\ UNCHANGED answer
    /\ UNCHANGED <<rows, call, faults>>

(* fn(store): an error rolls back; what has changed is written in the      *)
(* order of a map.  A row that is locked already takes its write at once.  *)
Decide(t) ==
    /\ Running(t, "scanning") /\ tx[t].scan = <<>> /\ LastStatement(t)
    /\ IF Store!Refused(call[t], tx[t].seen)
       THEN End(t, "aborted") /\ Reply(t, "refused")
       ELSE /\ \E q \in SetToSeqs(Store!Written(call[t], tx[t].seen) \ tx[t].mine) :
                  Update(t, [tx[t] EXCEPT !.pc = "inserting", !.todo = q])
            /\ UNCHANGED answer
    /\ UNCHANGED <<rows, call, faults>>

Insert(t) ==
    /\ Running(t, "inserting") /\ tx[t].todo # <<>> /\ WaitsFor(t) = {}
    /\ Update(t, [tx[t] EXCEPT !.todo = Tail(@), !.mine = @ \cup {Head(tx[t].todo)}])
    /\ UNCHANGED <<rows, call, answer, faults>>

(* The server commits; the caller hears of it, or has stopped listening.   *)
Commit(t) ==
    /\ tx[t].pc = "inserting" /\ tx[t].todo = <<>>
    /\ rows' = Store!Outcome(t, call[t], tx[t].seen, call[t].removes \cap DOMAIN tx[t].seen)
    /\ End(t, "committed")
    /\ IF answer[t] = "none" THEN Reply(t, "done") ELSE UNCHANGED answer
    /\ UNCHANGED <<call, faults>>

(* A timeout, a cancelled context or a broken connection: the caller has   *)
(* its error, and the session keeps its locks until the server notices; a  *)
(* COMMIT that was sent may still be carried out.                          *)
GiveUp(t) ==
    /\ answer[t] = "none" /\ Alive(t)
    /\ faults < MaxFaults
    /\ faults' = faults + 1
    /\ Reply(t, "error")
    /\ UNCHANGED <<rows, call, tx>>

Abort(t) ==
    /\ answer[t] = "error" /\ Alive(t)
    /\ End(t, "aborted")
    /\ UNCHANGED <<rows, call, answer, faults>>

(* PostgreSQL's deadlock detector. *)
Victim(t) ==
    /\ t \in Deadlock(Txs)
    /\ End(t, "aborted") /\ Reply(t, "error")
    /\ UNCHANGED <<rows, call, faults>>

Step(t) ==
    \/ Lock(t) \/ CheckLimit(t) \/ FilterObservations(t) \/ Load(t) \/ Scan(t)
    \/ NextStatement(t) \/ Decide(t) \/ Insert(t) \/ Commit(t)

Next == \E t \in Txs : Step(t) \/ GiveUp(t) \/ Abort(t) \/ Victim(t)

Spec == Init /\ [][Next]_vars

(* PostgreSQL goes on with some session as long as it can with any: it     *)
(* serves them, drops dead ones and breaks deadlocks.                      *)
Fairness == WF_vars(\E t \in Txs : Step(t) \/ Abort(t) \/ Victim(t))

-----------------------------------------------------------------------------
(* The relational backend keeps the promise of the embedded one: although  *)
(* calls interleave statement by statement, lock what exists and only then *)
(* insert what does not, and delete without their locks, each takes effect *)
(* on all its objects at once, loses no other call's effect, refuses only  *)
(* for what was so, counts an observation once and stays within the quota. *)
ImplementsStore == Store!Spec

(* normalizeSpecs sorts what a call locks so that calls cannot deadlock    *)
(* with each other: every cycle of waiting transactions has a retention    *)
(* sweep in it, the only statements that lock several rows and no spec.    *)
OnlyCleanupDeadlocks ==
    Deadlock({t \in Txs : call[t].op # "cleanup"}) = {}

(* No call waits for ever: not on a lock, not on a row of a caller that is *)
(* gone, not in a deadlock.                                                *)
EveryCallReturns == \A t \in Txs : answer[t] = "none" ~> answer[t] # "none"
=============================================================================
