--------------------------- MODULE PostgresProofs ---------------------------
(***************************************************************************)
(* What the connection pool of the PostgreSQL backend and the calls that   *)
(* go through it keep to, for any number of users, calls and objects.      *)
(***************************************************************************)
EXTENDS PgPool, PgObjects, FiniteSetTheorems, WellFoundedInduction, TLAPS

-----------------------------------------------------------------------------
(* The pool *)

(* How many users are at one of the places in S. *)
Count(f, S) == Cardinality({u \in Users : f[u] \in S})

(* The move of one user changes a count by at most one.                    *)
LEMMA MoveCounts ==
    ASSUME NEW f \in [Users -> Places], NEW S, NEW u \in Users, NEW place \in Places
    PROVE  LET g == [f EXCEPT ![u] = place] IN
           /\ Count(f, S) \in Nat /\ Count(g, S) \in Nat
           /\ place \in S /\ f[u] \notin S => Count(g, S) = Count(f, S) + 1
           /\ place \notin S /\ f[u] \in S => Count(f, S) = Count(g, S) + 1
           /\ (place \in S <=> f[u] \in S) => Count(g, S) = Count(f, S)
<1> DEFINE g == [f EXCEPT ![u] = place]
           A == {v \in Users : f[v] \in S}
           B == {v \in Users : g[v] \in S}
<1>1. IsFiniteSet(A) /\ IsFiniteSet(B)
  BY FS_Subset, PoolAssumption
<1>2. Cardinality(A) \in Nat /\ Cardinality(B) \in Nat
  BY <1>1, FS_CardinalityType
<1>3. ASSUME place \in S, f[u] \notin S PROVE Cardinality(B) = Cardinality(A) + 1
  <2>1. B = A \cup {u} /\ u \notin A
    BY <1>3
  <2> QED
    BY <1>1, <2>1, FS_AddElement
<1>4. ASSUME place \notin S, f[u] \in S PROVE Cardinality(A) = Cardinality(B) + 1
  <2>1. A = B \cup {u} /\ u \notin B
    BY <1>4
  <2> QED
    BY <1>1, <2>1, FS_AddElement
<1>5. ASSUME place \in S <=> f[u] \in S PROVE Cardinality(B) = Cardinality(A)
  <2>1. A = B
    BY <1>5
  <2> QED
    BY <2>1
<1> QED
  BY <1>2, <1>3, <1>4, <1>5 DEF Count

-----------------------------------------------------------------------------
(* No release that began after the close gives its connection back: those  *)
(* that are still resetting when the pool is drained had seen it open.     *)
RaceInv ==
    /\ closed <=> closer # "no"
    /\ closed => Cardinality(Resetting) <= raced
    /\ closer = "done" => idle + Cardinality(Resetting) <= raced

PoolInv == TypeOK /\ SlotsMatchConnections /\ RaceInv

LEMMA Counted ==
    ASSUME TypeOK
    PROVE  /\ Cardinality(Holders) = Count(pc, Holding) /\ Count(pc, Holding) \in Nat
           /\ Cardinality(Resetting) = Count(pc, {"resetting"}) /\ Count(pc, {"resetting"}) \in Nat
<1>1. Holders = {u \in Users : pc[u] \in Holding}
  BY DEF Holders
<1>2. Resetting = {u \in Users : pc[u] \in {"resetting"}}
  BY DEF Resetting
<1>3. IsFiniteSet({u \in Users : pc[u] \in Holding}) /\ IsFiniteSet({u \in Users : pc[u] \in {"resetting"}})
  BY FS_Subset, PoolAssumption
<1> QED
  BY <1>1, <1>2, <1>3, FS_CardinalityType DEF Count

LEMMA PoolStarts == PoolInit => PoolInv
<1> SUFFICES ASSUME PoolInit PROVE PoolInv
  OBVIOUS
<1>1. TypeOK
  <2>1. Size \in Nat /\ 0 \in 0..Size
    BY PoolAssumption DEF PoolAssumption
  <2>2. pc \in [Users -> Places]
    BY DEF PoolInit, Places
  <2> QED
    BY <2>1, <2>2 DEF PoolInit, TypeOK
<1>2. Holders = {} /\ Resetting = {}
  BY DEF PoolInit, Holders, Resetting, Holding
<1>3. Cardinality(Holders) = 0 /\ Cardinality(Resetting) = 0
  BY <1>2, FS_EmptySet
<1> QED
  BY <1>1, <1>3 DEF PoolInit, PoolInv, SlotsMatchConnections, RaceInv

(* A user's step moves this user, and changes idle and slots as its move   *)
(* between the places that hold a slot requires.                           *)
UserEffect(u, place) ==
    /\ pc' = [pc EXCEPT ![u] = place]
    /\ idle' \in 0..Size /\ slots' \in 0..Size
    /\ slots' - idle' = slots - idle
         + (IF place \in Holding THEN 1 ELSE 0) - (IF pc[u] \in Holding THEN 1 ELSE 0)
    /\ place = "resetting" => pc[u] = "using" /\ ~closed
    /\ idle' > idle => pc[u] = "resetting" /\ place = "out" /\ idle' = idle + 1

LEMMA UserMoves ==
    ASSUME PoolInv, NEW u \in Users, User(u)
    PROVE  \E place \in Places : UserEffect(u, place)
<1> USE DEF PoolInv, TypeOK, Goto, At, UserEffect, Places, Holding
<1>1. ASSUME pc[u] \in Holding PROVE slots >= 1 + idle
  <2>1. u \in Holders /\ IsFiniteSet(Holders)
    BY <1>1, FS_Subset, PoolAssumption DEF Holders
  <2>2. Cardinality(Holders) \in Nat /\ Cardinality(Holders) # 0
    BY <2>1, FS_CardinalityType, FS_EmptySet
  <2> QED
    BY <2>2 DEF SlotsMatchConnections
<1>2. ASSUME pc[u] \in Holding, Drop(u) PROVE UserEffect(u, "out")
  BY <1>1, <1>2, PoolAssumption DEF Drop
<1>3. ASSUME pc[u] \in {"first", "second"}, Leave(u) PROVE UserEffect(u, "out")
  BY <1>3 DEF Leave
<1>4. ASSUME pc[u] \in {"first", "second"}, TakeIdle(u) PROVE UserEffect(u, "took")
  BY <1>4, PoolAssumption DEF TakeIdle
<1>5. CASE Enter(u)
  <2>1. UserEffect(u, "first")
    BY <1>5 DEF Enter
  <2> QED
    BY <2>1
<1>6. CASE FirstSelect(u)
  <2>1. CASE Goto(u, "second") /\ UNCHANGED <<idle, slots>>
    <3>1. UserEffect(u, "second")
      BY <1>6, <2>1 DEF FirstSelect
    <3> QED
      BY <3>1
  <2> QED
    BY <1>3, <1>4, <1>6, <2>1 DEF FirstSelect
<1>7. CASE TakeIdleOrSlot(u)
  <2>1. CASE slots < Size /\ slots' = slots + 1 /\ Goto(u, "slot") /\ UNCHANGED idle
    <3>1. UserEffect(u, "slot")
      BY <1>7, <2>1, PoolAssumption DEF TakeIdleOrSlot
    <3> QED
      BY <3>1
  <2> QED
    BY <1>4, <1>7, <2>1 DEF TakeIdleOrSlot
<1>8. CASE StopWaiting(u)
  BY <1>3, <1>8 DEF StopWaiting
<1>9. ASSUME pc[u] \in {"took", "dialed"}, Goto(u, "using"), UNCHANGED <<idle, slots>>
      PROVE UserEffect(u, "using")
  BY <1>9
<1>10. CASE CheckTaken(u) \/ CheckDialed(u)
  BY <1>2, <1>9, <1>10 DEF CheckTaken, CheckDialed
<1>11. CASE Dial(u)
  <2>1. CASE Goto(u, "dialed") /\ UNCHANGED <<idle, slots>>
    <3>1. UserEffect(u, "dialed")
      BY <1>11, <2>1 DEF Dial
    <3> QED
      BY <3>1
  <2> QED
    BY <1>2, <1>11, <2>1 DEF Dial
<1>12. CASE Release(u)
  <2>1. CASE ~closed
    <3>1. UserEffect(u, "resetting")
      BY <1>12, <2>1 DEF Release
    <3> QED
      BY <3>1
  <2> QED
    BY <1>2, <1>12, <2>1 DEF Release
<1>13. CASE GiveBack(u)
  <2>1. CASE idle < Size /\ idle' = idle + 1 /\ Goto(u, "out") /\ UNCHANGED slots
    <3>1. UserEffect(u, "out")
      BY <1>13, <2>1, PoolAssumption DEF GiveBack
    <3> QED
      BY <3>1
  <2> QED
    BY <1>2, <1>13, <2>1 DEF GiveBack
<1> QED
  BY <1>5, <1>6, <1>7, <1>8, <1>10, <1>11, <1>12, <1>13 DEF User, UserStep

LEMMA UserKeepsInv ==
    ASSUME PoolInv, NEW u \in Users, User(u)
    PROVE  PoolInv'
<1>1. PICK place \in Places : UserEffect(u, place)
  BY UserMoves
<1>2. UNCHANGED <<closed, closer, raced>>
  BY DEF User
<1>3. TypeOK'
  BY <1>1, <1>2 DEF PoolInv, TypeOK, UserEffect
<1>4. /\ Cardinality(Holders) = Count(pc, Holding)
      /\ Cardinality(Resetting) = Count(pc, {"resetting"})
  BY Counted DEF PoolInv
<1>5. /\ Cardinality(Holders') = Count(pc', Holding)
      /\ Cardinality(Resetting') = Count(pc', {"resetting"})
  BY DEF Holders, Resetting, Count
<1>6. pc \in [Users -> Places] /\ pc' = [pc EXCEPT ![u] = place]
  BY <1>1 DEF PoolInv, TypeOK, UserEffect
<1>7. /\ Count(pc, Holding) \in Nat /\ Count(pc', Holding) \in Nat
      /\ place \in Holding /\ pc[u] \notin Holding => Count(pc', Holding) = Count(pc, Holding) + 1
      /\ place \notin Holding /\ pc[u] \in Holding => Count(pc, Holding) = Count(pc', Holding) + 1
      /\ (place \in Holding <=> pc[u] \in Holding) => Count(pc', Holding) = Count(pc, Holding)
  BY <1>6, MoveCounts
<1>8. LET S == {"resetting"} IN
      /\ Count(pc, S) \in Nat /\ Count(pc', S) \in Nat
      /\ place \in S /\ pc[u] \notin S => Count(pc', S) = Count(pc, S) + 1
      /\ place \notin S /\ pc[u] \in S => Count(pc, S) = Count(pc', S) + 1
      /\ (place \in S <=> pc[u] \in S) => Count(pc', S) = Count(pc, S)
  BY <1>6, MoveCounts
<1>9. idle \in Nat /\ idle' \in Nat /\ slots \in Nat /\ slots' \in Nat /\ raced \in Nat
  BY <1>1, PoolAssumption DEF PoolInv, TypeOK, UserEffect
<1>10. SlotsMatchConnections'
  <2>1. slots = idle + Count(pc, Holding)
    BY <1>4 DEF PoolInv, SlotsMatchConnections
  <2>2. slots' = idle' + Count(pc', Holding)
    BY <1>1, <1>7, <1>9, <2>1 DEF UserEffect
  <2> QED
    BY <1>5, <2>2 DEF SlotsMatchConnections
<1>11. RaceInv'
  <2>1. /\ closed <=> closer # "no"
        /\ closed => Count(pc, {"resetting"}) <= raced
        /\ closer = "done" => idle + Count(pc, {"resetting"}) <= raced
    BY <1>4 DEF PoolInv, RaceInv
  <2>2. closed => Count(pc', {"resetting"}) <= Count(pc, {"resetting"})
    BY <1>1, <1>8 DEF UserEffect
  <2>3. closed => idle' + Count(pc', {"resetting"}) <= idle + Count(pc, {"resetting"})
    BY <1>1, <1>8, <1>9, <2>2 DEF UserEffect
  <2> QED
    BY <1>2, <1>5, <1>8, <1>9, <2>1, <2>2, <2>3 DEF RaceInv
<1> QED
  BY <1>3, <1>10, <1>11 DEF PoolInv

LEMMA PoolKept == PoolInv /\ [PoolNext]_poolVars => PoolInv'
<1> SUFFICES ASSUME PoolInv, [PoolNext]_poolVars PROVE PoolInv'
  OBVIOUS
<1>1. Cardinality(Holders) \in Nat /\ Cardinality(Resetting) \in Nat
  BY Counted DEF PoolInv
<1>2. ASSUME UNCHANGED pc PROVE Holders' = Holders /\ Resetting' = Resetting
  BY <1>2 DEF Holders, Resetting
<1>3. CASE \E u \in Users : User(u)
  BY <1>3, UserKeepsInv
<1>4. CASE Close
  BY <1>1, <1>2, <1>4, PoolAssumption
     DEF Close, PoolInv, TypeOK, SlotsMatchConnections, RaceInv
<1>5. CASE Drain
  BY <1>1, <1>2, <1>5, PoolAssumption
     DEF Drain, PoolInv, TypeOK, SlotsMatchConnections, RaceInv
<1>6. CASE UNCHANGED poolVars
  BY <1>2, <1>6 DEF poolVars, PoolInv, TypeOK, SlotsMatchConnections, RaceInv
<1> QED
  BY <1>3, <1>4, <1>5, <1>6 DEF PoolNext

LEMMA PoolInvariant == PoolSpec => []PoolInv
  BY PoolStarts, PoolKept, PTL DEF PoolSpec

-----------------------------------------------------------------------------
(* Neither channel of the pool is ever read empty by a slot that is given  *)
(* back, or filled over its capacity.                                      *)
THEOREM PoolTypeCorrect == PoolSpec => []TypeOK
<1>1. PoolInv => TypeOK
  BY DEF PoolInv
<1> QED
  BY PoolInvariant, <1>1, PTL

(* acquire, release and close neither lose a slot nor give one back twice. *)
THEOREM SlotsNeverLeak == PoolSpec => []SlotsMatchConnections
<1>1. PoolInv => SlotsMatchConnections
  BY DEF PoolInv
<1> QED
  BY PoolInvariant, <1>1, PTL

(* Only a release that had seen the pool open leaves a connection in a     *)
(* closed pool.                                                            *)
THEOREM ClosedPoolDrained == PoolSpec => []LeftOpenOnlyByRace
<1>1. PoolInv => LeftOpenOnlyByRace
  <2> SUFFICES ASSUME PoolInv, closer = "done" PROVE idle <= raced
    BY DEF LeftOpenOnlyByRace
  <2>1. Cardinality(Resetting) \in Nat /\ idle \in Nat /\ raced \in Nat
    BY Counted, PoolAssumption DEF PoolInv, TypeOK
  <2> QED
    BY <2>1 DEF PoolInv, RaceInv
<1> QED
  BY PoolInvariant, <1>1, PTL

-----------------------------------------------------------------------------
(* The calls: specs and their order *)
(* The specs a call may name, and the order in which they are locked. *)
AllSpecs == [kind : Range(KindOrder), tenant : Nat, id : Nat]
InOrder(q) == \A i, j \in DOMAIN q : i < j => Before(q[i], q[j])

(* The place of a kind among those that are locked. *)
LEMMA KindRank ==
  /\ \A k \in Range(KindOrder) : Rank(k) \in Nat
  /\ \A k, l \in Range(KindOrder) : Rank(k) = Rank(l) => k = l
  <1>1. \A k \in Range(KindOrder) : Rank(k) \in DOMAIN KindOrder /\ KindOrder[Rank(k)] = k
    BY DEF Rank, Range
  <1>2. DOMAIN KindOrder \subseteq Nat
    BY PgAssumption
  <1>3. QED
    BY <1>1, <1>2

(* It is a strict total order. *)
LEMMA SpecOrder ==
  /\ \A a \in AllSpecs : ~Before(a, a)
  /\ \A a, b, c \in AllSpecs : Before(a, b) /\ Before(b, c) => Before(a, c)
  /\ \A a, b \in AllSpecs : a = b \/ Before(a, b) \/ Before(b, a)
  <1>1. \A a \in AllSpecs : /\ Rank(a.kind) \in Nat /\ a.tenant \in Nat /\ a.id \in Nat
                            /\ \A b \in AllSpecs : Rank(a.kind) = Rank(b.kind) => a.kind = b.kind
    BY KindRank DEF AllSpecs
  <1>2. \A a, b \in AllSpecs : a.kind = b.kind /\ a.tenant = b.tenant /\ a.id = b.id => a = b
    BY DEF AllSpecs
  <1> HIDE DEF AllSpecs
  <1>3. \A a \in AllSpecs : ~Before(a, a)
    BY <1>1 DEF Before
  <1>4. ASSUME NEW a \in AllSpecs, NEW b \in AllSpecs, NEW c \in AllSpecs, Before(a, b), Before(b, c)
        PROVE  Before(a, c)
    BY <1>1, <1>4 DEF Before
  <1>5. ASSUME NEW a \in AllSpecs, NEW b \in AllSpecs
        PROVE  a = b \/ Before(a, b) \/ Before(b, a)
    BY <1>1, <1>2 DEF Before
  <1>6. QED
    BY <1>3, <1>4, <1>5

(* A sequence has finitely many elements. *)
LEMMA RangeFinite ==
  ASSUME NEW S, NEW q \in Seq(S)
  PROVE  IsFiniteSet(Range(q)) /\ Range(q) \subseteq S
  <1>1. DOMAIN q = 1..Len(q) /\ Len(q) \in Nat
    OBVIOUS
  <1>2. IsFiniteSet(1..Len(q))
    BY <1>1, FS_Interval
  <1> DEFINE h == [i \in 1..Len(q) |-> q[i]]
  <1>3. h \in Surjection(1..Len(q), Range(q))
    BY <1>1 DEF Surjection, Range
  <1> HIDE DEF h
  <1>4. IsFiniteSet(Range(q))
    BY <1>2, <1>3, FS_Surjection
  <1>5. QED
    BY <1>4 DEF Range

(* What is left of a sequence, and that nothing is. *)
LEMMA NothingLeft ==
  ASSUME NEW S, NEW q \in Seq(S)
  PROVE  /\ q = <<>> <=> Range(q) = {}
         /\ q # <<>> => Head(q) \in Range(q) /\ Range(q) = {Head(q)} \cup Range(Tail(q)) /\ Tail(q) \in Seq(S)
  <1>1. CASE q = <<>>
    BY <1>1 DEF Range
  <1>2. CASE q # <<>>
    <2>1. 1 \in DOMAIN q /\ Head(q) = q[1] /\ Tail(q) \in Seq(S) /\ Len(q) \in Nat /\ Len(Tail(q)) = Len(q) - 1
      BY <1>2
    <2>2. \A i \in DOMAIN Tail(q) : i + 1 \in DOMAIN q /\ Tail(q)[i] = q[i + 1]
      BY <1>2
    <2>3. \A i \in DOMAIN q : i = 1 \/ (i - 1 \in DOMAIN Tail(q) /\ q[i] = Tail(q)[i - 1])
      BY <1>2
    <2>4. Range(q) \subseteq {Head(q)} \cup Range(Tail(q))
      BY <2>1, <2>3 DEF Range
    <2>5. {Head(q)} \cup Range(Tail(q)) \subseteq Range(q)
      BY <2>1, <2>2 DEF Range
    <2>6. QED
      BY <1>2, <2>1, <2>4, <2>5
  <1>3. QED
    BY <1>1, <1>2

(* What normalizeSpecs gives: the specs of the call, each once, in order. *)
LEMMA Normalized ==
  ASSUME NEW specs \in Seq(AllSpecs)
  PROVE  LET q == NormalizeSpecs(specs) IN
         q \in Seq(AllSpecs) /\ Range(q) = Range(specs) /\ InOrder(q) /\ (q = <<>> <=> specs = <<>>)
  <1> DEFINE all == Range(specs)
             n == Cardinality(all)
             Less(s) == {r \in all : Before(r, s)}
             Low(s) == Cardinality(Less(s))
             Place(s) == Low(s) + 1
             place == [s \in all |-> Place(s)]
             q == NormalizeSpecs(specs)
  <1>1. IsFiniteSet(all) /\ all \subseteq AllSpecs
    BY RangeFinite
  <1>2. q = [i \in 1..n |-> CHOOSE s \in all : Place(s) = i]
    BY DEF NormalizeSpecs
  <1> HIDE DEF all, q
  <1>3. n \in Nat
    BY <1>1, FS_CardinalityType
  <1>4. \A s \in all : IsFiniteSet(Less(s)) /\ Low(s) \in Nat
    <2>1. TAKE s \in all
    <2>2. IsFiniteSet(Less(s))
      BY <1>1, FS_Subset
    <2>3. QED
      BY <2>2, FS_CardinalityType
  <1>5. ASSUME NEW s \in all
        PROVE  Place(s) \in 1..n
    <2>1. Less(s) \subseteq all /\ Less(s) # all
      BY <1>1, SpecOrder
    <2>2. Low(s) <= n /\ Low(s) # n
      <3>1. Less(s) \in SUBSET all
        BY <2>1
      <3> HIDE DEF Less
      <3>2. QED
        BY <1>1, <2>1, <3>1, FS_Subset
    <2>3. Low(s) \in Nat
      BY <1>4
    <2> HIDE DEF Low
    <2>4. QED
      BY <1>3, <2>2, <2>3
  <1>6. ASSUME NEW r \in all, NEW s \in all, Before(r, s)
        PROVE  Place(r) < Place(s)
    <2>1. Less(r) \subseteq Less(s)
      BY <1>1, <1>6, SpecOrder
    <2>2. r \in Less(s) /\ r \notin Less(r)
      BY <1>1, <1>6, SpecOrder
    <2>3. Low(r) <= Low(s) /\ Low(r) # Low(s)
      <3>1. Less(r) \in SUBSET Less(s) /\ IsFiniteSet(Less(s)) /\ Less(r) # Less(s)
        BY <1>4, <2>1, <2>2
      <3> HIDE DEF Less
      <3>2. QED
        BY <3>1, FS_Subset
    <2>4. Low(r) \in Nat /\ Low(s) \in Nat
      BY <1>4
    <2> HIDE DEF Low
    <2>5. QED
      BY <2>3, <2>4
  <1> HIDE DEF Place, Less
  <1>7. \A r, s \in all : Place(r) = Place(s) => r = s
    <2>1. TAKE r \in all, s \in all
    <2>2. Place(r) \in Int /\ Place(s) \in Int
      BY <1>5
    <2>3. QED
      BY <1>1, <1>6, <2>2, SpecOrder
  <1>8. \A i \in 1..n : \E s \in all : Place(s) = i
    <2>1. place \in Injection(all, 1..n)
      BY <1>5, <1>7 DEF Injection, IsInjective
    <2>2. IsFiniteSet(1..n) /\ Cardinality(1..n) = n
      BY <1>3, FS_Interval
    <2>3. place \in Surjection(all, 1..n)
      <3> HIDE DEF place
      <3> QED BY <2>1, <2>2, FS_Injection
    <2>4. QED
      BY <2>3 DEF Surjection
  <1>9. \A i \in 1..n : q[i] \in all /\ Place(q[i]) = i
    BY <1>2, <1>8
  <1>10. q \in Seq(AllSpecs) /\ DOMAIN q = 1..n /\ Len(q) = n
    <2>1. q \in [1..n -> AllSpecs]
      BY <1>1, <1>2, <1>9
    <2>2. QED
      BY <1>3, <2>1
  <1>11. Range(q) = all
    <2>1. \A s \in all : s = q[Place(s)]
      BY <1>5, <1>7, <1>9
    <2>2. QED
      BY <1>5, <1>9, <1>10, <2>1 DEF Range
  <1>12. InOrder(q)
    <2>1. ASSUME NEW i \in 1..n, NEW j \in 1..n, i < j
          PROVE  Before(q[i], q[j])
      <3>1. q[i] \in all /\ q[j] \in all /\ Place(q[i]) = i /\ Place(q[j]) = j
        BY <1>9
      <3>2. q[i] # q[j] /\ ~Before(q[j], q[i])
        BY <1>6, <2>1, <3>1
      <3>3. QED
        BY <1>1, <3>1, <3>2, SpecOrder
    <2>2. QED
      BY <1>10, <2>1 DEF InOrder
  <1>13. q = <<>> <=> specs = <<>>
    <2>1. specs = <<>> <=> all = {}
      BY NothingLeft DEF all
    <2>2. q = <<>> <=> Range(q) = {}
      BY <1>10, NothingLeft
    <2>3. QED
      BY <1>11, <2>1, <2>2
  <1>14. QED
    BY <1>10, <1>11, <1>12, <1>13 DEF all, q

(* The locks of a spec. *)
IsSpec(s) == s \in AllSpecs /\ (s.tenant = Every => s.id = 0)

(* A spec is locked by the lock of its kind, shared or not, and one of its own. *)
LEMMA LocksOfSpec ==
  ASSUME NEW s
  PROVE  /\ s.tenant = Every => Len(Locks(s)) = 1 /\ Range(Locks(s)) = {Locks(s)[1]} /\ ~Locks(s)[1].shared
         /\ s.tenant # Every => /\ Len(Locks(s)) = 2 /\ Range(Locks(s)) = {Locks(s)[1], Locks(s)[2]}
                                /\ Locks(s)[1].shared /\ ~Locks(s)[2].shared
                                /\ Locks(s)[2].key = <<s.kind, s.tenant, s.id>>
         /\ Locks(s)[1].key = <<s.kind>>
  <1>1. CASE s.tenant = Every
    <2>1. Locks(s) = <<[key |-> <<s.kind>>, shared |-> FALSE]>>
      BY <1>1 DEF Locks
    <2>2. Len(Locks(s)) = 1 /\ Locks(s)[1] = [key |-> <<s.kind>>, shared |-> FALSE] /\ DOMAIN Locks(s) = {1}
      BY <2>1
    <2>3. Locks(s)[1].key = <<s.kind>> /\ ~Locks(s)[1].shared
      BY <2>2
    <2>4. Range(Locks(s)) = {Locks(s)[1]}
      BY <2>2 DEF Range
    <2>5. QED
      BY <1>1, <2>2, <2>3, <2>4
  <1>2. CASE s.tenant # Every
    <2>1. Locks(s) = <<[key |-> <<s.kind>>, shared |-> TRUE], [key |-> <<s.kind, s.tenant, s.id>>, shared |-> FALSE]>>
      BY <1>2 DEF Locks
    <2>2. /\ Len(Locks(s)) = 2 /\ DOMAIN Locks(s) = {1, 2}
          /\ Locks(s)[1] = [key |-> <<s.kind>>, shared |-> TRUE]
          /\ Locks(s)[2] = [key |-> <<s.kind, s.tenant, s.id>>, shared |-> FALSE]
      BY <2>1
    <2>3. Locks(s)[1].key = <<s.kind>> /\ Locks(s)[1].shared
      BY <2>2
    <2>4. Locks(s)[2].key = <<s.kind, s.tenant, s.id>> /\ ~Locks(s)[2].shared
      BY <2>2
    <2>5. Range(Locks(s)) = {Locks(s)[1], Locks(s)[2]}
      BY <2>2 DEF Range
    <2>6. QED
      BY <1>2, <2>2, <2>3, <2>4, <2>5
  <1>3. QED
    BY <1>1, <1>2

(* Two specs whose locks exclude each other: of one kind, and either is about
   all tenants or they are the same. *)
LEMMA Excluded ==
  ASSUME NEW r, IsSpec(r), NEW s, IsSpec(s),
         \A a \in Range(Locks(r)), b \in Range(Locks(s)) : ~Conflict(a, b),
         r.kind = s.kind
  PROVE  r.tenant # Every /\ s.tenant # Every /\ ~(r.tenant = s.tenant /\ r.id = s.id)
  <1>1. Locks(r)[1] \in Range(Locks(r)) /\ Locks(s)[1] \in Range(Locks(s))
    BY LocksOfSpec
  <1>2. ~Conflict(Locks(r)[1], Locks(s)[1])
    BY <1>1
  <1>3. Locks(r)[1].key = Locks(s)[1].key
    BY LocksOfSpec
  <1>4. Locks(r)[1].shared /\ Locks(s)[1].shared
    BY <1>2, <1>3 DEF Conflict
  <1>5. r.tenant # Every /\ s.tenant # Every
    BY <1>4, LocksOfSpec
  <1>6. ~Conflict(Locks(r)[2], Locks(s)[2])
    BY <1>5, LocksOfSpec
  <1>7. ~Locks(r)[2].shared
    BY <1>5, LocksOfSpec
  <1>8. Locks(r)[2].key # Locks(s)[2].key
    BY <1>6, <1>7 DEF Conflict
  <1>9. QED
    BY <1>5, <1>8, LocksOfSpec

(* The objects of which a call may lock or write the rows. *)
Touched(c) ==
    IF c.op \in StateOps THEN {o \in Objects : \E s \in Specs(c) : MatchesSpec(s, o)} \cup c.writes
    ELSE c.writes \cup c.removes

(* The specs of a call are specs, and what it touches are objects. *)
LEMMA CallSpecs ==
  ASSUME NEW c \in Calls
  PROVE  /\ c.specs \in Seq(AllSpecs) /\ \A s \in Specs(c) : IsSpec(s)
         /\ Touched(c) \subseteq Objects
  <1>1. c.specs \in Seq(AllSpecs) /\ (\A s \in Specs(c) : s.tenant = Every => s.id = 0)
        /\ c.writes \cup c.removes \subseteq Objects
    BY CallsAssumption DEF AllSpecs
  <1>2. Range(c.specs) \subseteq AllSpecs
    BY <1>1, RangeFinite
  <1>3. QED
    BY <1>1, <1>2 DEF IsSpec, Specs, Touched

(* An object that two calls touch while neither's locks exclude the other's is
   one of a group that is locked both ways, and one of them locks it alone. *)
Both(c, o) == \E r \in Specs(c) : MatchesSpec(r, o) /\ Shared(r)
Alone(c, o) == \E r \in Specs(c) : MatchesSpec(r, o) /\ Shared(r) /\ r.id # 0

(* Two calls kept apart by no lock meet only at such an object. *)
LEMMA Meeting ==
  ASSUME NEW c \in Calls, NEW d \in Calls, c.op \in StateOps, d.op \in StateOps, Apart(c, d),
         NEW o \in Touched(c), o \in Touched(d)
  PROVE  Both(c, o) /\ Both(d, o) /\ (Alone(c, o) \/ Alone(d, o))
  <1>0. /\ \A s \in Specs(c) : IsSpec(s)
        /\ \A s \in Specs(d) : IsSpec(s)
    BY CallSpecs
  <1>1. ASSUME NEW p, NEW r \in Specs(c), NEW s \in Specs(d), MatchesSpec(r, p), MatchesSpec(s, p)
        PROVE  Shared(r) /\ Shared(s) /\ (r.id # 0 \/ s.id # 0)
    <2>1. r.kind = s.kind /\ r.kind = p.kind
      BY <1>1 DEF MatchesSpec
    <2>2. r.tenant # Every /\ s.tenant # Every /\ ~(r.tenant = s.tenant /\ r.id = s.id)
      BY <1>0, <1>1, <2>1, Excluded DEF Apart
    <2>3. r.tenant = s.tenant /\ r.id \in {0, p.id} /\ s.id \in {0, p.id} /\ r.id # s.id
      BY <1>1, <2>2 DEF MatchesSpec
    <2>4. (r.id = 0 /\ s.id # 0) \/ (s.id = 0 /\ r.id # 0)
      BY <2>3
    <2>5. QED
      BY <2>1, <2>3, <2>4 DEF Shared
  <1>2. CASE (\E r \in Specs(c) : MatchesSpec(r, o)) /\ (\E s \in Specs(d) : MatchesSpec(s, o))
    BY <1>1, <1>2 DEF Both, Alone
  <1>3. ASSUME NEW e \in Calls, e.op \in StateOps, o \in Touched(e), ~\E s \in Specs(e) : MatchesSpec(s, o)
        PROVE  /\ \E s \in Specs(e) : MatchesSpec(s, Store!StatsOf(o)) /\ ~Shared(s)
               /\ \A f \in Calls : \A s \in Specs(f) : ~MatchesSpec(s, o)
    <2>1. o \in e.writes
      BY <1>3 DEF Touched
    <2>2. e.op = "observe"
      BY <1>3, <2>1, CallsAssumption DEF StateOps
    <2>3. QED
      BY <2>1, <2>2, CallsAssumption DEF MatchesSpec
  <1>4. CASE ~\E r \in Specs(c) : MatchesSpec(r, o)
    <2>1. PICK r \in Specs(c) : MatchesSpec(r, Store!StatsOf(o)) /\ ~Shared(r)
      BY <1>3, <1>4
    <2>2. ~\E s \in Specs(d) : MatchesSpec(s, o)
      BY <1>3, <1>4
    <2>3. PICK s \in Specs(d) : MatchesSpec(s, Store!StatsOf(o)) /\ ~Shared(s)
      BY <1>3, <2>2
    <2>4. QED
      BY <1>1, <2>1, <2>3
  <1>5. CASE ~\E s \in Specs(d) : MatchesSpec(s, o)
    <2>1. \A s \in Specs(c) : ~MatchesSpec(s, o)
      BY <1>3, <1>5
    <2>2. QED
      BY <1>4, <2>1
  <1>6. QED
    BY <1>2, <1>4, <1>5

(* Who locks one of such a group alone touches no other that is locked both
   ways. *)
LEMMA AloneIsOnly ==
  ASSUME NEW c \in Calls, c.op \in StateOps, NEW o \in Objects, NEW p \in Objects, Alone(c, o), Both(c, p)
  PROVE  o = p
  <1>1. PICK r \in Specs(c) : MatchesSpec(r, o) /\ Shared(r) /\ r.id # 0
    BY DEF Alone
  <1>2. PICK s \in Specs(c) : MatchesSpec(s, p) /\ Shared(s)
    BY DEF Both
  <1>3. r = s
    BY <1>1, <1>2, CallsAssumption
  <1>4. r.tenant # Every
    BY <1>1, CallSpecs DEF IsSpec
  <1>5. o.kind = p.kind /\ o.tenant = p.tenant /\ o.id = p.id
    BY <1>1, <1>2, <1>3, <1>4 DEF MatchesSpec
  <1>6. o \in [kind : STRING, tenant : Nat, id : Nat] /\ p \in [kind : STRING, tenant : Nat, id : Nat]
    BY PgAssumption
  <1>7. QED
    BY <1>5, <1>6

-----------------------------------------------------------------------------
(* The transactions *)

Value == [created : Txs \cup {NoTx}, by : SUBSET Txs, open : BOOLEAN, fresh : BOOLEAN]
IsStore(f) == f \in [DOMAIN f -> Value] /\ DOMAIN f \subseteq Objects
Entries == [row : Objects, created : Txs \cup {NoTx}]
AtWork == {"checking", "loading", "scanning", "inserting"}

TxOf(at, locks, held, scan, seen, mine, todo, statement) ==
    [pc |-> at, locks |-> locks, held |-> held, scan |-> scan, seen |-> seen,
     mine |-> mine, todo |-> todo, statement |-> statement]

IsRecord(x) == x = TxOf(x.pc, x.locks, x.held, x.scan, x.seen, x.mine, x.todo, x.statement)

IsTx(x) ==
    /\ IsRecord(x)
    /\ x.pc \in {"locking", "committed", "aborted"} \cup AtWork
    /\ x.locks \in Seq(AllSpecs) /\ x.scan \in Seq(Entries) /\ x.todo \in Seq(Objects)
    /\ IsStore(x.seen) /\ x.statement \in 1..2
    /\ x.pc = "locking" <=> x.locks # <<>>

PgTypes ==
    /\ DOMAIN call = Txs /\ \A t \in Txs : call[t] \in Calls
    /\ DOMAIN tx = Txs /\ \A t \in Txs : IsTx(tx[t])
    /\ IsStore(rows)

(* A transaction locks the specs of its call in their order: it holds the
   locks of those that it is done with, *)
Done(x, s) == \A i \in DOMAIN x.locks : Before(s, x.locks[i])

LocksOf(c, x) ==
    /\ InOrder(x.locks) /\ Range(x.locks) \subseteq Specs(c)
    /\ x.pc = "locking" => x.statement <= Len(Locks(Head(x.locks)))
    /\ \A h \in x.held : \E s \in Specs(c) :
          \/ h \in Range(Locks(s)) /\ Done(x, s)
          \/ x.pc = "locking" /\ s = Head(x.locks) /\ x.statement = 2 /\ h = Locks(s)[1]
    /\ x.pc = "locking" /\ x.statement = 2 => Locks(Head(x.locks))[1] \in x.held
    /\ x.pc \in {"committed", "aborted"} => x.held = {}
    /\ x.pc \in AtWork \cup {"locking"} =>
          \A s \in Specs(c) : s \in Range(x.locks) \/ Range(Locks(s)) \subseteq x.held

LocksTaken == \A t \in Txs : LocksOf(call[t], tx[t])

(* no two hold locks that exclude each other, *)
LocksExclude ==
    \A t, u \in Txs : t # u => \A a \in tx[t].held, b \in tx[u].held : ~Conflict(a, b)

(* no row is locked or written by two, *)
RowsOwned == \A t, u \in Txs : t # u => tx[t].mine \cap tx[u].mine = {}

(* and but for retention each keeps to the objects of its call. *)
KeepsTo(c, x) ==
    /\ x.pc \notin AtWork => x.mine = {}
    /\ c.op # "cleanup" =>
          /\ x.pc \notin {"scanning", "inserting"} => x.mine = {}
          /\ x.mine \subseteq Touched(c)
          /\ \A e \in Range(x.scan) : e.row \in Touched(c)
          /\ Range(x.todo) \subseteq Touched(c)

RowsOfCall == \A t \in Txs : KeepsTo(call[t], tx[t])

PgInv == PgTypes /\ LocksTaken /\ LocksExclude /\ RowsOwned /\ RowsOfCall

(* How far a transaction that waits is from the end of what waits for it. *)
AtRow(t) == IF tx[t].pc = "scanning" THEN Head(tx[t].scan).row ELSE Head(tx[t].todo)
StateCall(t) == call[t].op \in StateOps
Waits(t) == WaitsFor(t) # {}
Level(t) ==
    IF Running(t, "locking") /\ Waits(t) THEN 1
    ELSE IF ~StateCall(t) THEN IF Waits(t) THEN 2 ELSE 6
    ELSE IF \E u \in WaitsFor(t) : StateCall(u) THEN IF Alone(call[t], AtRow(t)) THEN 3 ELSE 4
    ELSE 5
Above(u, t) ==
    \/ Level(t) < Level(u)
    \/ Level(t) = 1 /\ Level(u) = 1 /\ Before(Head(tx[t].locks), Head(tx[u].locks))

(* What the levels say. *)
LEMMA LevelFacts ==
  ASSUME NEW t
  PROVE  /\ Level(t) \in {1, 2, 3, 4, 5, 6}
         /\ Level(t) = 1 <=> Running(t, "locking") /\ Waits(t)
         /\ Level(t) # 1 => /\ ~StateCall(t) => Level(t) = IF Waits(t) THEN 2 ELSE 6
                            /\ StateCall(t) => Level(t) = IF \E u \in WaitsFor(t) : StateCall(u)
                                                          THEN IF Alone(call[t], AtRow(t)) THEN 3 ELSE 4
                                                          ELSE 5
  <1>1. CASE Running(t, "locking") /\ Waits(t)
    BY <1>1 DEF Level
  <1>2. CASE ~(Running(t, "locking") /\ Waits(t))
    BY <1>2 DEF Level
  <1>3. QED
    BY <1>1, <1>2

(* It is a strict order. *)
LEMMA AboveOrder ==
  ASSUME PgInv, NEW t \in Txs, NEW u \in Txs, NEW v \in Txs
  PROVE  ~Above(t, t) /\ (Above(u, t) /\ Above(v, u) => Above(v, t))
  <1>1. ASSUME NEW w \in Txs, Level(w) = 1
        PROVE  Head(tx[w].locks) \in AllSpecs
    <2>1. tx[w].pc = "locking"
      BY <1>1, LevelFacts DEF Running
    <2>2. tx[w].locks \in Seq(AllSpecs) /\ tx[w].locks # <<>>
      BY <2>1 DEF PgInv, PgTypes, IsTx
    <2>3. QED
      BY <2>2
  <1>2. \A w : Level(w) \in {1, 2, 3, 4, 5, 6}
    BY LevelFacts
  <1>3. ~Above(t, t)
    BY <1>1, <1>2, SpecOrder DEF Above
  <1>4. ASSUME Above(u, t), Above(v, u)
        PROVE  Above(v, t)
    <2>1. CASE Level(t) < Level(u) \/ Level(u) < Level(v)
      BY <1>2, <1>4, <2>1 DEF Above
    <2>2. CASE ~(Level(t) < Level(u)) /\ ~(Level(u) < Level(v))
      <3>1. /\ Level(t) = 1 /\ Level(u) = 1 /\ Level(v) = 1
            /\ Before(Head(tx[t].locks), Head(tx[u].locks)) /\ Before(Head(tx[u].locks), Head(tx[v].locks))
        BY <1>4, <2>2 DEF Above
      <3>2. Before(Head(tx[t].locks), Head(tx[v].locks))
        BY <1>1, <3>1, SpecOrder
      <3>3. QED
        BY <3>1, <3>2 DEF Above
    <2>3. QED
      BY <2>1, <2>2
  <1>5. QED
    BY <1>3, <1>4

(* What a transaction waits for. *)
LEMMA WaitCases ==
  ASSUME NEW t, NEW u, u \in WaitsFor(t)
  PROVE  \/ Running(t, "locking") /\ u \in LockHolders(t, Wanted(t))
         \/ /\ Running(t, "scanning") \/ Running(t, "inserting")
            /\ Running(t, "scanning") => tx[t].scan # <<>>
            /\ Running(t, "inserting") => tx[t].todo # <<>>
            /\ u \in RowOwners(t, AtRow(t))
  <1> DEFINE A == Running(t, "locking")
             B == Running(t, "scanning") /\ tx[t].scan # <<>>
             C == Running(t, "inserting") /\ tx[t].todo # <<>>
  <1>1. ~(A /\ B) /\ ~(A /\ C) /\ ~(B /\ C)
    BY DEF Running
  <1>2. CASE A
    BY <1>1, <1>2 DEF WaitsFor
  <1>3. CASE B
    <2>1. WaitsFor(t) = RowOwners(t, Head(tx[t].scan).row)
      BY <1>1, <1>3 DEF WaitsFor
    <2>2. QED
      BY <1>3, <2>1 DEF AtRow, Running
  <1>4. CASE C
    <2>1. WaitsFor(t) = RowOwners(t, Head(tx[t].todo))
      BY <1>1, <1>4 DEF WaitsFor
    <2>2. QED
      BY <1>4, <2>1 DEF AtRow, Running
  <1>5. CASE ~A /\ ~B /\ ~C
    <2>1. WaitsFor(t) = {}
      BY <1>5 DEF WaitsFor
    <2>2. QED
      BY <2>1
  <1>6. QED
    BY <1>2, <1>3, <1>4, <1>5

(* Of a lock that is held: the spec it is of. *)
LEMMA HeldLock ==
  ASSUME PgInv, NEW t \in Txs, NEW h \in tx[t].held
  PROVE  \E s \in Specs(call[t]) :
           /\ IsSpec(s) /\ Locks(s)[1] \in tx[t].held
           /\ \/ h = Locks(s)[1]
              \/ h = Locks(s)[2] /\ s.tenant # Every /\ Done(tx[t], s)
           /\ \/ Done(tx[t], s)
              \/ tx[t].pc = "locking" /\ s = Head(tx[t].locks) /\ s.tenant # Every
  <1> DEFINE x == tx[t]
  <1>1. call[t] \in Calls /\ IsTx(x)
    BY DEF PgInv, PgTypes
  <1>2. \A s \in Specs(call[t]) : IsSpec(s)
    BY <1>1, CallSpecs
  <1>3. PICK s \in Specs(call[t]) :
            \/ h \in Range(Locks(s)) /\ Done(x, s)
            \/ x.pc = "locking" /\ s = Head(x.locks) /\ x.statement = 2 /\ h = Locks(s)[1]
    BY DEF PgInv, LocksTaken, LocksOf
  <1>4. x.pc \in AtWork \cup {"locking"}
    BY <1>1 DEF PgInv, LocksTaken, LocksOf, IsTx, AtWork
  <1>5. CASE h \in Range(Locks(s)) /\ Done(x, s)
    <2>1. s \notin Range(x.locks)
      <3>1. s \in AllSpecs
        BY <1>2 DEF IsSpec
      <3>2. QED
        BY <1>5, <3>1, SpecOrder DEF Done, Range
    <2>2. Range(Locks(s)) \subseteq x.held
      BY <1>4, <2>1 DEF PgInv, LocksTaken, LocksOf
    <2>3. Locks(s)[1] \in x.held
      BY <2>2, LocksOfSpec
    <2>4. h = Locks(s)[1] \/ (h = Locks(s)[2] /\ s.tenant # Every)
      BY <1>5, LocksOfSpec
    <2>5. QED
      BY <1>2, <1>5, <2>3, <2>4
  <1>6. CASE x.pc = "locking" /\ s = Head(x.locks) /\ x.statement = 2 /\ h = Locks(s)[1]
    <2>1. x.statement <= Len(Locks(s))
      BY <1>6 DEF PgInv, LocksTaken, LocksOf
    <2>2. s.tenant # Every
      <3>1. SUFFICES ASSUME s.tenant = Every
                     PROVE  FALSE
        OBVIOUS
      <3>2. Len(Locks(s)) = 1 /\ x.statement = 2
        BY <1>6, <3>1, LocksOfSpec
      <3>3. 2 <= 1
        BY <2>1, <3>2
      <3>4. QED
        BY <3>3
    <2>3. QED
      BY <1>2, <1>6, <2>2
  <1>7. QED
    BY <1>3, <1>5, <1>6

(* The key of a kind is none of a spec. *)
LEMMA KeysApart ==
  \A k, l, m, n : <<k>> # <<l, m, n>>
  <1>1. \A k, l, m, n : Len(<<k>>) = 1 /\ Len(<<l, m, n>>) = 3
    OBVIOUS
  <1>2. QED
    BY <1>1

(* The lock that is asked for is one of the spec that is being locked. *)
LEMMA WantedLock ==
  ASSUME PgInv, NEW t \in Txs, Running(t, "locking")
  PROVE  LET s == Head(tx[t].locks) IN
         /\ s \in Specs(call[t]) /\ IsSpec(s)
         /\ Wanted(t) = Locks(s)[1] \/ (Wanted(t) = Locks(s)[2] /\ s.tenant # Every)
  <1> DEFINE x == tx[t]
             s == Head(x.locks)
  <1>1. IsTx(x) /\ x.pc = "locking" /\ call[t] \in Calls
    BY DEF PgInv, PgTypes, Running
  <1>2. x.locks \in Seq(AllSpecs) /\ x.locks # <<>> /\ x.statement \in {1, 2}
    BY <1>1 DEF IsTx
  <1>3. s \in Specs(call[t])
    <2>1. s \in Range(x.locks)
      BY <1>2, NothingLeft
    <2>2. Range(x.locks) \subseteq Specs(call[t])
      BY DEF PgInv, LocksTaken, LocksOf
    <2> HIDE DEF s, x
    <2>3. QED
      BY <2>1, <2>2
  <1>4. x.statement <= Len(Locks(s))
    BY <1>1 DEF PgInv, LocksTaken, LocksOf
  <1>5. x.statement = 2 => s.tenant # Every
    <2>1. SUFFICES ASSUME s.tenant = Every, x.statement = 2
                   PROVE  FALSE
      OBVIOUS
    <2>2. Len(Locks(s)) = 1
      BY <2>1, LocksOfSpec
    <2> HIDE DEF s, x
    <2>3. 2 <= 1
      BY <1>4, <2>1, <2>2
    <2>4. QED
      BY <2>3
  <1>6. IsSpec(s)
    BY <1>1, <1>3, CallSpecs
  <1> HIDE DEF s
  <1>7. QED
    BY <1>2, <1>3, <1>5, <1>6 DEF Wanted, s

(* Who holds the lock of all objects of a kind waits for no lock of the kind. *)
LEMMA KindIsDone ==
  ASSUME PgInv, NEW u \in Txs, Running(u, "locking"), Waits(u),
         NEW s, IsSpec(s), s.tenant = Every, Locks(s)[1] \in tx[u].held, Done(tx[u], s)
  PROVE  Head(tx[u].locks).kind # s.kind
  <1> DEFINE w == Head(tx[u].locks)
  <1>1. PICK v \in LockHolders(u, Wanted(u)) : TRUE
    BY WaitCases DEF Waits, Running
  <1>2. PICK g \in tx[v].held : Conflict(Wanted(u), g)
    BY <1>1 DEF LockHolders
  <1>3. v \in Txs /\ v # u
    BY <1>1 DEF LockHolders
  <1>4. \A h \in tx[v].held : ~Conflict(Locks(s)[1], h)
    BY <1>3 DEF PgInv, LocksExclude
  <1>5. \A h \in tx[v].held : h.key # <<s.kind>>
    BY <1>4, LocksOfSpec DEF Conflict
  <1>6. PICK r \in Specs(call[v]) :
           /\ IsSpec(r) /\ Locks(r)[1] \in tx[v].held
           /\ g = Locks(r)[1] \/ (g = Locks(r)[2] /\ r.tenant # Every)
    BY <1>2, <1>3, HeldLock
  <1>7. r.kind # s.kind
    BY <1>5, <1>6, LocksOfSpec
  <1>8. Wanted(u) = Locks(w)[1] \/ (Wanted(u) = Locks(w)[2] /\ w.tenant # Every)
    BY WantedLock
  <1>9. Wanted(u).key = g.key
    BY <1>2 DEF Conflict
  <1> HIDE DEF w
  <1>10. w.kind = r.kind
    BY <1>6, <1>8, <1>9, LocksOfSpec, KeysApart
  <1>11. QED
    BY <1>7, <1>10 DEF w

(* A transaction that waits for a lock of one that waits for a lock is at a
   spec before the other's. *)
LEMMA LockEdge ==
  ASSUME PgInv, NEW t \in Txs, NEW u \in Txs, Running(t, "locking"), u \in LockHolders(t, Wanted(t)),
         Running(u, "locking"), Waits(u)
  PROVE  Before(Head(tx[t].locks), Head(tx[u].locks))
  <1> DEFINE a == Head(tx[t].locks)
             b == Head(tx[u].locks)
  <1>1. /\ a \in AllSpecs /\ b \in AllSpecs /\ IsSpec(a) /\ IsSpec(b)
        /\ Wanted(t) = Locks(a)[1] \/ (Wanted(t) = Locks(a)[2] /\ a.tenant # Every)
    BY WantedLock DEF IsSpec
  <1>2. PICK h \in tx[u].held : Conflict(Wanted(t), h)
    BY DEF LockHolders
  <1>3. PICK s \in Specs(call[u]) :
           /\ IsSpec(s) /\ Locks(s)[1] \in tx[u].held
           /\ \/ h = Locks(s)[1]
              \/ h = Locks(s)[2] /\ s.tenant # Every /\ Done(tx[u], s)
           /\ \/ Done(tx[u], s)
              \/ tx[u].pc = "locking" /\ s = b /\ s.tenant # Every
    BY <1>2, HeldLock
  <1>4. Wanted(t).key = h.key /\ ~(Wanted(t).shared /\ h.shared)
    BY <1>2 DEF Conflict
  <1>5. Done(tx[u], s) => Before(s, b)
    <2>1. tx[u].locks \in Seq(AllSpecs) /\ tx[u].locks # <<>>
      BY DEF PgInv, PgTypes, IsTx, Running
    <2>2. 1 \in DOMAIN tx[u].locks /\ b = tx[u].locks[1]
      BY <2>1
    <2>3. QED
      BY <2>2 DEF Done
  <1>6. s \in AllSpecs
    BY <1>3 DEF IsSpec
  <1>7. Running(u, "locking") /\ s.tenant = Every /\ Done(tx[u], s) => b.kind # s.kind
    BY <1>3, KindIsDone
  <1> SUFFICES Before(a, b)
    OBVIOUS
  <1> HIDE DEF a, b
  <1>8. CASE h = Locks(s)[1] /\ Wanted(t) = Locks(a)[1]
    <2>1. a.kind = s.kind
      BY <1>4, <1>8, LocksOfSpec
    <2>2. s.tenant = Every \/ a.tenant = Every
      BY <1>4, <1>8, LocksOfSpec
    <2>3. CASE s.tenant = Every
      <3>1. Before(s, b) /\ b.kind # s.kind
        BY <1>3, <1>5, <1>7, <2>3
      <3>2. QED
        BY <2>1, <3>1 DEF Before
    <2>4. CASE s.tenant # Every
      <3>1. Before(a, s)
        <4>1. a.tenant = 0 /\ s.tenant \in Nat /\ s.tenant # 0
          BY <1>6, <2>2, <2>4 DEF AllSpecs, Every
        <4>2. QED
          BY <2>1, <4>1 DEF Before
      <3>2. QED
        BY <1>1, <1>3, <1>5, <1>6, <3>1, SpecOrder
    <2>5. QED
      BY <2>3, <2>4
  <1>9. CASE h = Locks(s)[2] /\ s.tenant # Every /\ Done(tx[u], s) /\ Wanted(t) = Locks(a)[2] /\ a.tenant # Every
    <2>1. <<a.kind, a.tenant, a.id>> = <<s.kind, s.tenant, s.id>>
      BY <1>4, <1>9, LocksOfSpec
    <2>2. a.kind = s.kind /\ a.tenant = s.tenant /\ a.id = s.id
      BY <2>1
    <2>3. a = s
      BY <1>1, <1>6, <2>2 DEF AllSpecs
    <2>4. QED
      BY <1>5, <1>9, <2>3
  <1>10. CASE h = Locks(s)[1] /\ Wanted(t) = Locks(a)[2] /\ a.tenant # Every
    <2>1. h.key = <<s.kind>> /\ Wanted(t).key = <<a.kind, a.tenant, a.id>>
      BY <1>10, LocksOfSpec
    <2>2. QED
      BY <1>4, <2>1, KeysApart
  <1>11. CASE h = Locks(s)[2] /\ s.tenant # Every /\ Wanted(t) = Locks(a)[1]
    <2>1. Wanted(t).key = <<a.kind>> /\ h.key = <<s.kind, s.tenant, s.id>>
      BY <1>11, LocksOfSpec
    <2>2. QED
      BY <1>4, <2>1, KeysApart
  <1>12. QED
    BY <1>1, <1>3, <1>8, <1>9, <1>10, <1>11

(* Who owns a row is past its locks, and owns an object of its call. *)
LEMMA Owner ==
  ASSUME PgInv, NEW u \in Txs, call[u].op # "cleanup", NEW o \in tx[u].mine
  PROVE  tx[u].pc \in {"scanning", "inserting"} /\ o \in Touched(call[u]) /\ call[u] \in Calls
  BY DEF PgInv, PgTypes, RowsOfCall, KeepsTo

(* Who waits for a row waits for its owner. *)
LEMMA RowWaiter ==
  ASSUME PgInv, NEW t \in Txs, call[t].op # "cleanup", NEW u, u \in WaitsFor(t), ~Running(t, "locking")
  PROVE  /\ tx[t].pc \in {"scanning", "inserting"} /\ AtRow(t) \in Touched(call[t]) /\ call[t] \in Calls
         /\ u \in Txs /\ u # t /\ AtRow(t) \in tx[u].mine /\ AtRow(t) \notin tx[t].mine
  <1>1. /\ Running(t, "scanning") \/ Running(t, "inserting")
        /\ Running(t, "scanning") => tx[t].scan # <<>>
        /\ Running(t, "inserting") => tx[t].todo # <<>>
        /\ u \in RowOwners(t, AtRow(t))
    BY WaitCases
  <1>2. u \in Txs /\ u # t /\ AtRow(t) \in tx[u].mine
    BY <1>1 DEF RowOwners
  <1>3. IsTx(tx[t]) /\ call[t] \in Calls
    BY DEF PgInv, PgTypes
  <1>4. AtRow(t) \in Touched(call[t])
    <2>1. CASE Running(t, "scanning")
      <3>1. Head(tx[t].scan) \in Range(tx[t].scan)
        BY <1>1, <1>3, <2>1, NothingLeft DEF IsTx
      <3>2. AtRow(t) = Head(tx[t].scan).row
        BY <2>1 DEF AtRow, Running
      <3>3. QED
        BY <3>1, <3>2 DEF PgInv, RowsOfCall, KeepsTo
    <2>2. CASE Running(t, "inserting")
      <3>1. Head(tx[t].todo) \in Range(tx[t].todo)
        BY <1>1, <1>3, <2>2, NothingLeft DEF IsTx
      <3>2. AtRow(t) = Head(tx[t].todo)
        BY <2>2 DEF AtRow, Running
      <3>3. QED
        BY <3>1, <3>2 DEF PgInv, RowsOfCall, KeepsTo
    <2>3. QED
      BY <1>1, <2>1, <2>2
  <1>5. AtRow(t) \notin tx[t].mine
    BY <1>2 DEF PgInv, RowsOwned
  <1>6. QED
    BY <1>1, <1>2, <1>3, <1>4, <1>5 DEF Running

(* A call of one object that owns it waits for nobody. *)
LEMMA SingleOwner ==
  ASSUME PgInv, NEW u \in Txs, call[u].op # "cleanup", ~StateCall(u), NEW o \in tx[u].mine
  PROVE  Level(u) = 6
  <1>1. tx[u].pc \in {"scanning", "inserting"} /\ o \in Touched(call[u]) /\ call[u] \in Calls
    BY Owner
  <1>2. ~Running(u, "locking")
    BY <1>1 DEF Running
  <1>3. \A p \in Touched(call[u]) : p = o
    BY <1>1, CallsAssumption DEF Touched, StateCall
  <1>4. ~Waits(u)
    <2>1. SUFFICES ASSUME NEW v \in WaitsFor(u)
                   PROVE  FALSE
      BY DEF Waits
    <2>2. AtRow(u) \in Touched(call[u]) /\ AtRow(u) \notin tx[u].mine
      BY <1>2, RowWaiter
    <2>3. QED
      BY <1>3, <2>2
  <1>5. QED
    BY <1>2, <1>4, LevelFacts

(* Two calls past their locks keep apart. *)
LEMMA PastLocks ==
  ASSUME PgInv, NEW t \in Txs, NEW u \in Txs, t # u,
         tx[t].pc \in AtWork, tx[u].pc \in AtWork
  PROVE  Apart(call[t], call[u])
  <1>1. ASSUME NEW w \in Txs, tx[w].pc \in AtWork
        PROVE  \A s \in Specs(call[w]) : Range(Locks(s)) \subseteq tx[w].held
    <2>1. IsTx(tx[w])
      BY DEF PgInv, PgTypes
    <2>2. tx[w].locks = <<>>
      BY <1>1, <2>1 DEF IsTx, AtWork
    <2>3. Range(tx[w].locks) = {}
      BY <2>1, <2>2, NothingLeft DEF IsTx
    <2>4. QED
      BY <1>1, <2>3 DEF PgInv, LocksTaken, LocksOf, AtWork
  <1>2. \A a \in tx[t].held, b \in tx[u].held : ~Conflict(a, b)
    BY DEF PgInv, LocksExclude
  <1>3. QED
    BY <1>1, <1>2 DEF Apart

(* A state call that waits for another one is met at a row of a group that is
   locked both ways. *)
LEMMA StateEdge ==
  ASSUME PgInv, NEW t \in Txs, NEW u \in WaitsFor(t), StateCall(t), StateCall(u), ~Running(t, "locking")
  PROVE  /\ Both(call[t], AtRow(t)) /\ Both(call[u], AtRow(t))
         /\ Alone(call[t], AtRow(t)) \/ Alone(call[u], AtRow(t))
         /\ AtRow(t) \in Objects /\ AtRow(t) \in tx[u].mine /\ AtRow(t) \notin tx[t].mine
  <1>0. call[t].op # "cleanup" /\ call[u].op # "cleanup" /\ call[t].op \in StateOps /\ call[u].op \in StateOps
    BY DEF StateCall, StateOps
  <1>1. /\ tx[t].pc \in {"scanning", "inserting"} /\ AtRow(t) \in Touched(call[t]) /\ call[t] \in Calls
        /\ u \in Txs /\ u # t /\ AtRow(t) \in tx[u].mine /\ AtRow(t) \notin tx[t].mine
    BY <1>0, RowWaiter
  <1>2. tx[u].pc \in {"scanning", "inserting"} /\ AtRow(t) \in Touched(call[u]) /\ call[u] \in Calls
    BY <1>0, <1>1, Owner
  <1>3. Apart(call[t], call[u])
    BY <1>1, <1>2, PastLocks DEF AtWork
  <1>4. Both(call[t], AtRow(t)) /\ Both(call[u], AtRow(t)) /\ (Alone(call[t], AtRow(t)) \/ Alone(call[u], AtRow(t)))
    BY <1>0, <1>1, <1>2, <1>3, Meeting
  <1>5. AtRow(t) \in Objects
    BY <1>1, CallSpecs
  <1>6. QED
    BY <1>1, <1>4, <1>5

(* Who is waited for is nearer to its end. *)
LEMMA WaitsUpward ==
  ASSUME PgInv, NEW t \in Txs, NEW u \in WaitsFor(t), call[t].op # "cleanup", call[u].op # "cleanup"
  PROVE  u \in Txs /\ Above(u, t)
  <1>1. CASE Running(t, "locking")
    <2>1. u \in LockHolders(t, Wanted(t))
      BY <1>1, WaitCases DEF Running
    <2>2. u \in Txs
      BY <2>1 DEF LockHolders
    <2>3. Level(t) = 1
      BY <1>1, LevelFacts DEF Waits
    <2>4. CASE Level(u) = 1
      <3>1. Running(u, "locking") /\ Waits(u)
        BY <2>4, LevelFacts
      <3>2. Before(Head(tx[t].locks), Head(tx[u].locks))
        BY <1>1, <2>1, <2>2, <3>1, LockEdge
      <3>3. QED
        BY <2>2, <2>3, <2>4, <3>2 DEF Above
    <2>5. CASE Level(u) # 1
      <3>1. Level(t) < Level(u)
        BY <2>3, <2>5, LevelFacts
      <3>2. QED
        BY <2>2, <3>1 DEF Above
    <2>6. QED
      BY <2>4, <2>5
  <1>2. CASE ~Running(t, "locking")
    <2>1. /\ tx[t].pc \in {"scanning", "inserting"} /\ u \in Txs /\ u # t
          /\ AtRow(t) \in tx[u].mine
      BY <1>2, RowWaiter
    <2>2. tx[u].pc \in {"scanning", "inserting"}
      BY <2>1, Owner
    <2>3. Level(u) # 1 /\ Level(t) # 1 /\ Waits(t)
      BY <1>2, <2>2, LevelFacts DEF Running, Waits
    <2>4. CASE ~StateCall(u)
      <3>1. Level(u) = 6
        BY <2>1, <2>4, SingleOwner
      <3>2. Level(t) # 6
        BY <2>3, LevelFacts
      <3>3. Level(t) < Level(u)
        BY <3>1, <3>2, LevelFacts
      <3>4. QED
        BY <2>1, <3>3 DEF Above
    <2>5. CASE StateCall(u) /\ ~StateCall(t)
      <3>1. Level(t) = 2
        BY <2>3, <2>5, LevelFacts
      <3>2. Level(u) \in {3, 4, 5}
        BY <2>3, <2>5, LevelFacts
      <3>3. Level(t) < Level(u)
        BY <3>1, <3>2
      <3>4. QED
        BY <2>1, <3>3 DEF Above
    <2>6. CASE StateCall(u) /\ StateCall(t)
      <3>1. /\ Both(call[t], AtRow(t)) /\ Both(call[u], AtRow(t))
            /\ Alone(call[t], AtRow(t)) \/ Alone(call[u], AtRow(t))
            /\ AtRow(t) \in Objects
        BY <1>2, <2>6, StateEdge
      <3>2. Level(t) = IF Alone(call[t], AtRow(t)) THEN 3 ELSE 4
        BY <2>3, <2>6, LevelFacts
      <3>3. CASE \A v \in WaitsFor(u) : ~StateCall(v)
        <4>1. Level(u) = 5
          BY <2>3, <2>6, <3>3, LevelFacts
        <4>2. Level(t) < Level(u)
          BY <3>2, <4>1
        <4>3. QED
          BY <2>1, <4>2 DEF Above
      <3>4. CASE \E v \in WaitsFor(u) : StateCall(v)
        <4>1. PICK v \in WaitsFor(u) : StateCall(v)
          BY <3>4
        <4>2. ~Running(u, "locking")
          BY <2>2 DEF Running
        <4>3. Both(call[u], AtRow(u)) /\ AtRow(u) \in Objects /\ AtRow(u) \notin tx[u].mine
          BY <2>1, <2>6, <4>1, <4>2, StateEdge
        <4>4. AtRow(u) # AtRow(t)
          BY <2>1, <4>3
        <4>5. call[u] \in Calls /\ call[u].op \in StateOps
          BY <2>1, <2>6 DEF PgInv, PgTypes, StateCall
        <4>6. ~Alone(call[u], AtRow(t)) /\ ~Alone(call[u], AtRow(u))
          BY <3>1, <4>3, <4>4, <4>5, AloneIsOnly
        <4>7. Level(t) = 3
          BY <3>1, <3>2, <4>6
        <4>8. Level(u) = 4
          BY <2>3, <2>6, <3>4, <4>6, LevelFacts
        <4>9. Level(t) < Level(u)
          BY <4>7, <4>8
        <4>10. QED
          BY <2>1, <4>9 DEF Above
      <3>5. QED
        BY <3>3, <3>4
    <2>7. QED
      BY <2>4, <2>5, <2>6
  <1>3. QED
    BY <1>1, <1>2

(* So none of them waits for itself. *)
LEMMA NoDeadlock ==
  ASSUME PgInv
  PROVE  OnlyCleanupDeadlocks
  <1> DEFINE S == {t \in Txs : call[t].op # "cleanup"}
  <1>1. SUFFICES ASSUME NEW t \in Deadlock(S)
                 PROVE  FALSE
    BY DEF OnlyCleanupDeadlocks
  <1> DEFINE C == {u \in S : Above(u, t)}
  <1>2. t \in S /\ \A D \in SUBSET S : (\A u \in D \cup {t} : WaitsFor(u) \cap S \subseteq D) => t \in D
    <2> HIDE DEF S
    <2>1. /\ t \in S
          /\ \A D \in SUBSET S : (\A u \in D \cup {t} : [v \in S |-> WaitsFor(v) \cap S][u] \subseteq D) => t \in D
      BY DEF Deadlock
    <2>2. ASSUME NEW D \in SUBSET S, \A u \in D \cup {t} : WaitsFor(u) \cap S \subseteq D
          PROVE  t \in D
      <3>1. \A u \in D \cup {t} : [v \in S |-> WaitsFor(v) \cap S][u] \subseteq D
        BY <2>1, <2>2
      <3>2. QED
        BY <2>1, <3>1
    <2>3. QED
      BY <2>1, <2>2
  <1>3. ASSUME NEW u \in C \cup {t}, NEW v \in WaitsFor(u) \cap S
        PROVE  v \in C
    <2>1. u \in S /\ v \in S /\ v \in WaitsFor(u)
      BY <1>2, <1>3
    <2>2. Above(v, u)
      BY <2>1, WaitsUpward
    <2>3. u = t \/ Above(u, t)
      BY <1>3
    <2>4. Above(v, t)
      BY <1>2, <2>1, <2>2, <2>3, AboveOrder
    <2>5. QED
      BY <2>1, <2>4
  <1>4. t \in C
    <2>1. C \in SUBSET S
      OBVIOUS
    <2> HIDE DEF C, S
    <2>2. QED
      BY <1>2, <1>3, <2>1
  <1>5. QED
    BY <1>2, <1>4, AboveOrder

(* A transaction as a record of what it has. *)
LEMMA TxFields ==
  ASSUME NEW at, NEW locks, NEW held, NEW scan, NEW seen, NEW mine, NEW todo, NEW statement
  PROVE  LET x == TxOf(at, locks, held, scan, seen, mine, todo, statement) IN
         /\ x.pc = at /\ x.locks = locks /\ x.held = held /\ x.scan = scan /\ x.seen = seen
         /\ x.mine = mine /\ x.todo = todo /\ x.statement = statement
         /\ x = TxOf(x.pc, x.locks, x.held, x.scan, x.seen, x.mine, x.todo, x.statement)
  BY DEF TxOf

(* What the steps make of it. *)
LEMMA LockMoves ==
  ASSUME PgInv, NEW t \in Txs, Lock(t)
  PROVE  LET x == tx[t]
             y == tx'[t]
             more == x.statement < Len(Locks(Head(x.locks)))
             left == IF more THEN x.locks ELSE Tail(x.locks)
             n == IF more THEN x.statement + 1 ELSE 1
             all == x.held \cup {Wanted(t)}
             at == IF left # <<>> THEN "locking"
                   ELSE IF call[t].op \in {"limited", "observe"} THEN "checking" ELSE "loading"
         IN  /\ tx' = [tx EXCEPT ![t] = y] /\ IsRecord(y)
             /\ y.pc = at /\ y.locks = left /\ y.held = all /\ y.scan = x.scan
             /\ y.seen = x.seen /\ y.mine = x.mine /\ y.todo = x.todo /\ y.statement = n
  <1> DEFINE x == tx[t]
             more == x.statement < Len(Locks(Head(x.locks)))
             left == IF more THEN x.locks ELSE Tail(x.locks)
             n == IF more THEN x.statement + 1 ELSE 1
             all == x.held \cup {Wanted(t)}
             at == IF left # <<>> THEN "locking"
                   ELSE IF call[t].op \in {"limited", "observe"} THEN "checking" ELSE "loading"
  <1>1. tx' = [tx EXCEPT ![t] = [x EXCEPT !.locks = left, !.statement = n, !.held = all, !.pc = at]]
    BY DEF Lock, Update
  <1> DEFINE x0 == TxOf(x.pc, x.locks, x.held, x.scan, x.seen, x.mine, x.todo, x.statement)
             x1 == TxOf(x.pc, left, x.held, x.scan, x.seen, x.mine, x.todo, x.statement)
             x2 == TxOf(x.pc, left, x.held, x.scan, x.seen, x.mine, x.todo, n)
             x3 == TxOf(x.pc, left, all, x.scan, x.seen, x.mine, x.todo, n)
             y0 == TxOf(at, left, all, x.scan, x.seen, x.mine, x.todo, n)
  <1>2. x = x0 /\ DOMAIN tx = Txs
    BY DEF PgInv, PgTypes, IsTx, IsRecord
  <1> HIDE DEF x, more, left, n, all, at
  <1>3. [x0 EXCEPT !.locks = left] = x1
    BY DEF TxOf
  <1>4. [x1 EXCEPT !.statement = n] = x2
    BY DEF TxOf
  <1>5. [x2 EXCEPT !.held = all] = x3
    BY DEF TxOf
  <1>6. [x3 EXCEPT !.pc = at] = y0
    BY DEF TxOf
  <1>7. /\ y0.pc = at /\ y0.locks = left /\ y0.held = all /\ y0.scan = x.scan
       /\ y0.seen = x.seen /\ y0.mine = x.mine /\ y0.todo = x.todo /\ y0.statement = n
       /\ IsRecord(y0)
    BY TxFields DEF IsRecord
  <1> HIDE DEF x0, x1, x2, x3, y0
  <1>8. tx' = [tx EXCEPT ![t] = y0]
    BY <1>1, <1>3, <1>4, <1>5, <1>6, <1>2, Zenon
  <1>9. tx'[t] = y0
    BY <1>2, <1>8
  <1>10. QED
    BY <1>7, <1>8, <1>9 DEF x, more, left, n, all, at

LEMMA CheckLimitMoves ==
  ASSUME PgInv, NEW t \in Txs, CheckLimit(t), ~Store!Refused(call[t], rows)
  PROVE  LET x == tx[t]
             y == tx'[t]
         IN  /\ tx' = [tx EXCEPT ![t] = y] /\ IsRecord(y)
             /\ y.pc = "loading" /\ y.locks = x.locks /\ y.held = x.held /\ y.scan = x.scan
             /\ y.seen = x.seen /\ y.mine = x.mine /\ y.todo = x.todo /\ y.statement = x.statement
  <1> DEFINE x == tx[t]
  <1>1. tx' = [tx EXCEPT ![t] = [x EXCEPT !.pc = "loading"]]
    BY DEF CheckLimit, Update
  <1> DEFINE x0 == TxOf(x.pc, x.locks, x.held, x.scan, x.seen, x.mine, x.todo, x.statement)
             y0 == TxOf("loading", x.locks, x.held, x.scan, x.seen, x.mine, x.todo, x.statement)
  <1>2. x = x0 /\ DOMAIN tx = Txs
    BY DEF PgInv, PgTypes, IsTx, IsRecord
  <1> HIDE DEF x
  <1>3. [x0 EXCEPT !.pc = "loading"] = y0
    BY DEF TxOf
  <1>4. /\ y0.pc = "loading" /\ y0.locks = x.locks /\ y0.held = x.held /\ y0.scan = x.scan
       /\ y0.seen = x.seen /\ y0.mine = x.mine /\ y0.todo = x.todo /\ y0.statement = x.statement
       /\ IsRecord(y0)
    BY TxFields DEF IsRecord
  <1> HIDE DEF x0, y0
  <1>5. tx' = [tx EXCEPT ![t] = y0]
    BY <1>1, <1>3, <1>2, Zenon
  <1>6. tx'[t] = y0
    BY <1>2, <1>5
  <1>7. QED
    BY <1>4, <1>5, <1>6 DEF x

LEMMA FilterMoves ==
  ASSUME PgInv, NEW t \in Txs, FilterObservations(t), call[t].writes \cap DOMAIN rows # call[t].writes
  PROVE  LET x == tx[t]
             y == tx'[t]
             found == [o \in call[t].writes \cap DOMAIN rows |-> rows[o]]
         IN  /\ tx' = [tx EXCEPT ![t] = y] /\ IsRecord(y)
             /\ y.pc = "loading" /\ y.locks = x.locks /\ y.held = x.held /\ y.scan = x.scan
             /\ y.seen = found /\ y.mine = x.mine /\ y.todo = x.todo /\ y.statement = x.statement
  <1> DEFINE x == tx[t]
             found == [o \in call[t].writes \cap DOMAIN rows |-> rows[o]]
  <1>1. tx' = [tx EXCEPT ![t] = [x EXCEPT !.pc = "loading", !.seen = found]]
    BY DEF FilterObservations, Update
  <1> DEFINE x0 == TxOf(x.pc, x.locks, x.held, x.scan, x.seen, x.mine, x.todo, x.statement)
             x1 == TxOf("loading", x.locks, x.held, x.scan, x.seen, x.mine, x.todo, x.statement)
             y0 == TxOf("loading", x.locks, x.held, x.scan, found, x.mine, x.todo, x.statement)
  <1>2. x = x0 /\ DOMAIN tx = Txs
    BY DEF PgInv, PgTypes, IsTx, IsRecord
  <1> HIDE DEF x, found
  <1>3. [x0 EXCEPT !.pc = "loading"] = x1
    BY DEF TxOf
  <1>4. [x1 EXCEPT !.seen = found] = y0
    BY DEF TxOf
  <1>5. /\ y0.pc = "loading" /\ y0.locks = x.locks /\ y0.held = x.held /\ y0.scan = x.scan
       /\ y0.seen = found /\ y0.mine = x.mine /\ y0.todo = x.todo /\ y0.statement = x.statement
       /\ IsRecord(y0)
    BY TxFields DEF IsRecord
  <1> HIDE DEF x0, x1, y0
  <1>6. tx' = [tx EXCEPT ![t] = y0]
    BY <1>1, <1>3, <1>4, <1>2, Zenon
  <1>7. tx'[t] = y0
    BY <1>2, <1>6
  <1>8. QED
    BY <1>5, <1>6, <1>7 DEF x, found

LEMMA LoadMoves ==
  ASSUME PgInv, NEW t \in Txs, Load(t)
  PROVE  LET x == tx[t]
             y == tx'[t]
         IN  /\ tx' = [tx EXCEPT ![t] = y] /\ IsRecord(y)
             /\ y.pc = "scanning" /\ y.locks = x.locks /\ y.held = x.held /\ y.seen = x.seen
             /\ y.mine = x.mine /\ y.todo = x.todo /\ y.statement = x.statement
             /\ y.scan \in SetToSeqs({[row |-> o, created |-> rows[o].created] : o \in Selected(t)})
  <1> DEFINE x == tx[t]
  <1>1. PICK q \in SetToSeqs({[row |-> o, created |-> rows[o].created] : o \in Selected(t)}) : tx' = [tx EXCEPT ![t] = [x EXCEPT !.pc = "scanning", !.scan = q]]
    BY DEF Load, Update
  <1> DEFINE x0 == TxOf(x.pc, x.locks, x.held, x.scan, x.seen, x.mine, x.todo, x.statement)
             x1 == TxOf("scanning", x.locks, x.held, x.scan, x.seen, x.mine, x.todo, x.statement)
             y0 == TxOf("scanning", x.locks, x.held, q, x.seen, x.mine, x.todo, x.statement)
  <1>2. x = x0 /\ DOMAIN tx = Txs
    BY DEF PgInv, PgTypes, IsTx, IsRecord
  <1> HIDE DEF x
  <1>3. [x0 EXCEPT !.pc = "scanning"] = x1
    BY DEF TxOf
  <1>4. [x1 EXCEPT !.scan = q] = y0
    BY DEF TxOf
  <1>5. /\ y0.pc = "scanning" /\ y0.locks = x.locks /\ y0.held = x.held /\ y0.scan = q
       /\ y0.seen = x.seen /\ y0.mine = x.mine /\ y0.todo = x.todo /\ y0.statement = x.statement
       /\ IsRecord(y0)
    BY TxFields DEF IsRecord
  <1> HIDE DEF x0, x1, y0
  <1>6. tx' = [tx EXCEPT ![t] = y0]
    BY <1>1, <1>3, <1>4, <1>2, Zenon
  <1>7. tx'[t] = y0
    BY <1>2, <1>6
  <1>8. QED
    BY <1>1, <1>5, <1>6, <1>7 DEF x

LEMMA NextStatementMoves ==
  ASSUME PgInv, NEW t \in Txs, NextStatement(t)
  PROVE  LET x == tx[t]
             y == tx'[t]
             n == x.statement + 1
         IN  /\ tx' = [tx EXCEPT ![t] = y] /\ IsRecord(y)
             /\ y.pc = "loading" /\ y.locks = x.locks /\ y.held = x.held /\ y.scan = x.scan
             /\ y.seen = x.seen /\ y.mine = x.mine /\ y.todo = x.todo /\ y.statement = n
  <1> DEFINE x == tx[t]
             n == x.statement + 1
  <1>1. tx' = [tx EXCEPT ![t] = [x EXCEPT !.pc = "loading", !.statement = n]]
    BY DEF NextStatement, Update
  <1> DEFINE x0 == TxOf(x.pc, x.locks, x.held, x.scan, x.seen, x.mine, x.todo, x.statement)
             x1 == TxOf("loading", x.locks, x.held, x.scan, x.seen, x.mine, x.todo, x.statement)
             y0 == TxOf("loading", x.locks, x.held, x.scan, x.seen, x.mine, x.todo, n)
  <1>2. x = x0 /\ DOMAIN tx = Txs
    BY DEF PgInv, PgTypes, IsTx, IsRecord
  <1> HIDE DEF x, n
  <1>3. [x0 EXCEPT !.pc = "loading"] = x1
    BY DEF TxOf
  <1>4. [x1 EXCEPT !.statement = n] = y0
    BY DEF TxOf
  <1>5. /\ y0.pc = "loading" /\ y0.locks = x.locks /\ y0.held = x.held /\ y0.scan = x.scan
       /\ y0.seen = x.seen /\ y0.mine = x.mine /\ y0.todo = x.todo /\ y0.statement = n
       /\ IsRecord(y0)
    BY TxFields DEF IsRecord
  <1> HIDE DEF x0, x1, y0
  <1>6. tx' = [tx EXCEPT ![t] = y0]
    BY <1>1, <1>3, <1>4, <1>2, Zenon
  <1>7. tx'[t] = y0
    BY <1>2, <1>6
  <1>8. QED
    BY <1>5, <1>6, <1>7 DEF x, n

LEMMA ScanTakes ==
  ASSUME PgInv, NEW t \in Txs, Scan(t), StillSelected(call[t], Head(tx[t].scan))
  PROVE  LET x == tx[t]
             y == tx'[t]
             rest == Tail(x.scan)
             taken == x.mine \cup {Head(x.scan).row}
             read == Reading(x.seen, Head(x.scan).row)
         IN  /\ tx' = [tx EXCEPT ![t] = y] /\ IsRecord(y)
             /\ y.pc = x.pc /\ y.locks = x.locks /\ y.held = x.held /\ y.scan = rest
             /\ y.seen = read /\ y.mine = taken /\ y.todo = x.todo /\ y.statement = x.statement
  <1> DEFINE x == tx[t]
             rest == Tail(x.scan)
             taken == x.mine \cup {Head(x.scan).row}
             read == Reading(x.seen, Head(x.scan).row)
  <1>1. tx' = [tx EXCEPT ![t] = [x EXCEPT !.scan = rest, !.mine = taken, !.seen = read]]
    BY DEF Scan, Update
  <1> DEFINE x0 == TxOf(x.pc, x.locks, x.held, x.scan, x.seen, x.mine, x.todo, x.statement)
             x1 == TxOf(x.pc, x.locks, x.held, rest, x.seen, x.mine, x.todo, x.statement)
             x2 == TxOf(x.pc, x.locks, x.held, rest, x.seen, taken, x.todo, x.statement)
             y0 == TxOf(x.pc, x.locks, x.held, rest, read, taken, x.todo, x.statement)
  <1>2. x = x0 /\ DOMAIN tx = Txs
    BY DEF PgInv, PgTypes, IsTx, IsRecord
  <1> HIDE DEF x, rest, taken, read
  <1>3. [x0 EXCEPT !.scan = rest] = x1
    BY DEF TxOf
  <1>4. [x1 EXCEPT !.mine = taken] = x2
    BY DEF TxOf
  <1>5. [x2 EXCEPT !.seen = read] = y0
    BY DEF TxOf
  <1>6. /\ y0.pc = x.pc /\ y0.locks = x.locks /\ y0.held = x.held /\ y0.scan = rest
       /\ y0.seen = read /\ y0.mine = taken /\ y0.todo = x.todo /\ y0.statement = x.statement
       /\ IsRecord(y0)
    BY TxFields DEF IsRecord
  <1> HIDE DEF x0, x1, x2, y0
  <1>7. tx' = [tx EXCEPT ![t] = y0]
    BY <1>1, <1>3, <1>4, <1>5, <1>2, Zenon
  <1>8. tx'[t] = y0
    BY <1>2, <1>7
  <1>9. QED
    BY <1>6, <1>7, <1>8 DEF x, rest, taken, read

LEMMA ScanPasses ==
  ASSUME PgInv, NEW t \in Txs, Scan(t), ~StillSelected(call[t], Head(tx[t].scan))
  PROVE  LET x == tx[t]
             y == tx'[t]
             rest == Tail(x.scan)
         IN  /\ tx' = [tx EXCEPT ![t] = y] /\ IsRecord(y)
             /\ y.pc = x.pc /\ y.locks = x.locks /\ y.held = x.held /\ y.scan = rest
             /\ y.seen = x.seen /\ y.mine = x.mine /\ y.todo = x.todo /\ y.statement = x.statement
  <1> DEFINE x == tx[t]
             rest == Tail(x.scan)
  <1>1. tx' = [tx EXCEPT ![t] = [x EXCEPT !.scan = rest]]
    BY DEF Scan, Update
  <1> DEFINE x0 == TxOf(x.pc, x.locks, x.held, x.scan, x.seen, x.mine, x.todo, x.statement)
             y0 == TxOf(x.pc, x.locks, x.held, rest, x.seen, x.mine, x.todo, x.statement)
  <1>2. x = x0 /\ DOMAIN tx = Txs
    BY DEF PgInv, PgTypes, IsTx, IsRecord
  <1> HIDE DEF x, rest
  <1>3. [x0 EXCEPT !.scan = rest] = y0
    BY DEF TxOf
  <1>4. /\ y0.pc = x.pc /\ y0.locks = x.locks /\ y0.held = x.held /\ y0.scan = rest
       /\ y0.seen = x.seen /\ y0.mine = x.mine /\ y0.todo = x.todo /\ y0.statement = x.statement
       /\ IsRecord(y0)
    BY TxFields DEF IsRecord
  <1> HIDE DEF x0, y0
  <1>5. tx' = [tx EXCEPT ![t] = y0]
    BY <1>1, <1>3, <1>2, Zenon
  <1>6. tx'[t] = y0
    BY <1>2, <1>5
  <1>7. QED
    BY <1>4, <1>5, <1>6 DEF x, rest

LEMMA DecideMoves ==
  ASSUME PgInv, NEW t \in Txs, Decide(t), ~Store!Refused(call[t], tx[t].seen)
  PROVE  LET x == tx[t]
             y == tx'[t]
         IN  /\ tx' = [tx EXCEPT ![t] = y] /\ IsRecord(y)
             /\ y.pc = "inserting" /\ y.locks = x.locks /\ y.held = x.held /\ y.scan = x.scan
             /\ y.seen = x.seen /\ y.mine = x.mine /\ y.statement = x.statement
             /\ y.todo \in SetToSeqs(Store!Written(call[t], tx[t].seen) \ tx[t].mine)
  <1> DEFINE x == tx[t]
  <1>1. PICK q \in SetToSeqs(Store!Written(call[t], tx[t].seen) \ tx[t].mine) : tx' = [tx EXCEPT ![t] = [x EXCEPT !.pc = "inserting", !.todo = q]]
    BY DEF Decide, Update
  <1> DEFINE x0 == TxOf(x.pc, x.locks, x.held, x.scan, x.seen, x.mine, x.todo, x.statement)
             x1 == TxOf("inserting", x.locks, x.held, x.scan, x.seen, x.mine, x.todo, x.statement)
             y0 == TxOf("inserting", x.locks, x.held, x.scan, x.seen, x.mine, q, x.statement)
  <1>2. x = x0 /\ DOMAIN tx = Txs
    BY DEF PgInv, PgTypes, IsTx, IsRecord
  <1> HIDE DEF x
  <1>3. [x0 EXCEPT !.pc = "inserting"] = x1
    BY DEF TxOf
  <1>4. [x1 EXCEPT !.todo = q] = y0
    BY DEF TxOf
  <1>5. /\ y0.pc = "inserting" /\ y0.locks = x.locks /\ y0.held = x.held /\ y0.scan = x.scan
       /\ y0.seen = x.seen /\ y0.mine = x.mine /\ y0.todo = q /\ y0.statement = x.statement
       /\ IsRecord(y0)
    BY TxFields DEF IsRecord
  <1> HIDE DEF x0, x1, y0
  <1>6. tx' = [tx EXCEPT ![t] = y0]
    BY <1>1, <1>3, <1>4, <1>2, Zenon
  <1>7. tx'[t] = y0
    BY <1>2, <1>6
  <1>8. QED
    BY <1>1, <1>5, <1>6, <1>7 DEF x

LEMMA InsertMoves ==
  ASSUME PgInv, NEW t \in Txs, Insert(t)
  PROVE  LET x == tx[t]
             y == tx'[t]
             rest == Tail(x.todo)
             taken == x.mine \cup {Head(x.todo)}
         IN  /\ tx' = [tx EXCEPT ![t] = y] /\ IsRecord(y)
             /\ y.pc = x.pc /\ y.locks = x.locks /\ y.held = x.held /\ y.scan = x.scan
             /\ y.seen = x.seen /\ y.mine = taken /\ y.todo = rest /\ y.statement = x.statement
  <1> DEFINE x == tx[t]
             rest == Tail(x.todo)
             taken == x.mine \cup {Head(x.todo)}
  <1>1. tx' = [tx EXCEPT ![t] = [x EXCEPT !.todo = rest, !.mine = taken]]
    BY DEF Insert, Update
  <1> DEFINE x0 == TxOf(x.pc, x.locks, x.held, x.scan, x.seen, x.mine, x.todo, x.statement)
             x1 == TxOf(x.pc, x.locks, x.held, x.scan, x.seen, x.mine, rest, x.statement)
             y0 == TxOf(x.pc, x.locks, x.held, x.scan, x.seen, taken, rest, x.statement)
  <1>2. x = x0 /\ DOMAIN tx = Txs
    BY DEF PgInv, PgTypes, IsTx, IsRecord
  <1> HIDE DEF x, rest, taken
  <1>3. [x0 EXCEPT !.todo = rest] = x1
    BY DEF TxOf
  <1>4. [x1 EXCEPT !.mine = taken] = y0
    BY DEF TxOf
  <1>5. /\ y0.pc = x.pc /\ y0.locks = x.locks /\ y0.held = x.held /\ y0.scan = x.scan
       /\ y0.seen = x.seen /\ y0.mine = taken /\ y0.todo = rest /\ y0.statement = x.statement
       /\ IsRecord(y0)
    BY TxFields DEF IsRecord
  <1> HIDE DEF x0, x1, y0
  <1>6. tx' = [tx EXCEPT ![t] = y0]
    BY <1>1, <1>3, <1>4, <1>2, Zenon
  <1>7. tx'[t] = y0
    BY <1>2, <1>6
  <1>8. QED
    BY <1>5, <1>6, <1>7 DEF x, rest, taken

(* A step of one transaction. *)
LEMMA OneChanges ==
  ASSUME PgInv, NEW t \in Txs, NEW x, tx' = [tx EXCEPT ![t] = x], call' = call,
         IsTx(x), LocksOf(call[t], x), KeepsTo(call[t], x), IsStore(rows'),
         \A a \in x.held : a \in tx[t].held \/ LockHolders(t, a) = {},
         \A o \in x.mine : o \in tx[t].mine \/ RowOwners(t, o) = {}
  PROVE  PgInv'
  <1>0. DOMAIN tx = Txs
    BY DEF PgInv, PgTypes
  <1>1. tx'[t] = x /\ \A u \in Txs : u # t => tx'[u] = tx[u]
    BY <1>0
  <1>2. PgTypes'
    <2>1. DOMAIN call' = Txs /\ (\A u \in Txs : call'[u] \in Calls) /\ DOMAIN tx' = Txs
      BY <1>0 DEF PgInv, PgTypes
    <2>2. \A u \in Txs : IsTx(tx'[u])
      BY <1>1 DEF PgInv, PgTypes
    <2>3. QED
      BY <2>1, <2>2 DEF PgTypes
  <1>3. LocksTaken'
    BY <1>1 DEF PgInv, LocksTaken
  <1>4. RowsOfCall'
    BY <1>1 DEF PgInv, RowsOfCall
  <1>5. LocksExclude'
    <2>1. ASSUME NEW u \in Txs, u # t, NEW a \in x.held, NEW b \in tx[u].held
          PROVE  ~Conflict(a, b) /\ ~Conflict(b, a)
      <3>1. ~Conflict(a, b)
        BY <2>1 DEF PgInv, LocksExclude, LockHolders
      <3>2. QED
        BY <3>1 DEF Conflict
    <2>2. ASSUME NEW u \in Txs, NEW v \in Txs, u # v, NEW a \in tx'[u].held, NEW b \in tx'[v].held
          PROVE  ~Conflict(a, b)
      <3>1. CASE u = t
        BY <1>1, <2>1, <2>2, <3>1
      <3>2. CASE v = t
        BY <1>1, <2>1, <2>2, <3>2
      <3>3. CASE u # t /\ v # t
        BY <1>1, <2>2, <3>3 DEF PgInv, LocksExclude
      <3>4. QED
        BY <3>1, <3>2, <3>3
    <2>3. QED
      BY <2>2 DEF LocksExclude
  <1>6. RowsOwned'
    <2>1. ASSUME NEW u \in Txs, u # t
          PROVE  x.mine \cap tx[u].mine = {}
      <3>1. tx[t].mine \cap tx[u].mine = {}
        BY <2>1 DEF PgInv, RowsOwned
      <3>2. QED
        BY <2>1, <3>1 DEF RowOwners
    <2>2. ASSUME NEW u \in Txs, NEW v \in Txs, u # v
          PROVE  tx'[u].mine \cap tx'[v].mine = {}
      <3>1. CASE u = t
        BY <1>1, <2>1, <2>2, <3>1
      <3>2. CASE v = t
        <4>1. tx'[u].mine = tx[u].mine /\ tx'[v].mine = x.mine /\ u # t
          BY <1>1, <2>2, <3>2
        <4>2. x.mine \cap tx[u].mine = {}
          BY <2>1, <4>1
        <4>3. QED
          BY <4>1, <4>2
      <3>3. CASE u # t /\ v # t
        BY <1>1, <2>2, <3>3 DEF PgInv, RowsOwned
      <3>4. QED
        BY <3>1, <3>2, <3>3
    <2>3. QED
      BY <2>2 DEF RowsOwned
  <1>7. QED
    BY <1>2, <1>3, <1>4, <1>5, <1>6 DEF PgInv

(* A transaction that begins, and one that has ended. *)
LEMMA Empty ==
  /\ IsStore(<<>>) /\ <<>> \in Seq(Entries) /\ <<>> \in Seq(Objects) /\ <<>> \in Seq(AllSpecs)
  /\ Range(<<>>) = {} /\ InOrder(<<>>)
  <1>1. <<>> \in [DOMAIN <<>> -> Value] /\ DOMAIN <<>> = {}
    OBVIOUS
  <1>2. Range(<<>>) = {} /\ InOrder(<<>>)
    BY <1>1 DEF Range, InOrder
  <1>3. QED
    BY <1>1, <1>2 DEF IsStore

(* One that has ended holds nothing. *)
LEMMA EndedTx ==
  ASSUME NEW c \in Calls, NEW at \in {"committed", "aborted"}
  PROVE  LET x == Fresh(at, <<>>) IN
         IsTx(x) /\ LocksOf(c, x) /\ KeepsTo(c, x) /\ x.held = {} /\ x.mine = {}
  <1> DEFINE x == Fresh(at, <<>>)
  <1>1. x = TxOf(at, <<>>, {}, <<>>, <<>>, {}, <<>>, 1)
    BY DEF Fresh, TxOf
  <1> HIDE DEF x
  <1>2. /\ x.pc = at /\ x.locks = <<>> /\ x.held = {} /\ x.scan = <<>> /\ x.seen = <<>>
        /\ x.mine = {} /\ x.todo = <<>> /\ x.statement = 1
        /\ x = TxOf(x.pc, x.locks, x.held, x.scan, x.seen, x.mine, x.todo, x.statement)
    BY <1>1, TxFields
  <1>3. IsTx(x)
    BY <1>2, Empty DEF IsTx, IsRecord
  <1>4. LocksOf(c, x)
    BY <1>2, Empty DEF LocksOf, AtWork
  <1>5. KeepsTo(c, x)
    BY <1>2, Empty DEF KeepsTo
  <1>6. QED
    BY <1>2, <1>3, <1>4, <1>5 DEF x

FirstOf(c) == Fresh(IF c.specs # <<>> THEN "locking" ELSE "loading", NormalizeSpecs(c.specs))

(* One that begins holds nothing and has its specs to lock. *)
LEMMA FirstTx ==
  ASSUME NEW c \in Calls
  PROVE  LET x == FirstOf(c) IN
         IsTx(x) /\ LocksOf(c, x) /\ KeepsTo(c, x) /\ x.held = {} /\ x.mine = {}
  <1> DEFINE at == IF c.specs # <<>> THEN "locking" ELSE "loading"
             q == NormalizeSpecs(c.specs)
             x == FirstOf(c)
  <1>1. q \in Seq(AllSpecs) /\ Range(q) = Specs(c) /\ InOrder(q) /\ (q = <<>> <=> c.specs = <<>>)
    BY CallSpecs, Normalized DEF Specs
  <1>2. x = TxOf(at, q, {}, <<>>, <<>>, {}, <<>>, 1)
    BY DEF FirstOf, Fresh, TxOf
  <1>3. at \in {"locking", "loading"} /\ (at = "locking" <=> q # <<>>)
    BY <1>1
  <1> HIDE DEF x, q, at
  <1>4. /\ x.pc = at /\ x.locks = q /\ x.held = {} /\ x.scan = <<>> /\ x.seen = <<>>
        /\ x.mine = {} /\ x.todo = <<>> /\ x.statement = 1
        /\ x = TxOf(x.pc, x.locks, x.held, x.scan, x.seen, x.mine, x.todo, x.statement)
    BY <1>2, TxFields
  <1>5. IsTx(x)
    BY <1>1, <1>3, <1>4, Empty DEF IsTx, IsRecord, AtWork
  <1>6. LocksOf(c, x)
    <2> DEFINE m == Len(Locks(Head(x.locks)))
    <2>1. 1 <= m
      <3>1. m \in {1, 2}
        BY LocksOfSpec
      <3> HIDE DEF m
      <3>2. QED
        BY <3>1
    <2>2. QED
      BY <1>1, <1>3, <1>4, <2>1 DEF LocksOf
  <1>7. KeepsTo(c, x)
    BY <1>3, <1>4, Empty DEF KeepsTo
  <1>8. QED
    BY <1>4, <1>5, <1>6, <1>7 DEF x, q, at

(* A transaction may end at any time. *)
LEMMA EndStep ==
  ASSUME PgInv, NEW t \in Txs, NEW at \in {"committed", "aborted"}, End(t, at), call' = call, IsStore(rows')
  PROVE  PgInv'
  <1> DEFINE x == Fresh(at, <<>>)
  <1>1. tx' = [tx EXCEPT ![t] = x]
    BY DEF End, Update
  <1>2. call[t] \in Calls
    BY DEF PgInv, PgTypes
  <1>3. IsTx(x) /\ LocksOf(call[t], x) /\ KeepsTo(call[t], x) /\ x.held = {} /\ x.mine = {}
    BY <1>2, EndedTx
  <1> HIDE DEF x
  <1>4. QED
    BY <1>1, <1>3, OneChanges

(* lockSpecs: one more lock, or the last of a spec. *)
LEMMA LockStep ==
  ASSUME PgInv, NEW t \in Txs, Lock(t)
  PROVE  PgInv'
  <1> DEFINE x == tx[t]
             c == call[t]
             s == Head(x.locks)
             more == x.statement < Len(Locks(s))
             left == IF more THEN x.locks ELSE Tail(x.locks)
             at == IF left # <<>> THEN "locking"
                   ELSE IF c.op \in {"limited", "observe"} THEN "checking" ELSE "loading"
             n == IF more THEN x.statement + 1 ELSE 1
             got == Locks(s)[x.statement]
             y == tx'[t]
  <1>1. c \in Calls /\ IsTx(x) /\ LocksOf(c, x) /\ KeepsTo(c, x) /\ IsStore(rows) /\ DOMAIN tx = Txs
    BY DEF PgInv, PgTypes, LocksTaken, RowsOfCall
  <1>2. x.pc = "locking" /\ LockHolders(t, got) = {}
    BY DEF Lock, Running, WaitsFor, Wanted
  <1>3. x.locks \in Seq(AllSpecs) /\ x.locks # <<>> /\ x.statement \in {1, 2}
    BY <1>1, <1>2 DEF IsTx
  <1>4. /\ s \in Range(x.locks) /\ Range(x.locks) = {s} \cup Range(Tail(x.locks))
        /\ Tail(x.locks) \in Seq(AllSpecs)
    BY <1>3, NothingLeft
  <1>5. call' = call /\ rows' = rows
    BY DEF Lock
  <1>6. /\ tx' = [tx EXCEPT ![t] = y] /\ IsRecord(y)
        /\ y.pc = at /\ y.locks = left /\ y.held = x.held \cup {got} /\ y.scan = x.scan /\ y.seen = x.seen
        /\ y.mine = x.mine /\ y.todo = x.todo /\ y.statement = n
    BY LockMoves DEF Wanted
  <1> HIDE DEF y
  <1> DEFINE m == Len(Locks(s))
  <1>7. m \in {1, 2} /\ x.statement <= m /\ (more <=> x.statement < m)
    <2>1. Len(Locks(s)) \in {1, 2}
      BY LocksOfSpec
    <2>2. QED
      BY <1>1, <1>2, <2>1 DEF LocksOf
  <1>8. at \in {"locking", "checking", "loading"} /\ (at = "locking" <=> left # <<>>) /\ n \in 1..2
        /\ left \in Seq(AllSpecs)
    <2>1. n \in 1..2
      <3> HIDE DEF m, x, more
      <3>1. more => x.statement = 1
        BY <1>3, <1>7
      <3>2. QED
        BY <3>1
    <2>2. left \in Seq(AllSpecs)
      BY <1>3, <1>4
    <2> HIDE DEF left, n
    <2>3. QED
      BY <2>1, <2>2
  <1>9. IsTx(y)
    <2> HIDE DEF y, at, left, n
    <2>1. QED
      BY <1>1, <1>6, <1>8 DEF IsTx, AtWork
  <1>10. KeepsTo(c, y)
    <2>1. x.mine = {}
      BY <1>1, <1>2 DEF KeepsTo, AtWork
    <2> HIDE DEF y, at, left, n
    <2>2. QED
      BY <1>1, <1>2, <1>6, <2>1 DEF KeepsTo
  <1>11. LocksOf(c, y)
    <2>1. CASE more
      <3>1. x.statement = 1 /\ n = 2 /\ got = Locks(s)[1] /\ Len(Locks(s)) = 2
        <4> HIDE DEF m, more, x
        <4>1. x.statement = 1 /\ m = 2
          BY <1>3, <1>7, <2>1
        <4>2. QED
          BY <2>1, <4>1 DEF m
      <3>2. y.pc = "locking" /\ y.locks = x.locks /\ y.statement = 2
        BY <1>3, <1>6, <2>1, <3>1
      <3> HIDE DEF y, at, left, n, got, more
      <3>3. \A r : Done(y, r) <=> Done(x, r)
        BY <3>2 DEF Done
      <3>4. \A h \in y.held : \E r \in Specs(c) :
               \/ h \in Range(Locks(r)) /\ Done(y, r)
               \/ y.pc = "locking" /\ r = Head(y.locks) /\ y.statement = 2 /\ h = Locks(r)[1]
        <4>1. ASSUME NEW h \in x.held
              PROVE  \E r \in Specs(c) :
               \/ h \in Range(Locks(r)) /\ Done(y, r)
               \/ y.pc = "locking" /\ r = Head(y.locks) /\ y.statement = 2 /\ h = Locks(r)[1]
          BY <1>1, <3>2, <3>3 DEF LocksOf
        <4>2. s \in Specs(c)
          BY <1>1, <1>4 DEF LocksOf
        <4>3. QED
          BY <1>6, <3>1, <3>2, <4>1, <4>2
      <3>5. y.statement <= Len(Locks(Head(y.locks))) /\ Locks(Head(y.locks))[1] \in y.held
        <4>1. Head(y.locks) = s
          BY <3>2
        <4>2. 2 <= 2
          OBVIOUS
        <4> HIDE DEF s, x
        <4>3. QED
          BY <1>6, <3>1, <3>2, <4>1, <4>2
      <3>6. QED
        BY <1>1, <1>2, <1>6, <3>2, <3>4, <3>5 DEF LocksOf
    <2>2. CASE ~more
      <3>1. x.statement = Len(Locks(s)) /\ n = 1 /\ left = Tail(x.locks)
        <4> HIDE DEF m, more, x
        <4>1. x.statement = m
          BY <1>3, <1>7, <2>2
        <4>2. QED
          BY <2>2, <4>1 DEF m
      <3>2. y.locks = Tail(x.locks) /\ y.statement = 1
        BY <1>6, <3>1
      <3>3. InOrder(x.locks) /\ Range(x.locks) \subseteq Specs(c) /\ s \in Specs(c)
        BY <1>1, <1>4 DEF LocksOf
      <3>4. /\ 1 \in DOMAIN x.locks /\ s = x.locks[1]
            /\ \A i \in DOMAIN Tail(x.locks) : i + 1 \in DOMAIN x.locks /\ Tail(x.locks)[i] = x.locks[i + 1] /\ i >= 1
            /\ DOMAIN Tail(x.locks) \subseteq Nat /\ DOMAIN x.locks \subseteq Nat
        BY <1>3
      <3> HIDE DEF y, at, left, n, more, s, x
      <3>5. InOrder(y.locks) /\ Done(y, s)
        <4>1. InOrder(Tail(x.locks))
          <5>1. ASSUME NEW i \in DOMAIN Tail(x.locks), NEW j \in DOMAIN Tail(x.locks), i < j
                PROVE  Before(Tail(x.locks)[i], Tail(x.locks)[j])
            <6>1. i + 1 < j + 1
              BY <3>4, <5>1
            <6>2. QED
              BY <3>3, <3>4, <6>1 DEF InOrder
          <5>2. QED
            BY <5>1 DEF InOrder
        <4>2. ASSUME NEW i \in DOMAIN Tail(x.locks)
              PROVE  Before(s, Tail(x.locks)[i])
          <5>1. 1 < i + 1
            BY <3>4
          <5>2. QED
            BY <3>3, <3>4, <5>1 DEF InOrder
        <4>3. QED
          BY <3>2, <4>1, <4>2 DEF Done
      <3>6. \A r : Done(x, r) => Done(y, r)
        BY <3>2, <3>4 DEF Done
      <3>7. Range(Locks(s)) \subseteq y.held /\ got \in Range(Locks(s)) /\ Locks(s)[1] \in Range(Locks(s))
        <4>1. CASE Len(Locks(s)) = 1
          <5>1. Range(Locks(s)) = {Locks(s)[1]} /\ got = Locks(s)[1]
            BY <3>1, <4>1, LocksOfSpec
          <5>2. QED
            BY <1>6, <5>1
        <4>2. CASE Len(Locks(s)) = 2
          <5>1. Range(Locks(s)) = {Locks(s)[1], Locks(s)[2]} /\ got = Locks(s)[2]
            BY <3>1, <4>2, LocksOfSpec
          <5>2. Locks(s)[1] \in x.held
            BY <1>1, <1>2, <3>1, <4>2 DEF LocksOf, s
          <5> HIDE DEF got
          <5>3. QED
            BY <1>6, <5>1, <5>2
        <4>3. QED
          BY <1>7, <4>1, <4>2
      <3>8. \A h \in y.held : \E r \in Specs(c) : h \in Range(Locks(r)) /\ Done(y, r)
        <4>1. ASSUME NEW h \in x.held
              PROVE  \E r \in Specs(c) : h \in Range(Locks(r)) /\ Done(y, r)
          <5>1. PICK r \in Specs(c) : \/ h \in Range(Locks(r)) /\ Done(x, r)
                                      \/ r = s /\ h = Locks(r)[1]
            BY <1>1 DEF LocksOf, s
          <5>2. QED
            BY <3>3, <3>5, <3>6, <3>7, <5>1
        <4> HIDE DEF got
        <4>2. QED
          BY <1>6, <3>3, <3>5, <3>7, <4>1
      <3>9. \A r \in Specs(c) : r \in Range(y.locks) \/ Range(Locks(r)) \subseteq y.held
        <4>1. \A r \in Specs(c) : r \in Range(x.locks) \/ Range(Locks(r)) \subseteq x.held
          BY <1>1, <1>2 DEF LocksOf
        <4>2. QED
          BY <1>4, <1>6, <3>2, <3>7, <4>1
      <3>10. Range(y.locks) \subseteq Specs(c)
        BY <1>4, <3>2, <3>3
      <3>11. y.statement <= Len(Locks(Head(y.locks))) /\ y.statement # 2
        <4> DEFINE k == Len(Locks(Head(y.locks)))
        <4>1. k \in {1, 2}
          BY LocksOfSpec
        <4> HIDE DEF k
        <4>2. y.statement <= k
          BY <3>2, <4>1
        <4>3. y.statement # 2
          BY <3>2
        <4>4. QED
          BY <4>2, <4>3 DEF k
      <3>12. y.pc \notin {"committed", "aborted"}
        BY <1>6, <1>8
      <3>13. QED
        BY <3>5, <3>8, <3>9, <3>10, <3>11, <3>12 DEF LocksOf
    <2>3. QED
      BY <2>1, <2>2
  <1>12. (\A a \in y.held : a \in x.held \/ LockHolders(t, a) = {}) /\ (\A o \in y.mine : o \in x.mine)
    <2> HIDE DEF y, got, x
    <2>1. QED
      BY <1>2, <1>6
  <1>13. IsStore(rows')
    BY <1>1, <1>5
  <1>14. QED
    BY <1>5, <1>6, <1>9, <1>10, <1>11, <1>12, <1>13, OneChanges

(* Who waits for nobody finds the row it is at free. *)
LEMMA FreeRow ==
  ASSUME NEW t, WaitsFor(t) = {}
  PROVE  /\ Running(t, "scanning") /\ tx[t].scan # <<>> => RowOwners(t, Head(tx[t].scan).row) = {}
         /\ Running(t, "inserting") /\ tx[t].todo # <<>> => RowOwners(t, Head(tx[t].todo)) = {}
  <1>1. CASE Running(t, "scanning")
    <2>1. ~Running(t, "locking") /\ ~Running(t, "inserting")
      BY <1>1 DEF Running
    <2>2. QED
      BY <1>1, <2>1 DEF WaitsFor
  <1>2. CASE Running(t, "inserting")
    <2>1. ~Running(t, "locking") /\ ~Running(t, "scanning")
      BY <1>2 DEF Running
    <2>2. QED
      BY <1>2, <2>1 DEF WaitsFor
  <1>3. QED
    BY <1>1, <1>2

(* A transaction past its locks that goes on. *)
LEMMA WorkStep ==
  ASSUME PgInv, NEW t \in Txs, call' = call, IsStore(rows'), tx[t].pc \in AtWork,
         NEW y, tx' = [tx EXCEPT ![t] = y], IsTx(y), y.pc \in AtWork,
         y.locks = tx[t].locks, y.held = tx[t].held, KeepsTo(call[t], y),
         \A o \in y.mine : o \in tx[t].mine \/ RowOwners(t, o) = {}
  PROVE  PgInv'
  <1> DEFINE x == tx[t]
             c == call[t]
  <1>1. c \in Calls /\ IsTx(x) /\ LocksOf(c, x)
    BY DEF PgInv, PgTypes, LocksTaken
  <1>2. y.pc # "locking" /\ y.pc \notin {"committed", "aborted"} /\ x.pc # "locking"
    BY DEF AtWork
  <1>3. LocksOf(c, y)
    <2>1. \A r : Done(x, r) => Done(y, r)
      BY DEF Done
    <2>2. \A h \in y.held : \E s \in Specs(c) : h \in Range(Locks(s)) /\ Done(y, s)
      BY <1>1, <1>2, <2>1 DEF LocksOf
    <2>3. \A s \in Specs(c) : s \in Range(y.locks) \/ Range(Locks(s)) \subseteq y.held
      BY <1>1, <1>2 DEF LocksOf
    <2>4. InOrder(y.locks) /\ Range(y.locks) \subseteq Specs(c)
      BY <1>1 DEF LocksOf
    <2>5. QED
      BY <1>2, <2>2, <2>3, <2>4 DEF LocksOf
  <1>4. QED
    BY <1>3, OneChanges

(* A transaction past its locks, in short. *)
LEMMA AtWorkFacts ==
  ASSUME PgInv, NEW t \in Txs, tx[t].pc \in AtWork
  PROVE  LET x == tx[t] IN
         /\ call[t] \in Calls /\ IsTx(x) /\ IsStore(rows)
         /\ x.scan \in Seq(Entries) /\ x.todo \in Seq(Objects) /\ IsStore(x.seen) /\ x.statement \in 1..2
         /\ KeepsTo(call[t], x) /\ x.locks \in Seq(AllSpecs) /\ x.locks = <<>>
  <1>1. call[t] \in Calls /\ IsTx(tx[t]) /\ IsStore(rows) /\ KeepsTo(call[t], tx[t])
    BY DEF PgInv, PgTypes, RowsOfCall
  <1>2. tx[t].pc # "locking"
    BY DEF AtWork
  <1>3. QED
    BY <1>1, <1>2 DEF IsTx

(* The quota keeps it. *)
LEMMA CheckLimitStep ==
  ASSUME PgInv, NEW t \in Txs, CheckLimit(t)
  PROVE  PgInv'
  <1> DEFINE x == tx[t]
             c == call[t]
             y == tx'[t]
  <1>1. x.pc = "checking" /\ x.pc \in AtWork
    BY DEF CheckLimit, Running, AtWork
  <1>2. /\ c \in Calls /\ IsTx(x) /\ IsStore(rows) /\ KeepsTo(c, x)
        /\ x.scan \in Seq(Entries) /\ x.todo \in Seq(Objects) /\ IsStore(x.seen) /\ x.statement \in 1..2
        /\ x.locks \in Seq(AllSpecs) /\ x.locks = <<>>
    BY <1>1, AtWorkFacts
  <1>3. rows' = rows /\ call' = call /\ IsStore(rows')
    BY <1>2 DEF CheckLimit
  <1>4. CASE Store!Refused(c, rows)
    <2>1. End(t, "aborted")
      BY <1>4 DEF CheckLimit
    <2>2. QED
      BY <1>3, <2>1, EndStep
  <1>5. CASE ~Store!Refused(c, rows)
    <2>1. /\ tx' = [tx EXCEPT ![t] = y] /\ IsRecord(y)
          /\ y.pc = "loading" /\ y.locks = x.locks /\ y.held = x.held /\ y.scan = x.scan
          /\ y.seen = x.seen /\ y.mine = x.mine /\ y.todo = x.todo /\ y.statement = x.statement
      BY <1>5, CheckLimitMoves
    <2> HIDE DEF x, c, y
    <2>2. IsTx(y) /\ y.pc \in AtWork
      BY <1>1, <1>2, <2>1 DEF IsTx, AtWork
    <2>3. KeepsTo(c, y)
      BY <1>1, <1>2, <2>1 DEF KeepsTo, AtWork
    <2>4. \A o \in y.mine : o \in x.mine \/ RowOwners(t, o) = {}
      BY <2>1
    <2>5. QED
      BY <1>1, <1>2, <1>3, <2>1, <2>2, <2>3, <2>4, WorkStep DEF x, c
  <1>6. QED
    BY <1>4, <1>5

(* The filter of observations keeps it. *)
LEMMA FilterObservationsStep ==
  ASSUME PgInv, NEW t \in Txs, FilterObservations(t)
  PROVE  PgInv'
  <1> DEFINE x == tx[t]
             c == call[t]
             y == tx'[t]
  <1>1. x.pc = "checking" /\ x.pc \in AtWork
    BY DEF FilterObservations, Running, AtWork
  <1>2. /\ c \in Calls /\ IsTx(x) /\ IsStore(rows) /\ KeepsTo(c, x)
        /\ x.scan \in Seq(Entries) /\ x.todo \in Seq(Objects) /\ IsStore(x.seen) /\ x.statement \in 1..2
        /\ x.locks \in Seq(AllSpecs) /\ x.locks = <<>>
    BY <1>1, AtWorkFacts
  <1>3. rows' = rows /\ call' = call /\ IsStore(rows')
    BY <1>2 DEF FilterObservations
  <1> DEFINE known == c.writes \cap DOMAIN rows
             found == [o \in known |-> rows[o]]
  <1>4. IsStore(found)
    <2>1. known \subseteq Objects /\ DOMAIN found = known /\ \A o \in known : rows[o] \in Value
      BY <1>2 DEF IsStore
    <2>2. QED
      BY <2>1 DEF IsStore
  <1>5. CASE known = c.writes
    <2>1. End(t, "committed")
      BY <1>5 DEF FilterObservations
    <2>2. QED
      BY <1>3, <2>1, EndStep
  <1>6. CASE known # c.writes
    <2>1. /\ tx' = [tx EXCEPT ![t] = y] /\ IsRecord(y)
          /\ y.pc = "loading" /\ y.locks = x.locks /\ y.held = x.held /\ y.scan = x.scan
          /\ y.seen = found /\ y.mine = x.mine /\ y.todo = x.todo /\ y.statement = x.statement
      BY <1>6, FilterMoves
    <2> HIDE DEF x, c, y, found
    <2>2. IsTx(y) /\ y.pc \in AtWork
      BY <1>1, <1>2, <1>4, <2>1 DEF IsTx, AtWork
    <2>3. KeepsTo(c, y)
      BY <1>1, <1>2, <2>1 DEF KeepsTo, AtWork
    <2>4. \A o \in y.mine : o \in x.mine \/ RowOwners(t, o) = {}
      BY <2>1
    <2>5. QED
      BY <1>1, <1>2, <1>3, <2>1, <2>2, <2>3, <2>4, WorkStep DEF x, c
  <1>7. QED
    BY <1>5, <1>6

(* Going on to the next statement keeps it. *)
LEMMA NextStatementStep ==
  ASSUME PgInv, NEW t \in Txs, NextStatement(t)
  PROVE  PgInv'
  <1> DEFINE x == tx[t]
             c == call[t]
             y == tx'[t]
  <1>1. x.pc = "scanning" /\ x.pc \in AtWork
    BY DEF NextStatement, Running, AtWork
  <1>2. /\ c \in Calls /\ IsTx(x) /\ IsStore(rows) /\ KeepsTo(c, x)
        /\ x.scan \in Seq(Entries) /\ x.todo \in Seq(Objects) /\ IsStore(x.seen) /\ x.statement \in 1..2
        /\ x.locks \in Seq(AllSpecs) /\ x.locks = <<>>
    BY <1>1, AtWorkFacts
  <1>3. rows' = rows /\ call' = call /\ IsStore(rows')
    BY <1>2 DEF NextStatement
  <1> DEFINE n == x.statement + 1
  <1>4. c.op = "cleanup" /\ n \in 1..2
    <2>1. c.op = "cleanup" /\ x.statement # Len(Retained)
      BY DEF NextStatement, LastStatement
    <2>2. Len(Retained) = 2
      BY DEF Retained
    <2> HIDE DEF x
    <2>3. QED
      BY <1>2, <2>1, <2>2
  <1>5. QED
    <2>1. /\ tx' = [tx EXCEPT ![t] = y] /\ IsRecord(y)
          /\ y.pc = "loading" /\ y.locks = x.locks /\ y.held = x.held /\ y.scan = x.scan
          /\ y.seen = x.seen /\ y.mine = x.mine /\ y.todo = x.todo /\ y.statement = n
      BY NextStatementMoves
    <2> HIDE DEF x, c, y, n
    <2>2. IsTx(y) /\ y.pc \in AtWork
      BY <1>1, <1>2, <1>4, <2>1 DEF IsTx, AtWork
    <2>3. KeepsTo(c, y)
      BY <1>1, <1>2, <1>4, <2>1 DEF KeepsTo, AtWork
    <2>4. \A o \in y.mine : o \in x.mine \/ RowOwners(t, o) = {}
      BY <2>1
    <2>5. QED
      BY <1>1, <1>2, <1>3, <2>1, <2>2, <2>3, <2>4, WorkStep DEF x, c

(* An enumeration of a set has its elements. *)
LEMMA Enumerated ==
  ASSUME NEW T, NEW S \in SUBSET T, IsFiniteSet(S), NEW q \in SetToSeqs(S)
  PROVE  q \in Seq(T) /\ Range(q) = S
  <1> DEFINE n == Cardinality(S)
  <1>1. n \in Nat
    BY FS_CardinalityType
  <1>2. q \in [1..n -> S] /\ \A i, j \in 1..n : i # j => q[i] # q[j]
    BY DEF SetToSeqs
  <1> HIDE DEF n
  <1>3. IsFiniteSet(1..n) /\ Cardinality(1..n) = n
    BY <1>1, FS_Interval
  <1>4. q \in Injection(1..n, S)
    BY <1>2 DEF Injection, IsInjective
  <1>5. q \in Surjection(1..n, S)
    BY <1>3, <1>4, FS_Injection DEF n
  <1>6. QED
    BY <1>1, <1>2, <1>5 DEF Range, Surjection

(* The rows of a statement that locks rows. *)
LEMMA SelectedRows ==
  ASSUME PgInv, NEW t \in Txs
  PROVE  LET c == call[t] IN
         /\ Selected(t) \subseteq DOMAIN rows /\ Selected(t) \subseteq Objects /\ IsFiniteSet(Selected(t))
         /\ c.op \in {"put", "limited"} => Selected(t) = DOMAIN rows \cap c.writes
         /\ c.op = "delete" => Selected(t) = DOMAIN rows \cap c.removes
         /\ c.op = "cleanup" => Selected(t) \subseteq c.removes
         /\ c.op \in StateOps => Selected(t) = {o \in DOMAIN rows : \E s \in Specs(c) : MatchesSpec(s, o)}
         /\ c.op # "cleanup" => Selected(t) \subseteq Touched(c)
  <1> DEFINE c == call[t]
  <1>1. c \in Calls /\ IsStore(rows)
    BY DEF PgInv, PgTypes
  <1>2. c.op \in {"put", "limited", "delete", "cleanup"} \cup StateOps
    BY <1>1, CallsAssumption
  <1>3. Selected(t) \subseteq DOMAIN rows /\ Selected(t) \subseteq Objects
    BY <1>1 DEF Selected, IsStore
  <1>4. IsFiniteSet(Selected(t))
    BY <1>3, PgAssumption, FS_Subset
  <1>5. c.op \in {"put", "limited"} => Selected(t) = DOMAIN rows \cap c.writes
    BY DEF Selected
  <1>6. c.op = "delete" => Selected(t) = DOMAIN rows \cap c.removes
    BY DEF Selected
  <1>7. c.op = "cleanup" => Selected(t) \subseteq c.removes
    BY DEF Selected
  <1>8. c.op \in StateOps => Selected(t) = {o \in DOMAIN rows : \E s \in Specs(c) : MatchesSpec(s, o)}
    BY DEF Selected, StateOps, Specs
  <1>9. c.op # "cleanup" => Selected(t) \subseteq Touched(c)
    <2>1. CASE c.op \in {"put", "limited", "delete"}
      <3>1. c.op \notin StateOps
        BY <2>1 DEF StateOps
      <3>2. QED
        BY <1>5, <1>6, <2>1, <3>1 DEF Touched
    <2>2. CASE c.op \in StateOps
      BY <1>3, <1>8, <2>2 DEF Touched
    <2>3. QED
      BY <1>2, <2>1, <2>2
  <1>10. QED
    BY <1>3, <1>4, <1>5, <1>6, <1>7, <1>8, <1>9

(* A snapshot has the rows it is about. *)
LEMMA Loaded ==
  ASSUME PgInv, NEW t \in Txs, NEW q \in SetToSeqs({[row |-> o, created |-> rows[o].created] : o \in Selected(t)})
  PROVE  q \in Seq(Entries) /\ Range(q) = {[row |-> o, created |-> rows[o].created] : o \in Selected(t)}
  <1> DEFINE E == {[row |-> o, created |-> rows[o].created] : o \in Selected(t)}
             h == [o \in Selected(t) |-> [row |-> o, created |-> rows[o].created]]
  <1>1. Selected(t) \subseteq DOMAIN rows /\ Selected(t) \subseteq Objects /\ IsFiniteSet(Selected(t))
    BY SelectedRows
  <1>2. E \subseteq Entries
    BY <1>1 DEF PgInv, PgTypes, IsStore, Value, Entries
  <1>3. h \in Surjection(Selected(t), E)
    BY DEF Surjection
  <1> HIDE DEF E, h
  <1>4. IsFiniteSet(E)
    BY <1>1, <1>3, FS_Surjection
  <1>5. q \in SetToSeqs(E)
    BY DEF E
  <1>6. q \in Seq(Entries) /\ Range(q) = E
    BY <1>2, <1>4, <1>5, Enumerated
  <1>7. QED
    BY <1>6 DEF E

(* Taking the snapshot keeps it. *)
LEMMA LoadStep ==
  ASSUME PgInv, NEW t \in Txs, Load(t)
  PROVE  PgInv'
  <1> DEFINE x == tx[t]
             c == call[t]
             y == tx'[t]
  <1>1. x.pc = "loading" /\ x.pc \in AtWork
    BY DEF Load, Running, AtWork
  <1>2. /\ c \in Calls /\ IsTx(x) /\ IsStore(rows) /\ KeepsTo(c, x)
        /\ x.scan \in Seq(Entries) /\ x.todo \in Seq(Objects) /\ IsStore(x.seen) /\ x.statement \in 1..2
        /\ x.locks \in Seq(AllSpecs) /\ x.locks = <<>>
    BY <1>1, AtWorkFacts
  <1>3. rows' = rows /\ call' = call /\ IsStore(rows')
    BY <1>2 DEF Load
  <1>4. QED
    <2>1. /\ tx' = [tx EXCEPT ![t] = y] /\ IsRecord(y)
          /\ y.pc = "scanning" /\ y.locks = x.locks /\ y.held = x.held /\ y.seen = x.seen
          /\ y.mine = x.mine /\ y.todo = x.todo /\ y.statement = x.statement
          /\ y.scan \in SetToSeqs({[row |-> o, created |-> rows[o].created] : o \in Selected(t)})
      BY LoadMoves
    <2> HIDE DEF x, c, y
    <2>2. y.scan \in Seq(Entries) /\ (c.op # "cleanup" => \A e \in Range(y.scan) : e.row \in Touched(c))
      BY <2>1, Loaded, SelectedRows DEF c
    <2>3. IsTx(y) /\ y.pc \in AtWork
      BY <1>1, <1>2, <2>2, <2>1 DEF IsTx, AtWork
    <2>4. KeepsTo(c, y)
      BY <1>1, <1>2, <2>2, <2>1 DEF KeepsTo, AtWork
    <2>5. \A o \in y.mine : o \in x.mine \/ RowOwners(t, o) = {}
      BY <2>1
    <2>6. QED
      BY <1>1, <1>2, <1>3, <2>1, <2>3, <2>4, <2>5, WorkStep DEF x, c

(* What was read, with one row more. *)
LEMMA ReadingStored ==
  ASSUME IsStore(rows), NEW seen, IsStore(seen), NEW o \in DOMAIN rows
  PROVE  IsStore(Reading(seen, o)) /\ DOMAIN Reading(seen, o) = DOMAIN seen \cup {o}
         /\ \A p \in DOMAIN Reading(seen, o) : Reading(seen, o)[p] = IF p = o THEN rows[p] ELSE seen[p]
  <1>1. rows[o] \in Value /\ o \in Objects
    BY DEF IsStore
  <1>2. DOMAIN seen \subseteq Objects /\ \A p \in DOMAIN seen : seen[p] \in Value
    BY DEF IsStore
  <1>3. QED
    BY <1>1, <1>2 DEF IsStore, Reading

(* Locking a row keeps it. *)
LEMMA ScanStep ==
  ASSUME PgInv, NEW t \in Txs, Scan(t)
  PROVE  PgInv'
  <1> DEFINE x == tx[t]
             c == call[t]
             y == tx'[t]
  <1>1. x.pc = "scanning" /\ x.pc \in AtWork
    BY DEF Scan, Running, AtWork
  <1>2. /\ c \in Calls /\ IsTx(x) /\ IsStore(rows) /\ KeepsTo(c, x)
        /\ x.scan \in Seq(Entries) /\ x.todo \in Seq(Objects) /\ IsStore(x.seen) /\ x.statement \in 1..2
        /\ x.locks \in Seq(AllSpecs) /\ x.locks = <<>>
    BY <1>1, AtWorkFacts
  <1>3. rows' = rows /\ call' = call /\ IsStore(rows')
    BY <1>2 DEF Scan
  <1> DEFINE e == Head(x.scan)
             rest == Tail(x.scan)
             taken == x.mine \cup {e.row}
             read == Reading(x.seen, e.row)
  <1>4. x.scan # <<>> /\ RowOwners(t, e.row) = {}
    BY FreeRow DEF Scan
  <1>5. e \in Range(x.scan) /\ Range(rest) \subseteq Range(x.scan) /\ rest \in Seq(Entries)
    BY <1>2, <1>4, NothingLeft
  <1>6. CASE StillSelected(c, e)
    <2>1. IsStore(read)
      BY <1>2, <1>6, ReadingStored DEF StillSelected, Same
    <2>2. c.op # "cleanup" => taken \subseteq Touched(c)
      BY <1>2, <1>5 DEF KeepsTo
    <2>3. \A p \in taken : p \in x.mine \/ RowOwners(t, p) = {}
      BY <1>4
    <2>4. QED
      <3>1. /\ tx' = [tx EXCEPT ![t] = y] /\ IsRecord(y)
            /\ y.pc = x.pc /\ y.locks = x.locks /\ y.held = x.held /\ y.scan = rest
            /\ y.seen = read /\ y.mine = taken /\ y.todo = x.todo /\ y.statement = x.statement
        BY <1>6, ScanTakes
      <3> HIDE DEF x, c, y, rest, taken, read
      <3>2. IsTx(y) /\ y.pc \in AtWork
        BY <1>1, <1>2, <1>5, <2>1, <3>1 DEF IsTx, AtWork
      <3>3. KeepsTo(c, y)
        BY <1>1, <1>2, <1>5, <2>2, <3>1 DEF KeepsTo, AtWork
      <3>4. \A o \in y.mine : o \in x.mine \/ RowOwners(t, o) = {}
        BY <2>3, <3>1
      <3>5. QED
        BY <1>1, <1>2, <1>3, <3>1, <3>2, <3>3, <3>4, WorkStep DEF x, c
  <1>7. CASE ~StillSelected(c, e)
    <2>1. /\ tx' = [tx EXCEPT ![t] = y] /\ IsRecord(y)
          /\ y.pc = x.pc /\ y.locks = x.locks /\ y.held = x.held /\ y.scan = rest
          /\ y.seen = x.seen /\ y.mine = x.mine /\ y.todo = x.todo /\ y.statement = x.statement
      BY <1>7, ScanPasses
    <2> HIDE DEF x, c, y, rest
    <2>2. IsTx(y) /\ y.pc \in AtWork
      BY <1>1, <1>2, <1>5, <2>1 DEF IsTx, AtWork
    <2>3. KeepsTo(c, y)
      BY <1>1, <1>2, <1>5, <2>1 DEF KeepsTo, AtWork
    <2>4. \A o \in y.mine : o \in x.mine \/ RowOwners(t, o) = {}
      BY <2>1
    <2>5. QED
      BY <1>1, <1>2, <1>3, <2>1, <2>2, <2>3, <2>4, WorkStep DEF x, c
  <1>8. QED
    BY <1>6, <1>7

(* A call writes objects it touches. *)
LEMMA WrittenByCall ==
  ASSUME NEW c \in Calls, NEW seen
  PROVE  LET W == Store!Written(c, seen) IN
         W \subseteq Objects /\ IsFiniteSet(W) /\ (c.op # "cleanup" => W \subseteq Touched(c))
  <1> DEFINE W == Store!Written(c, seen)
  <1>1. c.writes \subseteq Objects
    BY CallsAssumption
  <1>2. c.writes \subseteq Touched(c)
    BY DEF Touched
  <1>3. CASE c.op = "observe"
    <2>1. W = (c.writes \ DOMAIN seen) \cup {Store!StatsOf(o) : o \in c.writes \ DOMAIN seen}
      BY <1>3 DEF Store!Written
    <2>2. \A o \in c.writes : Store!StatsOf(o) \in Objects /\ Store!StatsOf(o) \in Touched(c)
      BY <1>3, CallsAssumption DEF Touched, StateOps
    <2> HIDE DEF W
    <2>3. W \subseteq Objects /\ W \subseteq Touched(c)
      BY <1>1, <1>2, <2>1, <2>2
    <2>4. QED
      BY <2>3, PgAssumption, FS_Subset DEF W
  <1>4. CASE c.op # "observe"
    <2>1. W \subseteq c.writes
      BY <1>4 DEF Store!Written
    <2> HIDE DEF W
    <2>2. W \subseteq Objects /\ W \subseteq Touched(c)
      BY <1>1, <1>2, <2>1
    <2>3. QED
      BY <2>2, PgAssumption, FS_Subset DEF W
  <1>5. QED
    BY <1>3, <1>4

(* The method of the store keeps it. *)
LEMMA DecideStep ==
  ASSUME PgInv, NEW t \in Txs, Decide(t)
  PROVE  PgInv'
  <1> DEFINE x == tx[t]
             c == call[t]
             y == tx'[t]
  <1>1. x.pc = "scanning" /\ x.pc \in AtWork
    BY DEF Decide, Running, AtWork
  <1>2. /\ c \in Calls /\ IsTx(x) /\ IsStore(rows) /\ KeepsTo(c, x)
        /\ x.scan \in Seq(Entries) /\ x.todo \in Seq(Objects) /\ IsStore(x.seen) /\ x.statement \in 1..2
        /\ x.locks \in Seq(AllSpecs) /\ x.locks = <<>>
    BY <1>1, AtWorkFacts
  <1>3. rows' = rows /\ call' = call /\ IsStore(rows')
    BY <1>2 DEF Decide
  <1>4. CASE Store!Refused(c, x.seen)
    <2>1. End(t, "aborted")
      BY <1>4 DEF Decide
    <2>2. QED
      BY <1>3, <2>1, EndStep
  <1>5. CASE ~Store!Refused(c, x.seen)
    <2>1. \A q \in SetToSeqs(Store!Written(c, x.seen) \ x.mine) :
             q \in Seq(Objects) /\ (c.op # "cleanup" => Range(q) \subseteq Touched(c))
      <3> DEFINE W == Store!Written(c, x.seen)
      <3>1. W \subseteq Objects /\ IsFiniteSet(W) /\ (c.op # "cleanup" => W \subseteq Touched(c))
        BY <1>2, WrittenByCall
      <3> HIDE DEF W
      <3>2. W \ x.mine \in SUBSET Objects /\ IsFiniteSet(W \ x.mine)
        BY <3>1, FS_Subset
      <3>3. \A q \in SetToSeqs(W \ x.mine) : q \in Seq(Objects) /\ Range(q) = W \ x.mine
        BY <3>2, Enumerated
      <3>4. QED
        BY <3>1, <3>3 DEF W
    <2>2. QED
      <3>1. /\ tx' = [tx EXCEPT ![t] = y] /\ IsRecord(y)
            /\ y.pc = "inserting" /\ y.locks = x.locks /\ y.held = x.held /\ y.scan = x.scan
            /\ y.seen = x.seen /\ y.mine = x.mine /\ y.statement = x.statement
            /\ y.todo \in SetToSeqs(Store!Written(c, x.seen) \ x.mine)
        BY <1>5, DecideMoves
      <3> HIDE DEF x, c, y
      <3>2. y.todo \in Seq(Objects) /\ (c.op # "cleanup" => Range(y.todo) \subseteq Touched(c))
        BY <3>1, <2>1
      <3>3. IsTx(y) /\ y.pc \in AtWork
        BY <1>1, <1>2, <3>2, <3>1 DEF IsTx, AtWork
      <3>4. KeepsTo(c, y)
        BY <1>1, <1>2, <3>2, <3>1 DEF KeepsTo, AtWork
      <3>5. \A o \in y.mine : o \in x.mine \/ RowOwners(t, o) = {}
        BY <3>1
      <3>6. QED
        BY <1>1, <1>2, <1>3, <3>1, <3>3, <3>4, <3>5, WorkStep DEF x, c
  <1>6. QED
    BY <1>4, <1>5

(* Inserting a row keeps it. *)
LEMMA InsertStep ==
  ASSUME PgInv, NEW t \in Txs, Insert(t)
  PROVE  PgInv'
  <1> DEFINE x == tx[t]
             c == call[t]
             y == tx'[t]
  <1>1. x.pc = "inserting" /\ x.pc \in AtWork
    BY DEF Insert, Running, AtWork
  <1>2. /\ c \in Calls /\ IsTx(x) /\ IsStore(rows) /\ KeepsTo(c, x)
        /\ x.scan \in Seq(Entries) /\ x.todo \in Seq(Objects) /\ IsStore(x.seen) /\ x.statement \in 1..2
        /\ x.locks \in Seq(AllSpecs) /\ x.locks = <<>>
    BY <1>1, AtWorkFacts
  <1>3. rows' = rows /\ call' = call /\ IsStore(rows')
    BY <1>2 DEF Insert
  <1> DEFINE row == Head(x.todo)
             rest == Tail(x.todo)
             taken == x.mine \cup {row}
  <1>4. x.todo # <<>> /\ RowOwners(t, row) = {}
    BY FreeRow DEF Insert
  <1>5. row \in Range(x.todo) /\ Range(rest) \subseteq Range(x.todo) /\ rest \in Seq(Objects)
    BY <1>2, <1>4, NothingLeft
  <1>6. c.op # "cleanup" => taken \subseteq Touched(c) /\ Range(rest) \subseteq Touched(c)
    BY <1>2, <1>5 DEF KeepsTo
  <1>7. \A p \in taken : p \in x.mine \/ RowOwners(t, p) = {}
    BY <1>4
  <1>8. QED
    <2>1. /\ tx' = [tx EXCEPT ![t] = y] /\ IsRecord(y)
          /\ y.pc = x.pc /\ y.locks = x.locks /\ y.held = x.held /\ y.scan = x.scan
          /\ y.seen = x.seen /\ y.mine = taken /\ y.todo = rest /\ y.statement = x.statement
      BY InsertMoves
    <2> HIDE DEF x, c, y, rest, taken
    <2>2. IsTx(y) /\ y.pc \in AtWork
      BY <1>1, <1>2, <1>5, <2>1 DEF IsTx, AtWork
    <2>3. KeepsTo(c, y)
      BY <1>1, <1>2, <1>6, <2>1 DEF KeepsTo, AtWork
    <2>4. \A o \in y.mine : o \in x.mine \/ RowOwners(t, o) = {}
      BY <1>7, <2>1
    <2>5. QED
      BY <1>1, <1>2, <1>3, <2>1, <2>2, <2>3, <2>4, WorkStep DEF x, c

(* The commit keeps it: what it writes are objects with their values. *)
LEMMA CommitStep ==
  ASSUME PgInv, NEW t \in Txs, Commit(t)
  PROVE  PgInv'
  <1> DEFINE x == tx[t]
             c == call[t]
             W == Store!Written(c, x.seen)
             gone == c.removes \cap DOMAIN x.seen
  <1>1. c \in Calls /\ IsStore(rows) /\ IsStore(x.seen)
    BY DEF PgInv, PgTypes, IsTx
  <1>2. End(t, "committed") /\ call' = call
    BY DEF Commit
  <1>3. IsStore(rows')
    <2>1. rows' = [o \in (DOMAIN rows \ gone) \cup W |->
                     IF o \in W THEN Store!NewValue(t, c, x.seen, o) ELSE rows[o]]
      BY DEF Commit, Store!Outcome
    <2>2. W \subseteq Objects
      BY <1>1, WrittenByCall
    <2>3. ASSUME NEW o
          PROVE  Store!NewValue(t, c, x.seen, o) \in Value
      <3>1. o \in DOMAIN x.seen => x.seen[o].created \in Txs \cup {NoTx} /\ x.seen[o].by \in SUBSET Txs
        BY <1>1 DEF IsStore, Value
      <3>2. QED
        BY <3>1 DEF Store!NewValue, Value
    <2> HIDE DEF W, gone, x, c
    <2>4. DOMAIN rows \subseteq Objects /\ \A o \in DOMAIN rows : rows[o] \in Value
      BY <1>1 DEF IsStore
    <2>5. QED
      BY <2>1, <2>2, <2>3, <2>4 DEF IsStore
  <1>4. QED
    BY <1>2, <1>3, EndStep

(* A caller that gives up changes nothing of it. *)
LEMMA GiveUpStep ==
  ASSUME PgInv, NEW t \in Txs, GiveUp(t)
  PROVE  PgInv'
  <1>1. rows' = rows /\ call' = call /\ tx' = tx
    BY DEF GiveUp
  <1>2. QED
    BY <1>1 DEF PgInv, PgTypes, LocksTaken, LocksExclude, RowsOwned, RowsOfCall

(* Nor do the ends that the server brings about. *)
LEMMA EndingStep ==
  ASSUME PgInv, NEW t \in Txs, Abort(t) \/ Victim(t)
  PROVE  PgInv'
  <1>1. rows' = rows /\ call' = call /\ End(t, "aborted")
    BY DEF Abort, Victim
  <1>2. IsStore(rows')
    BY <1>1 DEF PgInv, PgTypes
  <1>3. QED
    BY <1>1, <1>2, EndStep

(* The invariant holds at first *)
LEMMA PgStarts == Init => PgInv
  <1>1. SUFFICES ASSUME Init
                 PROVE  PgInv
    OBVIOUS
  <1>2. PICK menu \in Menus : call \in [Txs -> menu]
    BY <1>1 DEF Init
  <1>3. DOMAIN call = Txs /\ \A t \in Txs : call[t] \in Calls
    BY <1>2 DEF Calls
  <1>4. tx = [t \in Txs |-> FirstOf(call[t])]
    BY <1>1 DEF Init, FirstOf
  <1>5. \A t \in Txs : IsTx(tx[t]) /\ LocksOf(call[t], tx[t]) /\ KeepsTo(call[t], tx[t])
                       /\ tx[t].held = {} /\ tx[t].mine = {}
    <2>1. TAKE t \in Txs
    <2>2. tx[t] = FirstOf(call[t])
      BY <1>4
    <2>3. QED
      BY <1>3, <2>2, FirstTx
  <1>6. IsStore(rows)
    <2>1. rows = [o \in Present |-> [created |-> NoTx, by |-> {}, open |-> o \in Open, fresh |-> FALSE]]
      BY <1>1 DEF Init, Store!FirstRows
    <2>2. \A o \in Present : rows[o] \in Value
      BY <2>1 DEF Value
    <2>3. DOMAIN rows = Present /\ rows \in [Present -> Value]
      BY <2>1, <2>2
    <2>4. QED
      BY <2>3, PgAssumption DEF IsStore
  <1>7. PgTypes
    BY <1>3, <1>4, <1>5, <1>6 DEF PgTypes
  <1>8. LocksTaken /\ LocksExclude /\ RowsOwned /\ RowsOfCall
    BY <1>5 DEF LocksTaken, LocksExclude, RowsOwned, RowsOfCall
  <1>9. QED
    BY <1>7, <1>8 DEF PgInv

(* and is kept by every step. *)
LEMMA PgKept == PgInv /\ [Next]_vars => PgInv'
  <1>1. ASSUME PgInv, NEW t \in Txs, Step(t)
        PROVE  PgInv'
    BY <1>1, LockStep, CheckLimitStep, FilterObservationsStep, LoadStep, ScanStep, NextStatementStep,
       DecideStep, InsertStep, CommitStep DEF Step
  <1>2. ASSUME PgInv, Next
        PROVE  PgInv'
    BY <1>1, <1>2, GiveUpStep, EndingStep DEF Next
  <1>3. ASSUME PgInv, UNCHANGED vars
        PROVE  PgInv'
    BY <1>3 DEF vars, PgInv, PgTypes, LocksTaken, LocksExclude, RowsOwned, RowsOfCall
  <1>4. QED
    BY <1>2, <1>3

(* normalizeSpecs does what it is for: whatever the calls, the tenants and
   the objects, transactions that wait for each other in a cycle have a
   retention sweep among them. *)
THEOREM CallsNeverDeadlock == Spec => []OnlyCleanupDeadlocks
  <1>1. Spec => []PgInv
    BY PgStarts, PgKept, PTL DEF Spec
  <1>2. QED
    BY <1>1, NoDeadlock, PTL

-----------------------------------------------------------------------------
(* The promise of the embedded store *)

Working == {"loading", "scanning", "inserting"}

(* InSight and Doomed of a transaction x. *)
There(e, r) == e.row \in DOMAIN r /\ r[e.row].created = e.created
Sight(x, r) == DOMAIN x.seen \cup {e.row : e \in {f \in Range(x.scan) : There(f, r)}}
InVain(c, x, r) ==
    /\ x.pc \in {"scanning", "inserting"}
    /\ \/ ~(c.needs \subseteq Sight(x, r))
       \/ c.lacks \cap Sight(x, r) # {}
       \/ c.op = "delete" /\ c.removes \cap Sight(x, r) = {}

(* What a transaction has read is what is there: it holds the rows, but for
   the observations it found, which stay. *)
SeenHolds(c, x, r) ==
    \A o \in DOMAIN x.seen :
       /\ o \in DOMAIN r
       /\ \/ o \in x.mine /\ r[o] = x.seen[o]
          \/ c.op = "observe" /\ o \in c.writes

(* What there is of the objects it guards, it has read or is about to read. *)
GuardedSeen(c, x, r) ==
    /\ c.op = "observe" /\ x.pc \in Working => c.writes \cap DOMAIN r \subseteq DOMAIN x.seen
    /\ x.pc \in {"scanning", "inserting"} => Guarded(c) \cap DOMAIN r \subseteq Sight(x, r)

(* Where it has come to. *)
Progress(c, x) ==
    /\ x.pc \in {"locking", "checking"} => DOMAIN x.seen = {}
    /\ x.pc = "loading" /\ c.op \notin {"observe", "cleanup"} => DOMAIN x.seen = {}
    /\ x.pc = "inserting" => /\ x.scan = <<>> /\ ~Store!Refused(c, x.seen)
                             /\ Store!Written(c, x.seen) \subseteq x.mine \cup Range(x.todo)
    /\ c.op \in {"put", "limited"} => DOMAIN x.seen \cup {e.row : e \in Range(x.scan)} \subseteq c.writes
    /\ c.op \in {"delete", "cleanup"} => DOMAIN x.seen \cup {e.row : e \in Range(x.scan)} \subseteq c.removes
    /\ c.op = "cleanup" => \A o \in DOMAIN x.seen : Store!Expired(o, x.seen[o])

(* Room for what it may add to a kind that has a quota. *)
Room(c, x, r) ==
    c.op = "limited" /\ x.pc \in Working =>
      \A o \in c.writes : o \in DOMAIN r \/ Cardinality(OfKind(o.kind, DOMAIN r)) < Limit

Sound(c, x, r) == SeenHolds(c, x, r) /\ GuardedSeen(c, x, r) /\ Progress(c, x) /\ Room(c, x, r)

WithinQuota ==
    \A c \in Calls : c.op = "limited" =>
      \A o \in c.writes : Cardinality(OfKind(o.kind, DOMAIN rows)) <= Limit

(* Who has its answer, but for an error, is done. *)
Answered == DOMAIN answer = Txs /\ \A t \in Txs : Alive(t) => answer[t] \in {"none", "error"}

StoreInv == (\A t \in Txs : Sound(call[t], tx[t], rows)) /\ WithinQuota /\ Answered

(* The count in the store is the count here. *)
LEMMA SameCount ==
  ASSUME NEW S
  PROVE  Store!Cardinality(S) = Cardinality(S)
  BY Zenon DEF Store!Cardinality, Cardinality

(* The definitions of the module, for a transaction as a value. *)
LEMMA SightIs ==
  ASSUME NEW t
  PROVE  InSight(t) = Sight(tx[t], rows) /\ (Doomed(t) <=> InVain(call[t], tx[t], rows))
  <1>1. InSight(t) = Sight(tx[t], rows)
    BY DEF InSight, Sight, Same, There
  <1>2. QED
    BY <1>1 DEF Doomed, InVain

(* Two calls at work: neither puts what the other guards. *)
LEMMA Guards ==
  ASSUME PgInv, NEW t \in Txs, NEW u \in Txs, t # u, tx[t].pc \in AtWork, tx[u].pc \in AtWork
  PROVE  /\ call[t] \in Calls /\ call[u] \in Calls
         /\ Guarded(call[t]) \cap Puts(call[u]) = {}
         /\ call[t].op = "limited" => \A o \in call[t].writes, p \in Puts(call[u]) : o.kind # p.kind
  <1>1. call[t] \in Calls /\ call[u] \in Calls
    BY DEF PgInv, PgTypes
  <1>2. Apart(call[t], call[u])
    BY PastLocks
  <1>3. QED
    BY <1>1, <1>2, WritesAssumption

(* A transaction that has ended is sound, whatever the rows. *)
LEMMA EndedSound ==
  ASSUME NEW c, NEW at \in {"committed", "aborted"}, NEW r
  PROVE  Sound(c, Fresh(at, <<>>), r) /\ ~InVain(c, Fresh(at, <<>>), r)
  <1> DEFINE x == Fresh(at, <<>>)
  <1>1. x = TxOf(at, <<>>, {}, <<>>, <<>>, {}, <<>>, 1)
    BY DEF Fresh, TxOf
  <1> HIDE DEF x
  <1>2. x.pc = at /\ x.scan = <<>> /\ x.seen = <<>>
    BY <1>1, TxFields
  <1>3. DOMAIN x.seen = {} /\ Range(x.scan) = {}
    BY <1>2, Empty
  <1>4. SeenHolds(c, x, r) /\ GuardedSeen(c, x, r) /\ Room(c, x, r) /\ ~InVain(c, x, r)
    BY <1>2, <1>3 DEF SeenHolds, GuardedSeen, Room, InVain, Working
  <1>5. Progress(c, x)
    BY <1>2, <1>3 DEF Progress
  <1>6. QED
    BY <1>4, <1>5 DEF Sound, x

(* A step of one transaction that changes no row. *)
LEMMA OneGoesOn ==
  ASSUME PgInv, StoreInv, NEW t \in Txs, rows' = rows, call' = call, tx' = [tx EXCEPT ![t] = tx'[t]],
         Sound(call[t], tx'[t], rows),
         \/ answer' = answer /\ (Alive(t)' => Alive(t))
         \/ \E a : answer' = [answer EXCEPT ![t] = a] /\ (Alive(t)' => a \in {"none", "error"})
  PROVE  StoreInv'
  <1>1. \A u \in Txs : u # t => tx'[u] = tx[u]
    BY DEF PgInv, PgTypes
  <1>2. \A u \in Txs : Sound(call'[u], tx'[u], rows')
    BY <1>1 DEF StoreInv
  <1>3. WithinQuota'
    BY DEF StoreInv, WithinQuota
  <1>4. Answered'
    <2>1. \A u \in Txs : u # t => (Alive(u)' <=> Alive(u))
      BY <1>1 DEF Alive
    <2>2. DOMAIN answer = Txs /\ \A u \in Txs : Alive(u) => answer[u] \in {"none", "error"}
      BY DEF StoreInv, Answered
    <2>3. CASE answer' = answer /\ (Alive(t)' => Alive(t))
      BY <2>1, <2>2, <2>3 DEF Answered
    <2>4. CASE \E a : answer' = [answer EXCEPT ![t] = a] /\ (Alive(t)' => a \in {"none", "error"})
      <3>1. PICK a : answer' = [answer EXCEPT ![t] = a] /\ (Alive(t)' => a \in {"none", "error"})
        BY <2>4
      <3>2. DOMAIN answer' = Txs /\ answer'[t] = a /\ \A u \in Txs : u # t => answer'[u] = answer[u]
        BY <2>2, <3>1
      <3>3. QED
        BY <2>1, <2>2, <3>1, <3>2 DEF Answered
    <2>5. QED
      BY <2>3, <2>4
  <1>5. QED
    BY <1>2, <1>3, <1>4 DEF StoreInv

(* A transaction that ends without a change to the rows keeps it. *)
LEMMA OneEnds ==
  ASSUME PgInv, StoreInv, NEW t \in Txs, NEW at \in {"committed", "aborted"}, End(t, at), rows' = rows, call' = call,
         answer' = answer \/ \E a : Reply(t, a)
  PROVE  StoreInv'
  <1>1. DOMAIN tx = Txs
    BY DEF PgInv, PgTypes
  <1>2. tx' = [tx EXCEPT ![t] = Fresh(at, <<>>)] /\ tx'[t] = Fresh(at, <<>>)
    BY <1>1 DEF End, Update
  <1>3. Sound(call[t], tx'[t], rows)
    BY <1>2, EndedSound
  <1>4. ~Alive(t)'
    <2>1. tx'[t].pc = at
      BY <1>2 DEF Fresh
    <2>2. QED
      BY <2>1 DEF Alive
  <1>5. QED
    BY <1>2, <1>3, <1>4, OneGoesOn DEF Reply

(* Each step keeps it, and leaves a call in vain only if it was so before or
   is so by what the store holds. *)
Fits(t) ==
    /\ InVain(call[t], tx'[t], rows) => InVain(call[t], tx[t], rows) \/ Store!Vain(call[t], rows)
    /\ Sound(call[t], tx'[t], rows)

(* Taking a lock. *)
LEMMA LockFits ==
  ASSUME PgInv, StoreInv, NEW t \in Txs, Lock(t)
  PROVE  Fits(t) /\ Alive(t)
  <1> DEFINE x == tx[t]
             c == call[t]
             y == tx'[t]
             left == IF x.statement < Len(Locks(Head(x.locks))) THEN x.locks ELSE Tail(x.locks)
             at == IF left # <<>> THEN "locking"
                   ELSE IF c.op \in {"limited", "observe"} THEN "checking" ELSE "loading"
  <1>1. y.pc = at /\ y.scan = x.scan /\ y.seen = x.seen
    BY LockMoves
  <1>2. at \in {"locking", "checking", "loading"} /\ (at = "loading" => c.op \notin {"limited", "observe"})
    OBVIOUS
  <1>3. x.pc = "locking" /\ Sound(c, x, rows)
    BY DEF Lock, Running, StoreInv
  <1> HIDE DEF x, c, y, at
  <1>4. DOMAIN x.seen = {}
    BY <1>3 DEF Sound, Progress
  <1>5. SeenHolds(c, y, rows) /\ GuardedSeen(c, y, rows) /\ Room(c, y, rows) /\ ~InVain(c, y, rows)
    BY <1>1, <1>2, <1>4 DEF SeenHolds, GuardedSeen, Room, InVain, Working
  <1>6. Progress(c, y)
    BY <1>1, <1>2, <1>3, <1>4 DEF Sound, Progress
  <1>7. QED
    BY <1>3, <1>5, <1>6 DEF Fits, Sound, Alive, x, c, y

(* The quota leaves room. *)
LEMMA CheckLimitFits ==
  ASSUME PgInv, StoreInv, NEW t \in Txs, CheckLimit(t), ~Store!Refused(call[t], rows)
  PROVE  Fits(t) /\ Alive(t)
  <1> DEFINE x == tx[t]
             c == call[t]
             y == tx'[t]
  <1>1. y.pc = "loading" /\ y.scan = x.scan /\ y.seen = x.seen
    BY CheckLimitMoves
  <1>2. c.op = "limited" /\ x.pc = "checking" /\ Sound(c, x, rows)
    BY DEF CheckLimit, Running, StoreInv
  <1>3. IsFiniteSet(DOMAIN rows)
    BY PgAssumption, FS_Subset DEF PgInv, PgTypes, IsStore
  <1> HIDE DEF x, y
  <1>4. DOMAIN x.seen = {}
    BY <1>2 DEF Sound, Progress
  <1>5. Room(c, y, rows)
    <2>1. ASSUME NEW o \in c.writes, o \notin DOMAIN rows
          PROVE  Cardinality(OfKind(o.kind, DOMAIN rows)) < Limit
      <3> DEFINE n == Cardinality(OfKind(o.kind, DOMAIN rows))
      <3>1. ~(n >= Limit)
        <4>1. ~(Store!Cardinality(OfKind(o.kind, DOMAIN rows)) >= Limit)
          BY <1>2, <2>1 DEF Store!Refused, OfKind
        <4>2. QED
          BY <4>1, SameCount
      <3>2. IsFiniteSet(OfKind(o.kind, DOMAIN rows))
        BY <1>3, FS_Subset DEF OfKind
      <3>3. n \in Nat
        BY <3>2, FS_CardinalityType
      <3> HIDE DEF n
      <3>4. n < Limit
        BY <3>1, <3>3, PgAssumption
      <3>5. QED
        BY <3>4 DEF n
    <2>2. QED
      BY <2>1 DEF Room
  <1> HIDE DEF c
  <1>6. SeenHolds(c, y, rows) /\ GuardedSeen(c, y, rows) /\ ~InVain(c, y, rows)
    BY <1>1, <1>2, <1>4 DEF SeenHolds, GuardedSeen, InVain, Working
  <1>7. Progress(c, y)
    BY <1>1, <1>2, <1>4 DEF Sound, Progress
  <1>8. QED
    BY <1>2, <1>5, <1>6, <1>7 DEF Fits, Sound, Alive, x, c, y

(* The observations that are there have been read. *)
LEMMA FilterFits ==
  ASSUME PgInv, StoreInv, NEW t \in Txs, FilterObservations(t), call[t].writes \cap DOMAIN rows # call[t].writes
  PROVE  Fits(t) /\ Alive(t)
  <1> DEFINE x == tx[t]
             c == call[t]
             y == tx'[t]
             known == c.writes \cap DOMAIN rows
             found == [o \in known |-> rows[o]]
  <1>1. y.pc = "loading" /\ y.scan = x.scan /\ y.seen = found
    BY FilterMoves
  <1>2. c.op = "observe" /\ x.pc = "checking" /\ Sound(c, x, rows)
    BY DEF FilterObservations, Running, StoreInv
  <1>3. DOMAIN y.seen = known
    BY <1>1
  <1> HIDE DEF x, y, c
  <1>4. SeenHolds(c, y, rows) /\ GuardedSeen(c, y, rows) /\ ~InVain(c, y, rows) /\ Room(c, y, rows)
    BY <1>1, <1>2, <1>3 DEF SeenHolds, GuardedSeen, InVain, Room
  <1>5. Progress(c, y)
    BY <1>1, <1>2 DEF Sound, Progress
  <1>6. QED
    BY <1>2, <1>4, <1>5 DEF Fits, Sound, Alive, x, c, y

(* A snapshot has all that is guarded, or the store says that it is in vain. *)
LEMMA LoadFits ==
  ASSUME PgInv, StoreInv, NEW t \in Txs, Load(t)
  PROVE  Fits(t) /\ Alive(t)
  <1> DEFINE x == tx[t]
             c == call[t]
             y == tx'[t]
             E == {[row |-> o, created |-> rows[o].created] : o \in Selected(t)}
  <1>1. y.pc = "scanning" /\ y.seen = x.seen /\ y.mine = x.mine /\ Range(y.scan) = E
    BY LoadMoves, Loaded
  <1>2. x.pc = "loading" /\ Sound(c, x, rows) /\ c \in Calls
    BY DEF Load, Running, StoreInv, PgInv, PgTypes
  <1>3. /\ Selected(t) \subseteq DOMAIN rows /\ Selected(t) \subseteq Objects
        /\ c.op \in {"put", "limited"} => Selected(t) = DOMAIN rows \cap c.writes
        /\ c.op = "delete" => Selected(t) = DOMAIN rows \cap c.removes
        /\ c.op = "cleanup" => Selected(t) \subseteq c.removes
        /\ c.op \in StateOps => Selected(t) = {o \in DOMAIN rows : \E s \in Specs(c) : MatchesSpec(s, o)}
    BY SelectedRows
  <1>4. {e.row : e \in Range(y.scan)} = Selected(t) /\ Sight(y, rows) = DOMAIN x.seen \cup Selected(t)
    <2>1. \A e \in E : e.row \in Selected(t) /\ There(e, rows)
      BY <1>3 DEF There
    <2>2. \A o \in Selected(t) : [row |-> o, created |-> rows[o].created] \in E
                                 /\ [row |-> o, created |-> rows[o].created].row = o
      OBVIOUS
    <2> HIDE DEF E, y, x
    <2>3. {e.row : e \in Range(y.scan)} = Selected(t)
      BY <1>1, <2>1, <2>2
    <2>4. {e.row : e \in {f \in Range(y.scan) : There(f, rows)}} = Selected(t)
      BY <1>1, <2>1, <2>2
    <2>5. QED
      BY <1>1, <2>3, <2>4 DEF Sight
  <1>5. c.op \in {"put", "limited", "delete", "cleanup", "set", "sweep", "observe"}
        /\ (c.op \in StateOps <=> c.op \in {"set", "sweep", "observe"})
    BY <1>2, CallsAssumption DEF StateOps
  <1> HIDE DEF x, y, E
  <1>6. c.op \notin {"observe", "cleanup"} => DOMAIN x.seen = {}
    BY <1>2 DEF Sound, Progress
  <1>7. Guarded(c) \cap DOMAIN rows \subseteq Sight(y, rows)
    <2>1. ASSUME NEW o \in Guarded(c), o \in DOMAIN rows
          PROVE  o \in DOMAIN x.seen \cup Selected(t)
      <3>1. CASE c.op \in {"put", "limited"}
        BY <1>3, <2>1, <3>1 DEF Guarded, Puts
      <3>2. CASE c.op \in {"delete", "cleanup"}
        BY <1>2, <2>1, <3>2, WritesAssumption DEF Guarded, Puts
      <3>3. CASE c.op = "set"
        <4>1. o \in c.writes \cup c.removes
          BY <2>1, <3>3 DEF Guarded, Puts
        <4>2. \E s \in Specs(c) : MatchesSpec(s, o)
          BY <1>2, <3>3, <4>1, WritesAssumption, CallsAssumption
        <4>3. QED
          BY <1>3, <1>5, <2>1, <3>3, <4>2
      <3>4. CASE c.op = "sweep"
        <4>1. o \in c.writes
          BY <2>1, <3>4 DEF Guarded, Puts
        <4>2. \E s \in Specs(c) : MatchesSpec(s, o)
          BY <1>2, <3>4, <4>1, CallsAssumption
        <4>3. QED
          BY <1>3, <1>5, <2>1, <3>4, <4>2
      <3>5. CASE c.op = "observe"
        <4>1. CASE o \in c.writes
          <5>1. o \in DOMAIN x.seen
            BY <1>2, <2>1, <3>5, <4>1 DEF Sound, GuardedSeen, Working
          <5>2. QED
            BY <5>1
        <4>2. CASE o \notin c.writes
          <5>1. \E p \in c.writes : o = Store!StatsOf(p)
            BY <2>1, <3>5, <4>2 DEF Guarded, Puts
          <5>2. \E s \in Specs(c) : MatchesSpec(s, o)
            BY <1>2, <3>5, <5>1, CallsAssumption
          <5>3. QED
            BY <1>3, <1>5, <2>1, <3>5, <5>2
        <4>3. QED
          BY <4>1, <4>2
      <3>6. QED
        BY <1>5, <3>1, <3>2, <3>3, <3>4, <3>5
    <2>2. QED
      BY <1>4, <2>1
  <1>8. InVain(c, y, rows) => Store!Vain(c, rows)
    <2>1. CASE c.op = "set"
      <3>1. ~(c.needs \subseteq Sight(y, rows)) => ~(c.needs \subseteq DOMAIN rows)
        <4>1. \A o \in c.needs : \E s \in Specs(c) : MatchesSpec(s, o)
          BY <1>2, <2>1, WritesAssumption
        <4>2. QED
          BY <1>3, <1>4, <1>5, <2>1, <4>1
      <3>2. Sight(y, rows) \subseteq DOMAIN rows
        BY <1>3, <1>4, <1>6, <2>1
      <3>3. QED
        BY <2>1, <3>1, <3>2 DEF InVain, Store!Vain, Store!Refused
    <2>2. CASE c.op # "set"
      <3>1. c.needs = {} /\ c.lacks = {}
        BY <1>2, <2>2, WritesAssumption
      <3>2. c.op = "delete" => Sight(y, rows) = DOMAIN rows \cap c.removes
        BY <1>3, <1>4, <1>6
      <3>3. QED
        BY <3>1, <3>2 DEF InVain, Store!Vain
    <2>3. QED
      BY <2>1, <2>2
  <1>9. SeenHolds(c, y, rows) /\ Room(c, y, rows)
    BY <1>1, <1>2 DEF Sound, SeenHolds, Room, Working
  <1>10. GuardedSeen(c, y, rows)
    BY <1>1, <1>2, <1>7 DEF Sound, GuardedSeen, Working
  <1>11. Progress(c, y)
    <2>1. c.op \in {"put", "limited"} => DOMAIN y.seen \cup Selected(t) \subseteq c.writes
      BY <1>1, <1>3, <1>6
    <2>2. c.op \in {"delete", "cleanup"} => DOMAIN y.seen \cup Selected(t) \subseteq c.removes
      <3>1. CASE c.op = "delete"
        BY <1>1, <1>3, <1>6, <3>1
      <3>2. CASE c.op = "cleanup"
        <4>1. DOMAIN x.seen \subseteq c.removes
          BY <1>2, <3>2 DEF Sound, Progress
        <4>2. QED
          BY <1>1, <1>3, <3>2, <4>1
      <3>3. QED
        BY <3>1, <3>2
    <2>3. c.op = "cleanup" => \A o \in DOMAIN y.seen : Store!Expired(o, y.seen[o])
      BY <1>1, <1>2 DEF Sound, Progress
    <2> HIDE DEF c
    <2>4. QED
      BY <1>1, <1>4, <2>1, <2>2, <2>3 DEF Progress
  <1>12. QED
    BY <1>2, <1>8, <1>9, <1>10, <1>11 DEF Fits, Sound, Alive, x, y

(* The next statement of a retention sweep. *)
LEMMA NextStatementFits ==
  ASSUME PgInv, StoreInv, NEW t \in Txs, NextStatement(t)
  PROVE  Fits(t) /\ Alive(t)
  <1> DEFINE x == tx[t]
             c == call[t]
             y == tx'[t]
  <1>1. y.pc = "loading" /\ y.scan = x.scan /\ y.seen = x.seen /\ y.mine = x.mine
    BY NextStatementMoves
  <1>2. c.op = "cleanup" /\ x.pc = "scanning" /\ Sound(c, x, rows)
    BY DEF NextStatement, LastStatement, Running, StoreInv
  <1> HIDE DEF x, y, c
  <1>3. SeenHolds(c, y, rows) /\ GuardedSeen(c, y, rows) /\ ~InVain(c, y, rows) /\ Room(c, y, rows)
    BY <1>1, <1>2 DEF Sound, SeenHolds, GuardedSeen, InVain, Room
  <1>4. Progress(c, y)
    BY <1>1, <1>2 DEF Sound, Progress
  <1>5. QED
    BY <1>2, <1>3, <1>4 DEF Fits, Sound, Alive, x, c, y

(* A row that is locked is still the one of the snapshot, or has gone. *)
LEMMA ScanFits ==
  ASSUME PgInv, StoreInv, NEW t \in Txs, Scan(t)
  PROVE  Fits(t) /\ Alive(t)
  <1> DEFINE x == tx[t]
             c == call[t]
             y == tx'[t]
             e == Head(x.scan)
             rest == Tail(x.scan)
  <1>1. x.pc = "scanning" /\ x.scan # <<>> /\ Sound(c, x, rows) /\ IsTx(x) /\ IsStore(rows) /\ c \in Calls
    BY DEF Scan, Running, StoreInv, PgInv, PgTypes
  <1>2. Range(x.scan) = {e} \cup Range(rest) /\ IsStore(x.seen)
    BY <1>1, NothingLeft DEF IsTx
  <1>3. CASE StillSelected(c, e)
    <2> DEFINE read == Reading(x.seen, e.row)
    <2>1. y.pc = x.pc /\ y.scan = rest /\ y.mine = x.mine \cup {e.row} /\ y.seen = read
      BY <1>3, ScanTakes
    <2>2. e.row \in DOMAIN rows /\ There(e, rows) /\ (c.op = "cleanup" => Store!Expired(e.row, rows[e.row]))
      BY <1>3 DEF StillSelected, Same, There
    <2>3. /\ DOMAIN read = DOMAIN x.seen \cup {e.row}
          /\ \A p \in DOMAIN read : read[p] = IF p = e.row THEN rows[p] ELSE x.seen[p]
      BY <1>1, <1>2, <2>2, ReadingStored
    <2> HIDE DEF x, y, c, e, rest, read
    <2>4. Sight(y, rows) = Sight(x, rows)
      BY <1>2, <2>1, <2>2, <2>3 DEF Sight
    <2>5. SeenHolds(c, y, rows)
      BY <1>1, <2>1, <2>2, <2>3 DEF Sound, SeenHolds
    <2>6. GuardedSeen(c, y, rows)
      BY <1>1, <2>1, <2>3, <2>4 DEF Sound, GuardedSeen
    <2>7. DOMAIN y.seen \cup {f.row : f \in Range(y.scan)} \subseteq DOMAIN x.seen \cup {f.row : f \in Range(x.scan)}
      BY <1>2, <2>1, <2>3
    <2>8. Progress(c, y)
      <3>1. c.op = "cleanup" => \A o \in DOMAIN y.seen : Store!Expired(o, y.seen[o])
        <4>1. c.op = "cleanup" => \A o \in DOMAIN x.seen : Store!Expired(o, x.seen[o])
          BY <1>1 DEF Sound, Progress
        <4>2. QED
          BY <2>1, <2>2, <2>3, <4>1
      <3>2. c.op \in {"put", "limited"} => DOMAIN y.seen \cup {f.row : f \in Range(y.scan)} \subseteq c.writes
        BY <1>1, <2>7 DEF Sound, Progress
      <3>3. c.op \in {"delete", "cleanup"} => DOMAIN y.seen \cup {f.row : f \in Range(y.scan)} \subseteq c.removes
        BY <1>1, <2>7 DEF Sound, Progress
      <3>4. QED
        BY <1>1, <2>1, <3>1, <3>2, <3>3 DEF Progress
    <2>9. Room(c, y, rows) /\ (InVain(c, y, rows) => InVain(c, x, rows))
      BY <1>1, <2>1, <2>4 DEF Sound, Room, InVain
    <2>10. QED
      BY <1>1, <2>5, <2>6, <2>8, <2>9 DEF Fits, Sound, Alive, x, c, y
  <1>4. CASE ~StillSelected(c, e)
    <2>1. y.pc = x.pc /\ y.scan = rest /\ y.mine = x.mine /\ y.seen = x.seen
      BY <1>4, ScanPasses
    <2>2. c.op # "cleanup" => ~There(e, rows)
      BY <1>4 DEF StillSelected, Same, There
    <2> HIDE DEF x, y, c, e, rest
    <2>3. Sight(y, rows) \subseteq Sight(x, rows) /\ (c.op # "cleanup" => Sight(y, rows) = Sight(x, rows))
      BY <1>2, <2>1, <2>2 DEF Sight
    <2>4. c.op = "cleanup" => Guarded(c) = {} /\ c.needs = {} /\ c.lacks = {}
      BY <1>1, WritesAssumption DEF Guarded, Puts
    <2>5. SeenHolds(c, y, rows) /\ GuardedSeen(c, y, rows)
      BY <1>1, <2>1, <2>3, <2>4 DEF Sound, SeenHolds, GuardedSeen
    <2>6. {f.row : f \in Range(y.scan)} \subseteq {f.row : f \in Range(x.scan)}
      BY <1>2, <2>1
    <2>7. Progress(c, y)
      BY <1>1, <2>1, <2>6 DEF Sound, Progress
    <2>8. Room(c, y, rows) /\ (InVain(c, y, rows) => InVain(c, x, rows))
      BY <1>1, <2>1, <2>3, <2>4 DEF Sound, Room, InVain
    <2>9. QED
      BY <1>1, <2>5, <2>7, <2>8 DEF Fits, Sound, Alive, x, c, y
  <1>5. QED
    BY <1>3, <1>4

(* What the method of the store changes is to be written. *)
LEMMA DecideFits ==
  ASSUME PgInv, StoreInv, NEW t \in Txs, Decide(t), ~Store!Refused(call[t], tx[t].seen)
  PROVE  Fits(t) /\ Alive(t)
  <1> DEFINE x == tx[t]
             c == call[t]
             y == tx'[t]
             W == Store!Written(c, x.seen)
  <1>1. y.pc = "inserting" /\ y.seen = x.seen /\ y.scan = x.scan /\ y.mine = x.mine /\ y.todo \in SetToSeqs(W \ x.mine)
    BY DecideMoves
  <1>2. x.pc = "scanning" /\ x.scan = <<>> /\ Sound(c, x, rows) /\ c \in Calls
    BY DEF Decide, Running, StoreInv, PgInv, PgTypes
  <1>3. Range(y.todo) = W \ x.mine
    <2>1. W \subseteq Objects /\ IsFiniteSet(W)
      BY <1>2, WrittenByCall
    <2> HIDE DEF W
    <2>2. W \ x.mine \in SUBSET Objects /\ IsFiniteSet(W \ x.mine)
      BY <2>1, FS_Subset
    <2> HIDE DEF y, x
    <2>3. QED
      BY <1>1, <2>2, Enumerated
  <1>4. ~Store!Refused(c, x.seen)
    OBVIOUS
  <1> HIDE DEF x, y, c
  <1>5. Sight(y, rows) = Sight(x, rows)
    BY <1>1 DEF Sight
  <1>6. SeenHolds(c, y, rows) /\ GuardedSeen(c, y, rows)
    BY <1>1, <1>2, <1>5 DEF Sound, SeenHolds, GuardedSeen, Working
  <1>7. W \subseteq y.mine \cup Range(y.todo)
    BY <1>1, <1>3
  <1>8. Progress(c, y)
    BY <1>1, <1>2, <1>4, <1>7 DEF Sound, Progress
  <1>9. Room(c, y, rows) /\ (InVain(c, y, rows) => InVain(c, x, rows))
    BY <1>1, <1>2, <1>5 DEF Sound, Room, InVain, Working
  <1>10. QED
    BY <1>2, <1>6, <1>8, <1>9 DEF Fits, Sound, Alive, x, c, y

(* A row that is inserted is held. *)
LEMMA InsertFits ==
  ASSUME PgInv, StoreInv, NEW t \in Txs, Insert(t)
  PROVE  Fits(t) /\ Alive(t)
  <1> DEFINE x == tx[t]
             c == call[t]
             y == tx'[t]
             o == Head(x.todo)
             rest == Tail(x.todo)
  <1>1. y.pc = x.pc /\ y.seen = x.seen /\ y.scan = x.scan /\ y.mine = x.mine \cup {o} /\ y.todo = rest
    BY InsertMoves
  <1>2. x.pc = "inserting" /\ x.todo # <<>> /\ Sound(c, x, rows) /\ IsTx(x)
    BY DEF Insert, Running, StoreInv, PgInv, PgTypes
  <1>3. Range(x.todo) = {o} \cup Range(rest)
    BY <1>2, NothingLeft DEF IsTx
  <1> HIDE DEF x, y, c, o, rest
  <1>4. Sight(y, rows) = Sight(x, rows)
    BY <1>1 DEF Sight
  <1>5. SeenHolds(c, y, rows) /\ GuardedSeen(c, y, rows)
    BY <1>1, <1>2, <1>4 DEF Sound, SeenHolds, GuardedSeen
  <1>6. y.mine \cup Range(y.todo) = x.mine \cup Range(x.todo)
    BY <1>1, <1>3
  <1>7. Progress(c, y)
    BY <1>1, <1>2, <1>6 DEF Sound, Progress
  <1>8. Room(c, y, rows) /\ (InVain(c, y, rows) => InVain(c, x, rows))
    BY <1>1, <1>2, <1>4 DEF Sound, Room, InVain
  <1>9. QED
    BY <1>2, <1>5, <1>7, <1>8 DEF Fits, Sound, Alive, x, c, y

(* What a commit makes of the rows: it writes and removes only what the
   transaction holds, and as it has read it. *)
LEMMA Committed ==
  ASSUME PgInv, StoreInv, NEW t \in Txs, Commit(t)
  PROVE  LET x == tx[t]
             c == call[t]
             W == Store!Written(c, x.seen)
             gone == c.removes \cap DOMAIN x.seen
         IN  /\ W \subseteq x.mine /\ W \subseteq Puts(c)
             /\ \A o \in W : o \in DOMAIN rows <=> o \in DOMAIN x.seen
             /\ \A o \in W : o \in DOMAIN rows => rows[o] = x.seen[o]
             /\ gone \subseteq DOMAIN rows /\ gone \subseteq x.mine
             /\ DOMAIN rows' = (DOMAIN rows \ gone) \cup W
             /\ \A o \in DOMAIN rows' : rows'[o] = IF o \in W THEN Store!NewValue(t, c, x.seen, o) ELSE rows[o]
             /\ \A o \in DOMAIN rows \cap DOMAIN rows' : rows'[o].created = rows[o].created
             /\ ~Store!Refused(c, x.seen) /\ Guarded(c) \cap DOMAIN rows \subseteq DOMAIN x.seen
             /\ DOMAIN x.seen \subseteq DOMAIN rows
  <1> DEFINE x == tx[t]
             c == call[t]
             W == Store!Written(c, x.seen)
             gone == c.removes \cap DOMAIN x.seen
  <1>1. x.pc = "inserting" /\ x.todo = <<>> /\ Sound(c, x, rows) /\ c \in Calls
    BY DEF Commit, StoreInv, PgInv, PgTypes
  <1>2. rows' = [o \in (DOMAIN rows \ gone) \cup W |->
                   IF o \in W THEN Store!NewValue(t, c, x.seen, o) ELSE rows[o]]
    BY DEF Commit, Store!Outcome
  <1>3. W \subseteq Puts(c) /\ (c.op = "observe" =>
          \A o \in W : (o \in c.writes /\ o \notin DOMAIN x.seen) \/ \E p \in c.writes : o = Store!StatsOf(p))
    BY DEF Store!Written, Puts
  <1> HIDE DEF W
  <1> HIDE DEF x
  <1>4. x.scan = <<>> /\ ~Store!Refused(c, x.seen) /\ W \subseteq x.mine \cup Range(x.todo)
    BY <1>1 DEF Sound, Progress, W
  <1>5. W \subseteq x.mine
    BY <1>1, <1>4, Empty
  <1>6. Sight(x, rows) = DOMAIN x.seen
    BY <1>4, Empty DEF Sight
  <1>7. Guarded(c) \cap DOMAIN rows \subseteq DOMAIN x.seen
    BY <1>1, <1>6 DEF Sound, GuardedSeen
  <1>8. \A o \in DOMAIN x.seen : /\ o \in DOMAIN rows
                                 /\ (o \in x.mine /\ rows[o] = x.seen[o]) \/ (c.op = "observe" /\ o \in c.writes)
    BY <1>1 DEF Sound, SeenHolds
  <1>9. \A o \in W : o \in DOMAIN x.seen => ~(c.op = "observe" /\ o \in c.writes)
    <2>1. SUFFICES ASSUME NEW o \in W, o \in DOMAIN x.seen, c.op = "observe", o \in c.writes
                   PROVE  FALSE
      OBVIOUS
    <2>2. PICK p \in c.writes : o = Store!StatsOf(p)
      BY <1>3, <2>1
    <2>3. PICK s \in Specs(c) : MatchesSpec(s, o)
      BY <1>1, <2>1, <2>2, CallsAssumption
    <2>4. s.kind # o.kind
      BY <1>1, <2>1, CallsAssumption
    <2>5. QED
      BY <2>3, <2>4 DEF MatchesSpec
  <1>10. \A o \in W : o \in DOMAIN rows => o \in DOMAIN x.seen
    BY <1>3, <1>7 DEF Guarded
  <1>11. \A o \in W : o \in DOMAIN rows => rows[o] = x.seen[o]
    BY <1>8, <1>9, <1>10
  <1>12. gone \subseteq DOMAIN rows /\ gone \subseteq x.mine
    <2>1. c.op = "observe" => c.removes = {}
      BY <1>1, WritesAssumption
    <2>2. QED
      BY <1>8, <2>1
  <1> HIDE DEF gone, c
  <1>13. DOMAIN rows' = (DOMAIN rows \ gone) \cup W
    BY <1>2
  <1>14. \A o \in DOMAIN rows' : rows'[o] = IF o \in W THEN Store!NewValue(t, c, x.seen, o) ELSE rows[o]
    BY <1>2
  <1>15. \A o \in DOMAIN rows \cap DOMAIN rows' : rows'[o].created = rows[o].created
    <2>1. TAKE o \in DOMAIN rows \cap DOMAIN rows'
    <2>2. CASE o \in W
      <3>1. rows'[o] = Store!NewValue(t, c, x.seen, o) /\ o \in DOMAIN x.seen /\ rows[o] = x.seen[o]
        BY <1>10, <1>11, <1>14, <2>2
      <3>2. rows'[o].created = x.seen[o].created
        BY <3>1 DEF Store!NewValue
      <3>3. QED
        BY <3>1, <3>2
    <2>3. CASE o \notin W
      BY <1>14, <2>3
    <2>4. QED
      BY <2>2, <2>3
  <1>16. QED
    BY <1>3, <1>4, <1>5, <1>7, <1>8, <1>10, <1>11, <1>12, <1>13, <1>14, <1>15 DEF W, x, gone, c

(* The rows of a kind. *)
LEMMA KindRows ==
  ASSUME NEW kind, NEW S, NEW T, IsFiniteSet(S), OfKind(kind, T) \subseteq OfKind(kind, S)
  PROVE  /\ Cardinality(OfKind(kind, T)) \in Nat /\ Cardinality(OfKind(kind, S)) \in Nat
         /\ Cardinality(OfKind(kind, T)) <= Cardinality(OfKind(kind, S))
         /\ OfKind(kind, T) # OfKind(kind, S) => Cardinality(OfKind(kind, T)) < Cardinality(OfKind(kind, S))
  <1> DEFINE A == OfKind(kind, S)
             B == OfKind(kind, T)
  <1>1. IsFiniteSet(A)
    BY FS_Subset DEF OfKind
  <1>2. B \in SUBSET A
    OBVIOUS
  <1> HIDE DEF A, B
  <1>3. IsFiniteSet(B) /\ Cardinality(B) <= Cardinality(A) /\ (Cardinality(B) = Cardinality(A) => B = A)
    BY <1>1, <1>2, FS_Subset
  <1>4. Cardinality(A) \in Nat /\ Cardinality(B) \in Nat
    BY <1>1, <1>3, FS_CardinalityType
  <1>5. B # A => Cardinality(B) < Cardinality(A)
    BY <1>3, <1>4
  <1>6. QED
    BY <1>3, <1>4, <1>5 DEF A, B

(* The others are none the worse for it. *)
LEMMA OthersFit ==
  ASSUME PgInv, StoreInv, NEW t \in Txs, Commit(t), NEW u \in Txs, u # t
  PROVE  /\ Sound(call[u], tx[u], rows')
         /\ InVain(call[u], tx[u], rows') => InVain(call[u], tx[u], rows) \/ Store!Vain(call[u], rows')
  <1> DEFINE x == tx[t]
             c == call[t]
             z == tx[u]
             d == call[u]
             W == Store!Written(c, x.seen)
             gone == c.removes \cap DOMAIN x.seen
  <1>1. /\ W \subseteq x.mine /\ W \subseteq Puts(c) /\ gone \subseteq DOMAIN rows /\ gone \subseteq x.mine
        /\ gone \subseteq c.removes
        /\ DOMAIN rows' = (DOMAIN rows \ gone) \cup W
        /\ \A o \in DOMAIN rows' : o \notin W => rows'[o] = rows[o]
        /\ \A o \in DOMAIN rows \cap DOMAIN rows' : rows'[o].created = rows[o].created
    BY Committed
  <1>2. c \in Calls /\ d \in Calls /\ Sound(d, z, rows) /\ x.pc \in AtWork /\ x.mine \cap z.mine = {}
    BY DEF PgInv, PgTypes, RowsOwned, StoreInv, Commit, AtWork
  <1>3. z.pc \in AtWork => /\ Guarded(d) \cap W = {}
                           /\ d.op = "limited" => \A o \in d.writes, p \in W : o.kind # p.kind
    <2>1. SUFFICES ASSUME z.pc \in AtWork
                   PROVE  /\ Guarded(d) \cap W = {}
                          /\ d.op = "limited" => \A o \in d.writes, p \in W : o.kind # p.kind
      OBVIOUS
    <2>2. Guarded(d) \cap Puts(c) = {} /\ (d.op = "limited" => \A o \in d.writes, p \in Puts(c) : o.kind # p.kind)
      BY <1>2, <2>1, Guards
    <2> HIDE DEF W, d, c
    <2>3. QED
      BY <1>1, <2>2
  <1>4. IsFiniteSet(DOMAIN rows)
    BY PgAssumption, FS_Subset DEF PgInv, PgTypes, IsStore
  <1>5. d.op = "limited" => \A o \in d.writes : Cardinality(OfKind(o.kind, DOMAIN rows)) <= Limit
    BY <1>2 DEF StoreInv, WithinQuota
  <1>6. d.op = "observe" => d.writes \cap c.removes = {}
    BY <1>2, WritesAssumption
  <1>7. /\ d.op # "set" => d.needs = {} /\ d.lacks = {}
        /\ d.lacks \subseteq d.writes
        /\ d.op = "delete" => \A o, p \in d.removes : o = p
    BY <1>2, WritesAssumption, CallsAssumption
  <1> HIDE DEF x, c, z, d, W, gone
  <1>8. SeenHolds(d, z, rows')
    BY <1>1, <1>2, <1>6 DEF Sound, SeenHolds
  <1>9. \A e : e.row \in DOMAIN rows' => (There(e, rows) => There(e, rows'))
    BY <1>1 DEF There
  <1>10. \A e : e.row \notin W => (There(e, rows') => There(e, rows))
    BY <1>1 DEF There
  <1>11. \A o \in DOMAIN rows' : o \in Sight(z, rows) => o \in Sight(z, rows')
    BY <1>9 DEF Sight
  <1>12. \A o : o \notin W => (o \in Sight(z, rows') => o \in Sight(z, rows))
    BY <1>10 DEF Sight
  <1>13. z.pc \in Working => z.pc \in AtWork
    BY DEF Working, AtWork
  <1>14. d.writes \subseteq Guarded(d)
    BY DEF Guarded, Puts
  <1>15. GuardedSeen(d, z, rows')
    <2>1. z.pc \in AtWork => Guarded(d) \cap DOMAIN rows' \subseteq DOMAIN rows
      BY <1>1, <1>3
    <2>2. ASSUME d.op = "observe", z.pc \in Working
          PROVE  d.writes \cap DOMAIN rows' \subseteq DOMAIN z.seen
      <3>1. d.writes \cap DOMAIN rows \subseteq DOMAIN z.seen
        BY <1>2, <2>2 DEF Sound, GuardedSeen
      <3>2. QED
        BY <1>13, <1>14, <2>1, <2>2, <3>1
    <2>3. ASSUME z.pc \in {"scanning", "inserting"}
          PROVE  Guarded(d) \cap DOMAIN rows' \subseteq Sight(z, rows')
      <3>1. Guarded(d) \cap DOMAIN rows \subseteq Sight(z, rows)
        BY <1>2, <2>3 DEF Sound, GuardedSeen
      <3>2. z.pc \in AtWork
        BY <2>3 DEF AtWork
      <3>3. QED
        BY <1>11, <2>1, <3>1, <3>2
    <2>4. QED
      BY <2>2, <2>3 DEF GuardedSeen
  <1>16. Room(d, z, rows')
    <2>1. SUFFICES ASSUME d.op = "limited", z.pc \in Working, NEW o \in d.writes, o \notin DOMAIN rows'
                   PROVE  Cardinality(OfKind(o.kind, DOMAIN rows')) < Limit
      BY DEF Room
    <2>2. OfKind(o.kind, DOMAIN rows') \subseteq OfKind(o.kind, DOMAIN rows)
      BY <1>1, <1>3, <1>13, <2>1 DEF OfKind
    <2> DEFINE m == Cardinality(OfKind(o.kind, DOMAIN rows))
               n == Cardinality(OfKind(o.kind, DOMAIN rows'))
    <2>3. n \in Nat /\ m \in Nat /\ n <= m
      BY <1>4, <2>2, KindRows
    <2>4. m <= Limit
      BY <1>5, <2>1
    <2>5. o \in DOMAIN rows \/ m < Limit
      BY <1>2, <2>1 DEF Sound, Room
    <2>6. o \in DOMAIN rows => n < m
      <3>1. SUFFICES ASSUME o \in DOMAIN rows
                     PROVE  n < m
        OBVIOUS
      <3>2. OfKind(o.kind, DOMAIN rows') # OfKind(o.kind, DOMAIN rows)
        BY <2>1, <3>1 DEF OfKind
      <3>3. QED
        BY <1>4, <2>2, <3>2, KindRows
    <2> HIDE DEF m, n
    <2>7. n < Limit
      BY <2>3, <2>4, <2>5, <2>6, PgAssumption
    <2>8. QED
      BY <2>7 DEF n
  <1>17. ASSUME InVain(d, z, rows')
         PROVE  InVain(d, z, rows) \/ Store!Vain(d, rows')
    <2>1. z.pc \in {"scanning", "inserting"} /\ z.pc \in AtWork
      BY <1>17 DEF InVain, AtWork
    <2>2. CASE ~(d.needs \subseteq Sight(z, rows'))
      <3>1. PICK o \in d.needs : o \notin Sight(z, rows')
        BY <2>2
      <3>2. CASE o \notin Sight(z, rows)
        BY <2>1, <3>2 DEF InVain
      <3>3. CASE o \in Sight(z, rows)
        <4>1. o \notin DOMAIN rows'
          BY <1>11, <3>1, <3>3
        <4>2. QED
          BY <4>1 DEF Store!Vain, Store!Refused
      <3>4. QED
        BY <3>2, <3>3
    <2>3. CASE d.lacks \cap Sight(z, rows') # {}
      <3>1. PICK o \in d.lacks : o \in Sight(z, rows')
        BY <2>3
      <3>2. o \notin W
        BY <1>3, <1>7, <1>14, <2>1
      <3>3. QED
        BY <1>12, <2>1, <3>1, <3>2 DEF InVain
    <2>4. CASE d.op = "delete" /\ d.removes \cap Sight(z, rows') = {}
      <3>1. CASE d.removes \cap Sight(z, rows) = {}
        BY <2>1, <2>4, <3>1 DEF InVain
      <3>2. CASE d.removes \cap Sight(z, rows) # {}
        <4>1. PICK o \in d.removes : o \in Sight(z, rows)
          BY <3>2
        <4>2. o \notin DOMAIN rows' /\ \A p \in d.removes : p = o
          BY <1>7, <1>11, <2>4, <4>1
        <4>3. QED
          BY <2>4, <4>2 DEF Store!Vain
      <3>3. QED
        BY <3>1, <3>2
    <2>5. QED
      BY <1>17, <2>2, <2>3, <2>4 DEF InVain
  <1>18. QED
    BY <1>2, <1>8, <1>15, <1>16, <1>17 DEF Sound, z, d

(* So the commit keeps it, and the quota with it. *)
LEMMA CommitSound ==
  ASSUME PgInv, StoreInv, NEW t \in Txs, Commit(t)
  PROVE  StoreInv'
  <1> DEFINE x == tx[t]
             c == call[t]
             W == Store!Written(c, x.seen)
             gone == c.removes \cap DOMAIN x.seen
  <1>1. End(t, "committed") /\ call' = call /\ x.pc = "inserting"
        /\ (answer' = answer \/ answer' = [answer EXCEPT ![t] = "done"])
    BY DEF Commit, Reply
  <1>2. tx' = [tx EXCEPT ![t] = Fresh("committed", <<>>)] /\ DOMAIN tx = Txs
    BY <1>1 DEF End, Update, PgInv, PgTypes
  <1>3. tx'[t] = Fresh("committed", <<>>) /\ \A u \in Txs : u # t => tx'[u] = tx[u]
    BY <1>2
  <1>4. ASSUME NEW u \in Txs
        PROVE  Sound(call'[u], tx'[u], rows')
    <2>1. CASE u = t
      BY <1>3, <2>1, EndedSound
    <2>2. CASE u # t
      BY <1>1, <1>3, <2>2, OthersFit
    <2>3. QED
      BY <2>1, <2>2
  <1>5. WithinQuota'
    <2>1. SUFFICES ASSUME NEW d \in Calls, d.op = "limited", NEW o \in d.writes
                   PROVE  Cardinality(OfKind(o.kind, DOMAIN rows')) <= Limit
      BY DEF WithinQuota
    <2>2. c \in Calls /\ Sound(c, x, rows) /\ x.pc \in Working
      BY <1>1 DEF PgInv, PgTypes, StoreInv, Working
    <2>3. W \subseteq Puts(c) /\ DOMAIN rows' = (DOMAIN rows \ gone) \cup W
      BY Committed
    <2>4. IsFiniteSet(DOMAIN rows)
      BY PgAssumption, FS_Subset DEF PgInv, PgTypes, IsStore
    <2>5. Cardinality(OfKind(o.kind, DOMAIN rows)) <= Limit
      BY <2>1 DEF StoreInv, WithinQuota
    <2> DEFINE k == o.kind
               m == Cardinality(OfKind(k, DOMAIN rows))
               n == Cardinality(OfKind(k, DOMAIN rows'))
    <2>6. CASE OfKind(k, DOMAIN rows') \subseteq OfKind(k, DOMAIN rows)
      <3>1. n \in Nat /\ m \in Nat /\ n <= m
        BY <2>4, <2>6, KindRows
      <3> HIDE DEF m, n
      <3>2. n <= Limit
        BY <2>5, <3>1, PgAssumption DEF m
      <3>3. QED
        BY <3>2 DEF n
    <2>7. CASE ~(OfKind(k, DOMAIN rows') \subseteq OfKind(k, DOMAIN rows))
      <3>1. PICK p \in W : p.kind = k /\ p \notin DOMAIN rows
        <4> HIDE DEF W, gone
        <4>1. QED
          BY <2>3, <2>7 DEF OfKind
      <3>2. c.op = "limited"
        <4>1. p \in Puts(c)
          BY <2>3
        <4>2. QED
          BY <2>1, <2>2, <3>1, <4>1, WritesAssumption
      <3>3. W = c.writes /\ W = {p}
        <4>1. W = c.writes
          BY <3>2 DEF Store!Written
        <4>2. \A q \in c.writes : q = p
          BY <2>2, <3>2, <4>1, CallsAssumption
        <4>3. QED
          BY <4>1, <4>2
      <3>4. Cardinality(OfKind(p.kind, DOMAIN rows)) < Limit
        BY <2>2, <3>1, <3>2, <3>3 DEF Sound, Room
      <3> DEFINE A == OfKind(k, DOMAIN rows)
      <3>5. IsFiniteSet(A) /\ p \notin A
        <4>1. A \in SUBSET DOMAIN rows
          BY DEF OfKind
        <4>2. IsFiniteSet(A)
          <5> HIDE DEF A
          <5> QED BY <2>4, <4>1, FS_Subset
        <4>3. QED
          BY <3>1, <4>2 DEF OfKind
      <3>6. OfKind(k, DOMAIN rows') \subseteq A \cup {p}
        <4> HIDE DEF W, gone
        <4>1. QED
          BY <2>3, <3>3 DEF OfKind
      <3>7. m < Limit
        BY <3>1, <3>4
      <3> DEFINE B == OfKind(k, DOMAIN rows')
      <3> HIDE DEF A, B
      <3>8. IsFiniteSet(A \cup {p}) /\ Cardinality(A \cup {p}) = Cardinality(A) + 1 /\ Cardinality(A) \in Nat
        BY <3>5, FS_AddElement, FS_CardinalityType
      <3>9. B \in SUBSET (A \cup {p})
        BY <3>6 DEF B
      <3>10. IsFiniteSet(B) /\ Cardinality(B) <= Cardinality(A \cup {p}) /\ Cardinality(B) \in Nat
        BY <3>8, <3>9, FS_Subset, FS_CardinalityType
      <3>11. Cardinality(A) < Limit
        BY <3>7 DEF A
      <3>12. Cardinality(B) <= Limit
        BY <3>8, <3>10, <3>11, PgAssumption
      <3>13. QED
        BY <3>12 DEF B
    <2>8. QED
      BY <2>6, <2>7
  <1>6. Answered'
    <2>1. DOMAIN answer = Txs /\ \A u \in Txs : Alive(u) => answer[u] \in {"none", "error"}
      BY DEF StoreInv, Answered
    <2>2. DOMAIN answer' = Txs /\ \A u \in Txs : u # t => answer'[u] = answer[u]
      BY <1>1, <2>1
    <2>3. ~Alive(t)' /\ \A u \in Txs : u # t => (Alive(u)' <=> Alive(u))
      <3>1. tx'[t].pc = "committed"
        BY <1>3 DEF Fresh
      <3>2. QED
        BY <1>3, <3>1 DEF Alive
    <2>4. QED
      BY <2>1, <2>2, <2>3 DEF Answered
  <1>7. QED
    BY <1>4, <1>5, <1>6 DEF StoreInv

(* A call that has not started has read nothing, and one that takes no locks
   writes nothing. *)
LEMMA StoreStarts == Init => StoreInv
  <1>1. SUFFICES ASSUME Init
                 PROVE  StoreInv
    OBVIOUS
  <1>2. PgInv
    BY <1>1, PgStarts
  <1>3. tx = [t \in Txs |-> FirstOf(call[t])] /\ answer = [t \in Txs |-> "none"] /\ DOMAIN rows = Present
    BY <1>1 DEF Init, FirstOf, Store!FirstRows
  <1>4. ASSUME NEW t \in Txs
        PROVE  Sound(call[t], tx[t], rows)
    <2> DEFINE c == call[t]
               x == tx[t]
               at == IF c.specs # <<>> THEN "locking" ELSE "loading"
    <2>1. x = TxOf(at, NormalizeSpecs(c.specs), {}, <<>>, <<>>, {}, <<>>, 1) /\ c \in Calls
      BY <1>2, <1>3 DEF FirstOf, Fresh, TxOf, PgInv, PgTypes
    <2> HIDE DEF x
    <2>2. x.pc = at /\ x.scan = <<>> /\ x.seen = <<>>
      BY <2>1, TxFields
    <2>3. DOMAIN x.seen = {} /\ Range(x.scan) = {}
      BY <2>2, Empty
    <2>4. at = "loading" => c.writes = {}
      <3>1. SUFFICES ASSUME at = "loading"
                     PROVE  c.writes = {}
        OBVIOUS
      <3>2. Specs(c) = {}
        BY <3>1, Empty DEF Specs
      <3>3. Apart(c, c)
        BY <3>2 DEF Apart
      <3>4. Guarded(c) \cap Puts(c) = {}
        BY <2>1, <3>3, WritesAssumption
      <3>5. QED
        BY <3>4 DEF Guarded, Puts
    <2>5. at \in {"locking", "loading"}
      OBVIOUS
    <2> HIDE DEF at, c
    <2>6. SeenHolds(c, x, rows) /\ GuardedSeen(c, x, rows) /\ Room(c, x, rows)
      BY <2>2, <2>3, <2>4, <2>5 DEF SeenHolds, GuardedSeen, Room, Working
    <2>7. Progress(c, x)
      BY <2>2, <2>3, <2>5 DEF Progress
    <2>8. QED
      BY <2>6, <2>7 DEF Sound, x, c
  <1>5. WithinQuota
    BY <1>3, WritesAssumption DEF WithinQuota
  <1>6. Answered
    BY <1>3 DEF Answered
  <1>7. QED
    BY <1>4, <1>5, <1>6 DEF StoreInv

(* Every step keeps it. *)
LEMMA StoreKept == PgInv /\ StoreInv /\ [Next]_vars => StoreInv'
  <1>1. ASSUME PgInv, StoreInv, NEW t \in Txs, Fits(t), Alive(t), tx' = [tx EXCEPT ![t] = tx'[t]],
               rows' = rows, call' = call, answer' = answer
        PROVE  StoreInv'
    <2>1. Sound(call[t], tx'[t], rows)
      BY <1>1 DEF Fits
    <2>2. QED
      BY <1>1, <2>1, OneGoesOn
  <1>2. ASSUME PgInv, StoreInv, NEW t \in Txs, Lock(t)
        PROVE  StoreInv'
    BY <1>1, <1>2, LockFits, LockMoves DEF Lock
  <1>3. ASSUME PgInv, StoreInv, NEW t \in Txs, CheckLimit(t)
        PROVE  StoreInv'
    <2>1. CASE Store!Refused(call[t], rows)
      BY <1>3, <2>1, OneEnds DEF CheckLimit
    <2>2. CASE ~Store!Refused(call[t], rows)
      BY <1>1, <1>3, <2>2, CheckLimitFits, CheckLimitMoves DEF CheckLimit
    <2>3. QED
      BY <2>1, <2>2
  <1>4. ASSUME PgInv, StoreInv, NEW t \in Txs, FilterObservations(t)
        PROVE  StoreInv'
    <2>1. CASE call[t].writes \cap DOMAIN rows = call[t].writes
      BY <1>4, <2>1, OneEnds DEF FilterObservations
    <2>2. CASE call[t].writes \cap DOMAIN rows # call[t].writes
      BY <1>1, <1>4, <2>2, FilterFits, FilterMoves DEF FilterObservations
    <2>3. QED
      BY <2>1, <2>2
  <1>5. ASSUME PgInv, StoreInv, NEW t \in Txs, Load(t)
        PROVE  StoreInv'
    BY <1>1, <1>5, LoadFits, LoadMoves DEF Load
  <1>6. ASSUME PgInv, StoreInv, NEW t \in Txs, Scan(t)
        PROVE  StoreInv'
    <2>1. tx' = [tx EXCEPT ![t] = tx'[t]]
      BY <1>6, ScanTakes, ScanPasses
    <2>2. QED
      BY <1>1, <1>6, <2>1, ScanFits DEF Scan
  <1>7. ASSUME PgInv, StoreInv, NEW t \in Txs, NextStatement(t)
        PROVE  StoreInv'
    BY <1>1, <1>7, NextStatementFits, NextStatementMoves DEF NextStatement
  <1>8. ASSUME PgInv, StoreInv, NEW t \in Txs, Decide(t)
        PROVE  StoreInv'
    <2>1. CASE Store!Refused(call[t], tx[t].seen)
      BY <1>8, <2>1, OneEnds DEF Decide
    <2>2. CASE ~Store!Refused(call[t], tx[t].seen)
      BY <1>1, <1>8, <2>2, DecideFits, DecideMoves DEF Decide
    <2>3. QED
      BY <2>1, <2>2
  <1>9. ASSUME PgInv, StoreInv, NEW t \in Txs, Insert(t)
        PROVE  StoreInv'
    BY <1>1, <1>9, InsertFits, InsertMoves DEF Insert
  <1>10. ASSUME PgInv, StoreInv, NEW t \in Txs, GiveUp(t)
         PROVE  StoreInv'
    <2>1. rows' = rows /\ call' = call /\ tx' = tx /\ answer' = [answer EXCEPT ![t] = "error"]
      BY <1>10 DEF GiveUp, Reply
    <2>2. Answered'
      BY <1>10, <2>1 DEF StoreInv, Answered, Alive
    <2>3. QED
      BY <1>10, <2>1, <2>2 DEF StoreInv, WithinQuota
  <1>11. ASSUME PgInv, StoreInv, NEW t \in Txs, Abort(t) \/ Victim(t)
         PROVE  StoreInv'
    BY <1>11, OneEnds DEF Abort, Victim
  <1>12. ASSUME PgInv, StoreInv, Next
         PROVE  StoreInv'
    BY <1>2, <1>3, <1>4, <1>5, <1>6, <1>7, <1>8, <1>9, <1>10, <1>11, <1>12, CommitSound DEF Next, Step
  <1>13. ASSUME StoreInv, UNCHANGED vars
         PROVE  StoreInv'
    BY <1>13 DEF vars, StoreInv, WithinQuota, Answered, Alive
  <1>14. QED
    BY <1>12, <1>13

-----------------------------------------------------------------------------
(* Every step is one of the store *)

Taken == [u \in Txs |-> tx[u].pc = "committed"]
Vainly == [u \in Txs |-> Doomed(u)]

(* A call that gets in vain is so by what the store holds. *)
Honest == \A u \in Txs :
    InVain(call'[u], tx'[u], rows') =>
       InVain(call[u], tx[u], rows) \/ Store!Vain(call[u], rows) \/ Store!Vain(call[u], rows')

(* The same after a step. *)
LEMMA DoomedThen ==
  ASSUME NEW u
  PROVE  Doomed(u)' <=> InVain(call'[u], tx'[u], rows')
  <1>1. InSight(u)' = Sight(tx'[u], rows')
    BY DEF InSight, Sight, Same, There
  <1>2. QED
    BY <1>1 DEF Doomed, InVain

(* Then the store dooms no call without a reason, *)
LEMMA Dooms ==
  ASSUME Honest
  PROVE  Store!Doom /\ Vainly' \in [Txs -> BOOLEAN]
  <1>1. \A u \in Txs : Doomed(u)' => Doomed(u) \/ Store!Vain(call[u], rows) \/ Store!Vain(call[u], rows')
    BY DoomedThen, SightIs DEF Honest
  <1>2. \A u \in Txs : Doomed(u)' \in BOOLEAN
    BY DEF Doomed
  <1>3. Vainly' \in [Txs -> BOOLEAN]
    BY <1>2 DEF Vainly
  <1>4. Store!Doom
    BY <1>1 DEF Store!Doom
  <1>5. QED
    BY <1>3, <1>4

(* and a step is one of the store if what it does to rows and answers is. *)
LEMMA AsStore ==
  ASSUME Honest, call' = call,
         (\E t \in Txs : Store!Do(t) \/ Store!Miss(t) \/ Store!Refuse(t) \/ Store!Fail(t))
         \/ UNCHANGED <<rows, Taken, answer>>
  PROVE  Store!Next
  BY Dooms DEF Store!Next, Taken, Vainly

(* Which calls have taken effect after the step of one. *)
LEMMA TakenThen ==
  ASSUME PgInv, NEW t \in Txs, NEW x, tx' = [tx EXCEPT ![t] = x]
  PROVE  /\ x.pc = "committed" => Taken' = [Taken EXCEPT ![t] = TRUE]
         /\ x.pc # "committed" /\ tx[t].pc # "committed" => Taken' = Taken
         /\ Taken[t] <=> tx[t].pc = "committed"
  <1>1. tx'[t] = x /\ \A u \in Txs : u # t => tx'[u] = tx[u]
    BY DEF PgInv, PgTypes
  <1>2. DOMAIN Taken = Txs /\ DOMAIN Taken' = Txs
        /\ Taken = [u \in Txs |-> tx[u].pc = "committed"] /\ Taken' = [u \in Txs |-> tx'[u].pc = "committed"]
    BY DEF Taken
  <1>3. x.pc = "committed" => Taken' = [Taken EXCEPT ![t] = TRUE]
    BY <1>1, <1>2
  <1>4. x.pc # "committed" /\ tx[t].pc # "committed" => Taken' = Taken
    BY <1>1, <1>2
  <1>5. QED
    BY <1>2, <1>3, <1>4

(* The steps by which nothing happens to the store. *)
LEMMA GoesOnUnseen ==
  ASSUME PgInv, NEW t \in Txs, Fits(t), Alive(t), tx' = [tx EXCEPT ![t] = tx'[t]], tx'[t].pc # "committed",
         rows' = rows, call' = call, answer' = answer
  PROVE  Store!Next
  <1>1. \A u \in Txs : u # t => tx'[u] = tx[u]
    BY DEF PgInv, PgTypes
  <1>2. Honest
    BY <1>1 DEF Honest, Fits
  <1>3. Taken' = Taken
    BY TakenThen DEF Alive
  <1>4. QED
    BY <1>2, <1>3, AsStore

(* A call that ends leaves the others as they are, when the rows stay. *)
LEMMA EndsHonest ==
  ASSUME PgInv, NEW t \in Txs, NEW at \in {"committed", "aborted"}, End(t, at), rows' = rows, call' = call, Alive(t)
  PROVE  /\ Honest
         /\ at = "committed" => Taken' = [Taken EXCEPT ![t] = TRUE]
         /\ at = "aborted" => Taken' = Taken
         /\ ~Taken[t]
  <1>1. tx' = [tx EXCEPT ![t] = Fresh(at, <<>>)] /\ DOMAIN tx = Txs
    BY DEF End, Update, PgInv, PgTypes
  <1>2. tx'[t] = Fresh(at, <<>>) /\ \A u \in Txs : u # t => tx'[u] = tx[u]
    BY <1>1
  <1>3. ~InVain(call[t], tx'[t], rows)
    BY <1>2, EndedSound
  <1>4. Honest
    BY <1>2, <1>3 DEF Honest
  <1>5. Fresh(at, <<>>).pc = at
    BY DEF Fresh
  <1>6. QED
    BY <1>1, <1>4, <1>5, TakenThen DEF Alive

(* A call that is refused finds a reason in what it sees. *)
LEMMA RefusedAsStore ==
  ASSUME PgInv, StoreInv, NEW t \in Txs, End(t, "aborted"), Reply(t, "refused"), rows' = rows, call' = call,
         Alive(t), answer[t] = "none", call[t].op # "delete", Doomed(t) \/ Store!Refused(call[t], rows)
  PROVE  Store!Next
  <1>1. Honest /\ Taken' = Taken /\ ~Taken[t]
    BY EndsHonest
  <1>2. Store!Refuse(t)
    BY <1>1 DEF Store!Refuse, Store!Reply, Reply, Taken
  <1>3. QED
    BY <1>1, <1>2, AsStore

(* The quota refuses a call as the store does. *)
LEMMA CheckLimitAsStore ==
  ASSUME PgInv, StoreInv, NEW t \in Txs, CheckLimit(t)
  PROVE  Store!Next
  <1>1. CASE Store!Refused(call[t], rows)
    <2>1. Alive(t) /\ answer[t] = "none" /\ call[t].op # "delete"
      BY DEF CheckLimit, Running, Alive
    <2>2. QED
      BY <1>1, <2>1, RefusedAsStore DEF CheckLimit
  <1>2. CASE ~Store!Refused(call[t], rows)
    <2>1. Fits(t) /\ Alive(t)
      BY <1>2, CheckLimitFits
    <2>2. tx' = [tx EXCEPT ![t] = tx'[t]] /\ tx'[t].pc = "loading"
      BY <1>2, CheckLimitMoves
    <2>3. rows' = rows /\ call' = call /\ answer' = answer
      BY <1>2 DEF CheckLimit
    <2>4. QED
      BY <2>1, <2>2, <2>3, GoesOnUnseen
  <1>3. QED
    BY <1>1, <1>2

(* The method of the store refuses a call for what the store has held. *)
LEMMA DecideAsStore ==
  ASSUME PgInv, StoreInv, NEW t \in Txs, Decide(t)
  PROVE  Store!Next
  <1> DEFINE x == tx[t]
             c == call[t]
  <1>1. CASE ~Store!Refused(c, x.seen)
    <2>1. Fits(t) /\ Alive(t)
      BY <1>1, DecideFits
    <2>2. tx' = [tx EXCEPT ![t] = tx'[t]] /\ tx'[t].pc = "inserting"
      BY <1>1, DecideMoves
    <2>3. rows' = rows /\ call' = call /\ answer' = answer
      BY <1>1 DEF Decide
    <2>4. QED
      BY <2>1, <2>2, <2>3, GoesOnUnseen
  <1>2. CASE Store!Refused(c, x.seen)
    <2>1. x.pc = "scanning" /\ x.scan = <<>> /\ answer[t] = "none" /\ Sound(c, x, rows) /\ c \in Calls
      BY DEF Decide, Running, StoreInv, PgInv, PgTypes
    <2>2. Sight(x, rows) = DOMAIN x.seen
      BY <2>1, Empty DEF Sight
    <2>3. ~(c.needs \subseteq DOMAIN x.seen) \/ c.lacks \cap DOMAIN x.seen # {}
      <3>1. SUFFICES ASSUME c.op = "limited", NEW o \in c.writes, o \notin DOMAIN x.seen,
                            Store!Cardinality({p \in DOMAIN x.seen : p.kind = o.kind}) >= Limit
                     PROVE  FALSE
        BY <1>2 DEF Store!Refused
      <3>2. DOMAIN x.seen \subseteq c.writes
        BY <2>1, <3>1 DEF Sound, Progress
      <3>3. \A p \in c.writes : p = o
        BY <2>1, <3>1, CallsAssumption
      <3>4. {p \in DOMAIN x.seen : p.kind = o.kind} = {}
        BY <3>1, <3>2, <3>3
      <3>5. Cardinality({}) >= Limit
        BY <3>1, <3>4, SameCount
      <3>6. QED
        BY <3>5, FS_EmptySet, PgAssumption
    <2>4. Doomed(t)
      <3>1. InVain(c, x, rows)
        BY <2>1, <2>2, <2>3 DEF InVain
      <3>2. QED
        BY <3>1, SightIs
    <2>5. c.op # "delete"
      BY <2>1, <2>3, WritesAssumption
    <2>6. Alive(t)
      BY <2>1 DEF Alive
    <2>7. End(t, "aborted") /\ Reply(t, "refused") /\ rows' = rows /\ call' = call
      BY <1>2 DEF Decide
    <2>8. QED
      BY <2>1, <2>4, <2>5, <2>6, <2>7, RefusedAsStore
  <1>3. QED
    BY <1>1, <1>2

(* A batch of observations that are all there takes effect and changes nothing. *)
LEMMA FilterAsStore ==
  ASSUME PgInv, StoreInv, NEW t \in Txs, FilterObservations(t)
  PROVE  Store!Next
  <1> DEFINE c == call[t]
  <1>1. c.op = "observe" /\ tx[t].pc = "checking" /\ answer[t] = "none" /\ c \in Calls /\ IsStore(rows) /\ Alive(t)
    BY DEF FilterObservations, Running, PgInv, PgTypes, Alive
  <1>2. CASE c.writes \cap DOMAIN rows # c.writes
    <2>1. Fits(t) /\ Alive(t)
      BY <1>2, FilterFits
    <2>2. tx' = [tx EXCEPT ![t] = tx'[t]] /\ tx'[t].pc = "loading"
      BY <1>2, FilterMoves
    <2>3. rows' = rows /\ call' = call /\ answer' = answer
      BY <1>2 DEF FilterObservations
    <2>4. QED
      BY <2>1, <2>2, <2>3, GoesOnUnseen
  <1>3. CASE c.writes \cap DOMAIN rows = c.writes
    <2>1. End(t, "committed") /\ Reply(t, "done") /\ rows' = rows /\ call' = call
      BY <1>3 DEF FilterObservations
    <2>2. Honest /\ Taken' = [Taken EXCEPT ![t] = TRUE] /\ ~Taken[t]
      BY <1>1, <2>1, EndsHonest
    <2>3. ~Store!Refused(c, rows) /\ c.removes = {}
      <3>1. c.needs = {} /\ c.lacks = {} /\ c.removes = {}
        BY <1>1, WritesAssumption
      <3>2. QED
        BY <1>1, <3>1 DEF Store!Refused
    <2>4. Store!Written(c, rows) = {}
      BY <1>1, <1>3 DEF Store!Written
    <2>5. rows' = Store!Outcome(t, c, rows, c.removes)
      <3>1. rows = [o \in DOMAIN rows |-> rows[o]]
        BY <1>1 DEF IsStore
      <3>2. Store!Outcome(t, c, rows, {}) = [o \in DOMAIN rows |-> rows[o]]
        BY <2>4 DEF Store!Outcome
      <3>3. QED
        BY <2>1, <2>3, <3>1, <3>2
    <2>6. c.removes \in Store!Removals(c)
      BY <1>1 DEF Store!Removals
    <2>7. Store!Do(t)
      BY <1>1, <2>1, <2>2, <2>3, <2>5, <2>6 DEF Store!Do, Store!Reply, Reply, Taken
    <2>8. QED
      BY <2>1, <2>2, <2>7, AsStore
  <1>4. QED
    BY <1>2, <1>3

(* A delete that has had nothing to delete. *)
LEMMA MissAsStore ==
  ASSUME PgInv, StoreInv, NEW t \in Txs, Commit(t), call[t].op = "delete",
         call[t].removes \cap DOMAIN tx[t].seen = {}
  PROVE  Store!Next
  <1> DEFINE x == tx[t]
             c == call[t]
             W == Store!Written(c, x.seen)
             gone == c.removes \cap DOMAIN x.seen
  <1>1. x.pc = "inserting" /\ Sound(c, x, rows) /\ c \in Calls /\ IsStore(rows) /\ Alive(t)
        /\ answer[t] \in {"none", "error"}
    BY DEF Commit, StoreInv, Answered, PgInv, PgTypes, Alive
  <1>2. W = {}
    <2>1. c.writes = {}
      BY <1>1, WritesAssumption
    <2>2. QED
      BY <2>1 DEF Store!Written
  <1>3. rows' = rows
    <2>1. rows' = [o \in DOMAIN rows |-> rows[o]]
      BY <1>2 DEF Commit, Store!Outcome
    <2>2. QED
      BY <1>1, <2>1 DEF IsStore
  <1>4. End(t, "committed") /\ call' = call /\ (IF answer[t] = "none" THEN Reply(t, "done") ELSE UNCHANGED answer)
    BY DEF Commit
  <1>5. Honest /\ Taken' = [Taken EXCEPT ![t] = TRUE] /\ ~Taken[t]
    BY <1>1, <1>3, <1>4, EndsHonest
  <1>6. Doomed(t)
    <2>1. x.scan = <<>>
      BY <1>1 DEF Sound, Progress
    <2>2. Sight(x, rows) = DOMAIN x.seen
      BY <2>1, Empty DEF Sight
    <2>3. InVain(c, x, rows)
      BY <1>1, <2>2 DEF InVain
    <2>4. QED
      BY <2>3, SightIs
  <1>7. Store!Miss(t)
    BY <1>1, <1>3, <1>4, <1>5, <1>6 DEF Store!Miss, Store!Reply, Reply, Taken
  <1>8. QED
    BY <1>4, <1>5, <1>7, AsStore

(* What a call has read is, for what it does, all there is. *)
LEMMA AllThereIs ==
  ASSUME PgInv, StoreInv, NEW t \in Txs, Commit(t),
         ~(call[t].op = "delete" /\ call[t].removes \cap DOMAIN tx[t].seen = {})
  PROVE  LET c == call[t] IN
         /\ ~Store!Refused(c, rows)
         /\ Store!Written(c, tx[t].seen) = Store!Written(c, rows)
         /\ \E gone \in Store!Removals(c) : DOMAIN rows \ gone = DOMAIN rows \ (c.removes \cap DOMAIN tx[t].seen)
  <1> DEFINE x == tx[t]
             c == call[t]
             gone == c.removes \cap DOMAIN x.seen
  <1>1. /\ ~Store!Refused(c, x.seen) /\ Guarded(c) \cap DOMAIN rows \subseteq DOMAIN x.seen
        /\ DOMAIN x.seen \subseteq DOMAIN rows
    BY Committed
  <1>2. x.pc = "inserting" /\ Sound(c, x, rows) /\ c \in Calls
    BY DEF Commit, StoreInv, PgInv, PgTypes
  <1>3. c.op # "observe" => \A o \in DOMAIN x.seen : rows[o] = x.seen[o]
    BY <1>2 DEF Sound, SeenHolds
  <1>4. c.writes \cap DOMAIN rows = c.writes \cap DOMAIN x.seen
    BY <1>1 DEF Guarded, Puts
  <1>5. ~Store!Refused(c, rows)
    <2>1. c.needs \subseteq DOMAIN rows
      BY <1>1 DEF Store!Refused
    <2>2. c.lacks \cap DOMAIN rows = {}
      <3>1. c.lacks \cap DOMAIN x.seen = {}
        BY <1>1 DEF Store!Refused
      <3>2. c.lacks \subseteq c.writes
        BY <1>2, WritesAssumption
      <3>3. QED
        BY <1>4, <3>1, <3>2
    <2>3. ASSUME c.op = "limited", NEW o \in c.writes, o \notin DOMAIN rows
          PROVE  ~(Store!Cardinality({p \in DOMAIN rows : p.kind = o.kind}) >= Limit)
      <3>1. Cardinality(OfKind(o.kind, DOMAIN rows)) < Limit
        BY <1>2, <2>3 DEF Sound, Room, Working
      <3>2. IsFiniteSet(DOMAIN rows)
        BY PgAssumption, FS_Subset DEF PgInv, PgTypes, IsStore
      <3> DEFINE n == Cardinality(OfKind(o.kind, DOMAIN rows))
      <3>3. n \in Nat
        BY <3>2, KindRows
      <3> HIDE DEF n
      <3>4. ~(n >= Limit)
        BY <3>1, <3>3, PgAssumption DEF n
      <3>5. n = Store!Cardinality({p \in DOMAIN rows : p.kind = o.kind})
        BY SameCount DEF n, OfKind
      <3>6. QED
        BY <3>4, <3>5
    <2>4. QED
      BY <2>1, <2>2, <2>3 DEF Store!Refused
  <1>6. Store!Written(c, x.seen) = Store!Written(c, rows)
    <2>1. CASE c.op = "observe"
      <3>1. c.writes \ DOMAIN x.seen = c.writes \ DOMAIN rows
        BY <1>4
      <3> HIDE DEF x, c
      <3>2. QED
        BY <2>1, <3>1 DEF Store!Written
    <2>2. CASE c.op = "sweep"
      <3> HIDE DEF x, c
      <3>1. {o \in c.writes \cap DOMAIN x.seen : x.seen[o].open /\ ~x.seen[o].fresh}
            = {o \in c.writes \cap DOMAIN rows : rows[o].open /\ ~rows[o].fresh}
        BY <1>3, <1>4, <2>2
      <3>2. QED
        BY <2>2, <3>1 DEF Store!Written
    <2>3. CASE c.op \notin {"observe", "sweep"}
      BY <2>3 DEF Store!Written
    <2>4. QED
      BY <2>1, <2>2, <2>3
  <1>7. \E g \in Store!Removals(c) : DOMAIN rows \ g = DOMAIN rows \ gone
    <2>1. CASE c.op = "cleanup"
      <3>1. DOMAIN x.seen \subseteq c.removes /\ \A o \in DOMAIN x.seen : Store!Expired(o, x.seen[o])
        BY <1>2, <2>1 DEF Sound, Progress
      <3>2. \A o \in DOMAIN x.seen : Store!Expired(o, rows[o])
        BY <1>3, <2>1, <3>1
      <3>3. gone \in SUBSET {o \in c.removes \cap DOMAIN rows : Store!Expired(o, rows[o])}
        BY <1>1, <3>2
      <3>4. gone \in Store!Removals(c)
        BY <2>1, <3>3 DEF Store!Removals
      <3> HIDE DEF gone
      <3>5. QED
        BY <3>4
    <2>2. CASE c.op # "cleanup"
      <3>1. c.removes \cap DOMAIN rows \subseteq DOMAIN x.seen
        <4>1. CASE c.op = "set"
          BY <1>1, <4>1 DEF Guarded
        <4>2. CASE c.op = "delete"
          <5>1. \A o, p \in c.removes : o = p
            BY <1>2, <4>2, CallsAssumption
          <5>2. QED
            BY <4>2, <5>1
        <4>3. CASE c.op \notin {"set", "delete"}
          BY <1>2, <2>2, <4>3, WritesAssumption
        <4>4. QED
          BY <4>1, <4>2, <4>3
      <3>2. c.removes \in Store!Removals(c)
        BY <2>2 DEF Store!Removals
      <3>3. DOMAIN rows \ c.removes = DOMAIN rows \ gone
        BY <3>1
      <3> HIDE DEF gone, c
      <3>4. QED
        BY <3>2, <3>3
    <2>3. QED
      BY <2>1, <2>2
  <1>8. QED
    BY <1>5, <1>6, <1>7

(* A commit does what the store does at that moment. *)
LEMMA CommitAsStore ==
  ASSUME PgInv, StoreInv, NEW t \in Txs, Commit(t)
  PROVE  Store!Next
  <1> DEFINE x == tx[t]
             c == call[t]
             W == Store!Written(c, x.seen)
             lost == c.removes \cap DOMAIN x.seen
  <1>1. CASE c.op = "delete" /\ lost = {}
    BY <1>1, MissAsStore
  <1>2. CASE ~(c.op = "delete" /\ lost = {})
    <2>1. ~Store!Refused(c, rows) /\ W = Store!Written(c, rows)
      BY <1>2, AllThereIs
    <2>2. PICK gone \in Store!Removals(c) : DOMAIN rows \ gone = DOMAIN rows \ lost
      BY <1>2, AllThereIs
    <2>3. rows' = Store!Outcome(t, c, rows, gone)
      <3>1. rows' = [o \in (DOMAIN rows \ lost) \cup W |->
                       IF o \in W THEN Store!NewValue(t, c, x.seen, o) ELSE rows[o]]
        BY DEF Commit, Store!Outcome
      <3>2. \A o \in W : o \in DOMAIN rows <=> o \in DOMAIN x.seen
        BY Committed
      <3>3. \A o \in W : o \in DOMAIN rows => rows[o] = x.seen[o]
        BY Committed
      <3> HIDE DEF W, lost, x, c
      <3>4. \A o \in W : Store!NewValue(t, c, x.seen, o) = Store!NewValue(t, c, rows, o)
        BY <3>2, <3>3 DEF Store!NewValue
      <3>5. rows' = [o \in (DOMAIN rows \ gone) \cup W |->
                       IF o \in W THEN Store!NewValue(t, c, rows, o) ELSE rows[o]]
        BY <2>2, <3>1, <3>4
      <3>6. QED
        BY <2>1, <3>5 DEF Store!Outcome
    <2>4. End(t, "committed") /\ call' = call /\ (IF answer[t] = "none" THEN Reply(t, "done") ELSE UNCHANGED answer)
          /\ tx[t].pc = "inserting"
      BY DEF Commit
    <2>5. tx' = [tx EXCEPT ![t] = Fresh("committed", <<>>)] /\ DOMAIN tx = Txs /\ Fresh("committed", <<>>).pc = "committed"
      BY <2>4 DEF End, Update, PgInv, PgTypes, Fresh
    <2>6. Taken' = [Taken EXCEPT ![t] = TRUE] /\ ~Taken[t]
      BY <2>4, <2>5, TakenThen
    <2>7. Honest
      <3>1. ASSUME NEW u \in Txs, InVain(call'[u], tx'[u], rows')
            PROVE  InVain(call[u], tx[u], rows) \/ Store!Vain(call[u], rows')
        <4>1. CASE u = t
          <5>1. tx'[u] = Fresh("committed", <<>>)
            BY <2>5, <4>1
          <5>2. QED
            BY <3>1, <5>1, EndedSound
        <4>2. CASE u # t
          <5>1. tx'[u] = tx[u] /\ call'[u] = call[u]
            BY <2>4, <2>5, <4>2
          <5>2. QED
            BY <3>1, <4>2, <5>1, OthersFit
        <4>3. QED
          BY <4>1, <4>2
      <3>2. QED
        BY <3>1 DEF Honest
    <2>8. Alive(t) /\ answer[t] \in {"none", "error"}
      BY <2>4 DEF Alive, StoreInv, Answered
    <2>9. Store!Do(t)
      BY <2>1, <2>2, <2>3, <2>4, <2>6, <2>8 DEF Store!Do, Store!Reply, Reply, Taken
    <2>10. QED
      BY <2>4, <2>6, <2>7, <2>9, AsStore
  <1>3. QED
    BY <1>1, <1>2

(* Who waits has no answer yet. *)
LEMMA VictimWaits ==
  ASSUME NEW t \in Deadlock(Txs)
  PROVE  t \in Txs /\ Alive(t) /\ answer[t] = "none"
  <1> DEFINE awaited == [u \in Txs |-> WaitsFor(u) \cap Txs]
  <1>1. t \in Txs /\ \A C \in SUBSET Txs : (\A u \in C \cup {t} : awaited[u] \subseteq C) => t \in C
    BY DEF Deadlock
  <1>2. WaitsFor(t) # {}
    <2>1. SUFFICES ASSUME WaitsFor(t) = {}
                   PROVE  FALSE
      OBVIOUS
    <2>2. {} \in SUBSET Txs /\ \A u \in {} \cup {t} : awaited[u] \subseteq {}
      BY <1>1, <2>1
    <2> HIDE DEF awaited
    <2>3. QED
      BY <1>1, <2>2
  <1>3. Running(t, "locking") \/ Running(t, "scanning") \/ Running(t, "inserting")
    BY <1>2 DEF WaitsFor
  <1>4. QED
    BY <1>1, <1>3 DEF Running, Alive

(* A caller that gives up is told of an error, *)
LEMMA GiveUpAsStore ==
  ASSUME PgInv, StoreInv, NEW t \in Txs, GiveUp(t)
  PROVE  Store!Next
  <1>1. rows' = rows /\ call' = call /\ tx' = tx /\ answer[t] = "none" /\ Reply(t, "error")
    BY DEF GiveUp
  <1>2. Honest /\ Taken' = Taken
    BY <1>1 DEF Honest, Taken
  <1>3. Store!Fail(t)
    BY <1>1, <1>2 DEF Store!Fail, Store!Reply, Reply, Taken
  <1>4. QED
    BY <1>1, <1>2, <1>3, AsStore

(* and so is the victim of a deadlock; a dead session has told it before. *)
LEMMA EndingAsStore ==
  ASSUME PgInv, StoreInv, NEW t \in Txs, Abort(t) \/ Victim(t)
  PROVE  Store!Next
  <1>1. rows' = rows /\ call' = call /\ End(t, "aborted")
    BY DEF Abort, Victim
  <1>2. CASE Abort(t)
    <2>1. Honest /\ Taken' = Taken
      BY <1>1, <1>2, EndsHonest DEF Abort
    <2>2. QED
      BY <1>1, <1>2, <2>1, AsStore DEF Abort
  <1>3. CASE Victim(t)
    <2>1. Alive(t) /\ answer[t] = "none" /\ Reply(t, "error")
      BY <1>3, VictimWaits DEF Victim
    <2>2. Honest /\ Taken' = Taken
      BY <1>1, <2>1, EndsHonest
    <2>3. Store!Fail(t)
      BY <1>1, <2>1, <2>2 DEF Store!Fail, Store!Reply, Reply, Taken
    <2>4. QED
      BY <1>1, <2>2, <2>3, AsStore
  <1>4. QED
    BY <1>2, <1>3

(* At first nothing has happened to either. *)
LEMMA StartsAsStore == Init => Store!Init
  <1>1. SUFFICES ASSUME Init
                 PROVE  Store!Init
    OBVIOUS
  <1>2. PgInv /\ rows = Store!FirstRows /\ (\E menu \in Menus : call \in [Txs -> menu])
        /\ answer = [t \in Txs |-> "none"] /\ tx = [t \in Txs |-> FirstOf(call[t])]
    BY <1>1, PgStarts DEF Init, FirstOf
  <1>3. ASSUME NEW t \in Txs
        PROVE  (tx[t].pc = "committed") = FALSE /\ Doomed(t) = FALSE
    <2>1. tx[t].pc \in {"locking", "loading"}
      BY <1>2 DEF FirstOf, Fresh
    <2>2. QED
      BY <2>1 DEF Doomed
  <1>4. [t \in Txs |-> tx[t].pc = "committed"] = [t \in Txs |-> FALSE]
        /\ [t \in Txs |-> Doomed(t)] = [t \in Txs |-> FALSE]
    BY <1>3
  <1>5. QED
    BY <1>2, <1>4 DEF Store!Init

(* Every step is one of the store or changes nothing of it. *)
LEMMA StepsAsStore == PgInv /\ StoreInv /\ [Next]_vars => [Store!Next]_(Store!vars)
  <1>1. ASSUME PgInv, StoreInv, NEW t \in Txs, Fits(t), Alive(t), tx' = [tx EXCEPT ![t] = tx'[t]],
               tx'[t].pc # "committed", UNCHANGED <<rows, call, answer>>
        PROVE  Store!Next
    BY <1>1, GoesOnUnseen
  <1>2. ASSUME PgInv, StoreInv, NEW t \in Txs, Lock(t)
        PROVE  Store!Next
    <2>1. tx' = [tx EXCEPT ![t] = tx'[t]] /\ tx'[t].pc # "committed"
      BY <1>2, LockMoves
    <2>2. QED
      BY <1>1, <1>2, <2>1, LockFits DEF Lock
  <1>3. ASSUME PgInv, StoreInv, NEW t \in Txs, Load(t)
        PROVE  Store!Next
    BY <1>1, <1>3, LoadFits, LoadMoves DEF Load
  <1>4. ASSUME PgInv, StoreInv, NEW t \in Txs, Scan(t)
        PROVE  Store!Next
    <2>1. tx' = [tx EXCEPT ![t] = tx'[t]] /\ tx'[t].pc = "scanning"
      BY <1>4, ScanTakes, ScanPasses DEF Scan, Running
    <2>2. QED
      BY <1>1, <1>4, <2>1, ScanFits DEF Scan
  <1>5. ASSUME PgInv, StoreInv, NEW t \in Txs, NextStatement(t)
        PROVE  Store!Next
    BY <1>1, <1>5, NextStatementFits, NextStatementMoves DEF NextStatement
  <1>6. ASSUME PgInv, StoreInv, NEW t \in Txs, Insert(t)
        PROVE  Store!Next
    <2>1. tx' = [tx EXCEPT ![t] = tx'[t]] /\ tx'[t].pc = "inserting"
      BY <1>6, InsertMoves DEF Insert, Running
    <2>2. QED
      BY <1>1, <1>6, <2>1, InsertFits DEF Insert
  <1>7. ASSUME PgInv, StoreInv, Next
        PROVE  Store!Next
    BY <1>2, <1>3, <1>4, <1>5, <1>6, <1>7, CheckLimitAsStore, FilterAsStore, DecideAsStore, CommitAsStore,
       GiveUpAsStore, EndingAsStore DEF Next, Step
  <1>8. ASSUME UNCHANGED vars
        PROVE  UNCHANGED Store!vars
    <2>1. rows' = rows /\ call' = call /\ tx' = tx /\ answer' = answer
      BY <1>8 DEF vars
    <2>2. \A t : InSight(t)' = InSight(t)
      BY <2>1 DEF InSight, Same
    <2>3. \A t \in Txs : Doomed(t)' = Doomed(t) /\ (tx'[t].pc = "committed") = (tx[t].pc = "committed")
      BY <2>1, <2>2 DEF Doomed
    <2>4. QED
      BY <2>1, <2>3 DEF Store!vars
  <1>9. QED
    BY <1>7, <1>8

(* The relational backend keeps the promise of the embedded store: whatever
   calls meet, each takes effect on all its objects in one step, loses no
   other call's effect and is refused only for what was so. *)
THEOREM CallsImplementStore == Spec => ImplementsStore
  <1>1. Spec => [](PgInv /\ StoreInv)
    BY PgStarts, PgKept, StoreStarts, StoreKept, PTL DEF Spec
  <1>2. QED
    BY <1>1, StartsAsStore, StepsAsStore, PTL DEF Spec, ImplementsStore, Store!Spec
=============================================================================
