------------------------ MODULE EditSnapshotsProofs ------------------------
(***************************************************************************)
(* Theorems of EditSnapshots, for any number of texts, sessions and        *)
(* threads, every limit and every bound.                                   *)
(***************************************************************************)
EXTENDS EditSnapshots, FiniteSetTheorems, WellFoundedInduction, TLAPS

-----------------------------------------------------------------------------
(* The least and the greatest of a set of numbers *)

Below == {p \in Nat \X Nat : p[1] < p[2]}

\* Every set of numbers that is not empty has a least one.
LEMMA Least ==
  ASSUME NEW T \in SUBSET Nat, T # {}
  PROVE  \E x \in T : \A y \in T : x <= y
<1>1. IsWellFoundedOn(Below, Nat)
  BY NatLessThanWellFounded DEF OpToRel, Below
<1>2. PICK x \in T : \A y \in T : ~(<<y, x>> \in Below)
  BY <1>1, WFMin
<1>3. ASSUME NEW y \in T PROVE x <= y
  <2>1. ~(<<y, x>> \in Below)
    BY <1>2
  <2>2. <<y, x>> \in Nat \X Nat
    OBVIOUS
  <2>3. ~(y < x)
    BY <2>1, <2>2 DEF Below
  <2> QED BY <2>3
<1> QED BY <1>2, <1>3

LEMMA MinIsLeast ==
  ASSUME NEW T \in SUBSET Nat, T # {}
  PROVE  Min(T) \in T /\ \A y \in T : Min(T) <= y
BY Least DEF Min

\* A number of T below which there is none is its least.
LEMMA LeastIsMin ==
  ASSUME NEW T \in SUBSET Nat, NEW x \in T, \A y \in T : x <= y
  PROVE  x = Min(T)
<1>1. Min(T) \in T /\ \A y \in T : Min(T) <= y
  BY MinIsLeast
<1>2. x <= Min(T) /\ Min(T) <= x /\ x \in Nat /\ Min(T) \in Nat
  BY <1>1
<1> QED BY <1>1, <1>2

LEMMA Greatest ==
  ASSUME NEW T \in SUBSET Nat, T # {}, NEW b \in Nat, \A y \in T : y <= b
  PROVE  \E x \in T : \A y \in T : y <= x
<1> DEFINE U == {u \in Nat : \A y \in T : y <= u}
<1>1. U \in SUBSET Nat /\ U # {}
  OBVIOUS
<1>2. \A u : u \in U <=> u \in Nat /\ \A y \in T : y <= u
  OBVIOUS
<1> HIDE DEF U
<1>3. PICK u \in U : \A v \in U : u <= v
  BY <1>1, Least
<1>4. u \in Nat /\ \A y \in T : y <= u
  BY <1>2, <1>3
<1>5. u \in T
  <2>1. SUFFICES ASSUME u \notin T PROVE FALSE
    OBVIOUS
  <2>2. \A y \in T : y <= u /\ y # u /\ y \in Nat
    BY <1>4, <2>1
  <2>3. u # 0 /\ u - 1 \in Nat /\ \A y \in T : y <= u - 1
    <3>1. PICK z \in T : TRUE
      OBVIOUS
    <3>2. z <= u /\ z # u /\ z \in Nat
      BY <2>2
    <3>3. u # 0
      BY <1>4, <3>2
    <3> QED BY <1>4, <2>2, <3>3
  <2>4. u - 1 \in U
    BY <1>2, <2>3
  <2> QED BY <1>3, <1>4, <2>3, <2>4
<1> QED BY <1>4, <1>5

\* A finite set of numbers has a bound: no least prefix of an enumeration is
\* without one.
LEMMA FiniteIsBounded ==
  ASSUME NEW T \in SUBSET Nat, IsFiniteSet(T)
  PROVE  \E b \in Nat : \A y \in T : y <= b
<1>1. PICK n \in Nat : ExistsSurjection(1..n, T)
  BY FS_NatSurjection
<1>2. PICK f \in Surjection(1..n, T) : TRUE
  BY <1>1 DEF ExistsSurjection
<1>3. /\ \A k \in 1..n : f[k] \in Nat
      /\ \A y \in T : \E k \in 1..n : f[k] = y
  <2>1. f \in [1..n -> T] /\ \A y \in T : \E k \in 1..n : f[k] = y
    BY <1>2 DEF Surjection
  <2>2. \A k \in 1..n : f[k] \in T
    BY <2>1
  <2>3. T \subseteq Nat
    OBVIOUS
  <2> QED BY <2>1, <2>2, <2>3
<1> DEFINE Bounded(k) == \E b \in Nat : \A j \in 1..k : f[j] <= b
           W == {k \in 0..n : ~Bounded(k)}
<1>4. W \in SUBSET Nat /\ \A k : k \in W <=> k \in 0..n /\ ~Bounded(k)
  OBVIOUS
<1> HIDE DEF W
<1>5. W = {}
  <2>1. SUFFICES ASSUME W # {} PROVE FALSE
    OBVIOUS
  <2>2. PICK k \in W : \A j \in W : k <= j
    BY <1>4, <2>1, Least
  <2>3. k \in 0..n /\ ~Bounded(k)
    BY <1>4, <2>2
  <2>4. k # 0
    <3>1. Bounded(0)
      OBVIOUS
    <3> HIDE DEF Bounded
    <3> QED BY <2>3, <3>1
  <2>5. Bounded(k - 1)
    <3> HIDE DEF Bounded
    <3>1. k - 1 \in 0..n /\ ~(k <= k - 1)
      BY <2>3, <2>4
    <3>2. k - 1 \notin W
      BY <2>2, <3>1
    <3> QED BY <1>4, <3>1, <3>2
  <2>6. PICK b \in Nat : \A j \in 1..(k - 1) : f[j] <= b
    BY <2>5
  <2>7. k \in 1..n /\ f[k] \in Nat
    <3>1. k \in 1..n
      BY <2>3, <2>4
    <3> QED BY <1>3, <3>1
  <2>8. b + f[k] \in Nat /\ \A j \in 1..k : f[j] <= b + f[k]
    <3>1. b + f[k] \in Nat
      BY <2>7
    <3>2. ASSUME NEW j \in 1..k PROVE f[j] <= b + f[k]
      <4>1. f[j] \in Nat
        <5>1. j \in 1..n
          BY <2>7
        <5> QED BY <1>3, <5>1
      <4>2. CASE j = k
        BY <2>7, <4>2
      <4>3. CASE j # k
        <5>1. j \in 1..(k - 1)
          BY <2>7, <4>3
        <5> QED BY <2>6, <2>7, <4>1, <5>1
      <4> QED BY <4>2, <4>3
    <3> QED BY <3>1, <3>2
  <2>9. Bounded(k)
    BY <2>8
  <2> HIDE DEF Bounded
  <2> QED BY <2>3, <2>9
<1>6. Bounded(n)
  <2> HIDE DEF Bounded
  <2>1. n \in 0..n
    OBVIOUS
  <2> QED BY <1>4, <1>5, <2>1
<1>7. PICK b \in Nat : \A j \in 1..n : f[j] <= b
  BY <1>6
<1> QED BY <1>3, <1>7

LEMMA MaxIsGreatest ==
  ASSUME NEW T \in SUBSET Nat, T # {}, IsFiniteSet(T)
  PROVE  Max(T) \in T /\ \A y \in T : y <= Max(T)
<1>1. PICK b \in Nat : \A y \in T : y <= b
  BY FiniteIsBounded
<1>2. PICK x \in T : \A y \in T : y <= x
  BY <1>1, Greatest
<1>3. \A y \in T : x >= y
  <2>1. ASSUME NEW y \in T PROVE x >= y
    <3>1. y <= x /\ x \in Nat /\ y \in Nat
      BY <1>2
    <3> QED BY <3>1
  <2> QED BY <2>1
<1>4. Max(T) \in T /\ \A y \in T : Max(T) >= y
  BY <1>3, Zenon DEF Max
<1>5. ASSUME NEW y \in T PROVE y <= Max(T)
  <2>1. Max(T) >= y /\ Max(T) \in Nat /\ y \in Nat
    BY <1>4
  <2> QED BY <2>1
<1> QED BY <1>4, <1>5

-----------------------------------------------------------------------------
(* The inductive invariant *)

\* A copy belongs to one version.
RowsInv ==
  /\ \A i \in DOMAIN rows : rows[i].dest \in 1..made
  /\ \A i, j \in DOMAIN rows : rows[i].dest = rows[j].dest => i = j

\* A copy about to be recorded belongs to its call alone.
RecordInv ==
  \A c \in Calls : call[c].pc = "record" =>
    /\ call[c].dest \in vault
    /\ \A i \in DOMAIN rows : rows[i].dest # call[c].dest
    /\ \A d \in Calls :
         /\ call[d].pc = "record" /\ call[d].dest = call[c].dest => d = c
         /\ \A p \in call[d].todo : p[2] # call[c].dest

\* There is a version before i that made pruning i sound: the cap took one
\* that is not newer, or the session has an older one.
Passed(i, x, f) ==
  \/ \E j \in trimmed : j <= i
  \/ \E j \in SessionRows(x, f) : j < i

\* A version selected for pruning and its copy, by the numbers they have, stay
\* what they were selected as, although others prune and record meanwhile: ids
\* are not used again, since a newer row is there.
Prunable(p) ==
  /\ p[2] \in 1..made
  /\ \E m \in DOMAIN rows : p[1] < m
  /\ \A i \in DOMAIN rows : rows[i].dest = p[2] => i = p[1]
  /\ \A f \in Files : p[1] # oldest[f]
  /\ \A x \in Sessions, f \in Files :
       p[1] \in SessionRows(x, f) => Passed(p[1], x, f)

TodoInv ==
  \A c \in Calls :
    /\ call[c].pc \in {"prune", "forget"} => call[c].todo # {}
    /\ \A p \in call[c].todo : Prunable(p)

OldestInv ==
  \A f \in Files :
    /\ oldest[f] = 0 => RowsOf(f) = {}
    /\ oldest[f] # 0 => /\ oldest[f] \in RowsOf(f)
                        /\ Restorable(oldest[f])
                        /\ \A i \in RowsOf(f) : oldest[f] <= i

\* Version s of a session on a file is there, or its loss is accounted for.
Traced(s, x, f) ==
  \/ Passed(s, x, f)
  \/ s \in SessionRows(x, f) /\ rows[s].dest \in vault

StartInv ==
  \A x \in Sessions, f \in Files, s \in Nat :
    start[<<x, f>>] = s /\ s # 0 => Traced(s, x, f)

ReplaceInv ==
  \A c \in Calls, x \in Sessions, f \in Files, s \in Nat :
    /\ call[c].pc = "replace" /\ call[c].id = s
    /\ call[c].session = x /\ call[c].file = f
    => Traced(s, x, f)

DataInv == RowsInv /\ RecordInv /\ TodoInv /\ OldestInv /\ StartInv /\ ReplaceInv

IInv == TypeOK /\ DataInv

-----------------------------------------------------------------------------
(* What is selected for pruning *)

\* The id of a new version is greater than every id there.
LEMMA NextIdIsNew ==
  ASSUME IsFiniteSet(DOMAIN rows), DOMAIN rows \subseteq Nat \ {0}
  PROVE  NextId \in Nat \ {0} /\ \A i \in DOMAIN rows : i < NextId
<1> DEFINE Ids == DOMAIN rows \cup {0}
<1>1. Ids \in SUBSET Nat /\ Ids # {}
  OBVIOUS
<1>2. IsFiniteSet(Ids)
  BY FS_AddElement
<1>3. DOMAIN rows \subseteq Ids
  OBVIOUS
<1>4. NextId = 1 + Max(Ids)
  BY DEF NextId
<1> HIDE DEF Ids
<1>5. Max(Ids) \in Ids /\ \A y \in Ids : y <= Max(Ids)
  BY <1>1, <1>2, MaxIsGreatest
<1>6. Max(Ids) \in Nat
  BY <1>1, <1>5
<1>7. ASSUME NEW i \in DOMAIN rows PROVE i < NextId
  <2>1. i <= Max(Ids) /\ i \in Nat
    BY <1>1, <1>3, <1>5
  <2> QED BY <1>4, <1>6, <2>1
<1> QED BY <1>4, <1>6, <1>7

\* Each file keeps its first version: the cap is left with fewer versions to
\* choose from than there are kept, and it takes the oldest of those.
LEMMA CapTakesOldest ==
  ASSUME IsFiniteSet(DOMAIN rows), DOMAIN rows \subseteq Nat \ {0},
         \A i \in DOMAIN rows : rows[i].file \in Files,
         IsFiniteSet(Files), GlobalCap > Cardinality(Files), GlobalCap \in Nat,
         NEW i \in OverCap
  PROVE  /\ i \in DOMAIN rows /\ ~EarliestOfFile(i)
         /\ \E m \in DOMAIN rows : i < m
<1> DEFINE spare == {k \in Kept : ~EarliestOfFile(k)}
           first == {k \in Kept : EarliestOfFile(k)}
           older == {k \in spare : k < i}
<1>1. Kept \subseteq DOMAIN rows /\ IsFiniteSet(Kept)
  <2>1. Kept \subseteq DOMAIN rows
    BY DEF Kept
  <2> QED BY <2>1, FS_Subset
<1>2. i \in spare /\ Cardinality(Kept) > GlobalCap
      /\ Cardinality(older) < Cardinality(Kept) - GlobalCap
  <2>1. Cardinality(Kept) \in Nat
    BY <1>1, FS_CardinalityType
  <2>2. older \subseteq Kept
    OBVIOUS
  <2>3. Cardinality(older) \in Nat
    BY <1>1, <2>2, FS_Subset, FS_CardinalityType
  <2>4. i \in spare /\ Cardinality(older) <
          (IF Cardinality(Kept) > GlobalCap THEN Cardinality(Kept) - GlobalCap ELSE 0)
    BY DEF OverCap
  <2> HIDE DEF spare, older
  <2> QED BY <2>1, <2>3, <2>4
<1>3. i \in DOMAIN rows /\ ~EarliestOfFile(i)
  BY <1>1, <1>2
<1>4. SUFFICES ASSUME \A m \in DOMAIN rows : ~(i < m) PROVE FALSE
  BY <1>3
<1>5. IsFiniteSet(first) /\ Cardinality(first) <= Cardinality(Files)
  <2> DEFINE fileOf == [k \in first |-> rows[k].file]
  <2>1. \A k \in first : rows[k].file \in Files
    BY <1>1
  <2>2. ASSUME NEW j \in first, NEW k \in first, rows[j].file = rows[k].file
        PROVE  j = k
    <3>1. j = Min(RowsOf(rows[j].file)) /\ k = Min(RowsOf(rows[k].file))
      BY DEF EarliestOfFile
    <3> QED BY <2>2, <3>1
  <2>3. fileOf \in Injection(first, Files)
    <3> HIDE DEF first
    <3> QED BY <2>1, <2>2 DEF Injection, IsInjective
  <2> QED BY <2>3, FS_Injection
<1>6. /\ IsFiniteSet(spare)
      /\ Cardinality(spare) = Cardinality(Kept) - Cardinality(first)
  <2>1. spare = Kept \ first /\ Kept \cap first = first
    OBVIOUS
  <2> HIDE DEF spare, first
  <2> QED BY <1>1, <2>1, FS_Difference
<1>7. older = spare \ {i}
  <2>1. ASSUME NEW k \in spare PROVE k < i <=> k # i
    <3>1. k \in DOMAIN rows /\ ~(i < k) /\ k \in Nat /\ i \in Nat
      BY <1>1, <1>3, <1>4
    <3> QED BY <3>1
  <2> QED BY <2>1
<1>8. Cardinality(older) = Cardinality(spare) - 1
  <2> HIDE DEF spare, older
  <2> QED BY <1>2, <1>6, <1>7, FS_RemoveElement
<1>9. /\ Cardinality(Kept) \in Nat /\ Cardinality(first) \in Nat
      /\ Cardinality(Files) \in Nat /\ Cardinality(spare) \in Nat
  <2> HIDE DEF spare, first
  <2> QED BY <1>1, <1>5, <1>6, FS_CardinalityType
<1> HIDE DEF spare, first, older
<1> QED BY <1>2, <1>5, <1>6, <1>8, <1>9

\* A version selected for pruning is neither the newest there is nor the first
\* of its file; and unless the cap takes it, its session has an older one.
LEMMA DoomedIsPassed ==
  ASSUME IsFiniteSet(DOMAIN rows), DOMAIN rows \subseteq Nat \ {0},
         \A i \in DOMAIN rows : rows[i].file \in Files,
         IsFiniteSet(Files), GlobalCap > Cardinality(Files),
         None \notin Sessions, OldestInv,
         NEW i \in Doomed
  PROVE  /\ i \in DOMAIN rows
         /\ \E m \in DOMAIN rows : i < m
         /\ \A f \in Files : i # oldest[f]
         /\ \A x \in Sessions, f \in Files :
              i \in SessionRows(x, f) =>
                i \in OverCap \/ \E j \in SessionRows(x, f) : j < i
<1> USE LimitsAssumption
<1>1. \A f \in Files : RowsOf(f) \in SUBSET Nat /\ RowsOf(f) \subseteq DOMAIN rows
  BY DEF RowsOf
<1>2. i \in DOMAIN rows /\ ~EarliestOfFile(i) /\ \E m \in DOMAIN rows : i < m
  <2>1. CASE i \in OverCap
    BY <2>1, CapTakesOldest
  <2>2. CASE i \in DOMAIN rows \ Kept
    <3>1. ~(Cardinality(Newer(i)) < PerFile) /\ ~EarliestOfFile(i)
      BY <2>2 DEF Kept
    <3>2. Newer(i) # {}
      <4>1. Cardinality({}) = 0 /\ 0 < PerFile
        BY FS_EmptySet
      <4> QED BY <3>1, <4>1
    <3>3. \E m \in DOMAIN rows : i < m
      <4>1. PICK m \in RowsOf(rows[i].file) : m > i
        BY <3>2 DEF Newer
      <4>2. m \in DOMAIN rows /\ m \in Nat /\ i \in Nat
        BY <2>2, <4>1 DEF RowsOf
      <4> QED BY <4>1, <4>2
    <3> QED BY <2>2, <3>1, <3>3
  <2> QED BY <2>1, <2>2 DEF Doomed
<1>3. ASSUME NEW f \in Files PROVE i # oldest[f]
  <2>1. SUFFICES ASSUME i = oldest[f] PROVE FALSE
    OBVIOUS
  <2>2. i # 0
    BY <1>2
  <2>3. i \in RowsOf(f) /\ \A j \in RowsOf(f) : i <= j
    BY <2>1, <2>2 DEF OldestInv
  <2>4. rows[i].file = f
    BY <2>3 DEF RowsOf
  <2>5. i = Min(RowsOf(f))
    BY <1>1, <2>3, LeastIsMin
  <2> QED BY <1>2, <2>4, <2>5 DEF EarliestOfFile
<1>4. ASSUME NEW x \in Sessions, NEW f \in Files,
             i \in SessionRows(x, f), i \notin OverCap
      PROVE  \E j \in SessionRows(x, f) : j < i
  <2>1. ~EarliestOfSession(i)
    BY <1>4 DEF Doomed, Kept
  <2>2. rows[i].session = x /\ rows[i].file = f /\ x # None
    BY <1>4 DEF SessionRows, RowsOf
  <2>3. i # Min(SessionRows(x, f))
    BY <2>1, <2>2 DEF EarliestOfSession
  <2>4. SessionRows(x, f) \in SUBSET Nat /\ SessionRows(x, f) # {}
    BY <1>1, <1>4 DEF SessionRows
  <2>5. PICK j \in SessionRows(x, f) : ~(i <= j)
    BY <1>4, <2>3, <2>4, LeastIsMin
  <2>6. i \in Nat /\ j \in Nat
    BY <1>4, <2>4
  <2> QED BY <2>5, <2>6
<1> QED BY <1>2, <1>3, <1>4

-----------------------------------------------------------------------------
(* Types *)

\* What a call in a given state holds.
CallShape(r) ==
  /\ r \in CallRecord
  /\ r.pc \in {"load", "copy", "record", "replace", "confirm"} =>
       r.file \in Files /\ r.text \in Texts
  /\ r.pc \in {"copy", "record"} => r.before \in Texts

LEMMA TypesOfCalls ==
  ASSUME TypeOK
  PROVE  \A c \in Calls : CallShape(call[c])
BY DEF TypeOK, CallShape

LEMMA IdleShape == CallShape(Idle) /\ Idle.todo = {} /\ Idle.pc = "idle"
BY DEF CallShape, CallRecord, CallStates, Idle

LEMMA SaveShape ==
  ASSUME NEW f \in Files, NEW t \in Texts, NEW x \in Sessions \cup {None},
         NEW e \in Texts \cup {None}, disk \in [Files -> Texts]
  PROVE  /\ CallShape(Save(f, t, x, e))
         /\ Save(f, t, x, e).pc = "copy" /\ Save(f, t, x, e).todo = {}
<1>1. disk[f] \in Texts
  OBVIOUS
<1> QED BY <1>1 DEF CallShape, CallRecord, CallStates, Idle, Save

\* One field of what a call holds is changed.
LEMMA Fields ==
  ASSUME NEW r \in CallRecord
  PROVE  /\ \A pc \in CallStates : LET q == [r EXCEPT !.pc = pc] IN
              /\ q \in CallRecord /\ q.pc = pc
              /\ q.file = r.file /\ q.text = r.text /\ q.session = r.session
              /\ q.before = r.before /\ q.dest = r.dest /\ q.id = r.id
              /\ q.todo = r.todo
         /\ \A n \in Nat : LET q == [r EXCEPT !.dest = n] IN
              /\ q \in CallRecord /\ q.dest = n /\ q.pc = r.pc
              /\ q.file = r.file /\ q.text = r.text /\ q.session = r.session
              /\ q.before = r.before /\ q.id = r.id /\ q.todo = r.todo
         /\ \A n \in Nat : LET q == [r EXCEPT !.id = n] IN
              /\ q \in CallRecord /\ q.id = n /\ q.pc = r.pc
              /\ q.file = r.file /\ q.text = r.text /\ q.session = r.session
              /\ q.before = r.before /\ q.dest = r.dest /\ q.todo = r.todo
         /\ \A todo \in SUBSET (Nat \X Nat) : LET q == [r EXCEPT !.todo = todo] IN
              /\ q \in CallRecord /\ q.todo = todo /\ q.pc = r.pc
              /\ q.file = r.file /\ q.text = r.text /\ q.session = r.session
              /\ q.before = r.before /\ q.dest = r.dest /\ q.id = r.id
<1>1. ASSUME NEW pc \in CallStates, NEW q, q = [r EXCEPT !.pc = pc]
      PROVE  /\ q \in CallRecord /\ q.pc = pc
             /\ q.file = r.file /\ q.text = r.text /\ q.session = r.session
             /\ q.before = r.before /\ q.dest = r.dest /\ q.id = r.id
             /\ q.todo = r.todo
  BY <1>1 DEF CallRecord
<1>2. ASSUME NEW n \in Nat, NEW q, q = [r EXCEPT !.dest = n]
      PROVE  /\ q \in CallRecord /\ q.dest = n /\ q.pc = r.pc
             /\ q.file = r.file /\ q.text = r.text /\ q.session = r.session
             /\ q.before = r.before /\ q.id = r.id /\ q.todo = r.todo
  BY <1>2 DEF CallRecord
<1>3. ASSUME NEW n \in Nat, NEW q, q = [r EXCEPT !.id = n]
      PROVE  /\ q \in CallRecord /\ q.id = n /\ q.pc = r.pc
             /\ q.file = r.file /\ q.text = r.text /\ q.session = r.session
             /\ q.before = r.before /\ q.dest = r.dest /\ q.todo = r.todo
  BY <1>3 DEF CallRecord
<1>4. ASSUME NEW todo \in SUBSET (Nat \X Nat), NEW q, q = [r EXCEPT !.todo = todo]
      PROVE  /\ q \in CallRecord /\ q.todo = todo /\ q.pc = r.pc
             /\ q.file = r.file /\ q.text = r.text /\ q.session = r.session
             /\ q.before = r.before /\ q.dest = r.dest /\ q.id = r.id
  BY <1>4 DEF CallRecord
<1> QED BY <1>1, <1>2, <1>3, <1>4, Zenon

\* A step changes one call, or marks calls as overtaken.
LEMMA BecomesTyped ==
  ASSUME call \in [Calls -> CallRecord], \A d \in Calls : CallShape(call[d]),
         NEW c \in Calls, NEW r, CallShape(r), call' = [call EXCEPT ![c] = r]
  PROVE  /\ call' \in [Calls -> CallRecord]
         /\ \A d \in Calls : CallShape(call'[d])
         /\ call'[c] = r /\ \A d \in Calls \ {c} : call'[d] = call[d]
<1>1. r \in CallRecord
  BY DEF CallShape
<1>2. /\ call' \in [Calls -> CallRecord]
      /\ call'[c] = r /\ \A d \in Calls \ {c} : call'[d] = call[d]
  BY <1>1
<1>3. ASSUME NEW d \in Calls PROVE CallShape(call'[d])
  <2>1. CASE d = c
    <3>1. call'[d] = r
      BY <1>2, <2>1
    <3> QED BY <3>1
  <2>2. CASE d # c
    <3>1. call'[d] = call[d]
      BY <1>2, <2>2
    <3> QED BY <3>1
  <2> QED BY <2>1, <2>2
<1> QED BY <1>2, <1>3

LEMMA OvertakenShape ==
  ASSUME NEW c \in Calls, CallShape(call[c]), NEW f
  PROVE  /\ CallShape(Overtaken(c, f))
         /\ Overtaken(c, f).pc = call[c].pc /\ Overtaken(c, f).todo = call[c].todo
         /\ Overtaken(c, f).dest = call[c].dest /\ Overtaken(c, f).id = call[c].id
         /\ Overtaken(c, f).file = call[c].file
         /\ Overtaken(c, f).session = call[c].session
<1> DEFINE r == [call[c] EXCEPT !.overtaken = TRUE]
<1>1. call[c] \in CallRecord
  BY DEF CallShape
<1>2. /\ r \in CallRecord
      /\ r.pc = call[c].pc /\ r.todo = call[c].todo /\ r.dest = call[c].dest
      /\ r.id = call[c].id /\ r.file = call[c].file /\ r.session = call[c].session
      /\ r.text = call[c].text /\ r.before = call[c].before
  BY <1>1 DEF CallRecord
<1>3. Overtaken(c, f) \in {r, call[c]}
  BY DEF Overtaken
<1> HIDE DEF r
<1>4. CallShape(r)
  BY <1>2 DEF CallShape
<1> QED BY <1>2, <1>3, <1>4

-----------------------------------------------------------------------------
(* Steps that leave the versions alone *)

CallsTyped ==
  /\ call' \in [Calls -> CallRecord]
  /\ \A d \in Calls : CallShape(call'[d])

\* No call comes to hold a version to prune, a copy, a row.
TodoQuiet ==
  \A d \in Calls :
    /\ call'[d].todo \subseteq call[d].todo
    /\ call'[d].pc \in {"prune", "forget"} => call'[d].todo # {}

RecordQuiet ==
  \A d \in Calls : call'[d].pc = "record" =>
    call[d].pc = "record" /\ call'[d].dest = call[d].dest

ReplaceQuiet ==
  \A d \in Calls : call'[d].pc = "replace" =>
    /\ call[d].pc = "replace" /\ call'[d].id = call[d].id
    /\ call'[d].session = call[d].session /\ call'[d].file = call[d].file

CallsQuiet == TodoQuiet /\ RecordQuiet /\ ReplaceQuiet

Versions == <<rows, vault, made, oldest, start, trimmed>>

LEMMA TodoKept ==
  ASSUME TodoInv, NEW d \in Calls
  PROVE  call[d].pc \in {"prune", "forget"} => call[d].todo # {}
BY DEF TodoInv

LEMMA Settles ==
  ASSUME TypeOK, TodoInv, NEW c \in Calls, NEW r, CallShape(r), r.todo = {},
         r.pc \notin {"prune", "forget", "record", "replace"},
         call' = [call EXCEPT ![c] = r]
  PROVE  CallsTyped /\ CallsQuiet
<1>1. call \in [Calls -> CallRecord] /\ \A d \in Calls : CallShape(call[d])
  BY TypesOfCalls DEF TypeOK
<1>2. /\ CallsTyped
      /\ call'[c] = r /\ \A d \in Calls \ {c} : call'[d] = call[d]
  BY <1>1, BecomesTyped DEF CallsTyped
<1>3. ASSUME NEW d \in Calls
      PROVE  /\ call'[d].todo \subseteq call[d].todo
             /\ call'[d].pc \in {"prune", "forget"} => call'[d].todo # {}
             /\ call'[d].pc = "record" =>
                  call[d].pc = "record" /\ call'[d].dest = call[d].dest
             /\ call'[d].pc = "replace" =>
                  /\ call[d].pc = "replace" /\ call'[d].id = call[d].id
                  /\ call'[d].session = call[d].session
                  /\ call'[d].file = call[d].file
  <2>1. CASE d = c
    <3>1. call'[d] = r
      BY <1>2, <2>1
    <3> QED BY <3>1
  <2>2. CASE d # c
    <3>1. call'[d] = call[d]
      BY <1>2, <2>2
    <3> QED BY <3>1, TodoKept
  <2> QED BY <2>1, <2>2
<1> QED BY <1>2, <1>3 DEF CallsQuiet, TodoQuiet, RecordQuiet, ReplaceQuiet

LEMMA ReadingStep ==
  ASSUME TypeOK, TodoInv, NEW c \in Calls,
         Command(c) \/ LoadVersion(c) \/ ReadBack(c) \/ Refused(c) \/ GiveUp(c)
  PROVE  CallsTyped /\ CallsQuiet /\ UNCHANGED <<disk, Versions>> /\ events' \in {events, events + 1}
<1>1. /\ disk \in [Files -> Texts] /\ rows \in [DOMAIN rows -> Version]
      /\ \A d \in Calls : CallShape(call[d])
  BY TypesOfCalls DEF TypeOK
<1>2. ASSUME NEW f \in Files, NEW t \in Texts, NEW x \in Sessions \cup {None},
             NEW e \in Texts \cup {None},
             call' = [call EXCEPT ![c] = Save(f, t, x, e)]
      PROVE  CallsTyped /\ CallsQuiet
  <2>1. /\ CallShape(Save(f, t, x, e)) /\ Save(f, t, x, e).todo = {}
        /\ Save(f, t, x, e).pc \notin {"prune", "forget", "record", "replace"}
    BY <1>1, SaveShape
  <2> QED BY <1>2, <2>1, Settles
<1>3. ASSUME call' = [call EXCEPT ![c] = Idle] PROVE CallsTyped /\ CallsQuiet
  BY <1>3, IdleShape, Settles
<1>4. ASSUME NEW i \in DOMAIN rows, Restore(c, i)
      PROVE  CallsTyped /\ CallsQuiet /\ UNCHANGED <<disk, Versions, events>>
  <2> DEFINE r == [Idle EXCEPT !.pc = "load", !.file = rows[i].file,
                               !.text = rows[i].text, !.dest = rows[i].dest]
  <2>1. rows[i] \in Version
    BY <1>1
  <2>2. CallShape(r) /\ r.todo = {} /\ r.pc = "load"
    BY <2>1 DEF CallShape, CallRecord, CallStates, Idle, Version
  <2>3. call' = [call EXCEPT ![c] = r] /\ UNCHANGED <<disk, Versions, events>>
    BY <1>4 DEF Restore, Becomes, History, Versions
  <2> HIDE DEF r
  <2> QED BY <2>2, <2>3, Settles
<1>5. CASE \E f \in Files, t \in Texts, e \in Texts \cup {None} :
             SaveText(c, f, t, e)
  <2>1. PICK f \in Files, t \in Texts, e \in Texts \cup {None} : SaveText(c, f, t, e)
    BY <1>5
  <2>2. /\ call' = [call EXCEPT ![c] = Save(f, t, None, e)]
        /\ UNCHANGED <<disk, Versions, events>>
    BY <2>1 DEF SaveText, Becomes, History, Versions
  <2> QED BY <1>2, <2>2
<1>6. CASE \E f \in Files, t \in Texts, x \in Sessions : ApplySuggestion(c, f, t, x)
  <2>1. PICK f \in Files, t \in Texts, x \in Sessions : ApplySuggestion(c, f, t, x)
    BY <1>6
  <2>2. /\ call' = [call EXCEPT ![c] = Save(f, t, x, disk[f])]
        /\ UNCHANGED <<disk, Versions, events>>
    BY <2>1 DEF ApplySuggestion, Becomes, History, Versions
  <2>3. disk[f] \in Texts
    BY <1>1
  <2> QED BY <1>2, <2>2, <2>3
<1>7. CASE \E i \in DOMAIN rows : Restore(c, i)
  BY <1>4, <1>7
<1>8. CASE \E x \in Sessions, f \in Files : UndoSession(c, x, f)
  <2>1. PICK i : Restore(c, i)
    BY <1>8 DEF UndoSession
  <2>2. i \in DOMAIN rows
    BY <2>1 DEF Restore
  <2> QED BY <1>4, <2>1, <2>2
<1>9. CASE LoadVersion(c)
  <2>1. call[c].file \in Files /\ call[c].text \in Texts
    BY <1>1, <1>9 DEF LoadVersion, CallShape
  <2>2. UNCHANGED <<disk, Versions, events>>
    BY <1>9 DEF LoadVersion, History, Versions
  <2>3. \/ call' = [call EXCEPT ![c] = Save(call[c].file, call[c].text, None, None)]
        \/ call' = [call EXCEPT ![c] = Idle]
    BY <1>9 DEF LoadVersion, Becomes
  <2> QED BY <1>2, <1>3, <2>1, <2>2, <2>3
<1>10. CASE Refused(c)
  <2>1. call' = [call EXCEPT ![c] = Idle] /\ UNCHANGED <<disk, Versions, events>>
    BY <1>10 DEF Refused, Becomes, History, Versions
  <2> QED BY <1>3, <2>1
<1>11. CASE GiveUp(c)
  <2>1. /\ call' = [call EXCEPT ![c] = Idle] /\ UNCHANGED <<disk, Versions>>
        /\ events' = events + 1
    BY <1>11 DEF GiveUp, Becomes, Event, Versions
  <2> QED BY <1>3, <2>1
<1>12. CASE ReadBack(c)
  <2> DEFINE r == [Idle EXCEPT !.pc = "mark", !.id = call[c].id]
  <2>1. call[c].id \in Nat
    BY <1>1 DEF CallShape, CallRecord
  <2>2. CallShape(r) /\ r.todo = {} /\ r.pc = "mark"
    BY <2>1 DEF CallShape, CallRecord, CallStates, Idle
  <2>3. call' = [call EXCEPT ![c] = r] /\ UNCHANGED <<disk, Versions, events>>
    BY <1>12 DEF ReadBack, Becomes, History, Versions
  <2> HIDE DEF r
  <2> QED BY <2>2, <2>3, Settles
<1> QED BY <1>5, <1>6, <1>7, <1>8, <1>9, <1>10, <1>11, <1>12 DEF Command

\* Other programs and crashes.
LEMMA OutsideStep ==
  ASSUME TypeOK, TodoInv,
         Crash \/ \E f \in Files, t \in Texts : OtherProgram(f, t)
  PROVE  CallsTyped /\ CallsQuiet /\ UNCHANGED Versions
<1>1. \A d \in Calls : CallShape(call[d])
  BY TypesOfCalls
<1>2. CASE Crash
  <2>1. call' = [d \in Calls |-> Idle] /\ UNCHANGED Versions
    BY <1>2 DEF Crash, Versions
  <2>2. \A d \in Calls : call'[d] = Idle /\ call'[d] \in CallRecord
    BY <2>1, IdleShape DEF CallShape
  <2>3. CallsTyped
    BY <2>1, <2>2, IdleShape DEF CallsTyped
  <2>4. CallsQuiet
    BY <2>2, IdleShape DEF CallsQuiet, TodoQuiet, RecordQuiet, ReplaceQuiet
  <2> QED BY <2>1, <2>3, <2>4
<1>3. CASE \E f \in Files, t \in Texts : OtherProgram(f, t)
  <2>1. PICK f \in Files, t \in Texts : OtherProgram(f, t)
    BY <1>3
  <2>2. call' = [d \in Calls |-> Overtaken(d, f)] /\ UNCHANGED Versions
    BY <2>1 DEF OtherProgram, Versions
  <2>3. ASSUME NEW d \in Calls
        PROVE  /\ CallShape(call'[d]) /\ call'[d] \in CallRecord
               /\ call'[d].pc = call[d].pc /\ call'[d].todo = call[d].todo
               /\ call'[d].dest = call[d].dest /\ call'[d].id = call[d].id
               /\ call'[d].file = call[d].file
               /\ call'[d].session = call[d].session
    <3>1. call'[d] = Overtaken(d, f)
      BY <2>2
    <3> QED BY <1>1, <3>1, OvertakenShape DEF CallShape
  <2>4. CallsTyped
    BY <2>2, <2>3 DEF CallsTyped
  <2>5. CallsQuiet
    BY <2>3, TodoKept DEF CallsQuiet, TodoQuiet, RecordQuiet, ReplaceQuiet
  <2> QED BY <2>2, <2>4, <2>5
<1> QED BY <1>2, <1>3

\* What was traced stays so for those who rely on it.
LEMMA TracedCarries ==
  ASSUME StartInv, ReplaceInv, ReplaceQuiet, UNCHANGED start,
         \A s \in Nat, x \in Sessions, f \in Files : Traced(s, x, f) => Traced(s, x, f)'
  PROVE  StartInv' /\ ReplaceInv'
<1>1. ASSUME NEW x \in Sessions, NEW f \in Files, NEW s \in Nat, start'[<<x, f>>] = s, s # 0
      PROVE  Traced(s, x, f)'
  BY <1>1 DEF StartInv
<1>2. ASSUME NEW d \in Calls, NEW s \in Nat, NEW x \in Sessions, NEW f \in Files,
             call'[d].pc = "replace", call'[d].id = s,
             call'[d].session = x, call'[d].file = f
      PROVE  Traced(s, x, f)'
  BY <1>2 DEF ReplaceInv, ReplaceQuiet
<1> QED BY <1>1, <1>2 DEF StartInv, ReplaceInv

\* What the invariant says of the versions outlives such a step.
LEMMA TablesCarry ==
  ASSUME DataInv, CallsQuiet, UNCHANGED <<rows, vault, made, oldest, trimmed>>
  PROVE  RowsInv' /\ RecordInv' /\ TodoInv' /\ OldestInv'
<1>1. UNCHANGED <<rows, vault, made, oldest, trimmed>>
  OBVIOUS
<1>2. RowsInv'
  BY <1>1 DEF DataInv, RowsInv
<1>3. RecordInv'
  BY <1>1 DEF DataInv, RecordInv, CallsQuiet, TodoQuiet, RecordQuiet
<1>4. TodoInv'
  <2>1. ASSUME NEW d \in Calls, NEW p \in call'[d].todo PROVE Prunable(p)'
    <3>1. Prunable(p)
      BY <2>1 DEF DataInv, TodoInv, CallsQuiet, TodoQuiet
    <3> QED BY <1>1, <3>1 DEF Prunable, Passed, SessionRows, RowsOf
  <2> QED BY <2>1 DEF TodoInv, CallsQuiet, TodoQuiet
<1>5. OldestInv'
  BY <1>1 DEF DataInv, OldestInv, Restorable, RowsOf
<1> QED BY <1>2, <1>3, <1>4, <1>5

LEMMA QuietStep ==
  ASSUME DataInv, CallsQuiet, UNCHANGED Versions
  PROVE  DataInv'
<1>1. UNCHANGED <<rows, vault, made, oldest, start, trimmed>>
  BY DEF Versions
<1>2. RowsInv' /\ RecordInv' /\ TodoInv' /\ OldestInv'
  BY <1>1, TablesCarry
<1>3. \A s, x, f : Traced(s, x, f) => Traced(s, x, f)'
  BY <1>1 DEF Traced, Passed, SessionRows, RowsOf
<1>4. StartInv' /\ ReplaceInv'
  BY <1>1, <1>3, TracedCarries DEF DataInv, CallsQuiet
<1> QED BY <1>2, <1>4 DEF DataInv

-----------------------------------------------------------------------------
(* A copy is made *)

LEMMA CopyStep ==
  ASSUME IInv, NEW c \in Calls, CopyBefore(c)
  PROVE  CallsTyped /\ made' \in 0..MaxCopies /\ vault' \subseteq 1..made' /\ DataInv'
<1> USE LimitsAssumption
<1>1. /\ call \in [Calls -> CallRecord] /\ \A d \in Calls : CallShape(call[d])
      /\ made \in 0..MaxCopies /\ vault \subseteq 1..made
      /\ RowsInv /\ RecordInv /\ TodoInv /\ OldestInv /\ StartInv /\ ReplaceInv
  BY TypesOfCalls DEF IInv, TypeOK, DataInv
<1> DEFINE r == [call[c] EXCEPT !.pc = "record", !.dest = made + 1]
<1>2. /\ call[c].pc = "copy" /\ made < MaxCopies
      /\ made' = made + 1 /\ vault' = vault \cup {made + 1}
      /\ call' = [call EXCEPT ![c] = r]
      /\ UNCHANGED <<rows, oldest, start, trimmed>>
  BY DEF CopyBefore, Becomes, History
<1>3. made \in Nat /\ made + 1 \in 0..MaxCopies
  BY <1>1, <1>2
<1>4. CallShape(r) /\ r.pc = "record" /\ r.dest = made + 1 /\ r.todo = call[c].todo
  <2>1. CallShape(call[c]) /\ call[c] \in CallRecord
    BY <1>1 DEF CallShape
  <2> DEFINE q == [call[c] EXCEPT !.pc = "record"]
  <2>2. "record" \in CallStates /\ made + 1 \in Nat
    BY <1>3 DEF CallStates
  <2>3. /\ q \in CallRecord /\ q.pc = "record" /\ q.todo = call[c].todo
        /\ q.file = call[c].file /\ q.text = call[c].text
        /\ q.before = call[c].before
    BY <2>1, <2>2, Fields
  <2>4. r = [q EXCEPT !.dest = made + 1]
    OBVIOUS
  <2> HIDE DEF q, r
  <2>5. /\ r \in CallRecord
        /\ r.pc = "record" /\ r.dest = made + 1 /\ r.todo = call[c].todo
        /\ r.file = call[c].file /\ r.text = call[c].text
        /\ r.before = call[c].before
    BY <2>2, <2>3, <2>4, Fields
  <2> QED BY <1>2, <2>1, <2>5 DEF CallShape
<1> HIDE DEF r
<1>5. CallsTyped /\ call'[c] = r /\ \A d \in Calls \ {c} : call'[d] = call[d]
  BY <1>1, <1>2, <1>4, BecomesTyped DEF CallsTyped
<1>6. /\ \A d \in Calls : call'[d].todo = call[d].todo
      /\ \A d \in Calls : call'[d].pc = "record" /\ d # c =>
                            call[d].pc = "record" /\ call'[d].dest = call[d].dest
      /\ call'[c].dest = made + 1
      /\ TodoQuiet /\ ReplaceQuiet
  <2>1. ASSUME NEW d \in Calls
        PROVE  /\ call'[d].todo = call[d].todo
               /\ call'[d].pc = "record" /\ d # c =>
                    call[d].pc = "record" /\ call'[d].dest = call[d].dest
               /\ call'[d].pc \in {"prune", "forget"} => call'[d].todo # {}
               /\ call'[d].pc = "replace" => call'[d] = call[d]
    <3>1. CASE d = c
      BY <1>4, <1>5, <3>1
    <3>2. CASE d # c
      <4>1. call'[d] = call[d]
        BY <1>5, <3>2
      <4> QED BY <1>1, <4>1, TodoKept
    <3> QED BY <3>1, <3>2
  <2> QED BY <1>4, <1>5, <2>1 DEF TodoQuiet, ReplaceQuiet
<1>7. made' \in 0..MaxCopies /\ vault' \subseteq 1..made'
  BY <1>1, <1>2, <1>3
<1>8. RowsInv'
  BY <1>1, <1>2, <1>3 DEF RowsInv
<1>9. RecordInv'
  <2>1. ASSUME NEW d \in Calls, call'[d].pc = "record"
        PROVE  /\ call'[d].dest \in vault'
               /\ \A i \in DOMAIN rows' : rows'[i].dest # call'[d].dest
               /\ \A e \in Calls :
                    /\ call'[e].pc = "record" /\ call'[e].dest = call'[d].dest => e = d
                    /\ \A p \in call'[e].todo : p[2] # call'[d].dest
    <3>1. \A i \in DOMAIN rows : rows[i].dest \in 1..made
      BY <1>1 DEF RowsInv
    <3>2. \A e \in Calls : \A p \in call[e].todo : p[2] \in 1..made
      BY <1>1 DEF TodoInv, Prunable
    <3>3. \A e \in Calls : call'[e].pc = "record" /\ e # c => call'[e].dest \in 1..made
      BY <1>1, <1>6 DEF RecordInv
    <3>4. CASE d = c
      BY <1>2, <1>3, <1>6, <3>1, <3>2, <3>3, <3>4
    <3>5. CASE d # c
      BY <1>1, <1>2, <1>3, <1>6, <2>1, <3>3, <3>5 DEF RecordInv
    <3> QED BY <3>4, <3>5
  <2> QED BY <2>1 DEF RecordInv
<1>10. TodoInv'
  <2>1. ASSUME NEW d \in Calls, NEW p \in call'[d].todo PROVE Prunable(p)'
    <3>1. Prunable(p)
      BY <1>1, <1>6, <2>1 DEF TodoInv
    <3> QED BY <1>2, <1>3, <3>1 DEF Prunable, Passed, SessionRows, RowsOf
  <2> QED BY <1>6, <2>1 DEF TodoInv, TodoQuiet
<1>11. OldestInv'
  BY <1>1, <1>2 DEF OldestInv, Restorable, RowsOf
<1>12. \A s, x, f : Traced(s, x, f) => Traced(s, x, f)'
  BY <1>2 DEF Traced, Passed, SessionRows, RowsOf
<1>13. StartInv' /\ ReplaceInv'
  BY <1>1, <1>2, <1>6, <1>12, TracedCarries
<1> QED BY <1>5, <1>7, <1>8, <1>9, <1>10, <1>11, <1>13 DEF DataInv

-----------------------------------------------------------------------------
(* The file is replaced, the version confirmed *)

LEMMA ReplaceStep ==
  ASSUME IInv, NEW c \in Calls, ReplaceFile(c)
  PROVE  /\ CallsTyped /\ disk' \in [Files -> Texts]
         /\ start' \in [Sessions \X Files -> Nat] /\ DataInv'
<1>1. /\ call \in [Calls -> CallRecord] /\ \A d \in Calls : CallShape(call[d])
      /\ disk \in [Files -> Texts] /\ start \in [Sessions \X Files -> Nat]
      /\ StartInv /\ ReplaceInv /\ TodoInv
  BY TypesOfCalls DEF IInv, TypeOK, DataInv
<1> DEFINE f == call[c].file
           x == call[c].session
           r == [Idle EXCEPT !.pc = "confirm", !.file = f, !.text = call[c].text,
                             !.id = call[c].id]
<1>2. /\ call[c].pc = "replace"
      /\ disk' = [disk EXCEPT ![f] = call[c].text]
      /\ call' = [d \in Calls |-> IF d = c THEN r ELSE Overtaken(d, f)]
      /\ start' = [p \in DOMAIN start |->
                     IF p = <<x, f>> /\ start[p] = 0 THEN call[c].id ELSE start[p]]
      /\ UNCHANGED <<rows, vault, made, oldest, trimmed>>
  BY DEF ReplaceFile
<1>3. call[c].text \in Texts /\ f \in Files /\ call[c].id \in Nat
  BY <1>1, <1>2 DEF CallShape, CallRecord
<1>4. CallShape(r) /\ r.pc = "confirm" /\ r.todo = {}
  BY <1>3 DEF CallShape, CallRecord, CallStates, Idle
<1>5. disk' \in [Files -> Texts] /\ start' \in [Sessions \X Files -> Nat]
  BY <1>1, <1>2, <1>3
<1> HIDE DEF r
<1>6. ASSUME NEW d \in Calls
      PROVE  /\ CallShape(call'[d]) /\ call'[d] \in CallRecord
             /\ call'[d].todo \subseteq call[d].todo
             /\ call'[d].pc \in {"prune", "forget"} => call'[d].todo # {}
             /\ call'[d].pc = "record" =>
                  call[d].pc = "record" /\ call'[d].dest = call[d].dest
             /\ call'[d].pc = "replace" =>
                  /\ call[d].pc = "replace" /\ call'[d].id = call[d].id
                  /\ call'[d].session = call[d].session
                  /\ call'[d].file = call[d].file
  <2>1. CASE d = c
    <3>1. call'[d] = r
      BY <1>2, <2>1
    <3> QED BY <1>4, <3>1 DEF CallShape
  <2>2. CASE d # c
    <3>1. call'[d] = Overtaken(d, f)
      BY <1>2, <2>2
    <3> HIDE DEF f
    <3>2. /\ CallShape(call'[d])
          /\ call'[d].pc = call[d].pc /\ call'[d].todo = call[d].todo
          /\ call'[d].dest = call[d].dest /\ call'[d].id = call[d].id
          /\ call'[d].file = call[d].file /\ call'[d].session = call[d].session
      BY <1>1, <3>1, OvertakenShape
    <3> QED BY <1>1, <3>2, TodoKept DEF CallShape
  <2> QED BY <2>1, <2>2
<1>7. CallsTyped /\ CallsQuiet
  BY <1>2, <1>6 DEF CallsTyped, CallsQuiet, TodoQuiet, RecordQuiet, ReplaceQuiet
<1>8. \A s, y, g : Traced(s, y, g) => Traced(s, y, g)'
  BY <1>2 DEF Traced, Passed, SessionRows, RowsOf
<1>9. StartInv'
  <2>1. ASSUME NEW y \in Sessions, NEW g \in Files, NEW s \in Nat, start'[<<y, g>>] = s, s # 0
        PROVE  Traced(s, y, g)
    <3>1. <<y, g>> \in DOMAIN start
      BY <1>1
    <3>2. CASE <<y, g>> = <<x, f>> /\ start[<<y, g>>] = 0
      <4>1. call[c].id = s /\ x = y /\ f = g
        BY <1>2, <2>1, <3>1, <3>2
      <4> QED BY <1>1, <1>2, <4>1 DEF ReplaceInv
    <3>3. CASE ~(<<y, g>> = <<x, f>> /\ start[<<y, g>>] = 0)
      <4>1. start[<<y, g>>] = s
        BY <1>2, <2>1, <3>1, <3>3
      <4> QED BY <1>1, <2>1, <4>1 DEF StartInv
    <3> QED BY <3>2, <3>3
  <2> QED BY <1>8, <2>1 DEF StartInv
<1>10. ReplaceInv'
  <2>1. ASSUME NEW d \in Calls, NEW s \in Nat, NEW y \in Sessions, NEW g \in Files,
               call'[d].pc = "replace", call'[d].id = s,
               call'[d].session = y, call'[d].file = g
        PROVE  Traced(s, y, g)'
    BY <1>1, <1>6, <1>8, <2>1 DEF ReplaceInv
  <2> QED BY <2>1 DEF ReplaceInv
<1>11. RowsInv' /\ RecordInv' /\ TodoInv' /\ OldestInv'
  BY <1>2, <1>7, TablesCarry DEF IInv
<1> QED BY <1>5, <1>7, <1>9, <1>10, <1>11 DEF DataInv

-----------------------------------------------------------------------------
(* A version is recorded *)

LEMMA RecordStep ==
  ASSUME IInv, NEW c \in Calls, RecordVersion(c)
  PROVE  /\ CallsTyped /\ oldest' \in [Files -> Nat]
         /\ IsFiniteSet(DOMAIN rows') /\ DOMAIN rows' \subseteq Nat \ {0}
         /\ rows' \in [DOMAIN rows' -> Version]
         /\ DataInv'
<1>1. /\ call \in [Calls -> CallRecord] /\ \A d \in Calls : CallShape(call[d])
      /\ oldest \in [Files -> Nat] /\ vault \subseteq 1..made
      /\ IsFiniteSet(DOMAIN rows) /\ DOMAIN rows \subseteq Nat \ {0}
      /\ rows \in [DOMAIN rows -> Version]
      /\ RowsInv /\ RecordInv /\ TodoInv /\ OldestInv /\ StartInv /\ ReplaceInv
  BY TypesOfCalls DEF IInv, TypeOK, DataInv
<1> DEFINE i == NextId
           f == call[c].file
           v == [file |-> f, text |-> call[c].before, session |-> call[c].session,
                 status |-> "prepared", dest |-> call[c].dest]
           q == [call[c] EXCEPT !.pc = "replace"]
           r == [call[c] EXCEPT !.pc = "replace", !.id = i]
<1>2. /\ call[c].pc = "record"
      /\ rows' = [j \in DOMAIN rows \cup {i} |-> IF j = i THEN v ELSE rows[j]]
      /\ oldest' = [oldest EXCEPT ![f] = IF @ = 0 THEN i ELSE @]
      /\ call' = [call EXCEPT ![c] = r]
      /\ UNCHANGED <<vault, made, start, trimmed>>
  BY DEF RecordVersion, Becomes
<1>3. i \in Nat \ {0} /\ (\A j \in DOMAIN rows : j < i) /\ i \notin DOMAIN rows
  <2>1. i \in Nat \ {0} /\ \A j \in DOMAIN rows : j < i
    BY <1>1, NextIdIsNew
  <2> HIDE DEF i
  <2>2. ~(i < i)
    BY <2>1
  <2> QED BY <2>1, <2>2
<1> HIDE DEF i
<1>4. /\ call[c] \in CallRecord /\ f \in Files /\ call[c].before \in Texts
      /\ call[c].session \in Sessions \cup {None} /\ call[c].dest \in Nat
      /\ call[c].text \in Texts
  BY <1>1, <1>2 DEF CallShape, CallRecord
<1>5. /\ v \in Version /\ v.file = f /\ v.session = call[c].session
      /\ v.dest = call[c].dest
  BY <1>4 DEF Version
<1>6. /\ CallShape(r) /\ r.pc = "replace" /\ r.id = i /\ r.todo = call[c].todo
      /\ r.session = call[c].session /\ r.file = f
  <2>1. "replace" \in CallStates /\ i \in Nat
    BY <1>3 DEF CallStates
  <2>2. /\ q \in CallRecord /\ q.pc = "replace" /\ q.todo = call[c].todo
        /\ q.file = f /\ q.text = call[c].text /\ q.session = call[c].session
    BY <1>4, <2>1, Fields
  <2>3. r = [q EXCEPT !.id = i]
    OBVIOUS
  <2> HIDE DEF q, r
  <2>4. /\ r \in CallRecord /\ r.pc = "replace" /\ r.id = i
        /\ r.todo = call[c].todo /\ r.file = f /\ r.text = call[c].text
        /\ r.session = call[c].session
    BY <2>1, <2>2, <2>3, Fields
  <2> QED BY <1>4, <2>4 DEF CallShape
<1> HIDE DEF q, r, v
<1>7. CallsTyped /\ call'[c] = r /\ \A d \in Calls \ {c} : call'[d] = call[d]
  BY <1>1, <1>2, <1>6, BecomesTyped DEF CallsTyped
<1>8. /\ \A d \in Calls : call'[d].todo = call[d].todo
      /\ TodoQuiet /\ RecordQuiet /\ call'[c].pc # "record"
  <2>1. ASSUME NEW d \in Calls
        PROVE  /\ call'[d].todo = call[d].todo
               /\ call'[d].pc \in {"prune", "forget"} => call'[d].todo # {}
               /\ call'[d].pc = "record" =>
                    call[d].pc = "record" /\ call'[d].dest = call[d].dest
    <3>1. CASE d = c
      BY <1>6, <1>7, <3>1
    <3>2. CASE d # c
      <4>1. call'[d] = call[d]
        BY <1>7, <3>2
      <4> QED BY <1>1, <4>1, TodoKept
    <3> QED BY <3>1, <3>2
  <2> QED BY <1>6, <1>7, <2>1 DEF TodoQuiet, RecordQuiet
\* The table has one version more.
<1>9. /\ DOMAIN rows' = DOMAIN rows \cup {i}
      /\ rows'[i] = v /\ \A j \in DOMAIN rows : rows'[j] = rows[j]
  BY <1>2, <1>3
<1>10. /\ IsFiniteSet(DOMAIN rows') /\ DOMAIN rows' \subseteq Nat \ {0}
       /\ rows' \in [DOMAIN rows' -> Version]
  <2>1. \A j \in DOMAIN rows \cup {i} : (IF j = i THEN v ELSE rows[j]) \in Version
    BY <1>1, <1>5
  <2> QED BY <1>1, <1>2, <1>3, <1>9, <2>1, FS_AddElement
<1>11. \A j, g : j \in RowsOf(g)' <=> j \in RowsOf(g) \/ (j = i /\ g = f)
  BY <1>3, <1>5, <1>9 DEF RowsOf
<1>12. \A j, x, g : j \in SessionRows(x, g)' <=>
                      \/ j \in SessionRows(x, g)
                      \/ j = i /\ g = f /\ x = call[c].session
  <2>1. \A j, g : j \in RowsOf(g) => j \in DOMAIN rows
    BY DEF RowsOf
  <2> QED BY <1>3, <1>5, <1>9, <1>11, <2>1 DEF SessionRows
<1>13. call[c].dest \in vault /\ \A j \in DOMAIN rows : rows[j].dest # call[c].dest
  BY <1>1, <1>2 DEF RecordInv
<1>14. oldest' \in [Files -> Nat]
       /\ \A g \in Files : oldest'[g] = IF g = f /\ oldest[g] = 0 THEN i ELSE oldest[g]
  BY <1>1, <1>2, <1>3, <1>4
<1>15. RowsInv'
  <2>1. call[c].dest \in 1..made
    BY <1>1, <1>13
  <2>2. \A j \in DOMAIN rows' : rows'[j].dest \in 1..made'
    BY <1>1, <1>2, <1>5, <1>9, <2>1 DEF RowsInv
  <2>3. \A j, k \in DOMAIN rows' : rows'[j].dest = rows'[k].dest => j = k
    BY <1>1, <1>5, <1>9, <1>13 DEF RowsInv
  <2> QED BY <2>2, <2>3 DEF RowsInv
<1>16. RecordInv'
  <2>1. ASSUME NEW d \in Calls, call'[d].pc = "record"
        PROVE  /\ call'[d].dest \in vault'
               /\ \A j \in DOMAIN rows' : rows'[j].dest # call'[d].dest
               /\ \A e \in Calls :
                    /\ call'[e].pc = "record" /\ call'[e].dest = call'[d].dest => e = d
                    /\ \A p \in call'[e].todo : p[2] # call'[d].dest
    <3>1. call[d].pc = "record" /\ call'[d].dest = call[d].dest /\ d # c
      BY <1>8, <2>1 DEF RecordQuiet
    <3>2. call[d].dest # call[c].dest
      BY <1>1, <1>2, <3>1 DEF RecordInv
    <3>3. \A j \in DOMAIN rows' : rows'[j].dest # call[d].dest
      BY <1>1, <1>5, <1>9, <3>1, <3>2 DEF RecordInv
    <3>4. ASSUME NEW e \in Calls
          PROVE  /\ call'[e].pc = "record" /\ call'[e].dest = call'[d].dest => e = d
                 /\ \A p \in call'[e].todo : p[2] # call'[d].dest
      <4>1. call'[e].pc = "record" =>
              call[e].pc = "record" /\ call'[e].dest = call[e].dest
        BY <1>8 DEF RecordQuiet
      <4> QED BY <1>1, <1>8, <3>1, <4>1 DEF RecordInv
    <3>5. call'[d].dest \in vault'
      BY <1>1, <1>2, <3>1 DEF RecordInv
    <3> QED BY <3>1, <3>3, <3>4, <3>5
  <2> QED BY <2>1 DEF RecordInv
<1>17. ASSUME NEW s, NEW x, NEW g, Passed(s, x, g) PROVE Passed(s, x, g)'
  BY <1>2, <1>12, <1>17 DEF Passed
<1>18. TodoInv'
  <2>1. ASSUME NEW d \in Calls, NEW p \in call'[d].todo PROVE Prunable(p)'
    <3>1. Prunable(p) /\ p \in call[d].todo
      BY <1>1, <1>8, <2>1 DEF TodoInv
    <3>2. PICK m \in DOMAIN rows : p[1] < m
      BY <3>1 DEF Prunable
    <3>3. p \in Nat \X Nat
      BY <1>1, <3>1 DEF CallShape, CallRecord
    <3>4. p[1] < i /\ p[1] # i
      <4>1. m \in Nat /\ m < i /\ p[1] \in Nat
        BY <1>1, <1>3, <3>2, <3>3
      <4> QED BY <1>3, <3>2, <4>1
    <3>5. p[2] \in 1..made' /\ \E k \in DOMAIN rows' : p[1] < k
      BY <1>2, <1>9, <3>1, <3>2 DEF Prunable
    <3>6. \A k \in DOMAIN rows' : rows'[k].dest = p[2] => k = p[1]
      <4>1. call[c].dest # p[2]
        BY <1>1, <1>2, <3>1 DEF RecordInv
      <4> QED BY <1>5, <1>9, <3>1, <4>1 DEF Prunable
    <3>7. \A g \in Files : p[1] # oldest'[g]
      BY <1>14, <3>1, <3>4 DEF Prunable
    <3>8. \A x \in Sessions, g \in Files :
            p[1] \in SessionRows(x, g)' => Passed(p[1], x, g)'
      BY <1>12, <1>17, <3>1, <3>4 DEF Prunable
    <3> QED BY <3>5, <3>6, <3>7, <3>8 DEF Prunable
  <2> QED BY <1>8, <2>1 DEF TodoInv, TodoQuiet
<1>19. OldestInv'
  <2>1. ASSUME NEW g \in Files
        PROVE  /\ oldest'[g] = 0 => RowsOf(g)' = {}
               /\ oldest'[g] # 0 => /\ oldest'[g] \in RowsOf(g)'
                                    /\ oldest'[g] \in DOMAIN rows'
                                    /\ rows'[oldest'[g]].dest \in vault'
                                    /\ \A k \in RowsOf(g)' : oldest'[g] <= k
    <3>1. CASE oldest[g] = 0 /\ g = f
      <4>1. oldest'[g] = i /\ RowsOf(g) = {}
        BY <1>1, <1>14, <3>1 DEF OldestInv
      <4>2. \A k : k \in RowsOf(g)' <=> k = i
        BY <1>11, <3>1, <4>1
      <4>3. i <= i
        BY <1>3
      <4> QED BY <1>2, <1>3, <1>5, <1>9, <1>13, <4>1, <4>2, <4>3
    <3>2. CASE oldest[g] = 0 /\ g # f
      <4>1. oldest'[g] = 0 /\ RowsOf(g) = {}
        BY <1>1, <1>14, <3>2 DEF OldestInv
      <4> QED BY <1>11, <3>2, <4>1
    <3>3. CASE oldest[g] # 0
      <4>1. /\ oldest'[g] = oldest[g] /\ oldest[g] \in RowsOf(g)
            /\ oldest[g] \in DOMAIN rows /\ rows[oldest[g]].dest \in vault
            /\ \A k \in RowsOf(g) : oldest[g] <= k
        BY <1>1, <1>14, <3>3 DEF OldestInv, Restorable
      <4>2. oldest[g] <= i
        <5>1. oldest[g] < i /\ oldest[g] \in Nat
          BY <1>1, <1>3, <4>1
        <5> QED BY <1>3, <5>1
      <4>3. \A k \in RowsOf(g)' : k \in RowsOf(g) \/ k = i
        BY <1>11
      <4>4. \A k \in RowsOf(g)' : oldest'[g] <= k
        BY <4>1, <4>2, <4>3
      <4>5. /\ oldest'[g] \in RowsOf(g)' /\ oldest'[g] \in DOMAIN rows'
            /\ rows'[oldest'[g]].dest \in vault'
        BY <1>2, <1>9, <1>11, <4>1
      <4> QED BY <3>3, <4>1, <4>4, <4>5
    <3> QED BY <3>1, <3>2, <3>3
  <2> QED BY <2>1 DEF OldestInv, Restorable
<1>20. ASSUME NEW s, NEW x, NEW g, Traced(s, x, g) PROVE Traced(s, x, g)'
  <2>1. s \in SessionRows(x, g) => s \in DOMAIN rows
    BY DEF SessionRows, RowsOf
  <2> QED BY <1>2, <1>9, <1>12, <1>17, <1>20, <2>1 DEF Traced
<1>21. StartInv'
  <2>1. ASSUME NEW x \in Sessions, NEW g \in Files, NEW s \in Nat, start'[<<x, g>>] = s, s # 0
        PROVE  Traced(s, x, g)'
    BY <1>1, <1>2, <1>20, <2>1 DEF StartInv
  <2> QED BY <2>1 DEF StartInv
<1>22. ReplaceInv'
  <2>1. ASSUME NEW d \in Calls, NEW s \in Nat, NEW x \in Sessions, NEW g \in Files,
               call'[d].pc = "replace", call'[d].id = s,
               call'[d].session = x, call'[d].file = g
        PROVE  Traced(s, x, g)'
    <3>1. CASE d = c
      <4>1. s = i /\ x = call[c].session /\ g = f
        BY <1>6, <1>7, <2>1, <3>1
      <4>2. s \in SessionRows(x, g)' /\ rows'[s].dest \in vault'
        BY <1>2, <1>5, <1>9, <1>12, <1>13, <4>1
      <4> QED BY <4>2 DEF Traced
    <3>2. CASE d # c
      <4>1. call'[d] = call[d]
        BY <1>7, <3>2
      <4> QED BY <1>1, <1>20, <2>1, <4>1 DEF ReplaceInv
    <3> QED BY <3>1, <3>2
  <2> QED BY <2>1 DEF ReplaceInv
<1> QED BY <1>7, <1>10, <1>14, <1>15, <1>16, <1>18, <1>19, <1>21, <1>22 DEF DataInv

LEMMA ConfirmStep ==
  ASSUME IInv, NEW c \in Calls, Confirm(c)
  PROVE  /\ CallsTyped
         /\ IsFiniteSet(DOMAIN rows') /\ DOMAIN rows' \subseteq Nat \ {0}
         /\ rows' \in [DOMAIN rows' -> Version]
         /\ DataInv'
<1>1. /\ IsFiniteSet(DOMAIN rows) /\ DOMAIN rows \subseteq Nat \ {0}
      /\ rows \in [DOMAIN rows -> Version]
      /\ RowsInv /\ RecordInv /\ TodoInv /\ OldestInv /\ StartInv /\ ReplaceInv
  BY DEF IInv, TypeOK, DataInv
<1> DEFINE r == [Idle EXCEPT !.pc = "select"]
           v(i) == IF i = call[c].id THEN [rows[i] EXCEPT !.status = "saved"] ELSE rows[i]
<1>2. /\ rows' = [i \in DOMAIN rows |-> v(i)]
      /\ call' = [call EXCEPT ![c] = r]
      /\ UNCHANGED <<vault, made, oldest, start, trimmed>>
  BY DEF Confirm, Becomes, History
<1>3. CallShape(r) /\ r.pc = "select" /\ r.todo = {}
  BY DEF CallShape, CallRecord, CallStates, Idle
<1> HIDE DEF r
<1>4. CallsTyped /\ CallsQuiet
  BY <1>1, <1>2, <1>3, Settles DEF IInv
<1>5. ASSUME NEW i \in DOMAIN rows
      PROVE  /\ v(i) \in Version
             /\ v(i).file = rows[i].file /\ v(i).session = rows[i].session
             /\ v(i).dest = rows[i].dest
  <2>1. rows[i] \in Version
    BY <1>1
  <2>2. ASSUME NEW w, w = [rows[i] EXCEPT !.status = "saved"]
        PROVE  /\ w \in Version /\ w.file = rows[i].file
               /\ w.session = rows[i].session /\ w.dest = rows[i].dest
    BY <2>1, <2>2 DEF Version
  <2>3. v(i) = [rows[i] EXCEPT !.status = "saved"] \/ v(i) = rows[i]
    OBVIOUS
  <2> HIDE DEF v
  <2> QED BY <2>1, <2>2, <2>3
<1> HIDE DEF v
<1>6. /\ DOMAIN rows' = DOMAIN rows
      /\ \A i \in DOMAIN rows :
           /\ rows'[i] \in Version
           /\ rows'[i].file = rows[i].file /\ rows'[i].session = rows[i].session
           /\ rows'[i].dest = rows[i].dest
  BY <1>2, <1>5
<1>7. rows' \in [DOMAIN rows' -> Version]
  BY <1>2, <1>6
<1>8. \A j, g : j \in RowsOf(g)' <=> j \in RowsOf(g)
  BY <1>6 DEF RowsOf
<1>9. \A j, x, g : j \in SessionRows(x, g)' <=> j \in SessionRows(x, g)
  <2>1. \A j, g : j \in RowsOf(g) => j \in DOMAIN rows
    BY DEF RowsOf
  <2> QED BY <1>6, <1>8, <2>1 DEF SessionRows
<1>10. RowsInv'
  BY <1>1, <1>2, <1>6 DEF RowsInv
<1>11. RecordInv'
  BY <1>1, <1>2, <1>4, <1>6 DEF RecordInv, CallsQuiet, RecordQuiet, TodoQuiet
<1>12. TodoInv'
  <2>1. ASSUME NEW d \in Calls, NEW p \in call'[d].todo PROVE Prunable(p)'
    <3>1. Prunable(p)
      BY <1>1, <1>4, <2>1 DEF TodoInv, CallsQuiet, TodoQuiet
    <3> QED BY <1>2, <1>6, <1>9, <3>1 DEF Prunable, Passed
  <2> QED BY <1>4, <2>1 DEF TodoInv, CallsQuiet, TodoQuiet
<1>13. OldestInv'
  BY <1>1, <1>2, <1>6, <1>8 DEF OldestInv, Restorable
<1>14. ASSUME NEW s, NEW x, NEW g, Traced(s, x, g) PROVE Traced(s, x, g)'
  <2>1. s \in SessionRows(x, g) => s \in DOMAIN rows
    BY DEF SessionRows, RowsOf
  <2> QED BY <1>2, <1>6, <1>9, <1>14, <2>1 DEF Traced, Passed
<1>15. StartInv' /\ ReplaceInv'
  BY <1>1, <1>2, <1>4, <1>14, TracedCarries DEF CallsQuiet
<1> QED BY <1>1, <1>4, <1>6, <1>7, <1>10, <1>11, <1>12, <1>13, <1>15 DEF DataInv

-----------------------------------------------------------------------------
(* Versions are pruned *)

\* What is left to prune is a part of what was, or what has been selected.
LEMMA PruningCalls ==
  ASSUME TypeOK, NEW c \in Calls, NEW todo \in SUBSET (Nat \X Nat), Pruning(c, todo)
  PROVE  /\ CallsTyped
         /\ call'[c].todo = todo /\ call'[c].pc \in {"idle", "prune"}
         /\ call'[c].pc = "prune" => todo # {}
         /\ \A d \in Calls \ {c} : call'[d] = call[d]
<1>1. /\ call \in [Calls -> CallRecord] /\ \A d \in Calls : CallShape(call[d])
  BY TypesOfCalls DEF TypeOK
<1> DEFINE q == [call[c] EXCEPT !.pc = "prune"]
           r == [call[c] EXCEPT !.pc = "prune", !.todo = todo]
<1>2. call' = [call EXCEPT ![c] = IF todo = {} THEN Idle ELSE r]
  BY DEF Pruning, Becomes
<1>3. CallShape(r) /\ r.pc = "prune" /\ r.todo = todo
  <2>1. call[c] \in CallRecord /\ "prune" \in CallStates
    BY <1>1 DEF CallStates
  <2>2. q \in CallRecord /\ q.pc = "prune"
    BY <2>1, Fields
  <2>3. r = [q EXCEPT !.todo = todo]
    OBVIOUS
  <2> HIDE DEF q, r
  <2>4. r \in CallRecord /\ r.pc = "prune" /\ r.todo = todo
    BY <2>2, <2>3, Fields
  <2> QED BY <2>4 DEF CallShape
<1> HIDE DEF q, r
<1>4. PICK w \in {Idle, r} : /\ w = IF todo = {} THEN Idle ELSE r
                             /\ call' = [call EXCEPT ![c] = w]
  BY <1>2
<1>5. /\ CallShape(w) /\ w.todo = todo /\ w.pc \in {"idle", "prune"}
      /\ w.pc = "prune" => todo # {}
  BY <1>3, <1>4, IdleShape
<1>6. CallsTyped /\ call'[c] = w /\ \A d \in Calls \ {c} : call'[d] = call[d]
  BY <1>1, <1>4, <1>5, BecomesTyped DEF CallsTyped
<1> QED BY <1>5, <1>6

LEMMA PartPruned ==
  ASSUME TodoInv, NEW c \in Calls,
         call'[c].todo \subseteq call[c].todo, call'[c].pc \in {"idle", "prune"},
         call'[c].pc = "prune" => call'[c].todo # {},
         \A d \in Calls \ {c} : call'[d] = call[d]
  PROVE  CallsQuiet
<1>1. ASSUME NEW d \in Calls
      PROVE  /\ call'[d].todo \subseteq call[d].todo
             /\ call'[d].pc \in {"prune", "forget"} => call'[d].todo # {}
             /\ call'[d].pc \in {"record", "replace"} => call'[d] = call[d]
  <2>1. CASE d = c
    BY <2>1
  <2>2. CASE d # c
    <3>1. call'[d] = call[d]
      BY <2>2
    <3> QED BY <3>1, TodoKept
  <2> QED BY <2>1, <2>2
<1> QED BY <1>1 DEF CallsQuiet, TodoQuiet, RecordQuiet, ReplaceQuiet

\* Of the versions left to prune there is a newest.
LEMMA NewestIsThere ==
  ASSUME TypeOK, TodoInv, NEW c \in Calls, call[c].todo # {}
  PROVE  NewestOf(call[c].todo) \in call[c].todo
<1>1. call[c].todo \in SUBSET (Nat \X Nat)
  BY TypesOfCalls DEF CallShape, CallRecord
<1>2. DOMAIN rows \in SUBSET Nat /\ IsFiniteSet(DOMAIN rows)
  BY DEF TypeOK
<1>3. PICK b \in Nat : \A m \in DOMAIN rows : m <= b
  BY <1>2, FiniteIsBounded
<1> DEFINE todo == call[c].todo
           ids == {p[1] : p \in todo}
<1>4. ids \in SUBSET Nat /\ ids # {}
  BY <1>1
<1>5. ASSUME NEW y \in ids PROVE y <= b
  <2>1. PICK p \in todo : y = p[1]
    OBVIOUS
  <2>2. PICK m \in DOMAIN rows : p[1] < m
    BY <2>1 DEF TodoInv, Prunable
  <2>3. m \in Nat /\ m <= b /\ y \in Nat
    BY <1>2, <1>3, <1>4
  <2> QED BY <2>1, <2>2, <2>3
<1>6. PICK n \in ids : \A y \in ids : y <= n
  BY <1>3, <1>4, <1>5, Greatest
<1>7. PICK p \in todo : p[1] = n
  BY <1>6
<1>8. \A q \in todo : q[1] <= p[1]
  BY <1>6, <1>7
<1> QED BY <1>8 DEF NewestOf

LEMMA SelectStep ==
  ASSUME IInv, NEW c \in Calls, SelectDoomed(c),
         IsFiniteSet(Files), GlobalCap > Cardinality(Files)
  PROVE  CallsTyped /\ trimmed' \subseteq Nat /\ DataInv'
<1>1. /\ IsFiniteSet(DOMAIN rows) /\ DOMAIN rows \subseteq Nat \ {0}
      /\ rows \in [DOMAIN rows -> Version] /\ trimmed \subseteq Nat
      /\ RowsInv /\ RecordInv /\ TodoInv /\ OldestInv /\ StartInv /\ ReplaceInv
  BY DEF IInv, TypeOK, DataInv
<1> DEFINE todo == {<<i, rows[i].dest>> : i \in Doomed}
<1>2. /\ call[c].pc = "select" /\ Pruning(c, todo)
      /\ trimmed' = trimmed \cup OverCap
      /\ UNCHANGED <<rows, vault, made, oldest, start>>
  BY DEF SelectDoomed
<1>3. \A i \in DOMAIN rows : rows[i].file \in Files /\ rows[i].dest \in Nat
  BY <1>1 DEF Version
<1>4. None \notin Sessions
  BY LimitsAssumption
<1>5. \A i \in Doomed :
        /\ i \in DOMAIN rows
        /\ \E m \in DOMAIN rows : i < m
        /\ \A f \in Files : i # oldest[f]
        /\ \A x \in Sessions, f \in Files :
             i \in SessionRows(x, f) =>
               i \in OverCap \/ \E j \in SessionRows(x, f) : j < i
  BY <1>1, <1>3, <1>4, DoomedIsPassed
<1>6. OverCap \subseteq Nat
  <2>1. OverCap \subseteq Doomed
    BY DEF Doomed
  <2> QED BY <1>1, <1>5, <2>1
<1>7. todo \in SUBSET (Nat \X Nat)
      /\ \A p \in todo : p[1] \in Doomed /\ p[2] = rows[p[1]].dest
  BY <1>1, <1>3, <1>5
<1> HIDE DEF todo
<1>8. /\ CallsTyped
      /\ call'[c].todo = todo /\ call'[c].pc \in {"idle", "prune"}
      /\ call'[c].pc = "prune" => todo # {}
      /\ \A d \in Calls \ {c} : call'[d] = call[d]
  BY <1>2, <1>7, PruningCalls DEF IInv
<1>9. RecordQuiet /\ ReplaceQuiet
  <2>1. ASSUME NEW d \in Calls, call'[d].pc \in {"record", "replace"}
        PROVE  call'[d] = call[d]
    BY <1>8, <2>1
  <2> QED BY <2>1 DEF RecordQuiet, ReplaceQuiet
<1>10. ASSUME NEW s, NEW x, NEW f, Passed(s, x, f) PROVE Passed(s, x, f)'
  BY <1>2, <1>10 DEF Passed, SessionRows, RowsOf
<1>11. RowsInv'
  BY <1>1, <1>2 DEF RowsInv
<1>12. RecordInv'
  <2>1. ASSUME NEW d \in Calls, call'[d].pc = "record"
        PROVE  /\ call'[d].dest \in vault'
               /\ \A i \in DOMAIN rows' : rows'[i].dest # call'[d].dest
               /\ \A e \in Calls :
                    /\ call'[e].pc = "record" /\ call'[e].dest = call'[d].dest => e = d
                    /\ \A p \in call'[e].todo : p[2] # call'[d].dest
    <3>1. call'[d] = call[d] /\ call[d].pc = "record"
      BY <1>8, <2>1
    <3>2. \A e \in Calls : call'[e].pc = "record" => call'[e] = call[e]
      BY <1>8
    <3>3. ASSUME NEW e \in Calls, NEW p \in call'[e].todo
          PROVE  p[2] # call'[d].dest
      <4>1. CASE e = c
        <5>1. p[1] \in DOMAIN rows /\ p[2] = rows[p[1]].dest
          BY <1>5, <1>7, <1>8, <3>3, <4>1
        <5> QED BY <1>1, <3>1, <5>1 DEF RecordInv
      <4>2. CASE e # c
        <5>1. call'[e] = call[e]
          BY <1>8, <4>2
        <5> QED BY <1>1, <3>1, <3>3, <5>1 DEF RecordInv
      <4> QED BY <4>1, <4>2
    <3> QED BY <1>1, <1>2, <3>1, <3>2, <3>3 DEF RecordInv
  <2> QED BY <2>1 DEF RecordInv
<1>13. TodoInv'
  <2>1. ASSUME NEW p \in todo PROVE Prunable(p)'
    <3>1. p[1] \in Doomed /\ p[1] \in DOMAIN rows /\ p[2] = rows[p[1]].dest
      BY <1>5, <1>7
    <3>2. p[2] \in 1..made' /\ \E m \in DOMAIN rows' : p[1] < m
      BY <1>1, <1>2, <1>5, <3>1 DEF RowsInv
    <3>3. \A i \in DOMAIN rows' : rows'[i].dest = p[2] => i = p[1]
      BY <1>1, <1>2, <3>1 DEF RowsInv
    <3>4. \A f \in Files : p[1] # oldest'[f]
      BY <1>2, <1>5, <3>1
    <3>5. ASSUME NEW x \in Sessions, NEW f \in Files, p[1] \in SessionRows(x, f)'
          PROVE  Passed(p[1], x, f)'
      <4>1. p[1] \in SessionRows(x, f)
        BY <1>2, <3>5 DEF SessionRows, RowsOf
      <4>2. CASE p[1] \in OverCap
        <5>1. p[1] \in trimmed' /\ p[1] \in Nat
          BY <1>2, <1>6, <4>2
        <5>2. p[1] <= p[1]
          BY <5>1
        <5> QED BY <5>1, <5>2 DEF Passed
      <4>3. CASE \E j \in SessionRows(x, f) : j < p[1]
        <5>1. Passed(p[1], x, f)
          BY <4>3 DEF Passed
        <5> QED BY <1>10, <5>1
      <4> QED BY <1>5, <3>1, <4>1, <4>2, <4>3
    <3> QED BY <3>2, <3>3, <3>4, <3>5 DEF Prunable
  <2>2. ASSUME NEW d \in Calls, d # c, NEW p \in call'[d].todo PROVE Prunable(p)'
    <3>1. Prunable(p)
      <4>1. call'[d] = call[d]
        BY <1>8, <2>2
      <4> QED BY <1>1, <2>2, <4>1 DEF TodoInv
    <3>2. \A x \in Sessions, f \in Files :
            p[1] \in SessionRows(x, f)' => Passed(p[1], x, f)'
      <4>1. \A x, f : p[1] \in SessionRows(x, f)' => p[1] \in SessionRows(x, f)
        BY <1>2 DEF SessionRows, RowsOf
      <4> QED BY <1>10, <3>1, <4>1 DEF Prunable
    <3> QED BY <1>2, <3>1, <3>2 DEF Prunable
  <2>3. ASSUME NEW d \in Calls
        PROVE  call'[d].pc \in {"prune", "forget"} => call'[d].todo # {}
    <3>1. CASE d = c
      BY <1>8, <3>1
    <3>2. CASE d # c
      <4>1. call'[d] = call[d]
        BY <1>8, <3>2
      <4> QED BY <1>1, <4>1, TodoKept
    <3> QED BY <3>1, <3>2
  <2>4. ASSUME NEW d \in Calls, NEW p \in call'[d].todo PROVE Prunable(p)'
    <3>1. CASE d = c
      BY <1>8, <2>1, <2>4, <3>1
    <3>2. CASE d # c
      BY <2>2, <2>4, <3>2
    <3> QED BY <3>1, <3>2
  <2> QED BY <2>3, <2>4 DEF TodoInv
<1>14. OldestInv'
  BY <1>1, <1>2 DEF OldestInv, Restorable, RowsOf
<1>15. ASSUME NEW s, NEW x, NEW f, Traced(s, x, f) PROVE Traced(s, x, f)'
  BY <1>2, <1>10, <1>15 DEF Traced, SessionRows, RowsOf
<1>16. StartInv' /\ ReplaceInv'
  BY <1>1, <1>2, <1>9, <1>15, TracedCarries
<1>17. trimmed' \subseteq Nat
  BY <1>1, <1>2, <1>6
<1> QED BY <1>8, <1>11, <1>12, <1>13, <1>14, <1>16, <1>17 DEF DataInv

\* The copy of a version that may be pruned is gone.
LEMMA CopyGone ==
  ASSUME DataInv, CallsQuiet, NEW c \in Calls, NEW p \in call[c].todo,
         vault' = vault \ {p[2]}, UNCHANGED <<rows, made, oldest, start, trimmed>>
  PROVE  DataInv'
<1>1. /\ RowsInv /\ RecordInv /\ TodoInv /\ OldestInv /\ StartInv /\ ReplaceInv
      /\ Prunable(p)
      /\ TodoQuiet /\ RecordQuiet /\ ReplaceQuiet
  BY DEF DataInv, TodoInv, CallsQuiet
<1>2. RowsInv'
  BY <1>1 DEF RowsInv
<1>3. RecordInv'
  BY <1>1 DEF RecordInv, RecordQuiet, TodoQuiet
<1>4. TodoInv'
  <2>1. ASSUME NEW d \in Calls, NEW q \in call'[d].todo PROVE Prunable(q)'
    <3>1. Prunable(q)
      BY <1>1, <2>1 DEF TodoInv, TodoQuiet
    <3> QED BY <3>1 DEF Prunable, Passed, SessionRows, RowsOf
  <2> QED BY <1>1, <2>1 DEF TodoInv, TodoQuiet
<1>5. OldestInv'
  <2>1. ASSUME NEW f \in Files
        PROVE  /\ oldest'[f] = 0 => RowsOf(f)' = {}
               /\ oldest'[f] # 0 => /\ oldest'[f] \in RowsOf(f)'
                                    /\ Restorable(oldest[f])'
                                    /\ \A i \in RowsOf(f)' : oldest'[f] <= i
    <3>1. RowsOf(f)' = RowsOf(f) /\ oldest'[f] = oldest[f]
      BY DEF RowsOf
    <3>2. oldest[f] # 0 => oldest[f] \in DOMAIN rows /\ rows[oldest[f]].dest \in vault
      BY <1>1 DEF OldestInv, Restorable
    <3>3. oldest[f] # 0 => rows[oldest[f]].dest # p[2]
      BY <1>1, <3>2 DEF Prunable
    <3>4. oldest[f] # 0 => Restorable(oldest[f])'
      BY <3>2, <3>3 DEF Restorable
    <3> QED BY <1>1, <3>1, <3>4 DEF OldestInv
  <2> QED BY <2>1 DEF OldestInv, Restorable
<1>6. ASSUME NEW s \in Nat, NEW x \in Sessions, NEW f \in Files, Traced(s, x, f)
      PROVE  Traced(s, x, f)'
  <2>1. CASE Passed(s, x, f)
    BY <2>1 DEF Traced, Passed, SessionRows, RowsOf
  <2>2. CASE s \in SessionRows(x, f) /\ rows[s].dest \in vault /\ rows[s].dest # p[2]
    BY <2>2 DEF Traced, SessionRows, RowsOf
  <2>3. CASE s \in SessionRows(x, f) /\ rows[s].dest = p[2]
    <3>1. s \in DOMAIN rows
      BY <2>3 DEF SessionRows, RowsOf
    <3>2. s = p[1]
      BY <1>1, <2>3, <3>1 DEF Prunable
    <3>3. Passed(s, x, f)
      BY <1>1, <2>3, <3>2 DEF Prunable
    <3> QED BY <2>1, <3>3
  <2> QED BY <1>6, <2>1, <2>2, <2>3 DEF Traced
<1>7. StartInv' /\ ReplaceInv'
  BY <1>1, <1>6, TracedCarries
<1> QED BY <1>2, <1>3, <1>4, <1>5, <1>7 DEF DataInv

LEMMA RemoveStep ==
  ASSUME IInv, NEW c \in Calls, RemoveCopy(c) \/ SkipCopy(c)
  PROVE  CallsTyped /\ vault' \subseteq vault /\ DataInv'
<1> DEFINE todo == call[c].todo
           p == NewestOf(todo)
           r == [call[c] EXCEPT !.pc = "forget"]
<1>1. /\ call \in [Calls -> CallRecord] /\ \A d \in Calls : CallShape(call[d])
      /\ TypeOK /\ TodoInv
  BY TypesOfCalls DEF IInv, TypeOK, DataInv
<1>2. /\ call[c].pc = "prune"
      /\ UNCHANGED <<rows, made, oldest, start, trimmed>>
  BY DEF RemoveCopy, SkipCopy, History
<1>3. todo \in SUBSET (Nat \X Nat) /\ todo # {}
  BY <1>1, <1>2 DEF CallShape, CallRecord, TodoInv
<1>4. p \in todo
  BY <1>1, <1>3, NewestIsThere
<1> HIDE DEF p
<1>5. CASE RemoveCopy(c)
  <2>1. call' = [call EXCEPT ![c] = r] /\ vault' = vault \ {p[2]}
    BY <1>5 DEF RemoveCopy, Moves, Becomes, p
  <2>2. CallShape(r) /\ r.pc = "forget" /\ r.todo = todo
    <3>1. "forget" \in CallStates /\ call[c] \in CallRecord
      BY <1>1 DEF CallStates
    <3>2. r \in CallRecord /\ r.pc = "forget" /\ r.todo = todo
      BY <3>1, Fields
    <3> HIDE DEF r
    <3> QED BY <3>2 DEF CallShape
  <2> HIDE DEF r
  <2>3. CallsTyped /\ call'[c] = r /\ \A d \in Calls \ {c} : call'[d] = call[d]
    BY <1>1, <2>1, <2>2, BecomesTyped DEF CallsTyped
  <2>4. ASSUME NEW d \in Calls
        PROVE  /\ call'[d].todo \subseteq call[d].todo
               /\ call'[d].pc \in {"prune", "forget"} => call'[d].todo # {}
               /\ call'[d].pc \in {"record", "replace"} => call'[d] = call[d]
    <3>1. CASE d = c
      BY <1>3, <2>2, <2>3, <3>1
    <3>2. CASE d # c
      <4>1. call'[d] = call[d]
        BY <2>3, <3>2
      <4> QED BY <1>1, <4>1, TodoKept
    <3> QED BY <3>1, <3>2
  <2>5. CallsQuiet
    BY <2>4 DEF CallsQuiet, TodoQuiet, RecordQuiet, ReplaceQuiet
  <2>6. DataInv'
    BY <1>2, <1>4, <2>1, <2>5, CopyGone DEF IInv
  <2> QED BY <2>1, <2>3, <2>6
<1>6. CASE SkipCopy(c)
  <2>1. Pruning(c, todo \ {p}) /\ vault' \in {vault, vault \ {p[2]}}
    BY <1>6 DEF SkipCopy, p
  <2>2. /\ CallsTyped /\ call'[c].todo = todo \ {p}
        /\ call'[c].pc \in {"idle", "prune"}
        /\ call'[c].pc = "prune" => todo \ {p} # {}
        /\ \A d \in Calls \ {c} : call'[d] = call[d]
    BY <1>1, <1>3, <2>1, PruningCalls
  <2>3. CallsQuiet
    BY <1>1, <2>2, PartPruned
  <2>4. CASE vault' = vault
    BY <1>2, <2>2, <2>3, <2>4, QuietStep DEF IInv, Versions
  <2>5. CASE vault' = vault \ {p[2]}
    BY <1>2, <1>4, <2>2, <2>3, <2>5, CopyGone DEF IInv
  <2> QED BY <2>1, <2>4, <2>5
<1> QED BY <1>5, <1>6

LEMMA ForgetStep ==
  ASSUME IInv, NEW c \in Calls, ForgetVersion(c)
  PROVE  /\ CallsTyped
         /\ IsFiniteSet(DOMAIN rows') /\ DOMAIN rows' \subseteq Nat \ {0}
         /\ rows' \in [DOMAIN rows' -> Version]
         /\ DataInv'
<1> DEFINE todo == call[c].todo
           p == NewestOf(todo)
<1>1. /\ \A d \in Calls : CallShape(call[d])
      /\ IsFiniteSet(DOMAIN rows) /\ DOMAIN rows \subseteq Nat \ {0}
      /\ rows \in [DOMAIN rows -> Version] /\ trimmed \subseteq Nat
      /\ RowsInv /\ RecordInv /\ TodoInv /\ OldestInv /\ StartInv /\ ReplaceInv
      /\ TypeOK
  BY TypesOfCalls DEF IInv, TypeOK, DataInv
<1>2. /\ call[c].pc = "forget"
      /\ rows' = [i \in DOMAIN rows \ {p[1]} |-> rows[i]]
      /\ Pruning(c, todo \ {p}) \/ Pruning(c, {})
      /\ UNCHANGED <<vault, made, oldest, start, trimmed>>
  BY DEF ForgetVersion
<1>3. todo \in SUBSET (Nat \X Nat) /\ todo # {}
  BY <1>1, <1>2 DEF CallShape, CallRecord, TodoInv
<1>4. p \in todo
  BY <1>1, <1>3, NewestIsThere
<1> HIDE DEF p
<1>5. /\ CallsTyped /\ call'[c].todo \subseteq todo
      /\ call'[c].pc \in {"idle", "prune"}
      /\ call'[c].pc = "prune" => call'[c].todo # {}
      /\ \A d \in Calls \ {c} : call'[d] = call[d]
  <2>1. PICK left \in SUBSET (Nat \X Nat) : left \subseteq todo /\ Pruning(c, left)
    BY <1>2, <1>3
  <2> QED BY <1>1, <2>1, PruningCalls
<1>6. CallsQuiet
  BY <1>1, <1>5, PartPruned
<1>7. DOMAIN rows' = DOMAIN rows \ {p[1]} /\ \A i \in DOMAIN rows' : rows'[i] = rows[i]
  BY <1>2
<1>8. /\ IsFiniteSet(DOMAIN rows') /\ DOMAIN rows' \subseteq Nat \ {0}
      /\ rows' \in [DOMAIN rows' -> Version]
  <2>1. IsFiniteSet(DOMAIN rows \ {p[1]})
    BY <1>1, FS_RemoveElement
  <2>2. \A i \in DOMAIN rows \ {p[1]} : rows[i] \in Version
    BY <1>1
  <2> QED BY <1>1, <1>2, <1>7, <2>1, <2>2
<1>9. Prunable(p) /\ p[1] \in Nat
  BY <1>1, <1>3, <1>4 DEF TodoInv
<1>10. \A j, f : j \in RowsOf(f)' <=> j \in RowsOf(f) /\ j # p[1]
  BY <1>7 DEF RowsOf
<1>11. \A j, x, f : j \in SessionRows(x, f)' <=> j \in SessionRows(x, f) /\ j # p[1]
  <2>1. \A j, f : j \in RowsOf(f)' => j \in DOMAIN rows'
    BY DEF RowsOf
  <2> QED BY <1>7, <1>10, <2>1 DEF SessionRows
<1>12. \A x, f : SessionRows(x, f) \subseteq Nat
  BY <1>1 DEF SessionRows, RowsOf
\* Where the version that goes was the reason, its own reason takes its place.
<1>13. ASSUME NEW s \in Nat, NEW x \in Sessions, NEW f \in Files, Passed(s, x, f)
       PROVE  Passed(s, x, f)'
  <2>1. CASE \E j \in trimmed : j <= s
    BY <1>2, <2>1 DEF Passed
  <2>2. CASE \E j \in SessionRows(x, f) : j < s /\ j # p[1]
    BY <1>11, <2>2 DEF Passed
  <2>3. CASE p[1] \in SessionRows(x, f) /\ p[1] < s
    <3>1. Passed(p[1], x, f)
      BY <1>9, <2>3 DEF Prunable
    <3>2. CASE \E j \in trimmed : j <= p[1]
      <4>1. PICK j \in trimmed : j <= p[1]
        BY <3>2
      <4>2. j <= s
        BY <1>1, <1>9, <2>3, <4>1
      <4> QED BY <2>1, <4>2
    <3>3. CASE \E j \in SessionRows(x, f) : j < p[1]
      <4>1. PICK j \in SessionRows(x, f) : j < p[1]
        BY <3>3
      <4>2. j < s /\ j # p[1]
        BY <1>9, <1>12, <2>3, <4>1
      <4> QED BY <2>2, <4>2
    <3> QED BY <3>1, <3>2, <3>3 DEF Passed
  <2> QED BY <1>13, <2>1, <2>2, <2>3 DEF Passed
<1>14. RowsInv'
  BY <1>1, <1>2, <1>7 DEF RowsInv
<1>15. RecordInv'
  BY <1>1, <1>2, <1>6, <1>7 DEF RecordInv, CallsQuiet, RecordQuiet, TodoQuiet
<1>16. TodoInv'
  <2>1. ASSUME NEW d \in Calls, NEW q \in call'[d].todo PROVE Prunable(q)'
    <3>1. Prunable(q) /\ q \in call[d].todo
      BY <1>1, <1>6, <2>1 DEF TodoInv, CallsQuiet, TodoQuiet
    <3>2. q[1] \in Nat
      <4>1. q \in Nat \X Nat
        BY <1>1, <3>1 DEF CallShape, CallRecord
      <4> QED BY <4>1
    <3>3. \E m \in DOMAIN rows' : q[1] < m
      <4>1. PICK m \in DOMAIN rows : q[1] < m
        BY <3>1 DEF Prunable
      <4>2. CASE m # p[1]
        BY <1>7, <4>1, <4>2
      <4>3. CASE m = p[1]
        <5>1. PICK n \in DOMAIN rows : p[1] < n
          BY <1>9 DEF Prunable
        <5>2. n \in Nat /\ n # p[1] /\ q[1] < n
          BY <1>1, <1>9, <3>2, <4>1, <4>3, <5>1
        <5> QED BY <1>7, <5>2
      <4> QED BY <4>2, <4>3
    <3>4. \A i \in DOMAIN rows' : rows'[i].dest = q[2] => i = q[1]
      BY <1>7, <3>1 DEF Prunable
    <3>5. \A x \in Sessions, f \in Files :
            q[1] \in SessionRows(x, f)' => Passed(q[1], x, f)'
      BY <1>11, <1>13, <3>1, <3>2 DEF Prunable
    <3> QED BY <1>2, <3>1, <3>3, <3>4, <3>5 DEF Prunable
  <2> QED BY <1>6, <2>1 DEF TodoInv, CallsQuiet, TodoQuiet
<1>17. OldestInv'
  <2>1. ASSUME NEW f \in Files
        PROVE  /\ oldest'[f] = 0 => RowsOf(f)' = {}
               /\ oldest'[f] # 0 => /\ oldest'[f] \in RowsOf(f)'
                                    /\ oldest'[f] \in DOMAIN rows'
                                    /\ rows'[oldest'[f]].dest \in vault'
                                    /\ \A i \in RowsOf(f)' : oldest'[f] <= i
    <3>1. oldest'[f] = oldest[f] /\ oldest[f] # p[1]
      BY <1>2, <1>9 DEF Prunable
    <3>2. CASE oldest[f] = 0
      <4>1. RowsOf(f) = {}
        BY <1>1, <3>2 DEF OldestInv
      <4> QED BY <1>10, <3>1, <3>2, <4>1
    <3>3. CASE oldest[f] # 0
      <4>1. /\ oldest[f] \in RowsOf(f) /\ oldest[f] \in DOMAIN rows
            /\ rows[oldest[f]].dest \in vault
            /\ \A i \in RowsOf(f) : oldest[f] <= i
        BY <1>1, <3>3 DEF OldestInv, Restorable
      <4> QED BY <1>2, <1>7, <1>10, <3>1, <3>3, <4>1
    <3> QED BY <3>2, <3>3
  <2> QED BY <2>1 DEF OldestInv, Restorable
<1>18. ASSUME NEW s \in Nat, NEW x \in Sessions, NEW f \in Files, Traced(s, x, f)
       PROVE  Traced(s, x, f)'
  <2>1. CASE Passed(s, x, f)
    BY <1>13, <2>1 DEF Traced
  <2>2. CASE s \in SessionRows(x, f) /\ rows[s].dest \in vault /\ s # p[1]
    <3>1. s \in DOMAIN rows'
      BY <1>7, <2>2 DEF SessionRows, RowsOf
    <3> QED BY <1>2, <1>7, <1>11, <2>2, <3>1 DEF Traced
  <2>3. CASE s \in SessionRows(x, f) /\ s = p[1]
    <3>1. Passed(s, x, f)
      BY <1>9, <2>3 DEF Prunable
    <3> QED BY <2>1, <3>1
  <2> QED BY <1>18, <2>1, <2>2, <2>3 DEF Traced
<1>19. StartInv' /\ ReplaceInv'
  BY <1>1, <1>2, <1>6, <1>18, TracedCarries DEF CallsQuiet
<1> QED BY <1>5, <1>8, <1>14, <1>15, <1>16, <1>17, <1>19 DEF DataInv

-----------------------------------------------------------------------------
(* Theorems *)

\* The global cap leaves room for a version of each file: the code has 1000.
CapHoldsAllFiles == IsFiniteSet(Files) /\ Cardinality(Files) < GlobalCap

LEMMA InitInv == Init => IInv
<1> SUFFICES ASSUME Init PROVE IInv
  OBVIOUS
<1> USE LimitsAssumption
<1>1. /\ disk \in [Files -> Texts] /\ vault = {} /\ made = 0
      /\ rows = [i \in {} |-> None] /\ call = [c \in Calls |-> Idle]
      /\ oldest = [f \in Files |-> 0] /\ start = [p \in Sessions \X Files |-> 0]
      /\ trimmed = {} /\ events = 0
  BY DEF Init
<1>2. DOMAIN rows = {} /\ IsFiniteSet(DOMAIN rows)
  BY <1>1, FS_EmptySet
<1>3. /\ \A c \in Calls : call[c] = Idle /\ CallShape(call[c])
      /\ call \in [Calls -> CallRecord]
  BY <1>1, IdleShape DEF CallShape
<1>4. TypeOK
  <2>1. rows \in [DOMAIN rows -> Version]
    BY <1>1
  <2>2. made \in 0..MaxCopies /\ events \in 0..MaxEvents
    BY <1>1
  <2> QED BY <1>1, <1>2, <1>3, <2>1, <2>2 DEF TypeOK, CallShape
<1>5. \A f : RowsOf(f) = {}
  BY <1>2 DEF RowsOf
<1>6. RowsInv /\ OldestInv /\ StartInv
  BY <1>1, <1>2, <1>5 DEF RowsInv, OldestInv, StartInv
<1>7. RecordInv /\ TodoInv /\ ReplaceInv
  BY <1>3, IdleShape DEF RecordInv, TodoInv, ReplaceInv
<1> QED BY <1>4, <1>6, <1>7 DEF IInv, DataInv

\* The bound on interferences.
LEMMA EventsTyped ==
  ASSUME TypeOK, [Next]_vars
  PROVE  events' \in 0..MaxEvents
<1>1. events \in 0..MaxEvents /\ MaxEvents \in Nat
  BY LimitsAssumption DEF TypeOK
<1>2. ASSUME NEW kind, Event(kind) PROVE events' \in 0..MaxEvents
  BY <1>1, <1>2 DEF Event
<1>3. ASSUME UNCHANGED events PROVE events' \in 0..MaxEvents
  BY <1>1, <1>3
<1>4. CASE UNCHANGED vars
  BY <1>3, <1>4 DEF vars
<1>5. CASE \E f \in Files, t \in Texts : OtherProgram(f, t)
  BY <1>2, <1>5 DEF OtherProgram
<1>6. CASE Crash
  BY <1>2, <1>6 DEF Crash
<1>7. ASSUME NEW c \in Calls, Command(c) PROVE events' \in 0..MaxEvents
  BY <1>3, <1>7 DEF Command, SaveText, ApplySuggestion, UndoSession, Restore, History
<1>8. ASSUME NEW c \in Calls, Proceed(c) PROVE events' \in 0..MaxEvents
  <2>1. CASE GiveUp(c) \/ SkipCopy(c) \/ ForgetVersion(c)
    BY <1>2, <1>3, <2>1 DEF GiveUp, SkipCopy, ForgetVersion
  <2>2. CASE LoadVersion(c) \/ CopyBefore(c) \/ RecordVersion(c) \/ ReplaceFile(c)
    BY <1>3, <2>2 DEF LoadVersion, CopyBefore, RecordVersion, ReplaceFile, History
  <2>3. CASE ReadBack(c) \/ Confirm(c) \/ Refused(c) \/ SelectDoomed(c) \/ RemoveCopy(c)
    BY <1>3, <2>3 DEF ReadBack, Confirm, Refused, SelectDoomed, RemoveCopy, History
  <2> QED BY <1>8, <2>1, <2>2, <2>3 DEF Proceed
<1> QED BY <1>4, <1>5, <1>6, <1>7, <1>8 DEF Next

LEMMA NextInv ==
  ASSUME IInv, [Next]_vars, CapHoldsAllFiles
  PROVE  IInv'
<1>1. /\ disk \in [Files -> Texts]
      /\ IsFiniteSet(DOMAIN rows) /\ DOMAIN rows \subseteq Nat \ {0}
      /\ rows \in [DOMAIN rows -> Version]
      /\ made \in 0..MaxCopies /\ vault \subseteq 1..made
      /\ call \in [Calls -> CallRecord] /\ \A d \in Calls : CallShape(call[d])
      /\ oldest \in [Files -> Nat] /\ start \in [Sessions \X Files -> Nat]
      /\ trimmed \subseteq Nat
      /\ TypeOK /\ DataInv /\ TodoInv
  BY TypesOfCalls DEF IInv, TypeOK, DataInv
<1>2. events' \in 0..MaxEvents
  BY <1>1, EventsTyped
\* What types the next state, once the parts a step changes are typed.
<1>3. ASSUME disk' \in [Files -> Texts],
             IsFiniteSet(DOMAIN rows'), DOMAIN rows' \subseteq Nat \ {0},
             rows' \in [DOMAIN rows' -> Version],
             made' \in 0..MaxCopies, vault' \subseteq 1..made', CallsTyped,
             oldest' \in [Files -> Nat], start' \in [Sessions \X Files -> Nat],
             trimmed' \subseteq Nat, DataInv'
      PROVE  IInv'
  <2>1. TypeOK'
    BY <1>2, <1>3 DEF TypeOK, CallsTyped, CallShape
  <2> QED BY <1>3, <2>1 DEF IInv
<1>4. ASSUME CallsTyped, CallsQuiet, UNCHANGED Versions, disk' \in [Files -> Texts]
      PROVE  IInv'
  <2>1. UNCHANGED <<rows, vault, made, oldest, start, trimmed>>
    BY <1>4 DEF Versions
  <2>2. DataInv'
    BY <1>1, <1>4, QuietStep
  <2> QED BY <1>1, <1>3, <1>4, <2>1, <2>2
<1>5. CASE UNCHANGED vars
  <2>1. UNCHANGED <<disk, call>> /\ UNCHANGED Versions
    BY <1>5 DEF vars, Versions
  <2>2. CallsTyped
    BY <1>1, <2>1 DEF CallsTyped
  <2>3. CallsQuiet
    BY <1>1, <2>1, TodoKept DEF CallsQuiet, TodoQuiet, RecordQuiet, ReplaceQuiet
  <2> QED BY <1>1, <1>4, <2>1, <2>2, <2>3
<1>6. CASE Crash \/ \E f \in Files, t \in Texts : OtherProgram(f, t)
  <2>1. CallsTyped /\ CallsQuiet /\ UNCHANGED Versions
    BY <1>1, <1>6, OutsideStep
  <2>2. disk' \in [Files -> Texts]
    BY <1>1, <1>6 DEF Crash, OtherProgram
  <2> QED BY <1>4, <2>1, <2>2
<1>7. ASSUME NEW c \in Calls, Command(c) \/ Proceed(c) PROVE IInv'
  <2>1. CASE Command(c) \/ LoadVersion(c) \/ ReadBack(c) \/ Refused(c) \/ GiveUp(c)
    <3>1. CallsTyped /\ CallsQuiet /\ UNCHANGED <<disk, Versions>>
      BY <1>1, <2>1, ReadingStep
    <3>2. UNCHANGED disk /\ UNCHANGED Versions
      BY <3>1
    <3> QED BY <1>1, <1>4, <3>1, <3>2
  <2>2. CASE CopyBefore(c)
    <3>1. /\ CallsTyped /\ made' \in 0..MaxCopies /\ vault' \subseteq 1..made'
          /\ DataInv'
      BY <2>2, CopyStep
    <3>2. UNCHANGED <<disk, rows, oldest, start, trimmed>>
      BY <2>2 DEF CopyBefore, History
    <3> QED BY <1>1, <1>3, <3>1, <3>2
  <2>3. CASE RecordVersion(c)
    <3>1. /\ CallsTyped /\ oldest' \in [Files -> Nat]
          /\ IsFiniteSet(DOMAIN rows') /\ DOMAIN rows' \subseteq Nat \ {0}
          /\ rows' \in [DOMAIN rows' -> Version] /\ DataInv'
      BY <2>3, RecordStep
    <3>2. UNCHANGED <<disk, vault, made, start, trimmed>>
      BY <2>3 DEF RecordVersion
    <3> QED BY <1>1, <1>3, <3>1, <3>2
  <2>4. CASE ReplaceFile(c)
    <3>1. /\ CallsTyped /\ disk' \in [Files -> Texts]
          /\ start' \in [Sessions \X Files -> Nat] /\ DataInv'
      BY <2>4, ReplaceStep
    <3>2. UNCHANGED <<rows, vault, made, oldest, trimmed>>
      BY <2>4 DEF ReplaceFile
    <3> QED BY <1>1, <1>3, <3>1, <3>2
  <2>5. CASE Confirm(c)
    <3>1. /\ CallsTyped
          /\ IsFiniteSet(DOMAIN rows') /\ DOMAIN rows' \subseteq Nat \ {0}
          /\ rows' \in [DOMAIN rows' -> Version] /\ DataInv'
      BY <2>5, ConfirmStep
    <3>2. UNCHANGED <<disk, vault, made, oldest, start, trimmed>>
      BY <2>5 DEF Confirm, History
    <3> QED BY <1>1, <1>3, <3>1, <3>2
  <2>6. CASE SelectDoomed(c)
    <3>1. CallsTyped /\ trimmed' \subseteq Nat /\ DataInv'
      <4>1. GlobalCap > Cardinality(Files)
        <5>1. Cardinality(Files) < GlobalCap /\ IsFiniteSet(Files)
          BY DEF CapHoldsAllFiles
        <5>2. Cardinality(Files) \in Nat /\ GlobalCap \in Nat
          BY <5>1, FS_CardinalityType, LimitsAssumption
        <5> QED BY <5>1, <5>2
      <4> QED BY <2>6, <4>1, SelectStep DEF CapHoldsAllFiles
    <3>2. UNCHANGED <<disk, rows, vault, made, oldest, start>>
      BY <2>6 DEF SelectDoomed
    <3> QED BY <1>1, <1>3, <3>1, <3>2
  <2>7. CASE RemoveCopy(c) \/ SkipCopy(c)
    <3>1. CallsTyped /\ vault' \subseteq vault /\ DataInv'
      BY <2>7, RemoveStep
    <3>2. UNCHANGED <<disk, rows, made, oldest, start, trimmed>>
      BY <2>7 DEF RemoveCopy, SkipCopy, History
    <3> QED BY <1>1, <1>3, <3>1, <3>2
  <2>8. CASE ForgetVersion(c)
    <3>1. /\ CallsTyped
          /\ IsFiniteSet(DOMAIN rows') /\ DOMAIN rows' \subseteq Nat \ {0}
          /\ rows' \in [DOMAIN rows' -> Version] /\ DataInv'
      BY <2>8, ForgetStep
    <3>2. UNCHANGED <<disk, vault, made, oldest, start, trimmed>>
      BY <2>8 DEF ForgetVersion
    <3> QED BY <1>1, <1>3, <3>1, <3>2
  <2> QED BY <1>7, <2>1, <2>2, <2>3, <2>4, <2>5, <2>6, <2>7, <2>8 DEF Proceed
<1> QED BY <1>5, <1>6, <1>7 DEF Next

\* The inductive invariant: what a thread that prunes has selected is still
\* what it selected, whatever other saves, restores, prunes, failures and
\* crashes come between (edit_snapshot.rs, prune_snapshots).
THEOREM Invariance ==
  ASSUME CapHoldsAllFiles
  PROVE  Spec => []IInv
<1>1. Init => IInv
  BY InitInv
<1>2. IInv /\ [Next]_vars => IInv'
  BY NextInv
<1> QED BY <1>1, <1>2, PTL DEF Spec

\* Every variable has its type.
THEOREM TypesKept ==
  ASSUME CapHoldsAllFiles
  PROVE  Spec => []TypeOK
<1>1. IInv => TypeOK
  BY DEF IInv
<1> QED BY <1>1, Invariance, PTL

\* The version a file had before its first in-app edit stays restorable, and
\* so does the version before the first edit of a session, which undo restores,
\* unless the code gives it up: whatever threads save and prune at once.
THEOREM FirstVersionsStay ==
  ASSUME CapHoldsAllFiles
  PROVE  Spec => []FirstVersionsKept
<1>1. ASSUME IInv PROVE FirstVersionsKept
  <2>1. /\ DOMAIN rows \subseteq Nat \ {0} /\ start \in [Sessions \X Files -> Nat]
        /\ trimmed \subseteq Nat /\ OldestInv /\ StartInv
    BY <1>1 DEF IInv, TypeOK, DataInv
  <2>2. OriginalKept
    BY <2>1 DEF OldestInv, OriginalKept
  <2>3. ASSUME NEW x \in Sessions, NEW f \in Files, NEW s \in Nat,
               s = start[<<x, f>>], s # 0,
               \A i \in SessionRows(x, f) : i >= s,
               \A j \in trimmed : j > s
        PROVE  Restorable(s) /\ (rows[s].status = "saved" => s = Min(Undoable(x, f)))
    <3>1. SessionRows(x, f) \subseteq Nat
      BY <2>1 DEF SessionRows, RowsOf
    <3>2. Traced(s, x, f)
      BY <2>1, <2>3 DEF StartInv
    <3>3. ~Passed(s, x, f)
      <4>1. \A j \in trimmed : ~(j <= s)
        BY <2>1, <2>3
      <4>2. \A j \in SessionRows(x, f) : ~(j < s)
        BY <2>3, <3>1
      <4> QED BY <4>1, <4>2 DEF Passed
    <3>4. s \in SessionRows(x, f) /\ rows[s].dest \in vault
      BY <3>2, <3>3 DEF Traced
    <3>5. Restorable(s)
      BY <3>4 DEF Restorable, SessionRows, RowsOf
    <3>6. ASSUME rows[s].status = "saved" PROVE s = Min(Undoable(x, f))
      <4>1. s \in Undoable(x, f) /\ Undoable(x, f) \in SUBSET Nat
        BY <3>1, <3>4, <3>6 DEF Undoable
      <4>2. ASSUME NEW i \in Undoable(x, f) PROVE s <= i
        <5>1. i \in SessionRows(x, f) /\ i \in Nat
          BY <3>1 DEF Undoable
        <5> QED BY <2>3, <5>1
      <4> QED BY <4>1, <4>2, LeastIsMin
    <3> QED BY <3>5, <3>6
  <2>4. SessionStartKept
    <3>1. ASSUME NEW x \in Sessions, NEW f \in Files PROVE start[<<x, f>>] \in Nat
      BY <2>1
    <3> QED BY <2>3, <3>1 DEF SessionStartKept
  <2> QED BY <2>2, <2>4 DEF FirstVersionsKept
<1> QED BY <1>1, Invariance, PTL

-----------------------------------------------------------------------------
(* Versions that lost their copy, and saves under way *)

NewerIn(f, i) == {j \in RowsOf(f) : j > i}

\* Pruning may pass over version i of the file: enough newer ones are there.
Crowded(i, f) == Cardinality(NewerIn(f, i)) >= PerFile

\* A version that a prune may take stays one, but for what the cap does: each
\* reason it was selected for is still there, or the cap has taken a version
\* that was the reason.
HasOlder(i) == \E j \in RowsOf(rows[i].file) : j < i

FollowsSession(i) ==
  \/ rows[i].session = None
  \/ \E j \in SessionRows(rows[i].session, rows[i].file) : j < i
  \/ \E j \in trimmed : j < i

Spent(i) ==
  \/ i \in trimmed
  \/ /\ HasOlder(i) /\ FollowsSession(i)
     /\ Crowded(i, rows[i].file) \/ \E j \in trimmed : j > i

TornInv ==
  /\ \A i \in DOMAIN rows : rows[i].dest \notin vault => Spent(i)
  /\ \A c \in Calls : \A p \in call[c].todo :
       p[1] \in DOMAIN rows => rows[p[1]].dest = p[2] /\ Spent(p[1])

\* Version i of a file holds t, unless pruning may have passed it over.
Holds(i, f, t) ==
  \/ Restorable(i) /\ rows[i].file = f /\ rows[i].text = t
  \/ Crowded(i, f)
  \/ \E j \in trimmed : j >= i

\* What a save has read is still there if nobody overtook it.
Underway == {"copy", "record", "replace"}

Fresh(r, now) ==
  r.pc \in Underway /\ ~r.overtaken =>
    r.before = now[r.file] /\ r.expected \in {None, r.before}

ReadInv == \A c \in Calls : Fresh(call[c], disk)

SavedInv ==
  \A c \in Calls :
    call[c].pc = "replace" => Holds(call[c].id, call[c].file, call[c].before)

KInv == IInv /\ TornInv /\ ReadInv /\ SavedInv

\* The first of its file, or of its session, has no version before it.
LEMMA EarliestMeans ==
  ASSUME DOMAIN rows \subseteq Nat \ {0}, NEW i \in DOMAIN rows
  PROVE  /\ EarliestOfFile(i) => ~HasOlder(i)
         /\ ~EarliestOfFile(i) => HasOlder(i)
         /\ rows[i].session # None =>
              (EarliestOfSession(i) <=>
                 ~\E j \in SessionRows(rows[i].session, rows[i].file) : j < i)
<1> DEFINE R == RowsOf(rows[i].file)
           S == SessionRows(rows[i].session, rows[i].file)
<1>1. /\ R \in SUBSET Nat /\ i \in R /\ S \in SUBSET Nat /\ i \in S /\ i \in Nat
  BY DEF RowsOf, SessionRows
<1>2. ASSUME NEW T \in SUBSET Nat, i \in T
      PROVE  i = Min(T) <=> ~\E j \in T : j < i
  <2>1. CASE i = Min(T)
    <3>1. \A j \in T : Min(T) <= j
      BY <1>2, MinIsLeast
    <3> QED BY <1>1, <1>2, <2>1, <3>1
  <2>2. CASE ~\E j \in T : j < i
    <3>1. \A j \in T : i <= j
      BY <1>1, <1>2, <2>2
    <3> QED BY <1>2, <2>2, <3>1, LeastIsMin
  <2> QED BY <2>1, <2>2
<1>3. i = Min(R) <=> ~\E j \in R : j < i
  BY <1>1, <1>2
<1>4. i = Min(S) <=> ~\E j \in S : j < i
  BY <1>1, <1>2
<1> HIDE DEF R, S
<1>5. EarliestOfFile(i) <=> i = Min(R)
  BY DEF EarliestOfFile, R
<1>6. rows[i].session # None => (EarliestOfSession(i) <=> i = Min(S))
  BY DEF EarliestOfSession, S
<1> QED BY <1>3, <1>4, <1>5, <1>6 DEF HasOlder, R, S

\* What is selected for pruning is spent, the choice of the cap included.
LEMMA DoomedIsSpent ==
  ASSUME DOMAIN rows \subseteq Nat \ {0}, IsFiniteSet(DOMAIN rows),
         NEW i \in DOMAIN rows, i \in Doomed, i \notin OverCap
  PROVE  /\ HasOlder(i) /\ Crowded(i, rows[i].file)
         /\ rows[i].session # None =>
              \E j \in SessionRows(rows[i].session, rows[i].file) : j < i
<1>1. ~(Cardinality(Newer(i)) < PerFile) /\ ~EarliestOfFile(i) /\ ~EarliestOfSession(i)
  BY DEF Doomed, Kept
<1>2. Newer(i) = NewerIn(rows[i].file, i)
  BY DEF Newer, NewerIn
<1>3. Cardinality(Newer(i)) \in Nat
  <2>1. Newer(i) \subseteq DOMAIN rows
    BY DEF Newer, RowsOf
  <2> QED BY <2>1, FS_Subset, FS_CardinalityType
<1>4. Crowded(i, rows[i].file)
  BY <1>1, <1>2, <1>3, LimitsAssumption DEF Crowded
<1> QED BY <1>1, <1>4, EarliestMeans

\* A spent version may be pruned, or the cap has taken its part.
LEMMA SpentMeans ==
  ASSUME DOMAIN rows \subseteq Nat \ {0}, IsFiniteSet(DOMAIN rows),
         NEW i \in DOMAIN rows, Spent(i)
  PROVE  \/ i \in Doomed
         \/ \E j \in trimmed :
              \/ j = i
              \/ j < i /\ EarliestOfSession(i)
              \/ j > i /\ Cardinality(Newer(i)) < PerFile
<1>1. CASE i \in trimmed
  BY <1>1
<1>2. CASE i \in Kept /\ i \notin trimmed
  <2>1. HasOlder(i) /\ FollowsSession(i)
    BY <1>2 DEF Spent
  <2>2. Crowded(i, rows[i].file) \/ \E j \in trimmed : j > i
    BY <1>2 DEF Spent
  <2>3. Cardinality(Newer(i)) < PerFile \/ EarliestOfSession(i)
    BY <1>2, <2>1, EarliestMeans DEF Kept
  <2>4. CASE Cardinality(Newer(i)) < PerFile
    <3>1. Newer(i) = NewerIn(rows[i].file, i)
      BY DEF Newer, NewerIn
    <3>2. Cardinality(Newer(i)) \in Nat
      <4>1. Newer(i) \subseteq DOMAIN rows
        BY DEF Newer, RowsOf
      <4> QED BY <4>1, FS_Subset, FS_CardinalityType
    <3>3. ~Crowded(i, rows[i].file)
      BY <2>4, <3>1, <3>2, LimitsAssumption DEF Crowded
    <3> QED BY <2>2, <2>4, <3>3
  <2>5. CASE EarliestOfSession(i)
    <3>1. rows[i].session # None
      BY <2>5 DEF EarliestOfSession
    <3>2. \E j \in trimmed : j < i
      BY <2>1, <2>5, <3>1, EarliestMeans DEF FollowsSession
    <3> QED BY <2>5, <3>2
  <2> QED BY <2>3, <2>4, <2>5
<1>3. CASE i \notin Kept
  BY <1>3 DEF Doomed
<1> QED BY <1>1, <1>2, <1>3

\* While versions are only added, and chosen by the cap, what was so stays so.
RowsGrow ==
  /\ IsFiniteSet(DOMAIN rows')
  /\ trimmed \subseteq trimmed'
  /\ DOMAIN rows \subseteq DOMAIN rows'
  /\ \A j \in DOMAIN rows :
       /\ rows'[j].file = rows[j].file /\ rows'[j].session = rows[j].session
       /\ rows'[j].text = rows[j].text /\ rows'[j].dest = rows[j].dest

LEMMA CrowdGrows ==
  ASSUME RowsGrow, IsFiniteSet(DOMAIN rows), NEW i, NEW f, Crowded(i, f)
  PROVE  Crowded(i, f)'
<1>1. NewerIn(f, i) \subseteq NewerIn(f, i)' /\ NewerIn(f, i)' \subseteq DOMAIN rows'
  BY DEF RowsGrow, NewerIn, RowsOf
<1>2. /\ IsFiniteSet(NewerIn(f, i)') /\ IsFiniteSet(NewerIn(f, i))
      /\ Cardinality(NewerIn(f, i)) <= Cardinality(NewerIn(f, i)')
      /\ Cardinality(NewerIn(f, i)) \in Nat /\ Cardinality(NewerIn(f, i)') \in Nat
  BY <1>1, FS_Subset, FS_CardinalityType DEF RowsGrow
<1> DEFINE a == Cardinality(NewerIn(f, i))
           b == Cardinality(NewerIn(f, i)')
<1>3. a <= b /\ a \in Nat /\ b \in Nat /\ a >= PerFile
  BY <1>2 DEF Crowded
<1>4. b >= PerFile
  <2> HIDE DEF a, b
  <2> QED BY <1>3, LimitsAssumption
<1> QED BY <1>4 DEF Crowded

LEMMA SpentGrows ==
  ASSUME RowsGrow, IsFiniteSet(DOMAIN rows), NEW i \in DOMAIN rows, Spent(i)
  PROVE  Spent(i)'
<1>1. CASE i \in trimmed
  BY <1>1 DEF Spent, RowsGrow
<1>2. CASE i \notin trimmed
  <2>1. /\ \A f : RowsOf(f) \subseteq RowsOf(f)'
        /\ \A x, f : SessionRows(x, f) \subseteq SessionRows(x, f)'
        /\ rows'[i].file = rows[i].file /\ rows'[i].session = rows[i].session
        /\ trimmed \subseteq trimmed'
    BY DEF RowsGrow, SessionRows, RowsOf
  <2>2. HasOlder(i) /\ FollowsSession(i)
    BY <1>2 DEF Spent
  <2>3. HasOlder(i)'
    BY <2>1, <2>2 DEF HasOlder
  <2>4. FollowsSession(i)'
    BY <2>1, <2>2 DEF FollowsSession
  <2>5. Crowded(i, rows[i].file) \/ \E j \in trimmed : j > i
    BY <1>2 DEF Spent
  <2>6. Crowded(i, rows[i].file) => Crowded(i, rows[i].file)'
    <3>1. PICK f : f = rows[i].file
      OBVIOUS
    <3>2. Crowded(i, f) => Crowded(i, f)'
      BY CrowdGrows
    <3>3. Crowded(i, f)' <=> Crowded(i, rows[i].file)'
      BY <2>1, <3>1
    <3> QED BY <3>1, <3>2, <3>3
  <2> QED BY <2>1, <2>3, <2>4, <2>5, <2>6 DEF Spent
<1> QED BY <1>1, <1>2

LEMMA HoldsGrow ==
  ASSUME RowsGrow, IsFiniteSet(DOMAIN rows), vault \subseteq vault',
         NEW i, NEW f, NEW t, Holds(i, f, t)
  PROVE  Holds(i, f, t)'
<1>1. CASE Restorable(i) /\ rows[i].file = f /\ rows[i].text = t
  BY <1>1 DEF Holds, Restorable, RowsGrow
<1>2. CASE Crowded(i, f)
  BY <1>2, CrowdGrows DEF Holds
<1>3. CASE \E j \in trimmed : j >= i
  BY <1>3 DEF Holds, RowsGrow
<1> QED BY <1>1, <1>2, <1>3 DEF Holds

\* Versions are added or stay, and no copy goes: what is torn was so before.
LEMMA TornGrows ==
  ASSUME IInv, TornInv, RowsGrow, vault \subseteq vault', TodoQuiet,
         \A j \in DOMAIN rows' \ DOMAIN rows :
           /\ rows'[j].dest \in vault'
           /\ \A m \in DOMAIN rows : m < j
  PROVE  TornInv'
<1>1. IsFiniteSet(DOMAIN rows) /\ DOMAIN rows \subseteq Nat \ {0} /\ TodoInv
  BY DEF IInv, TypeOK, DataInv
<1>2. ASSUME NEW i \in DOMAIN rows', rows'[i].dest \notin vault' PROVE Spent(i)'
  <2>1. i \in DOMAIN rows
    BY <1>2
  <2>2. rows[i].dest \notin vault
    BY <1>2, <2>1 DEF RowsGrow
  <2> QED BY <1>1, <2>1, <2>2, SpentGrows DEF TornInv
<1>3. ASSUME NEW c \in Calls, NEW p \in call'[c].todo, p[1] \in DOMAIN rows'
      PROVE  rows'[p[1]].dest = p[2] /\ Spent(p[1])'
  <2>1. p \in call[c].todo
    BY <1>3 DEF TodoQuiet
  <2>2. PICK n : n = p[1]
    OBVIOUS
  <2>3. n \in DOMAIN rows
    <3>1. SUFFICES ASSUME n \notin DOMAIN rows PROVE FALSE
      OBVIOUS
    <3>2. PICK m \in DOMAIN rows : n < m
      BY <1>1, <2>1, <2>2 DEF TodoInv, Prunable
    <3>3. m < n
      BY <1>3, <2>2, <3>1
    <3>4. CallShape(call[c])
      BY TypesOfCalls DEF IInv
    <3>5. n \in Nat /\ m \in Nat
      BY <1>1, <2>1, <2>2, <3>2, <3>4 DEF CallShape, CallRecord
    <3> QED BY <3>2, <3>3, <3>5
  <2>4. rows[n].dest = p[2] /\ Spent(n)
    BY <2>1, <2>2, <2>3 DEF TornInv
  <2>5. Spent(n)'
    BY <1>1, <2>3, <2>4, SpentGrows
  <2> QED BY <2>2, <2>3, <2>4, <2>5 DEF RowsGrow
<1> QED BY <1>2, <1>3 DEF TornInv

\* A spent version goes: where it was the reason, its own reason takes its place.
RowGoes(u) ==
  /\ DOMAIN rows' = DOMAIN rows \ {u}
  /\ \A j \in DOMAIN rows' : rows'[j] = rows[j]
  /\ UNCHANGED <<vault, trimmed, oldest>>

LEMMA CrowdOutlives ==
  ASSUME TypeOK, NEW u \in Nat, RowGoes(u), u \in DOMAIN rows => Spent(u),
         NEW i \in Nat, NEW f, Crowded(i, f)
  PROVE  Crowded(i, f)' \/ \E j \in trimmed' : j > i
<1>1. /\ IsFiniteSet(DOMAIN rows) /\ DOMAIN rows \subseteq Nat \ {0}
      /\ trimmed \subseteq Nat /\ trimmed' = trimmed
  BY DEF TypeOK, RowGoes
<1>2. \A n : NewerIn(f, n)' = NewerIn(f, n) \ {u}
  BY DEF RowGoes, NewerIn, RowsOf
<1>3. CASE u \notin NewerIn(f, i)
  BY <1>2, <1>3 DEF Crowded
<1>4. CASE u \in NewerIn(f, i)
  <2>1. u > i /\ u \in DOMAIN rows /\ rows[u].file = f
    BY <1>4 DEF NewerIn, RowsOf
  <2>2. u \in trimmed \/ Crowded(u, f) \/ \E j \in trimmed : j > u
    BY <2>1 DEF Spent
  <2>3. CASE u \in trimmed
    BY <1>1, <2>1, <2>3
  <2>4. CASE \E j \in trimmed : j > u
    <3>1. PICK j \in trimmed : j > u
      BY <2>4
    <3>2. j > i
      BY <1>1, <2>1, <3>1
    <3> QED BY <1>1, <3>1, <3>2
  <2>5. CASE Crowded(u, f)
    <3> DEFINE A == NewerIn(f, u)
               B == NewerIn(f, i)'
    <3>1. /\ RowsOf(f) \subseteq Nat
      BY <1>1 DEF RowsOf
    <3>2. A \subseteq B /\ B \subseteq DOMAIN rows
      <4>1. B = NewerIn(f, i) \ {u}
        BY <1>2
      <4>2. ASSUME NEW j \in A PROVE j \in NewerIn(f, i) /\ j # u
        <5>1. j \in RowsOf(f) /\ j > u /\ j \in Nat
          BY <3>1 DEF NewerIn
        <5>2. j > i /\ j # u
          BY <2>1, <5>1
        <5> QED BY <5>1, <5>2 DEF NewerIn
      <4>3. NewerIn(f, i) \subseteq DOMAIN rows
        BY DEF NewerIn, RowsOf
      <4> QED BY <4>1, <4>2, <4>3
    <3>3. Cardinality(A) >= PerFile
      BY <2>5 DEF Crowded
    <3> HIDE DEF A, B
    <3>4. /\ Cardinality(A) <= Cardinality(B)
          /\ Cardinality(A) \in Nat /\ Cardinality(B) \in Nat
      BY <1>1, <3>2, FS_Subset, FS_CardinalityType
    <3>5. Cardinality(B) >= PerFile
      BY <3>3, <3>4, LimitsAssumption
    <3> QED BY <3>5 DEF Crowded, B
  <2> QED BY <2>2, <2>3, <2>4, <2>5
<1> QED BY <1>3, <1>4

LEMMA SpentOutlives ==
  ASSUME IInv, NEW c \in Calls, NEW p \in call[c].todo, RowGoes(p[1]), TornInv,
         NEW i \in DOMAIN rows', Spent(i)
  PROVE  Spent(i)'
<1>1. /\ IsFiniteSet(DOMAIN rows) /\ DOMAIN rows \subseteq Nat \ {0}
      /\ rows \in [DOMAIN rows -> Version]
      /\ trimmed \subseteq Nat /\ trimmed' = trimmed /\ TypeOK
      /\ Prunable(p) /\ OldestInv
  BY DEF IInv, TypeOK, DataInv, TodoInv, RowGoes
<1>2. PICK u \in Nat : u = p[1]
  <2>1. CallShape(call[c])
    BY TypesOfCalls DEF IInv
  <2> QED BY <2>1 DEF CallShape, CallRecord
<1>3. RowGoes(u) /\ (u \in DOMAIN rows => Spent(u))
  BY <1>2 DEF TornInv
<1>4. i \in DOMAIN rows /\ i # u /\ i \in Nat /\ rows'[i] = rows[i]
  BY <1>1, <1>3 DEF RowGoes
<1>5. PICK f \in Files, x \in Sessions \cup {None} :
        f = rows[i].file /\ x = rows[i].session
  BY <1>1, <1>4 DEF Version
<1>6. CASE i \in trimmed
  BY <1>1, <1>6 DEF Spent
<1>7. CASE i \notin trimmed
  <2>1. /\ HasOlder(i) /\ FollowsSession(i)
        /\ Crowded(i, f) \/ \E j \in trimmed : j > i
    BY <1>5, <1>7 DEF Spent
  <2>2. HasOlder(i)'
    <3>1. PICK j \in RowsOf(f) : j < i
      BY <1>5, <2>1 DEF HasOlder
    <3>2. oldest[f] # 0 /\ oldest[f] \in RowsOf(f) /\ oldest[f] <= j
      BY <1>1, <3>1 DEF OldestInv
    <3>3. oldest[f] # u
      BY <1>1, <1>2 DEF Prunable
    <3>4. RowsOf(f) \subseteq Nat
      BY <1>1 DEF RowsOf
    <3>5. oldest[f] < i
      BY <1>4, <3>1, <3>2, <3>4
    <3>6. oldest[f] \in RowsOf(f)'
      BY <1>3, <3>2, <3>3 DEF RowsOf, RowGoes
    <3> QED BY <1>4, <1>5, <3>5, <3>6 DEF HasOlder
  <2>3. FollowsSession(i)'
    <3>1. CASE x = None
      BY <1>4, <1>5, <3>1 DEF FollowsSession
    <3>2. CASE \E j \in trimmed : j < i
      BY <1>1, <3>2 DEF FollowsSession
    <3>3. CASE x # None /\ \E j \in SessionRows(x, f) : j < i
      <4>1. PICK j \in SessionRows(x, f) : j < i
        BY <3>3
      <4>2. \A k \in SessionRows(x, f) : k \in Nat
        BY <1>1 DEF SessionRows, RowsOf
      <4>3. \A k \in SessionRows(x, f) : k # u => k \in SessionRows(x, f)'
        BY <1>3 DEF SessionRows, RowsOf, RowGoes
      <4>4. \A k \in SessionRows(x, f) : k < i /\ k # u => FollowsSession(i)'
        BY <1>4, <1>5, <4>3 DEF FollowsSession
      <4>5. CASE j # u
        BY <4>1, <4>4, <4>5
      <4>6. CASE j = u
        <5>1. Passed(u, x, f)
          BY <1>1, <1>2, <3>3, <4>1, <4>6 DEF Prunable
        <5>2. CASE \E k \in trimmed : k <= u
          <6>1. PICK k \in trimmed : k <= u
            BY <5>2
          <6>2. k < i
            BY <1>1, <1>4, <4>1, <4>6, <6>1
          <6> QED BY <3>2, <6>1, <6>2
        <5>3. CASE \E k \in SessionRows(x, f) : k < u
          <6>1. PICK k \in SessionRows(x, f) : k < u
            BY <5>3
          <6>2. k < i /\ k # u
            BY <1>4, <4>1, <4>2, <4>6, <6>1
          <6> QED BY <4>4, <6>1, <6>2
        <5> QED BY <5>1, <5>2, <5>3 DEF Passed
      <4> QED BY <4>5, <4>6
    <3> QED BY <1>5, <2>1, <3>1, <3>2, <3>3 DEF FollowsSession
  <2>4. Crowded(i, f)' \/ \E j \in trimmed' : j > i
    <3>1. Crowded(i, f) => Crowded(i, f)' \/ \E j \in trimmed' : j > i
      BY <1>1, <1>3, <1>4, CrowdOutlives
    <3> QED BY <1>1, <2>1, <3>1
  <2>5. Crowded(i, f)' <=> Crowded(i, rows[i].file)'
    BY <1>4, <1>5
  <2> QED BY <2>2, <2>3, <2>4, <2>5 DEF Spent
<1> QED BY <1>6, <1>7

LEMMA HoldsOutlives ==
  ASSUME TypeOK, NEW u \in Nat, RowGoes(u), u \in DOMAIN rows => Spent(u),
         NEW i \in Nat, NEW f, NEW t, Holds(i, f, t)
  PROVE  Holds(i, f, t)'
<1>1. trimmed \subseteq Nat /\ trimmed' = trimmed /\ vault' = vault
  BY DEF TypeOK, RowGoes
<1>2. ASSUME Crowded(i, f) PROVE Holds(i, f, t)'
  <2>1. Crowded(i, f)' \/ \E j \in trimmed' : j > i
    BY <1>2, CrowdOutlives
  <2>2. (\E j \in trimmed' : j > i) => \E j \in trimmed' : j >= i
    BY <1>1
  <2> QED BY <2>1, <2>2 DEF Holds
<1>3. ASSUME \E j \in trimmed : j >= i PROVE Holds(i, f, t)'
  BY <1>1, <1>3 DEF Holds
<1>4. CASE Restorable(i) /\ rows[i].file = f /\ rows[i].text = t
  <2>1. CASE i # u
    BY <1>1, <1>4, <2>1 DEF Holds, Restorable, RowGoes
  <2>2. CASE i = u
    <3>1. u \in trimmed \/ Crowded(u, f) \/ \E j \in trimmed : j > u
      BY <1>4, <2>2 DEF Spent, Restorable
    <3>2. u \in trimmed \/ (\E j \in trimmed : j > u) => \E j \in trimmed : j >= i
      BY <1>1, <2>2
    <3> QED BY <1>2, <1>3, <2>2, <3>1, <3>2
  <2> QED BY <2>1, <2>2
<1> QED BY <1>2, <1>3, <1>4 DEF Holds

-----------------------------------------------------------------------------
(* The steps *)

\* A save goes on with what it read, which is still there, or is overtaken.
Keeps(d) ==
  /\ call'[d].pc \in Underway /\ ~call'[d].overtaken =>
       /\ call[d].pc \in Underway /\ ~call[d].overtaken
       /\ call'[d].file = call[d].file /\ call'[d].before = call[d].before
       /\ call'[d].expected = call[d].expected
       /\ disk'[call[d].file] = disk[call[d].file]
  /\ call'[d].pc = "replace" =>
       /\ call[d].pc = "replace" /\ call'[d].id = call[d].id
       /\ call'[d].file = call[d].file /\ call'[d].before = call[d].before

Carries(d) ==
  \/ Keeps(d)
  \/ /\ Fresh(call'[d], disk')
     /\ call'[d].pc = "replace" => Holds(call[d].id, call[d].file, call[d].before)'

LEMMA SavesCarry ==
  ASSUME TypeOK, ReadInv, SavedInv, \A d \in Calls : Carries(d),
         \A i \in Nat : \A f, t : Holds(i, f, t) => Holds(i, f, t)'
  PROVE  ReadInv' /\ SavedInv'
<1>1. ASSUME NEW d \in Calls PROVE Fresh(call'[d], disk')
  <2>1. CASE Keeps(d)
    <3>1. Fresh(call[d], disk)
      BY DEF ReadInv
    <3> QED BY <2>1, <3>1 DEF Keeps, Fresh
  <2> QED BY <2>1 DEF Carries
<1>2. ASSUME NEW d \in Calls, call'[d].pc = "replace"
      PROVE  Holds(call[d].id, call[d].file, call[d].before)'
  <2>1. CASE Keeps(d)
    <3>1. CallShape(call[d])
      BY TypesOfCalls
    <3>2. PICK i \in Nat : i = call[d].id
      BY <3>1 DEF CallShape, CallRecord
    <3>3. PICK f, t : f = call[d].file /\ t = call[d].before
      OBVIOUS
    <3>4. call[d].pc = "replace" /\ Holds(i, f, t)
      BY <1>2, <2>1, <3>2, <3>3 DEF Keeps, SavedInv
    <3>5. Holds(i, f, t)'
      BY <3>4
    <3>6. call'[d].id = i /\ call'[d].file = f /\ call'[d].before = t
      BY <1>2, <2>1, <3>2, <3>3 DEF Keeps
    <3> QED BY <3>5, <3>6
  <2> QED BY <1>2, <2>1 DEF Carries
<1> QED BY <1>1, <1>2 DEF ReadInv, SavedInv

LEMMA SameKeeps ==
  ASSUME NEW d \in Calls, call'[d] = call[d], UNCHANGED disk
  PROVE  Carries(d)
BY DEF Carries, Keeps

LEMMA OvertakenKeeps ==
  ASSUME NEW d \in Calls, CallShape(call[d]), NEW f, call'[d] = Overtaken(d, f),
         \A g \in Files \ {f} : disk'[g] = disk[g]
  PROVE  Carries(d)
<1> DEFINE r == [call[d] EXCEPT !.overtaken = TRUE]
<1>1. call[d] \in CallRecord
  BY DEF CallShape
<1>2. /\ r.pc = call[d].pc /\ r.id = call[d].id /\ r.file = call[d].file
      /\ r.before = call[d].before /\ r.overtaken = TRUE
  BY <1>1 DEF CallRecord
<1>3. CASE call[d].file = f /\ call[d].pc \in Underway
  <2>1. call'[d] = r
    BY <1>3 DEF Overtaken, Underway
  <2> HIDE DEF r
  <2> QED BY <1>2, <2>1 DEF Carries, Keeps
<1>4. CASE ~(call[d].file = f /\ call[d].pc \in Underway)
  <2>1. call'[d] = call[d]
    BY <1>4 DEF Overtaken, Underway
  <2>2. call[d].pc \in Underway => call[d].file \in Files \ {f}
    BY <1>4 DEF CallShape, Underway
  <2> QED BY <2>1, <2>2 DEF Carries, Keeps
<1> QED BY <1>3, <1>4

\* A call that has nothing under way relies on nothing.
LEMMA OneCallCarries ==
  ASSUME TypeOK, NEW c \in Calls, NEW r, CallShape(r),
         call' = [call EXCEPT ![c] = r], UNCHANGED disk,
         Fresh(r, disk), r.pc # "replace"
  PROVE  \A d \in Calls : Carries(d)
<1>1. call'[c] = r /\ \A d \in Calls \ {c} : call'[d] = call[d]
  BY DEF TypeOK
<1>2. Carries(c)
  BY <1>1 DEF Carries
<1>3. ASSUME NEW d \in Calls, d # c PROVE Carries(d)
  BY <1>1, <1>3, SameKeeps
<1> QED BY <1>2, <1>3

LEMMA ReadingCarries ==
  ASSUME TypeOK, NEW c \in Calls,
         Command(c) \/ LoadVersion(c) \/ ReadBack(c) \/ Refused(c) \/ GiveUp(c)
  PROVE  \A d \in Calls : Carries(d)
<1>1. /\ disk \in [Files -> Texts] /\ rows \in [DOMAIN rows -> Version]
      /\ \A d \in Calls : CallShape(call[d])
  BY TypesOfCalls DEF TypeOK
<1>2. UNCHANGED disk
  BY DEF Command, SaveText, ApplySuggestion, UndoSession, Restore, LoadVersion,
         ReadBack, Refused, GiveUp
<1>3. ASSUME NEW f \in Files, NEW t \in Texts, NEW x \in Sessions \cup {None},
             NEW e \in Texts \cup {None}, e \in {None, disk[f]},
             call' = [call EXCEPT ![c] = Save(f, t, x, e)]
      PROVE  \A d \in Calls : Carries(d)
  <2>1. CallShape(Save(f, t, x, e)) /\ Save(f, t, x, e).pc = "copy"
    BY <1>1, SaveShape
  <2>2. Fresh(Save(f, t, x, e), disk)
    BY <1>3 DEF Fresh, Save, Idle
  <2> QED BY <1>2, <1>3, <2>1, <2>2, OneCallCarries
<1>4. ASSUME call' = [call EXCEPT ![c] = Idle] PROVE \A d \in Calls : Carries(d)
  <2>1. Fresh(Idle, disk)
    BY IdleShape DEF Fresh, Underway
  <2> QED BY <1>2, <1>4, <2>1, IdleShape, OneCallCarries
<1>5. ASSUME NEW i \in DOMAIN rows, Restore(c, i)
      PROVE  \A d \in Calls : Carries(d)
  <2> DEFINE r == [Idle EXCEPT !.pc = "load", !.file = rows[i].file,
                               !.text = rows[i].text, !.dest = rows[i].dest]
  <2>1. rows[i] \in Version
    BY <1>1
  <2>2. CallShape(r) /\ r.pc = "load"
    BY <2>1 DEF CallShape, CallRecord, CallStates, Idle, Version
  <2>3. call' = [call EXCEPT ![c] = r]
    BY <1>5 DEF Restore, Becomes
  <2> HIDE DEF r
  <2>4. Fresh(r, disk)
    BY <2>2 DEF Fresh, Underway
  <2> QED BY <1>2, <2>2, <2>3, <2>4, OneCallCarries
<1>6. CASE \E f \in Files, t \in Texts, e \in Texts \cup {None} :
             SaveText(c, f, t, e)
  <2>1. PICK f \in Files, t \in Texts, e \in Texts \cup {None} : SaveText(c, f, t, e)
    BY <1>6
  <2>2. call' = [call EXCEPT ![c] = Save(f, t, None, e)] /\ e \in {None, disk[f]}
    BY <2>1 DEF SaveText, Becomes, Reads
  <2> QED BY <1>3, <2>2
<1>7. CASE \E f \in Files, t \in Texts, x \in Sessions : ApplySuggestion(c, f, t, x)
  <2>1. PICK f \in Files, t \in Texts, x \in Sessions : ApplySuggestion(c, f, t, x)
    BY <1>7
  <2>2. call' = [call EXCEPT ![c] = Save(f, t, x, disk[f])] /\ disk[f] \in Texts
    BY <1>1, <2>1 DEF ApplySuggestion, Becomes
  <2> QED BY <1>3, <2>2
<1>8. CASE \E x \in Sessions, f \in Files : UndoSession(c, x, f)
  <2>1. PICK i : Restore(c, i)
    BY <1>8 DEF UndoSession
  <2>2. i \in DOMAIN rows
    BY <2>1 DEF Restore
  <2> QED BY <1>5, <2>1, <2>2
<1>9. CASE LoadVersion(c)
  <2>1. call[c].file \in Files /\ call[c].text \in Texts
    BY <1>1, <1>9 DEF LoadVersion, CallShape
  <2>2. \/ call' = [call EXCEPT ![c] = Save(call[c].file, call[c].text, None, None)]
        \/ call' = [call EXCEPT ![c] = Idle]
    BY <1>9 DEF LoadVersion, Becomes
  <2> QED BY <1>3, <1>4, <2>1, <2>2
<1>10. CASE Refused(c) \/ GiveUp(c)
  BY <1>4, <1>10 DEF Refused, GiveUp, Becomes
<1>11. CASE ReadBack(c)
  <2> DEFINE r == [Idle EXCEPT !.pc = "mark", !.id = call[c].id]
  <2>1. call[c].id \in Nat
    BY <1>1 DEF CallShape, CallRecord
  <2>2. CallShape(r) /\ r.pc = "mark"
    BY <2>1 DEF CallShape, CallRecord, CallStates, Idle
  <2>3. call' = [call EXCEPT ![c] = r]
    BY <1>11 DEF ReadBack, Becomes
  <2> HIDE DEF r
  <2>4. Fresh(r, disk)
    BY <2>2 DEF Fresh, Underway
  <2> QED BY <1>2, <2>2, <2>3, <2>4, OneCallCarries
<1> QED BY <1>5, <1>6, <1>7, <1>8, <1>9, <1>10, <1>11 DEF Command

\* What a save holds goes with it through the copy and the record.
LEMMA ProceedingCarries ==
  ASSUME IInv, ReadInv, NEW c \in Calls, CopyBefore(c) \/ RecordVersion(c)
  PROVE  /\ TodoQuiet
         /\ \A d \in Calls \ {c} : Carries(d)
         /\ Fresh(call'[c], disk')
         /\ call'[c].pc \in {"record", "replace"}
         /\ CopyBefore(c) => call'[c].pc = "record"
         /\ RecordVersion(c) => /\ call'[c].id = NextId
                                /\ call'[c].file = call[c].file
                                /\ call'[c].before = call[c].before
<1>1. /\ call \in [Calls -> CallRecord] /\ \A d \in Calls : CallShape(call[d])
      /\ TodoInv /\ made \in Nat
      /\ IsFiniteSet(DOMAIN rows) /\ DOMAIN rows \subseteq Nat \ {0}
  BY TypesOfCalls DEF IInv, TypeOK, DataInv
<1>2. NextId \in Nat
  BY <1>1, NextIdIsNew
<1> DEFINE a == [call[c] EXCEPT !.pc = "record", !.dest = made + 1]
           b == [call[c] EXCEPT !.pc = "replace", !.id = NextId]
<1>3. PICK n \in Nat : n = NextId
  BY <1>2
<1>4. PICK m \in Nat : m = made + 1
  BY <1>1
<1>5. /\ a.pc = "record" /\ a.todo = call[c].todo /\ a.file = call[c].file
      /\ a.before = call[c].before /\ a.expected = call[c].expected
      /\ a.overtaken = call[c].overtaken
  <2>1. call[c] \in CallRecord
    BY <1>1
  <2>2. a = [call[c] EXCEPT !.pc = "record", !.dest = m]
    BY <1>4
  <2> QED BY <2>1, <2>2 DEF CallRecord
<1>6. /\ b.pc = "replace" /\ b.todo = call[c].todo /\ b.file = call[c].file
      /\ b.before = call[c].before /\ b.expected = call[c].expected
      /\ b.overtaken = call[c].overtaken /\ b.id = NextId
  <2>1. call[c] \in CallRecord
    BY <1>1
  <2>2. b = [call[c] EXCEPT !.pc = "replace", !.id = n]
    BY <1>3
  <2>3. PICK w : w = [call[c] EXCEPT !.pc = "replace", !.id = n]
    OBVIOUS
  <2>4. /\ w.pc = "replace" /\ w.todo = call[c].todo /\ w.file = call[c].file
        /\ w.before = call[c].before /\ w.expected = call[c].expected
        /\ w.overtaken = call[c].overtaken /\ w.id = n
    BY <2>1, <2>3 DEF CallRecord
  <2> QED BY <1>3, <2>2, <2>3, <2>4
<1>7. /\ CopyBefore(c) => call' = [call EXCEPT ![c] = a]
      /\ RecordVersion(c) => call' = [call EXCEPT ![c] = b]
      /\ call[c].pc \in {"copy", "record"} /\ UNCHANGED disk
  <2>1. ASSUME CopyBefore(c)
        PROVE  /\ call' = [call EXCEPT ![c] = a] /\ call[c].pc = "copy"
               /\ UNCHANGED disk
    BY <2>1 DEF CopyBefore, Becomes
  <2>2. ASSUME RecordVersion(c)
        PROVE  /\ call' = [call EXCEPT ![c] = b] /\ call[c].pc = "record"
               /\ UNCHANGED disk
    BY <2>2 DEF RecordVersion, Becomes
  <2> HIDE DEF a, b
  <2> QED BY <2>1, <2>2
<1> HIDE DEF a, b
<1>8. /\ CopyBefore(c) => call'[c] = a
      /\ RecordVersion(c) => call'[c] = b
      /\ \A d \in Calls \ {c} : call'[d] = call[d]
  BY <1>1, <1>7
<1>9. \A d \in Calls \ {c} : Carries(d)
  BY <1>7, <1>8, SameKeeps
<1>10. call'[c] \in {a, b}
  BY <1>8
<1>11. TodoQuiet
  <2>1. ASSUME NEW d \in Calls
        PROVE  /\ call'[d].todo = call[d].todo
               /\ call'[d].pc \in {"prune", "forget"} => call'[d].todo # {}
    <3>1. CASE d = c
      BY <1>5, <1>6, <1>10, <3>1
    <3>2. CASE d # c
      <4>1. call'[d] = call[d]
        BY <1>8, <3>2
      <4> QED BY <1>1, <4>1, TodoKept
    <3> QED BY <3>1, <3>2
  <2> QED BY <2>1 DEF TodoQuiet
<1>12. Fresh(call'[c], disk')
  <2>1. Fresh(call[c], disk)
    BY DEF ReadInv
  <2> QED BY <1>5, <1>6, <1>7, <1>10, <2>1 DEF Fresh, Underway
<1> QED BY <1>5, <1>6, <1>8, <1>9, <1>10, <1>11, <1>12

\* The rows stay, but for what is confirmed of them, and no copy goes.
LEMMA RowsStay ==
  ASSUME IInv, TornInv, TodoQuiet, vault \subseteq vault', trimmed' = trimmed,
         \/ rows' = rows
         \/ \E c \in Calls : Confirm(c)
  PROVE  /\ TornInv'
         /\ \A i \in Nat : \A f, t : Holds(i, f, t) => Holds(i, f, t)'
<1>1. IsFiniteSet(DOMAIN rows) /\ rows \in [DOMAIN rows -> Version]
  BY DEF IInv, TypeOK
<1>2. /\ DOMAIN rows' = DOMAIN rows
      /\ \A j \in DOMAIN rows :
           /\ rows'[j].file = rows[j].file /\ rows'[j].session = rows[j].session
           /\ rows'[j].text = rows[j].text /\ rows'[j].dest = rows[j].dest
  <2>1. CASE rows' = rows
    BY <2>1
  <2>2. CASE \E c \in Calls : Confirm(c)
    <3>1. PICK c \in Calls : Confirm(c)
      BY <2>2
    <3> DEFINE v(i) == IF i = call[c].id THEN [rows[i] EXCEPT !.status = "saved"] ELSE rows[i]
    <3>2. rows' = [i \in DOMAIN rows |-> v(i)]
      BY <3>1 DEF Confirm
    <3>3. ASSUME NEW i \in DOMAIN rows
          PROVE  /\ v(i).file = rows[i].file /\ v(i).session = rows[i].session
                 /\ v(i).text = rows[i].text /\ v(i).dest = rows[i].dest
      <4>1. rows[i] \in Version
        BY <1>1
      <4>2. ASSUME NEW w, w = [rows[i] EXCEPT !.status = "saved"]
            PROVE  /\ w.file = rows[i].file /\ w.session = rows[i].session
                   /\ w.text = rows[i].text /\ w.dest = rows[i].dest
        BY <4>1, <4>2 DEF Version
      <4>3. v(i) = [rows[i] EXCEPT !.status = "saved"] \/ v(i) = rows[i]
        OBVIOUS
      <4> HIDE DEF v
      <4> QED BY <4>2, <4>3
    <3> HIDE DEF v
    <3> QED BY <3>2, <3>3
  <2> QED BY <2>1, <2>2
<1>3. RowsGrow
  BY <1>1, <1>2 DEF RowsGrow
<1>4. TornInv'
  BY <1>2, <1>3, TornGrows
<1> QED BY <1>1, <1>3, <1>4, HoldsGrow

\* The row of a copy that is still there holds what the save has read.
LEMMA RecordHolds ==
  ASSUME IInv, IInv', TornInv, ReadInv, SavedInv, NEW c \in Calls, RecordVersion(c)
  PROVE  TornInv' /\ ReadInv' /\ SavedInv'
<1>1. /\ IsFiniteSet(DOMAIN rows) /\ DOMAIN rows \subseteq Nat \ {0}
      /\ RecordInv /\ TypeOK
  BY DEF IInv, TypeOK, DataInv
<1>2. IsFiniteSet(DOMAIN rows')
  BY DEF IInv, TypeOK
<1>3. PICK i : i = NextId
  OBVIOUS
<1>4. i \in Nat /\ (\A m \in DOMAIN rows : m < i) /\ i \notin DOMAIN rows
  <2>1. i \in Nat \ {0} /\ \A m \in DOMAIN rows : m < i
    BY <1>1, <1>3, NextIdIsNew
  <2>2. ~(i < i)
    BY <2>1
  <2> QED BY <2>1, <2>2
<1> DEFINE v == [file |-> call[c].file, text |-> call[c].before,
                 session |-> call[c].session, status |-> "prepared",
                 dest |-> call[c].dest]
<1>5. /\ rows' = [j \in DOMAIN rows \cup {i} |-> IF j = i THEN v ELSE rows[j]]
      /\ vault' = vault /\ trimmed' = trimmed /\ call[c].pc = "record"
  BY <1>3 DEF RecordVersion
<1>6. v.file = call[c].file /\ v.text = call[c].before /\ v.dest = call[c].dest
  OBVIOUS
<1> HIDE DEF v
<1>7. /\ DOMAIN rows' = DOMAIN rows \cup {i} /\ rows'[i] = v
      /\ \A j \in DOMAIN rows : rows'[j] = rows[j]
  BY <1>4, <1>5
<1>8. call[c].dest \in vault
  BY <1>1, <1>5 DEF RecordInv
<1>9. RowsGrow
  BY <1>2, <1>5, <1>7 DEF RowsGrow
<1>10. /\ TodoQuiet
       /\ \A d \in Calls \ {c} : Carries(d)
       /\ Fresh(call'[c], disk')
       /\ call'[c].id = i
       /\ call'[c].file = call[c].file /\ call'[c].before = call[c].before
  BY <1>3, ProceedingCarries
<1>11. TornInv'
  <2>1. \A j \in DOMAIN rows' \ DOMAIN rows : j = i
    BY <1>7
  <2>2. rows'[i].dest \in vault'
    BY <1>5, <1>6, <1>7, <1>8
  <2> QED BY <1>4, <1>5, <1>9, <1>10, <2>1, <2>2, TornGrows
<1>12. Holds(call[c].id, call[c].file, call[c].before)'
  <2>1. /\ i \in DOMAIN rows' /\ rows'[i].dest \in vault'
        /\ rows'[i].file = call'[c].file /\ rows'[i].text = call'[c].before
    BY <1>5, <1>6, <1>7, <1>8, <1>10
  <2> QED BY <1>10, <2>1 DEF Holds, Restorable
<1>13. \A d \in Calls : Carries(d)
  BY <1>10, <1>12 DEF Carries
<1>14. \A n \in Nat : \A f, t : Holds(n, f, t) => Holds(n, f, t)'
  BY <1>1, <1>5, <1>9, HoldsGrow
<1> QED BY <1>1, <1>11, <1>13, <1>14, SavesCarry

\* The call that prunes has no save under way, and the others go on.
LEMMA PruningCarries ==
  ASSUME TypeOK, NEW c \in Calls, UNCHANGED disk,
         call'[c].pc \in {"idle", "prune", "forget", "select"},
         \A d \in Calls \ {c} : call'[d] = call[d]
  PROVE  \A d \in Calls : Carries(d)
<1>1. Carries(c)
  BY DEF Carries, Keeps, Underway
<1> QED BY <1>1, SameKeeps

LEMMA SelectHolds ==
  ASSUME IInv, TornInv, ReadInv, SavedInv, NEW c \in Calls, SelectDoomed(c),
         CapHoldsAllFiles
  PROVE  TornInv' /\ ReadInv' /\ SavedInv'
<1>1. /\ IsFiniteSet(DOMAIN rows) /\ DOMAIN rows \subseteq Nat \ {0}
      /\ rows \in [DOMAIN rows -> Version] /\ TypeOK
  BY DEF IInv, TypeOK, DataInv
<1> DEFINE todo == {<<i, rows[i].dest>> : i \in Doomed}
<1>2. /\ Pruning(c, todo) /\ trimmed' = trimmed \cup OverCap
      /\ UNCHANGED <<disk, rows, vault>>
  BY DEF SelectDoomed
<1>3. Doomed \subseteq DOMAIN rows
  BY DEF Doomed, OverCap, Kept
<1>4. todo \in SUBSET (Nat \X Nat)
  <2>1. ASSUME NEW i \in Doomed PROVE i \in Nat /\ rows[i].dest \in Nat
    BY <1>1, <1>3 DEF Version
  <2> QED BY <2>1
<1> HIDE DEF todo
<1>5. /\ call'[c].todo = todo /\ call'[c].pc \in {"idle", "prune"}
      /\ \A d \in Calls \ {c} : call'[d] = call[d]
  BY <1>1, <1>2, <1>4, PruningCalls
<1>6. RowsGrow
  BY <1>1, <1>2 DEF RowsGrow
<1>7. ASSUME NEW i \in DOMAIN rows, Spent(i) PROVE Spent(i)'
  BY <1>1, <1>6, <1>7, SpentGrows
<1>8. ASSUME NEW i \in Doomed PROVE Spent(i)'
  <2>1. i \in DOMAIN rows
    BY <1>3
  <2>2. CASE i \in OverCap
    BY <1>2, <2>2 DEF Spent
  <2>3. CASE i \notin OverCap
    <3>1. /\ HasOlder(i) /\ Crowded(i, rows[i].file)
          /\ rows[i].session # None =>
               \E j \in SessionRows(rows[i].session, rows[i].file) : j < i
      BY <1>1, <2>1, <2>3, DoomedIsSpent
    <3>2. Spent(i)
      BY <3>1 DEF Spent, FollowsSession
    <3> QED BY <1>7, <2>1, <3>2
  <2> QED BY <2>2, <2>3
<1>9. TornInv'
  <2>1. ASSUME NEW i \in DOMAIN rows', rows'[i].dest \notin vault' PROVE Spent(i)'
    <3>1. i \in DOMAIN rows /\ rows[i].dest \notin vault
      BY <1>2, <2>1
    <3> QED BY <1>7, <3>1 DEF TornInv
  <2>2. ASSUME NEW d \in Calls, NEW p \in call'[d].todo, p[1] \in DOMAIN rows'
        PROVE  rows'[p[1]].dest = p[2] /\ Spent(p[1])'
    <3>1. p[1] \in DOMAIN rows
      BY <1>2, <2>2
    <3>2. CASE d = c
      <4>1. PICK i \in Doomed : p = <<i, rows[i].dest>>
        BY <1>5, <2>2, <3>2 DEF todo
      <4>2. Spent(i)'
        BY <1>8
      <4>3. p[1] = i /\ p[2] = rows[i].dest
        BY <4>1
      <4> QED BY <1>2, <4>2, <4>3
    <3>3. CASE d # c
      <4>1. call'[d] = call[d]
        BY <1>5, <3>3
      <4>2. rows[p[1]].dest = p[2] /\ Spent(p[1])
        BY <2>2, <3>1, <4>1 DEF TornInv
      <4>3. PICK n : n = p[1]
        OBVIOUS
      <4>4. Spent(n)'
        BY <1>7, <3>1, <4>2, <4>3
      <4> QED BY <1>2, <4>2, <4>3, <4>4
    <3> QED BY <3>2, <3>3
  <2> QED BY <2>1, <2>2 DEF TornInv
<1>10. \A d \in Calls : Carries(d)
  BY <1>1, <1>2, <1>5, PruningCarries
<1>11. \A i \in Nat : \A f, t : Holds(i, f, t) => Holds(i, f, t)'
  BY <1>1, <1>2, <1>6, HoldsGrow
<1> QED BY <1>1, <1>9, <1>10, <1>11, SavesCarry

\* The copy of a spent version goes: whoever counted on it may lose it.
LEMMA RemoveHolds ==
  ASSUME IInv, TornInv, ReadInv, SavedInv, NEW c \in Calls,
         RemoveCopy(c) \/ SkipCopy(c)
  PROVE  TornInv' /\ ReadInv' /\ SavedInv'
<1> DEFINE todo == call[c].todo
           p == NewestOf(todo)
           r == [call[c] EXCEPT !.pc = "forget"]
<1>1. /\ call \in [Calls -> CallRecord] /\ \A d \in Calls : CallShape(call[d])
      /\ IsFiniteSet(DOMAIN rows) /\ DOMAIN rows \subseteq Nat \ {0}
      /\ trimmed \subseteq Nat /\ TypeOK /\ TodoInv
  BY TypesOfCalls DEF IInv, TypeOK, DataInv
<1>2. /\ call[c].pc = "prune" /\ UNCHANGED <<disk, rows, trimmed>>
      /\ vault' \in {vault, vault \ {p[2]}}
  BY DEF RemoveCopy, SkipCopy, History
<1>3. todo \in SUBSET (Nat \X Nat) /\ todo # {}
  BY <1>1, <1>2 DEF CallShape, CallRecord, TodoInv
<1>4. p \in todo
  BY <1>1, <1>3, NewestIsThere
<1>5. /\ RemoveCopy(c) => call' = [call EXCEPT ![c] = r]
      /\ SkipCopy(c) => Pruning(c, todo \ {p})
  BY DEF RemoveCopy, SkipCopy, Moves, Becomes
<1> HIDE DEF p
<1>6. /\ call'[c].todo \subseteq todo /\ call'[c].pc \in {"idle", "prune", "forget"}
      /\ \A d \in Calls \ {c} : call'[d] = call[d]
  <2>1. CASE RemoveCopy(c)
    <3>1. r.pc = "forget" /\ r.todo = todo
      <4>1. call[c] \in CallRecord
        BY <1>1
      <4> QED BY <4>1 DEF CallRecord
    <3> HIDE DEF r
    <3>2. call'[c] = r /\ \A d \in Calls \ {c} : call'[d] = call[d]
      BY <1>1, <1>5, <2>1
    <3> QED BY <3>1, <3>2
  <2>2. CASE SkipCopy(c)
    <3>1. todo \ {p} \in SUBSET (Nat \X Nat)
      BY <1>3
    <3>2. /\ call'[c].todo = todo \ {p} /\ call'[c].pc \in {"idle", "prune"}
          /\ \A d \in Calls \ {c} : call'[d] = call[d]
      BY <1>1, <1>5, <2>2, <3>1, PruningCalls
    <3> QED BY <3>2
  <2> QED BY <2>1, <2>2
<1>7. Prunable(p) /\ (p[1] \in DOMAIN rows => rows[p[1]].dest = p[2] /\ Spent(p[1]))
  BY <1>1, <1>4 DEF TodoInv, TornInv
<1>8. ASSUME NEW i \in DOMAIN rows, Spent(i) PROVE Spent(i)'
  <2>1. RowsGrow
    BY <1>1, <1>2 DEF RowsGrow
  <2> QED BY <1>1, <1>8, <2>1, SpentGrows
<1>9. ASSUME NEW i \in DOMAIN rows, rows[i].dest = p[2] PROVE Spent(i)
  <2>1. i = p[1]
    BY <1>7, <1>9 DEF Prunable
  <2> QED BY <1>7, <2>1
<1>10. TornInv'
  <2>1. ASSUME NEW i \in DOMAIN rows', rows'[i].dest \notin vault' PROVE Spent(i)'
    <3>1. i \in DOMAIN rows /\ (rows[i].dest \notin vault \/ rows[i].dest = p[2])
      BY <1>2, <2>1
    <3>2. Spent(i)
      BY <1>9, <3>1 DEF TornInv
    <3> QED BY <1>8, <3>1, <3>2
  <2>2. ASSUME NEW d \in Calls, NEW q \in call'[d].todo, q[1] \in DOMAIN rows'
        PROVE  rows'[q[1]].dest = q[2] /\ Spent(q[1])'
    <3>1. q \in call[d].todo
      <4>1. CASE d = c
        BY <1>6, <2>2, <4>1
      <4>2. CASE d # c
        BY <1>6, <2>2, <4>2
      <4> QED BY <4>1, <4>2
    <3>2. PICK n : n = q[1]
      OBVIOUS
    <3>3. n \in DOMAIN rows /\ rows[n].dest = q[2] /\ Spent(n)
      BY <1>2, <2>2, <3>1, <3>2 DEF TornInv
    <3>4. Spent(n)'
      BY <1>8, <3>3
    <3> QED BY <1>2, <3>2, <3>3, <3>4
  <2> QED BY <2>1, <2>2 DEF TornInv
<1>11. \A d \in Calls : Carries(d)
  BY <1>1, <1>2, <1>6, PruningCarries
<1>12. ASSUME NEW i \in Nat, NEW f, NEW t, Holds(i, f, t) PROVE Holds(i, f, t)'
  <2>1. (Crowded(i, f) <=> Crowded(i, f)') /\ trimmed' = trimmed
    BY <1>2 DEF Crowded, NewerIn, RowsOf
  <2>2. CASE Crowded(i, f) \/ \E j \in trimmed : j >= i
    BY <2>1, <2>2 DEF Holds
  <2>3. CASE Restorable(i) /\ rows[i].file = f /\ rows[i].text = t
    <3>1. CASE rows[i].dest \in vault'
      BY <1>2, <2>3, <3>1 DEF Holds, Restorable
    <3>2. CASE rows[i].dest \notin vault'
      <4>1. i \in DOMAIN rows /\ rows[i].dest = p[2]
        BY <1>2, <2>3, <3>2 DEF Restorable
      <4>2. i \in trimmed \/ Crowded(i, f) \/ \E j \in trimmed : j > i
        BY <1>9, <2>3, <4>1 DEF Spent
      <4>3. i \in trimmed \/ (\E j \in trimmed : j > i) => \E j \in trimmed : j >= i
        BY <1>1
      <4> QED BY <2>2, <4>2, <4>3
    <3> QED BY <3>1, <3>2
  <2> QED BY <1>12, <2>2, <2>3 DEF Holds
<1> QED BY <1>1, <1>10, <1>11, <1>12, SavesCarry

LEMMA ForgetHolds ==
  ASSUME IInv, TornInv, ReadInv, SavedInv, NEW c \in Calls, ForgetVersion(c)
  PROVE  TornInv' /\ ReadInv' /\ SavedInv'
<1> DEFINE todo == call[c].todo
           p == NewestOf(todo)
<1>1. /\ \A d \in Calls : CallShape(call[d])
      /\ TypeOK /\ TodoInv
  BY TypesOfCalls DEF IInv, DataInv
<1>2. /\ call[c].pc = "forget"
      /\ rows' = [i \in DOMAIN rows \ {p[1]} |-> rows[i]]
      /\ Pruning(c, todo \ {p}) \/ Pruning(c, {})
      /\ UNCHANGED <<disk, vault, trimmed, oldest>>
  BY DEF ForgetVersion
<1>3. todo \in SUBSET (Nat \X Nat) /\ todo # {}
  BY <1>1, <1>2 DEF CallShape, CallRecord, TodoInv
<1>4. p \in todo
  BY <1>1, <1>3, NewestIsThere
<1> HIDE DEF p
<1>5. /\ call'[c].todo \subseteq todo /\ call'[c].pc \in {"idle", "prune"}
      /\ \A d \in Calls \ {c} : call'[d] = call[d]
  <2>1. PICK left \in SUBSET (Nat \X Nat) : left \subseteq todo /\ Pruning(c, left)
    BY <1>2, <1>3
  <2> QED BY <1>1, <2>1, PruningCalls
<1>6. RowGoes(p[1])
  BY <1>2 DEF RowGoes
<1>7. ASSUME NEW i \in DOMAIN rows', Spent(i) PROVE Spent(i)'
  BY <1>4, <1>6, <1>7, SpentOutlives
<1>8. TornInv'
  <2>1. ASSUME NEW i \in DOMAIN rows', rows'[i].dest \notin vault' PROVE Spent(i)'
    <3>1. i \in DOMAIN rows /\ rows[i].dest \notin vault
      BY <1>6, <2>1 DEF RowGoes
    <3> QED BY <1>7, <3>1 DEF TornInv
  <2>2. ASSUME NEW d \in Calls, NEW q \in call'[d].todo, q[1] \in DOMAIN rows'
        PROVE  rows'[q[1]].dest = q[2] /\ Spent(q[1])'
    <3>1. q \in call[d].todo
      <4>1. CASE d = c
        BY <1>5, <2>2, <4>1
      <4>2. CASE d # c
        BY <1>5, <2>2, <4>2
      <4> QED BY <4>1, <4>2
    <3>2. PICK n : n = q[1]
      OBVIOUS
    <3>3. n \in DOMAIN rows /\ rows'[n] = rows[n]
      BY <1>6, <2>2, <3>2 DEF RowGoes
    <3>4. rows[n].dest = q[2] /\ Spent(n)
      BY <3>1, <3>2, <3>3 DEF TornInv
    <3>5. Spent(n)'
      BY <1>7, <2>2, <3>2, <3>4
    <3> QED BY <3>2, <3>3, <3>4, <3>5
  <2> QED BY <2>1, <2>2 DEF TornInv
<1>9. \A d \in Calls : Carries(d)
  BY <1>1, <1>2, <1>5, PruningCarries
<1>10. ASSUME NEW i \in Nat, NEW f, NEW t, Holds(i, f, t) PROVE Holds(i, f, t)'
  <2>1. PICK u \in Nat : u = p[1]
    BY <1>3, <1>4
  <2>2. RowGoes(u) /\ (u \in DOMAIN rows => Spent(u))
    BY <1>4, <1>6, <2>1 DEF TornInv
  <2> QED BY <1>1, <1>10, <2>2, HoldsOutlives
<1> QED BY <1>1, <1>8, <1>9, <1>10, SavesCarry

LEMMA InitHolds == Init => TornInv /\ ReadInv /\ SavedInv
<1> SUFFICES ASSUME Init PROVE TornInv /\ ReadInv /\ SavedInv
  OBVIOUS
<1>1. DOMAIN rows = {} /\ \A c \in Calls : call[c] = Idle
  BY DEF Init
<1>2. Idle.pc = "idle" /\ Idle.todo = {}
  BY IdleShape
<1> QED BY <1>1, <1>2 DEF TornInv, ReadInv, SavedInv, Fresh, Underway

LEMMA NextHolds ==
  ASSUME KInv, [Next]_vars, CapHoldsAllFiles
  PROVE  KInv'
<1>1. /\ IInv /\ TornInv /\ ReadInv /\ SavedInv /\ TypeOK /\ TodoInv
      /\ \A d \in Calls : CallShape(call[d])
      /\ call \in [Calls -> CallRecord] /\ disk \in [Files -> Texts]
  BY TypesOfCalls DEF KInv, IInv, DataInv, TypeOK
<1>2. IInv'
  BY <1>1, NextInv
<1>3. ASSUME TodoQuiet, vault \subseteq vault', trimmed' = trimmed,
             \/ rows' = rows
             \/ \E c \in Calls : Confirm(c),
             \A d \in Calls : Carries(d)
      PROVE  KInv'
  <2>1. /\ TornInv'
        /\ \A i \in Nat : \A f, t : Holds(i, f, t) => Holds(i, f, t)'
    BY <1>1, <1>3, RowsStay
  <2> QED BY <1>1, <1>2, <1>3, <2>1, SavesCarry DEF KInv
<1>4. ASSUME UNCHANGED Versions
      PROVE  vault \subseteq vault' /\ trimmed' = trimmed /\ rows' = rows
  BY <1>4 DEF Versions
<1>5. CASE UNCHANGED vars
  <2>1. UNCHANGED <<disk, call>> /\ UNCHANGED Versions
    BY <1>5 DEF vars, Versions
  <2>2. TodoQuiet
    BY <1>1, <2>1, TodoKept DEF TodoQuiet
  <2>3. \A d \in Calls : Carries(d)
    BY <2>1, SameKeeps
  <2> QED BY <1>3, <1>4, <2>1, <2>2, <2>3
<1>6. CASE Crash \/ \E f \in Files, t \in Texts : OtherProgram(f, t)
  <2>1. TodoQuiet /\ UNCHANGED Versions
    BY <1>1, <1>6, OutsideStep DEF CallsQuiet
  <2>2. CASE Crash
    <3>1. \A d \in Calls : call'[d].pc = "idle"
      BY <2>2, IdleShape DEF Crash
    <3>2. \A d \in Calls : Carries(d)
      BY <3>1 DEF Carries, Keeps, Underway
    <3> QED BY <1>3, <1>4, <2>1, <3>2
  <2>3. CASE \E f \in Files, t \in Texts : OtherProgram(f, t)
    <3>1. PICK f \in Files, t \in Texts : OtherProgram(f, t)
      BY <2>3
    <3>2. /\ \A d \in Calls : call'[d] = Overtaken(d, f)
          /\ \A g \in Files \ {f} : disk'[g] = disk[g]
      BY <1>1, <3>1 DEF OtherProgram
    <3>3. \A d \in Calls : Carries(d)
      BY <1>1, <3>2, OvertakenKeeps
    <3> QED BY <1>3, <1>4, <2>1, <3>3
  <2> QED BY <1>6, <2>2, <2>3
<1>7. ASSUME NEW c \in Calls, Command(c) \/ Proceed(c) PROVE KInv'
  <2>1. CASE Command(c) \/ LoadVersion(c) \/ ReadBack(c) \/ Refused(c) \/ GiveUp(c)
    <3>1. TodoQuiet /\ UNCHANGED <<disk, Versions>>
      BY <1>1, <2>1, ReadingStep DEF CallsQuiet
    <3>2. UNCHANGED Versions
      BY <3>1
    <3>3. \A d \in Calls : Carries(d)
      BY <1>1, <2>1, ReadingCarries
    <3> QED BY <1>3, <1>4, <3>1, <3>2, <3>3
  <2>2. CASE CopyBefore(c)
    <3>1. /\ TodoQuiet
          /\ \A d \in Calls \ {c} : Carries(d)
          /\ Fresh(call'[c], disk') /\ call'[c].pc = "record"
      BY <1>1, <2>2, ProceedingCarries
    <3>2. \A d \in Calls : Carries(d)
      BY <3>1 DEF Carries
    <3>3. rows' = rows /\ vault \subseteq vault' /\ trimmed' = trimmed
      BY <2>2 DEF CopyBefore, History
    <3> QED BY <1>3, <3>1, <3>2, <3>3
  <2>3. CASE RecordVersion(c)
    BY <1>1, <1>2, <2>3, RecordHolds DEF KInv
  <2>4. CASE ReplaceFile(c)
    <3> DEFINE f == call[c].file
               r == [Idle EXCEPT !.pc = "confirm", !.file = f, !.text = call[c].text,
                                 !.id = call[c].id]
    <3>1. /\ disk' = [disk EXCEPT ![f] = call[c].text]
          /\ call' = [d \in Calls |-> IF d = c THEN r ELSE Overtaken(d, f)]
          /\ rows' = rows /\ vault' = vault /\ trimmed' = trimmed
      BY <2>4 DEF ReplaceFile
    <3>2. r.pc = "confirm" /\ r.todo = {}
      BY DEF Idle
    <3> HIDE DEF r
    <3>3. call'[c] = r /\ \A d \in Calls \ {c} : call'[d] = Overtaken(d, f)
      BY <3>1
    <3>4. \A g \in Files \ {f} : disk'[g] = disk[g]
      BY <1>1, <3>1
    <3>5. Carries(c)
      BY <3>2, <3>3 DEF Carries, Keeps, Underway
    <3>6. ASSUME NEW d \in Calls, d # c
          PROVE  /\ Carries(d)
                 /\ call'[d].todo = call[d].todo /\ call'[d].pc = call[d].pc
      <4>1. call'[d] = Overtaken(d, f) /\ CallShape(call[d])
        BY <1>1, <3>3, <3>6
      <4>2. PICK g : g = f
        OBVIOUS
      <4>3. Carries(d)
        BY <3>4, <4>1, <4>2, OvertakenKeeps
      <4>4. call'[d].todo = call[d].todo /\ call'[d].pc = call[d].pc
        BY <4>1, <4>2, OvertakenShape
      <4> QED BY <4>3, <4>4
    <3>7. \A d \in Calls : Carries(d)
      BY <3>5, <3>6
    <3>8. TodoQuiet
      <4>1. ASSUME NEW d \in Calls
            PROVE  /\ call'[d].todo \subseteq call[d].todo
                   /\ call'[d].pc \in {"prune", "forget"} => call'[d].todo # {}
        <5>1. CASE d = c
          BY <3>2, <3>3, <5>1
        <5>2. CASE d # c
          BY <1>1, <3>6, <5>2, TodoKept
        <5> QED BY <5>1, <5>2
      <4> QED BY <4>1 DEF TodoQuiet
    <3> QED BY <1>3, <3>1, <3>7, <3>8
  <2>5. CASE Confirm(c)
    <3> DEFINE r == [Idle EXCEPT !.pc = "select"]
    <3>1. call' = [call EXCEPT ![c] = r] /\ UNCHANGED <<disk, vault, trimmed>>
      BY <2>5 DEF Confirm, Becomes, History
    <3>2. CallShape(r) /\ r.pc = "select" /\ r.todo = {}
      BY DEF CallShape, CallRecord, CallStates, Idle
    <3> HIDE DEF r
    <3>3. TodoQuiet
      BY <1>1, <3>1, <3>2, Settles DEF CallsQuiet
    <3>4. Fresh(r, disk)
      BY <3>2 DEF Fresh, Underway
    <3>5. \A d \in Calls : Carries(d)
      BY <1>1, <3>1, <3>2, <3>4, OneCallCarries
    <3> QED BY <1>3, <2>5, <3>1, <3>3, <3>5
  <2>6. CASE SelectDoomed(c)
    BY <1>1, <1>2, <2>6, SelectHolds DEF KInv
  <2>7. CASE RemoveCopy(c) \/ SkipCopy(c)
    BY <1>1, <1>2, <2>7, RemoveHolds DEF KInv
  <2>8. CASE ForgetVersion(c)
    BY <1>1, <1>2, <2>8, ForgetHolds DEF KInv
  <2> QED BY <1>7, <2>1, <2>2, <2>3, <2>4, <2>5, <2>6, <2>7, <2>8 DEF Proceed
<1> QED BY <1>5, <1>6, <1>7 DEF Next

\* What is torn is spent, what a save read is there, what it recorded is kept:
\* together they are inductive.
LEMMA HoldsInvariance ==
  ASSUME CapHoldsAllFiles
  PROVE  Spec => []KInv
<1>1. Init => KInv
  BY InitInv, InitHolds DEF KInv
<1>2. KInv /\ [Next]_vars => KInv'
  BY NextHolds
<1> QED BY <1>1, <1>2, PTL DEF Spec

\* A version that lost its copy is one the next prune removes, but for what
\* the global cap took, however many prunes, saves, failures and crashes come
\* between the removal of a copy and that of its row (prune_snapshots).
THEOREM TornStays ==
  ASSUME CapHoldsAllFiles
  PROVE  Spec => []TornIsDoomed
<1>1. ASSUME KInv PROVE TornIsDoomed
  <2>1. IsFiniteSet(DOMAIN rows) /\ DOMAIN rows \subseteq Nat \ {0} /\ TornInv
    BY <1>1 DEF KInv, IInv, TypeOK
  <2>2. ASSUME NEW i \in DOMAIN rows, rows[i].dest \notin vault
        PROVE  \/ i \in Doomed
               \/ \E j \in trimmed :
                    \/ j = i
                    \/ j < i /\ EarliestOfSession(i)
                    \/ j > i /\ Cardinality(Newer(i)) < PerFile
    <3>1. Spent(i)
      BY <2>1, <2>2 DEF TornInv
    <3> QED BY <2>1, <3>1, SpentMeans
  <2> QED BY <2>2 DEF TornIsDoomed
<1> QED BY <1>1, HoldsInvariance, PTL

\* A save that nobody overtook replaces the text it was reviewed against, and
\* leaves a version of it to restore, but for what pruning may take meanwhile
\* (edit_snapshot.rs, save_reviewed_change).
THEOREM SavesReplaceWhatTheySaved ==
  ASSUME CapHoldsAllFiles
  PROVE  Spec => ReplacesWhatWasSaved
<1> DEFINE Replaces ==
      \A c \in Calls :
         (call[c].pc = "replace" /\ call'[c].pc = "confirm" /\ ~call[c].overtaken)
         => LET f == call[c].file
                i == call[c].id
            IN  /\ call[c].expected \in {None, disk[f]}
                /\ \/ Restorable(i) /\ rows[i].file = f /\ rows[i].text = disk[f]
                   \/ Cardinality({j \in RowsOf(f) : j > i}) >= PerFile
                   \/ \E j \in trimmed : j >= i
<1>1. KInv => Replaces
  <2>1. ASSUME KInv, NEW c \in Calls, call[c].pc = "replace", ~call[c].overtaken
        PROVE  LET f == call[c].file
                   i == call[c].id
               IN  /\ call[c].expected \in {None, disk[f]}
                   /\ \/ Restorable(i) /\ rows[i].file = f /\ rows[i].text = disk[f]
                      \/ Cardinality({j \in RowsOf(f) : j > i}) >= PerFile
                      \/ \E j \in trimmed : j >= i
    <3>1. /\ call[c].before = disk[call[c].file]
          /\ call[c].expected \in {None, call[c].before}
      BY <2>1 DEF KInv, ReadInv, Fresh, Underway
    <3>2. Holds(call[c].id, call[c].file, disk[call[c].file])
      BY <2>1, <3>1 DEF KInv, SavedInv
    <3> QED BY <3>1, <3>2 DEF Holds, Crowded, NewerIn
  <2> QED BY <2>1
<1>2. KInv /\ [Next]_vars => [Replaces]_vars
  BY <1>1
<1>3. Spec => [][Replaces]_vars
  BY <1>2, HoldsInvariance, PTL DEF Spec
<1> QED BY <1>3, PTL DEF ReplacesWhatWasSaved


=============================================================================
