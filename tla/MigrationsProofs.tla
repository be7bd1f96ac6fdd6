-------------------------- MODULE MigrationsProofs --------------------------
(***************************************************************************)
(* Types of the migration tool, and what it leaves in the database: rows   *)
(* without a hole, and after a call that returned nil the version that the *)
(* call is named for.  Both need to know which transactions are left of    *)
(* which call, and from which rows they start (CallInv), and that the      *)
(* versions GORMigrate works with have no holes themselves (VersionsInv).  *)
(* What is known of a sorted list, of Min and of Max is derived from least *)
(* counterexamples, an induction that needs no operator as a parameter.    *)
(***************************************************************************)
EXTENDS Migrations, FiniteSetTheorems, SequenceTheorems, WellFoundedInduction, TLAPS

Closed(S) == \A v \in S, u \in Versions : u < v => u \in S

Increasing(list) == \A i, j \in DOMAIN list : i < j => list[i] < list[j]

MigrationsTypes == MigrationsTypeOK /\ IsFiniteSet(applied)

\* Migrate.migrations and the versions prepared from them are beginnings of Versions.
VersionsInv ==
    /\ Closed(registered) /\ Closed(Known) /\ Increasing(versions)
    /\ prepared => db

Is(op) == called.op = op

\* The transactions left of each call, and what held when it looked at the rows.
CallInv == todo # <<>> =>
    \/ Is("Migrate") /\ todo = Up(IF versions = <<>> THEN 0 ELSE Last(versions))
    \/ /\ Is("Rollback") /\ versions # <<>>
       /\ \/ todo = Down(versions[1]) \o One(versions[1])
          \/ todo = One(versions[1]) /\ applied \cap Known \subseteq {versions[1]}
    \/ /\ Is("MigrateTo")
       /\ \/ todo = Down(called.to) /\ Current > called.to
          \/ todo = Up(called.to) /\ Current < called.to
    \/ /\ Is("MigrateNextTo") /\ NextFrom(versions, called.to) # 0
       /\ todo = Up(NextFrom(versions, called.to)) /\ Current < NextFrom(versions, called.to)
    \/ /\ Is("MigratePreviousTo") /\ called.to \in Known
       /\ \/ todo = Down(PreviousFrom(versions, called.to)) /\ Current > PreviousFrom(versions, called.to)
          \/ todo = One(versions[1]) /\ applied = {} /\ PreviousFrom(versions, called.to) = 0
    \/ Is("RollbackTo") /\ todo = Down(called.to)

MigrationsInv == MigrationsTypes /\ VersionsInv /\ NoHoles /\ CallInv /\ OkMeansReached

-----------------------------------------------------------------------------
(* Sets of natural numbers. *)

LEMMA LeastOf ==
    ASSUME NEW T, T \subseteq Nat, T # {}
    PROVE  \E x \in T : \A y \in T : x <= y
<1>1. \E x \in T : \A y \in T : ~(<<y, x>> \in OpToRel(<, Nat))
  BY WFMin, NatLessThanWellFounded
<1>2. PICK x \in T : \A y \in T : ~(<<y, x>> \in OpToRel(<, Nat))
  BY <1>1
<1>3. \A y \in T : y < x => <<y, x>> \in OpToRel(<, Nat)
  BY DEF OpToRel
<1>4. \A y \in T : ~(y < x)
  BY <1>2, <1>3
<1> QED
  BY <1>4

\* A smallest set without a bound would have one without one of its elements.
LEMMA FiniteIsBounded ==
    ASSUME NEW S, S \subseteq Nat, IsFiniteSet(S)
    PROVE  \E n \in Nat : \A x \in S : x <= n
<1> DEFINE Bounded(U) == \E n \in Nat : \A x \in U : x <= n
<1> DEFINE Sizes == {k \in Nat : \E U : U \subseteq Nat /\ IsFiniteSet(U) /\ Cardinality(U) = k /\ ~Bounded(U)}
<1>1. SUFFICES ASSUME Sizes # {} PROVE FALSE
  <2>1. Cardinality(S) \in Nat
    BY FS_CardinalityType
  <2> QED
    BY <1>1, <2>1
<1>2. PICK k \in Sizes : \A l \in Sizes : k <= l
  BY <1>1, LeastOf
<1>3. PICK U : U \subseteq Nat /\ IsFiniteSet(U) /\ Cardinality(U) = k /\ ~Bounded(U)
  BY <1>2
<1>4. PICK x \in U : TRUE
  BY <1>3
<1>5. /\ U \ {x} \subseteq Nat /\ IsFiniteSet(U \ {x}) /\ Cardinality(U \ {x}) = k - 1
      /\ Cardinality(U \ {x}) \in Nat
  BY <1>3, <1>4, FS_RemoveElement, FS_CardinalityType
<1>6. Bounded(U \ {x})
  <2>1. ~(k - 1 \in Sizes)
    BY <1>2, <1>5
  <2> QED
    BY <1>5, <2>1
<1>7. PICK n \in Nat : \A y \in U \ {x} : y <= n
  BY <1>6
<1>8. x \in Nat /\ \A y \in U : y \in Nat /\ y <= (IF x <= n THEN n ELSE x)
  BY <1>3, <1>4, <1>7
<1>9. Bounded(U)
  BY <1>7, <1>8
<1> QED
  BY <1>3, <1>9

LEMMA MinIs ==
    ASSUME NEW S, S \subseteq Nat, S # {}
    PROVE  Min(S) \in S /\ \A y \in S : Min(S) <= y
BY LeastOf DEF Min

LEMMA MaxIs ==
    ASSUME NEW S, S \subseteq Nat, S # {}, IsFiniteSet(S)
    PROVE  Max(S) \in S /\ \A y \in S : Max(S) >= y
<1> DEFINE Bounds == {n \in Nat : \A x \in S : x <= n}
<1>1. Bounds # {}
  BY FiniteIsBounded
<1>2. PICK n \in Bounds : \A m \in Bounds : n <= m
  BY <1>1, LeastOf
<1>3. n \in S
  <2>1. SUFFICES ASSUME n \notin S PROVE FALSE
    OBVIOUS
  <2>2. \A x \in S : x \in Nat /\ x < n
    BY <2>1
  <2>3. n - 1 \in Nat
    <3>1. PICK x \in S : TRUE
      OBVIOUS
    <3>2. x \in Nat /\ x < n /\ n \in Nat
      BY <2>2
    <3> QED
      BY <3>2
  <2>4. n - 1 \in Bounds
    BY <2>2, <2>3
  <2>5. n \in Nat /\ n <= n - 1
    BY <1>2, <2>4
  <2> QED
    BY <2>5
<1>4. \E x \in S : \A y \in S : x >= y
  BY <1>3
<1> QED
  BY <1>4 DEF Max

\* The elements of S in their order.
Listed(S) == \E list \in [1..Cardinality(S) -> S] : Increasing(list) /\ Range(list) = S

\* The list of U gets one longer with an element that is greater than all others.
LEMMA ListGrows ==
    ASSUME NEW n \in Nat, NEW U, U \subseteq 0..n, n \in U, Listed(U \ {n})
    PROVE  Listed(U)
<1> DEFINE W == U \ {n}
           k == Cardinality(W)
<1>1. IsFiniteSet(U) /\ IsFiniteSet(W)
  <2>1. IsFiniteSet(0..n)
    BY FS_Interval
  <2>2. IsFiniteSet(U)
    BY <2>1, FS_Subset
  <2> QED
    BY <2>2, FS_RemoveElement
<1>2. k \in Nat /\ Cardinality(U) = k + 1
  <2>1. k \in Nat /\ Cardinality(U) \in Nat
    BY <1>1, FS_CardinalityType
  <2>2. Cardinality(U \ {n}) = Cardinality(U) - 1
    BY <1>1, FS_RemoveElement
  <2> QED
    BY <2>1, <2>2
<1>3. PICK list \in [1..k -> W] : Increasing(list) /\ Range(list) = W
  BY DEF Listed
<1> HIDE DEF k
<1> DEFINE longer == [i \in 1..(k + 1) |-> IF i = k + 1 THEN n ELSE list[i]]
<1>4. \A i \in 1..k : list[i] \in W /\ list[i] \in U /\ list[i] \in Nat /\ list[i] < n
  <2>1. \A i \in 1..k : list[i] \in W
    BY <1>3
  <2>2. \A x \in W : x \in U /\ x \in Nat /\ x < n
    OBVIOUS
  <2> QED
    BY <2>1, <2>2
<1>5. \A i \in 1..(k + 1) : i \in 1..k \/ i = k + 1
  BY <1>2
<1>6. longer \in [1..(k + 1) -> U]
  BY <1>4, <1>5
<1>7. \A i, j \in 1..(k + 1) : i < j => longer[i] < longer[j]
  <2>1. \A i, j \in 1..k : i < j => list[i] < list[j]
    BY <1>3 DEF Increasing
  <2> QED
    BY <1>2, <1>4, <2>1
<1>8. \A x \in U : \E i \in 1..(k + 1) : longer[i] = x
  <2>1. ASSUME NEW x \in U, x # n PROVE \E i \in 1..(k + 1) : longer[i] = x
    <3>1. PICK i \in 1..k : list[i] = x
      BY <1>3, <2>1 DEF Range
    <3>2. i \in 1..(k + 1) /\ i # k + 1
      BY <1>2, <3>1
    <3> QED
      BY <3>1, <3>2
  <2>2. longer[k + 1] = n /\ k + 1 \in 1..(k + 1)
    BY <1>2
  <2> QED
    BY <2>1, <2>2
<1>9. Range(longer) = U /\ Increasing(longer)
  <2>1. DOMAIN longer = 1..(k + 1) /\ \A i \in 1..(k + 1) : longer[i] \in U
    BY <1>6
  <2> HIDE DEF longer
  <2>2. Range(longer) = U
    BY <1>8, <2>1 DEF Range
  <2> QED
    BY <1>7, <2>1, <2>2 DEF Increasing
<1> QED
  BY <1>2, <1>6, <1>9 DEF Listed

LEMMA EmptyIsListed == Listed({})
<1> DEFINE none == [i \in 1..0 |-> 0]
<1>1. Cardinality({}) = 0 /\ 1..0 = {}
  BY FS_EmptySet
<1>2. none \in [1..0 -> {}] /\ Increasing(none) /\ Range(none) = {}
  BY <1>1 DEF Increasing, Range
<1> QED
  BY <1>1, <1>2 DEF Listed

LEMMA SortedExists ==
    ASSUME NEW S, S \subseteq Nat, IsFiniteSet(S)
    PROVE  Listed(S)
<1> DEFINE Unlisted == {n \in Nat : \E U \in SUBSET (0..n) : ~Listed(U)}
<1>1. ASSUME Unlisted # {} PROVE FALSE
  <2>1. PICK n \in Unlisted : \A m \in Unlisted : n <= m
    BY <1>1, LeastOf
  <2>2. n \in Nat
    OBVIOUS
  <2>3. PICK U \in SUBSET (0..n) : ~Listed(U)
    BY <2>1
  <2>4. Listed(U \ {n})
    <3>1. CASE n = 0
      <4>1. U \ {n} = {}
        BY <3>1
      <4> QED
        BY <4>1, EmptyIsListed
    <3>2. CASE n # 0
      <4>1. n - 1 \in Nat /\ U \ {n} \in SUBSET (0..(n - 1)) /\ ~(n <= n - 1)
        BY <2>2, <3>2
      <4>2. n - 1 \notin Unlisted
        BY <2>1, <4>1
      <4> QED
        BY <4>1, <4>2
    <3> QED
      BY <3>1, <3>2
  <2>5. CASE n \in U
    BY <2>2, <2>3, <2>4, <2>5, ListGrows
  <2>6. CASE n \notin U
    <3>1. U \ {n} = U
      BY <2>6
    <3> QED
      BY <2>3, <2>4, <3>1
  <2> QED
    BY <2>5, <2>6
<1>2. PICK n \in Nat : \A x \in S : x <= n
  BY FiniteIsBounded
<1>3. S \in SUBSET (0..n)
  BY <1>2
<1> QED
  BY <1>1, <1>3

\* Two lists of the same set in their order are equal, so whatever list Sorted
\* chooses has all of S, too: an injection into S from as many numbers as S has elements.
LEMMA SortedIs ==
    ASSUME NEW S, S \subseteq Nat, IsFiniteSet(S)
    PROVE  /\ Sorted(S) \in Seq(S) /\ Range(Sorted(S)) = S
           /\ Increasing(Sorted(S))
<1> DEFINE n == Cardinality(S)
<1>1. n \in Nat
  BY FS_CardinalityType
<1>2. \E list \in [1..n -> S] : \A i, j \in DOMAIN list : i < j => list[i] < list[j]
  BY SortedExists DEF Listed, Increasing
<1>3. Sorted(S) \in [1..n -> S] /\ \A i, j \in DOMAIN Sorted(S) : i < j => Sorted(S)[i] < Sorted(S)[j]
  BY <1>2 DEF Sorted
<1> DEFINE s == Sorted(S)
<1> HIDE DEF s
<1>4. s \in [1..n -> S] /\ \A i, j \in 1..n : i < j => s[i] < s[j]
  BY <1>3 DEF s
<1> HIDE DEF n
<1>5. s \in Injection(1..n, S)
  <2>1. \A i, j \in 1..n : s[i] \in Nat /\ s[j] \in Nat /\ (s[i] = s[j] => ~(i < j) /\ ~(j < i))
    <3>1. \A i \in 1..n : s[i] \in Nat
      BY <1>4
    <3>2. \A a, b \in Nat : a = b => ~(a < b)
      OBVIOUS
    <3> QED
      BY <1>4, <3>1, <3>2
  <2>2. \A i, j \in 1..n : s[i] = s[j] => i = j
    BY <2>1
  <2> QED
    BY <1>4, <2>2 DEF Injection, IsInjective
<1>6. IsFiniteSet(1..n) /\ Cardinality(1..n) = n
  BY <1>1, FS_Interval
<1>7. s \in Surjection(1..n, S)
  BY <1>5, <1>6, FS_Injection DEF n
<1>8. Range(s) = S
  BY <1>4, <1>7 DEF Surjection, Range
<1>9. s \in Seq(S)
  BY <1>1, <1>4
<1> QED
  BY <1>3, <1>8, <1>9 DEF s, Increasing

-----------------------------------------------------------------------------
(* Lists of versions and the transactions on them. *)

LEMMA BuildsAre ==
    /\ Versions \subseteq Nat \ {0} /\ Targets \subseteq Nat
    /\ \A b \in Builds : b \subseteq Versions /\ IsFiniteSet(b)
BY BuildsAssumption DEF Versions, Targets

\* The last row, 0 without any.
LEMMA LastRow ==
    ASSUME NEW S, S \subseteq Nat, IsFiniteSet(S)
    PROVE  /\ Max(S \cup {0}) \in S \cup {0} /\ Max(S \cup {0}) \in Nat
           /\ \A v \in S : v <= Max(S \cup {0})
           /\ \A m \in S \cup {0} : (\A v \in S : v <= m) => Max(S \cup {0}) = m
<1> DEFINE T == S \cup {0}
<1>1. T \subseteq Nat /\ T # {} /\ IsFiniteSet(T)
  BY FS_AddElement
<1>2. Max(T) \in T /\ \A y \in T : Max(T) >= y
  BY <1>1, MaxIs
<1>3. Max(T) \in Nat
  BY <1>1, <1>2
<1>4. ASSUME NEW m \in T, \A v \in S : v <= m PROVE Max(T) = m
  <2>1. m \in Nat /\ Max(T) >= m
    BY <1>1, <1>2
  <2>2. Max(T) <= m
    BY <1>2, <1>3, <1>4, <2>1
  <2> QED
    BY <1>3, <2>1, <2>2
<1>5. \A v \in S : v \in Nat /\ v <= Max(T)
  BY <1>1, <1>2, <1>3
<1> QED
  BY <1>2, <1>3, <1>4, <1>5

LEMMA IndexIs ==
    ASSUME NEW list, NEW v \in Range(list)
    PROVE  IndexIn(list, v) \in DOMAIN list /\ list[IndexIn(list, v)] = v
BY DEF Range, IndexIn

LEMMA ListIs ==
    ASSUME NEW list \in Seq(Nat), Increasing(list)
    PROVE  /\ Range(list) \subseteq Nat
           /\ list # <<>> =>
                /\ list[1] \in Range(list) /\ \A u \in Range(list) : list[1] <= u
                /\ Last(list) \in Range(list) /\ \A u \in Range(list) : u <= Last(list)
           /\ \A i, j \in DOMAIN list : list[i] <= list[j] <=> i <= j
           /\ Range(list) # {} <=> list # <<>>
<1>1. Len(list) \in Nat /\ DOMAIN list = 1..Len(list) /\ \A i \in 1..Len(list) : list[i] \in Nat
  BY LenProperties, ElementOfSeq
<1>2. \A i, j \in 1..Len(list) : list[i] <= list[j] <=> i <= j
  <2>1. \A i, j \in 1..Len(list) : i < j => list[i] < list[j]
    BY <1>1 DEF Increasing
  <2> QED
    BY <1>1, <2>1
<1>3. Range(list) \subseteq Nat
  BY <1>1 DEF Range
<1>4. ASSUME list # <<>>
      PROVE  /\ list[1] \in Range(list) /\ \A u \in Range(list) : list[1] <= u
             /\ Last(list) \in Range(list) /\ \A u \in Range(list) : u <= Last(list)
  <2>1. 1 \in 1..Len(list) /\ Len(list) \in 1..Len(list)
    BY <1>1, <1>4, EmptySeq
  <2> QED
    BY <1>1, <1>2, <2>1 DEF Range, Last
<1>5. list = <<>> => Range(list) = {}
  BY EmptySeq DEF Range
<1> QED
  BY <1>1, <1>2, <1>3, <1>4, <1>5

\* The first versions of a list up to v are those that are not greater.
LEMMA UpToIs ==
    ASSUME NEW list \in Seq(Nat), Increasing(list), NEW v \in Range(list)
    PROVE  Range(SubSeq(list, 1, IndexIn(list, v))) = {u \in Range(list) : u <= v}
<1> DEFINE k == IndexIn(list, v)
<1>1. k \in 1..Len(list) /\ list[k] = v /\ Len(list) \in Nat /\ DOMAIN list = 1..Len(list)
  BY IndexIs, LenProperties
<1> HIDE DEF k
<1>2. /\ SubSeq(list, 1, k) \in Seq(Nat) /\ Len(SubSeq(list, 1, k)) = k
      /\ \A i \in 1..k : SubSeq(list, 1, k)[i] = list[i]
  <2>1. \A i \in 1..k : list[i] \in Nat
    BY <1>1, ElementOfSeq
  <2> QED
    BY <1>1, <2>1, SubSeqProperties
<1>3. DOMAIN SubSeq(list, 1, k) = 1..k
  BY <1>2, LenProperties
<1>4. Range(SubSeq(list, 1, k)) = {list[i] : i \in 1..k}
  BY <1>2, <1>3 DEF Range
<1>5. \A i \in 1..Len(list) : list[i] <= v <=> i \in 1..k
  BY <1>1, ListIs
<1>6. {list[i] : i \in 1..k} = {u \in Range(list) : u <= v}
  <2>1. ASSUME NEW i \in 1..k PROVE list[i] \in Range(list) /\ list[i] <= v
    <3>1. i \in 1..Len(list)
      BY <1>1
    <3> QED
      BY <1>1, <1>5, <3>1 DEF Range
  <2>2. ASSUME NEW u \in Range(list), u <= v PROVE \E i \in 1..k : u = list[i]
    <3>1. PICK i \in 1..Len(list) : list[i] = u
      BY <1>1 DEF Range
    <3> QED
      BY <1>5, <2>2, <3>1
  <2> QED
    BY <2>1, <2>2
<1> QED
  BY <1>4, <1>6 DEF k

LEMMA NeighboursAre ==
    ASSUME NEW list \in Seq(Nat), NEW v
    PROVE  /\ NextFrom(list, v) \in Range(list) \cup {0}
           /\ v \in Range(list) => PreviousFrom(list, v) \in Range(list) \cup {0}
<1>1. Len(list) \in Nat /\ DOMAIN list = 1..Len(list)
  BY LenProperties
<1>2. ASSUME v \in Range(list), v # Last(list) PROVE list[IndexIn(list, v) + 1] \in Range(list)
  <2>1. IndexIn(list, v) \in 1..Len(list) /\ IndexIn(list, v) # Len(list)
    BY <1>1, <1>2, IndexIs DEF Last
  <2>2. IndexIn(list, v) + 1 \in DOMAIN list
    BY <1>1, <2>1
  <2> QED
    BY <2>2 DEF Range
<1>3. ASSUME v \in Range(list), v # list[1] PROVE list[IndexIn(list, v) - 1] \in Range(list)
  <2>1. IndexIn(list, v) \in 1..Len(list) /\ IndexIn(list, v) # 1
    BY <1>1, <1>3, IndexIs
  <2>2. IndexIn(list, v) - 1 \in DOMAIN list
    BY <1>1, <2>1
  <2> QED
    BY <2>2 DEF Range
<1> QED
  BY <1>2, <1>3 DEF NextFrom, PreviousFrom

LEMMA Shapes ==
    ASSUME NEW v \in Targets, NEW w \in Targets
    PROVE  /\ \A todos \in {Up(v), Down(v), One(v)} :
                todos \in Seq(Transaction) /\ todos # <<>> /\ Len(todos) = 1 /\ Tail(todos) = <<>> /\ todos[1].to = v
           /\ Up(v)[1].kind = "up" /\ Down(v)[1].kind = "down" /\ One(v)[1].kind = "one"
           /\ Down(v) \o One(w) \in Seq(Transaction) /\ Down(v) \o One(w) # <<>> /\ Len(Down(v) \o One(w)) = 2
           /\ (Down(v) \o One(w))[1] = Down(v)[1] /\ Tail(Down(v) \o One(w)) = One(w)
<1>1. ASSUME NEW x \in Transaction
      PROVE  <<x>> \in Seq(Transaction) /\ <<x>> # <<>> /\ Len(<<x>>) = 1 /\ Tail(<<x>>) = <<>> /\ <<x>>[1] = x
  OBVIOUS
<1>2. \A k \in {"up", "down", "one"} :
        [kind |-> k, to |-> v] \in Transaction /\ [kind |-> k, to |-> w] \in Transaction
  BY DEF Transaction
<1>3. ASSUME NEW x \in Transaction, NEW y \in Transaction
      PROVE  /\ <<x>> \o <<y>> \in Seq(Transaction) /\ <<x>> \o <<y>> # <<>> /\ Len(<<x>> \o <<y>>) = 2
             /\ (<<x>> \o <<y>>)[1] = x /\ Tail(<<x>> \o <<y>>) = <<y>>
  <2>1. <<x>> \o <<y>> = <<x, y>>
    <3>1. <<x>> \in Seq(Transaction) /\ <<y>> \in Seq(Transaction) /\ <<x, y>> \in Seq(Transaction)
      OBVIOUS
    <3>2. Len(<<x>>) = 1 /\ Len(<<y>>) = 1 /\ Len(<<x, y>>) = 2
      OBVIOUS
    <3>3. Len(<<x>> \o <<y>>) = 2 /\ <<x>> \o <<y>> \in Seq(Transaction)
      BY <3>1, <3>2, ConcatProperties
    <3>4. (<<x>> \o <<y>>)[1] = x /\ (<<x>> \o <<y>>)[2] = y
      BY <3>1, <3>2, ConcatProperties
    <3>5. \A i \in 1..2 : (<<x>> \o <<y>>)[i] = <<x, y>>[i]
      BY <3>4
    <3> QED
      BY <3>1, <3>2, <3>3, <3>5, SeqEqual
  <2>2. <<x, y>> \in Seq(Transaction) /\ <<x, y>> # <<>> /\ Len(<<x, y>>) = 2 /\ <<x, y>>[1] = x
    OBVIOUS
  <2>3. Tail(<<x, y>>) = <<y>>
    OBVIOUS
  <2> QED
    BY <2>1, <2>2, <2>3
<1> QED
  BY <1>1, <1>2, <1>3 DEF Up, Down, One

-----------------------------------------------------------------------------
(* The types. *)

LEMMA VersionsAre ==
    ASSUME MigrationsTypeOK
    PROVE  /\ applied \subseteq Versions /\ applied \subseteq Nat
           /\ registered \subseteq Versions /\ IsFiniteSet(registered) /\ registered \subseteq Nat
           /\ versions \in Seq(registered) /\ Known \subseteq registered /\ IsFiniteSet(Known)
<1>1. /\ build \in Builds /\ registered \subseteq build /\ applied \subseteq Versions
      /\ versions \in Seq(registered)
  BY DEF MigrationsTypeOK
<1>2. registered \subseteq Versions /\ IsFiniteSet(registered) /\ registered \subseteq Nat
  BY <1>1, BuildsAre, FS_Subset
<1>3. applied \subseteq Nat
  BY <1>1, BuildsAre
<1>4. Known \subseteq registered
  BY <1>1, LenProperties, ElementOfSeq DEF Known, Range
<1>5. IsFiniteSet(Known)
  BY <1>2, <1>4, FS_Subset
<1> QED
  BY <1>1, <1>2, <1>3, <1>4, <1>5

LEMMA PreparedIsTyped ==
    ASSUME MigrationsTypeOK
    PROVE  /\ PreparedVersions \in Seq(registered) /\ PreparedVersions \in Seq(Nat)
           /\ Range(PreparedVersions) \subseteq registered
<1>1. PreparedVersions \in Seq(registered)
  BY VersionsAre, SortedIs DEF PreparedVersions
<1>2. Range(PreparedVersions) \subseteq registered
  BY <1>1, LenProperties, ElementOfSeq DEF Range
<1> QED
  BY <1>1, <1>2, VersionsAre, SeqMonotonic

OutcomeOK(o) ==
    /\ o.does \in Seq(Transaction) /\ Len(o.does) <= 2
    /\ o.answer \in {"pending", "nil", "error"}
    /\ o.answer = "pending" <=> o.does # <<>>

LEMMA AnswersAreTyped ==
    /\ OutcomeOK(Done) /\ OutcomeOK(Refuse)
    /\ \A v \in Targets : OutcomeOK(Do(Up(v))) /\ OutcomeOK(Do(Down(v))) /\ OutcomeOK(Do(One(v)))
    /\ \A v, w \in Targets : OutcomeOK(Do(Down(v) \o One(w)))
<1>1. <<>> \in Seq(Transaction) /\ Len(<<>>) = 0
  BY EmptySeq
<1> QED
  BY <1>1, Shapes DEF OutcomeOK, Done, Refuse, Do

LEMMA CurrentIs ==
    ASSUME MigrationsTypes
    PROVE  /\ Current \in applied \cup {0} /\ Current \in Nat
           /\ \A v \in applied : v <= Current
BY VersionsAre, LastRow DEF Current, MigrationsTypes

LEMMA OutcomesAreTyped ==
    ASSUME MigrationsTypes, NEW op \in Operations, NEW v \in Targets
    PROVE  OutcomeOK(Outcome(op, v, PreparedVersions))
<1> DEFINE list == PreparedVersions
<1> USE DEF MigrationsTypes
<1>1. list \in Seq(Nat) /\ Range(list) \subseteq Targets /\ 0 \in Targets
  BY PreparedIsTyped, VersionsAre DEF Targets
<1>2. list # <<>> => list[1] \in Targets /\ Last(list) \in Targets
  <2>1. ASSUME list # <<>> PROVE list[1] \in Range(list) /\ Last(list) \in Range(list)
    <3>1. Len(list) \in Nat \ {0} /\ DOMAIN list = 1..Len(list)
      BY <1>1, <2>1, EmptySeq, LenProperties
    <3> QED
      BY <3>1 DEF Range, Last
  <2> QED
    BY <1>1, <2>1
<1>3. NextFrom(list, v) \in Targets /\ (v \in Range(list) => PreviousFrom(list, v) \in Targets)
  BY <1>1, NeighboursAre
<1>4. v \in Range(list) => list # <<>>
  BY EmptySeq DEF Range
<1> HIDE DEF list
<1>5. OutcomeOK(Migrate(list))
  BY <1>1, <1>2, AnswersAreTyped DEF Migrate
<1>6. OutcomeOK(Rollback(list))
  BY <1>2, AnswersAreTyped DEF Rollback
<1>7. OutcomeOK(MigrateTo(v))
  BY AnswersAreTyped DEF MigrateTo
<1>8. OutcomeOK(MigrateNextTo(list, v))
  BY <1>3, AnswersAreTyped DEF MigrateNextTo
<1>9. OutcomeOK(MigratePreviousTo(list, v))
  <2>1. CASE v \notin Range(list)
    BY <2>1, AnswersAreTyped DEF MigratePreviousTo
  <2>2. CASE v \in Range(list)
    <3> DEFINE prev == PreviousFrom(list, v)
    <3>1. prev \in Targets /\ prev \in Nat /\ Current \in Nat /\ list[1] \in Targets
      BY <1>2, <1>3, <1>4, <2>2, BuildsAre, CurrentIs
    <3>2. Current > prev \/ Current < prev \/ Current = prev
      BY <3>1
    <3> HIDE DEF prev
    <3>3. MigratePreviousTo(list, v) \in {Done, Refuse, Do(Down(prev)), Do(One(list[1]))}
      BY <2>2, <3>1, <3>2 DEF MigratePreviousTo, prev
    <3> QED
      BY <3>1, <3>3, AnswersAreTyped
  <2> QED
    BY <2>1, <2>2
<1>10. OutcomeOK(Do(Down(v)))
  BY AnswersAreTyped
<1> QED
  BY <1>5, <1>6, <1>7, <1>8, <1>9, <1>10 DEF Outcome, Operations, list

LEMMA NothingCalled ==
    /\ <<>> \in Seq({}) /\ <<>> \in Seq(Transaction) /\ Len(<<>>) = 0
    /\ NoCall \in [op : Operations \cup {"none"}, to : Targets]
<1>1. Len(<<>>) = 0
  BY EmptySeq
<1>2. 0 \in Targets
  BY DEF Targets
<1>3. NoCall \in [op : Operations \cup {"none"}, to : Targets]
  BY <1>2 DEF NoCall
<1> QED
  BY <1>1, <1>3, EmptySeq

LEMMA MigrationsInitTyped == MigrationsInit => MigrationsTypes
<1> SUFFICES ASSUME MigrationsInit PROVE MigrationsTypes
  OBVIOUS
<1>1. versions \in Seq(registered) /\ todo \in Seq(Transaction) /\ Len(todo) <= 2 /\ todo = <<>> /\ versions = <<>>
  BY NothingCalled DEF MigrationsInit
<1>2. called \in [op : Operations \cup {"none"}, to : Targets]
  BY NothingCalled DEF MigrationsInit
<1> QED
  BY <1>1, <1>2, FS_EmptySet DEF MigrationsInit, MigrationsTypeOK, MigrationsTypes

LEMMA MigrationsStepTyped == MigrationsTypes /\ [MigrationsNext]_migrationVars => MigrationsTypes'
<1> SUFFICES ASSUME MigrationsTypes, [MigrationsNext]_migrationVars PROVE MigrationsTypes'
  OBVIOUS
<1> USE DEF MigrationsTypes
<1>1. <<>> \in Seq(registered) /\ <<>> \in Seq({}) /\ <<>> \in Seq(Transaction) /\ Len(<<>>) = 0
  BY EmptySeq, NothingCalled
<1>2. ASSUME NEW b \in Builds, Restart(b) PROVE MigrationsTypes'
  <2>1. versions' \in Seq(registered') /\ todo' \in Seq(Transaction) /\ Len(todo') <= 2 /\ todo' = <<>> /\ versions' = <<>>
    BY <1>2, NothingCalled DEF Restart, StartOf
  <2>2. called' \in [op : Operations \cup {"none"}, to : Targets]
    BY <1>2, NothingCalled DEF Restart, StartOf
  <2> QED
    BY <1>2, <2>1, <2>2 DEF Restart, StartOf, MigrationsTypeOK
<1>3. CASE Add
  <2>1. build \ registered \subseteq Nat /\ build \ registered # {}
    BY <1>3, BuildsAre DEF Add, MigrationsTypeOK
  <2>2. registered' \subseteq build' /\ registered \subseteq registered'
    BY <1>3, <2>1, MinIs DEF Add, MigrationsTypeOK
  <2>3. versions' \in Seq(registered')
    BY <1>3, <2>2, SeqMonotonic DEF Add, MigrationsTypeOK
  <2> QED
    BY <1>3, <2>2, <2>3 DEF Add, MigrationsTypeOK
<1>4. CASE SetDB
  BY <1>1, <1>4 DEF SetDB, MigrationsTypeOK
<1>5. CASE Fail
  BY <1>1, <1>5 DEF Fail, MigrationsTypeOK
<1>6. CASE Commit
  <2>1. todo \in Seq(Transaction) /\ todo # <<>> /\ Len(todo) \in Nat \ {0}
    BY <1>6, EmptySeq DEF Commit, MigrationsTypeOK
  <2>2. /\ Tail(todo) \in Seq(Transaction) /\ Len(Tail(todo)) = Len(todo) - 1
    BY <2>1, HeadTailProperties
  <2>3. Tail(todo) = <<>> <=> Len(todo) = 1
    <3>1. Tail(todo) = <<>> => Len(todo) - 1 = 0
      BY <1>1, <2>2
    <3>2. Tail(todo) # <<>> => Len(todo) - 1 # 0
      BY <2>2, EmptySeq
    <3> QED
      BY <2>1, <3>1, <3>2
  <2>4. applied' \subseteq Versions /\ IsFiniteSet(applied')
    <3>1. CASE todo[1].kind # "up"
      BY <1>6, <3>1, FS_Subset DEF Commit, MigrationsTypeOK
    <3>2. CASE todo[1].kind = "up"
      <4> DEFINE k == IndexIn(versions, todo[1].to)
      <4>1. todo[1].to \in Known
        BY <1>6 DEF Commit, Refused
      <4>2. k \in DOMAIN versions /\ versions \in Seq(Nat) /\ DOMAIN versions = 1..Len(versions) /\ Len(versions) \in Nat
        BY <4>1, IndexIs, VersionsAre, SeqMonotonic, LenProperties DEF Known
      <4>3. Range(SubSeq(versions, 1, k)) \subseteq Known
        <5> HIDE DEF k
        <5>1. /\ SubSeq(versions, 1, k) \in Seq(Nat) /\ Len(SubSeq(versions, 1, k)) = k
              /\ \A i \in 1..k : SubSeq(versions, 1, k)[i] = versions[i]
          <6>1. \A i \in 1..k : versions[i] \in Nat
            BY <4>2, ElementOfSeq
          <6> QED
            BY <4>2, <6>1, SubSeqProperties
        <5>2. DOMAIN SubSeq(versions, 1, k) = 1..k /\ \A i \in 1..k : i \in DOMAIN versions
          BY <4>2, <5>1, LenProperties
        <5> QED
          BY <5>1, <5>2 DEF Known, Range
      <4>4. Runs(todo[1]) \subseteq Known
        BY <3>2, <4>3 DEF Runs
      <4>5. applied' = applied \cup Runs(todo[1])
        BY <1>6, <3>2 DEF Commit
      <4> QED
        BY <4>4, <4>5, VersionsAre, FS_Subset, FS_Union
    <3> QED
      BY <3>1, <3>2
  <2>5. pastUnknown' \in BOOLEAN
    BY <1>6 DEF Commit, MigrationsTypeOK
  <2> QED
    BY <1>6, <2>1, <2>2, <2>3, <2>4, <2>5 DEF Commit, MigrationsTypeOK
<1>7. ASSUME NEW op \in Operations, NEW v \in Targets, Call(op, v) PROVE MigrationsTypes'
  <2>1. called' \in [op : Operations \cup {"none"}, to : Targets]
    BY <1>7 DEF Call
  <2>2. CASE db
    <3>1. /\ versions' = PreparedVersions /\ prepared' = TRUE
          /\ todo' = Outcome(op, v, PreparedVersions).does
          /\ returned' = Outcome(op, v, PreparedVersions).answer
      BY <1>7, <2>2 DEF Call
    <3> QED
      BY <1>7, <2>1, <2>2, <3>1, OutcomesAreTyped, PreparedIsTyped DEF Call, MigrationsTypeOK, OutcomeOK
  <2>3. CASE ~db
    BY <1>7, <2>1, <2>3 DEF Call, MigrationsTypeOK
  <2> QED
    BY <2>2, <2>3
<1>8. CASE UNCHANGED migrationVars
  BY <1>8 DEF migrationVars, process, MigrationsTypeOK
<1> QED
  BY <1>2, <1>3, <1>4, <1>5, <1>6, <1>7, <1>8 DEF MigrationsNext

-----------------------------------------------------------------------------
(* What holds in every state. *)

LEMMA RowsAre ==
    ASSUME MigrationsInv
    PROVE  /\ applied \subseteq Versions /\ applied \subseteq Nat /\ IsFiniteSet(applied)
           /\ registered \subseteq Versions /\ IsFiniteSet(registered)
           /\ versions \in Seq(Nat) /\ Increasing(versions)
           /\ Known \subseteq Versions /\ Known \subseteq Nat /\ Closed(Known)
           /\ ~pastUnknown => Closed(applied)
<1>1. /\ applied \subseteq Versions /\ applied \subseteq Nat /\ IsFiniteSet(applied)
      /\ registered \subseteq Versions /\ IsFiniteSet(registered) /\ registered \subseteq Nat
      /\ versions \in Seq(registered) /\ Known \subseteq registered
  BY VersionsAre DEF MigrationsInv, MigrationsTypes
<1>2. versions \in Seq(Nat) /\ Increasing(versions) /\ Closed(Known)
  BY <1>1, SeqMonotonic DEF MigrationsInv, VersionsInv
<1>3. ~pastUnknown => Closed(applied)
  BY DEF MigrationsInv, NoHoles, Closed
<1> QED
  BY <1>1, <1>2, <1>3

\* What prepareMigrations leaves in Migrate.versions.
LEMMA PreparedAre ==
    ASSUME MigrationsInv
    PROVE  /\ PreparedVersions \in Seq(Nat) /\ Range(PreparedVersions) \subseteq registered
           /\ Increasing(PreparedVersions) /\ Closed(Range(PreparedVersions))
<1> USE DEF MigrationsInv, MigrationsTypes, VersionsInv
<1>1. CASE prepared
  BY <1>1, PreparedIsTyped DEF PreparedVersions, Known
<1>2. CASE ~prepared
  BY <1>2, PreparedIsTyped, VersionsAre, SortedIs DEF PreparedVersions
<1> QED
  BY <1>1, <1>2

LEMMA UpCloses ==
    ASSUME NEW S, NEW K, NEW v \in Nat, S \subseteq Nat, K \subseteq Nat, Closed(S), Closed(K)
    PROVE  Closed(S \cup {u \in K : u <= v})
<1>1. SUFFICES ASSUME NEW x \in S \cup {u \in K : u <= v}, NEW y \in Versions, y < x
               PROVE  y \in S \cup {u \in K : u <= v}
  BY DEF Closed
<1>2. CASE x \in S
  BY <1>1, <1>2 DEF Closed
<1>3. CASE x \in K /\ x <= v
  <2>1. y \in K /\ y \in Nat /\ x \in Nat
    BY <1>1, <1>3, BuildsAre DEF Closed
  <2> QED
    BY <1>1, <1>3, <2>1
<1> QED
  BY <1>2, <1>3

LEMMA DownCloses ==
    ASSUME NEW S, NEW v \in Nat, S \subseteq Nat, Closed(S)
    PROVE  Closed({u \in S : u <= v})
<1>1. SUFFICES ASSUME NEW x \in S, x <= v, NEW y \in Versions, y < x
               PROVE  y \in S /\ y <= v
  BY DEF Closed
<1>2. y \in Nat /\ x \in Nat
  BY BuildsAre
<1> QED
  BY <1>1, <1>2 DEF Closed

\* The rows after a transaction that GORMigrate does not refuse.
LEMMA RunsAre ==
    ASSUME MigrationsInv, NEW t \in Transaction, ~Refused(t)
    PROVE  /\ t.to \in Known
           /\ t.kind = "up" =>
                /\ applied \subseteq Known
                /\ applied \cup Runs(t) = applied \cup {u \in Known : u <= t.to}
           /\ t.kind = "down" => applied \ Runs(t) = {u \in applied : u \in Known => u <= t.to}
           /\ t.kind = "one" => applied \ Runs(t) = applied \ {t.to}
<1>1. t.to \in Known /\ (t.kind = "up" => applied \subseteq Known)
  BY DEF Refused
<1> DEFINE upTo == Range(SubSeq(versions, 1, IndexIn(versions, t.to)))
<1>2. upTo = {u \in Known : u <= t.to}
  BY <1>1, RowsAre, UpToIs DEF Known
<1>3. /\ t.kind = "up" => Runs(t) = upTo \ applied
      /\ t.kind = "down" => Runs(t) = (Known \ upTo) \cap applied
      /\ t.kind = "one" => Runs(t) = {t.to}
  BY DEF Runs
<1> HIDE DEF upTo
<1> QED
  BY <1>1, <1>2, <1>3

LEMMA CommitIs ==
    ASSUME MigrationsInv, Commit, NEW t, t = todo[1]
    PROVE  /\ t \in Transaction /\ t.to \in Known
           /\ t.kind = "up" =>
                /\ applied \subseteq Known /\ pastUnknown' = pastUnknown
                /\ applied' = applied \cup {u \in Known : u <= t.to}
           /\ t.kind = "down" => applied' = {u \in applied : u \in Known => u <= t.to}
           /\ t.kind = "one" => applied' = applied \ {t.to}
           /\ ~pastUnknown' /\ t.kind # "up" => ~pastUnknown /\ applied \subseteq Known
           /\ UNCHANGED <<registered, db, prepared, versions, called>> /\ Known' = Known
           /\ todo' = Tail(todo) /\ returned' = IF Len(todo) = 1 THEN "nil" ELSE "pending"
<1>1. todo \in Seq(Transaction) /\ todo # <<>>
  BY DEF MigrationsInv, MigrationsTypes, MigrationsTypeOK, Commit
<1>2. t \in Transaction /\ ~Refused(t)
  <2>1. Len(todo) \in Nat \ {0}
    BY <1>1, EmptySeq
  <2> QED
    BY <1>1, <2>1, ElementOfSeq DEF Commit
<1>3. UNCHANGED <<registered, db, prepared, versions, called>> /\ Known' = Known
  BY DEF Commit, Known
<1>4. /\ applied' = IF t.kind = "up" THEN applied \cup Runs(t) ELSE applied \ Runs(t)
      /\ pastUnknown' = (pastUnknown \/ (t.kind # "up" /\ ~(applied \subseteq Known)))
      /\ todo' = Tail(todo) /\ returned' = IF Len(todo) = 1 THEN "nil" ELSE "pending"
  BY DEF Commit
<1>5. pastUnknown \in BOOLEAN
  BY DEF MigrationsInv, MigrationsTypes, MigrationsTypeOK
<1> QED
  BY <1>2, <1>3, <1>4, <1>5, RunsAre

\* What a call aims at, in the shapes that CallInv lists.
LEMMA AimsAre ==
    ASSUME MigrationsInv
    PROVE  /\ called.to \in Targets /\ Targets \subseteq Nat /\ Known \subseteq Targets /\ 0 \in Targets
           /\ versions # <<>> =>
                /\ versions[1] \in Known /\ \A u \in Known : versions[1] <= u
                /\ Last(versions) \in Known /\ \A u \in Known : u <= Last(versions)
           /\ versions = <<>> => Known = {}
           /\ NextFrom(versions, called.to) \in Targets
           /\ called.to \in Known => PreviousFrom(versions, called.to) \in Targets /\ versions # <<>>
<1>1. called.to \in Targets
  BY DEF MigrationsInv, MigrationsTypes, MigrationsTypeOK
<1>2. Targets \subseteq Nat /\ Known \subseteq Targets /\ 0 \in Targets
  BY RowsAre, BuildsAre DEF Targets
<1> QED
  BY <1>1, <1>2, RowsAre, ListIs, NeighboursAre DEF Known

-----------------------------------------------------------------------------
(* Every transaction keeps the invariant, and the last of a call reaches    *)
(* what the call is for.                                                    *)

LEMMA CommitKeeps ==
    ASSUME MigrationsInv, Commit
    PROVE  VersionsInv' /\ NoHoles' /\ CallInv' /\ OkMeansReached'
<1> DEFINE t == todo[1]
<1>1. /\ t \in Transaction /\ t.to \in Known
      /\ t.kind = "up" =>
           /\ applied \subseteq Known /\ pastUnknown' = pastUnknown
           /\ applied' = applied \cup {u \in Known : u <= t.to}
      /\ t.kind = "down" => applied' = {u \in applied : u \in Known => u <= t.to}
      /\ t.kind = "one" => applied' = applied \ {t.to}
      /\ ~pastUnknown' /\ t.kind # "up" => ~pastUnknown /\ applied \subseteq Known
  BY CommitIs
<1>2. /\ UNCHANGED <<registered, db, prepared, versions, called>> /\ Known' = Known
      /\ todo # <<>> /\ todo' = Tail(todo)
      /\ returned' = IF Len(todo) = 1 THEN "nil" ELSE "pending"
  BY CommitIs DEF Commit
<1>3. applied' \subseteq Nat /\ IsFiniteSet(applied')
  <2>1. MigrationsTypes'
    BY MigrationsStepTyped DEF MigrationsInv, MigrationsNext
  <2>2. applied' \subseteq Versions /\ IsFiniteSet(applied')
    BY <2>1 DEF MigrationsTypes, MigrationsTypeOK
  <2> QED
    BY <2>2, BuildsAre
<1>4. /\ \A m \in applied' \cup {0} : (\A u \in applied' : u <= m) => Current' = m
      /\ Current' \in applied' \cup {0}
  BY <1>3, LastRow DEF Current
<1>5. /\ Closed(applied') \/ pastUnknown' => NoHoles'
      /\ ~pastUnknown => Closed(applied)
  BY RowsAre DEF NoHoles, Closed
<1>6. VersionsInv'
  BY <1>2 DEF MigrationsInv, VersionsInv
<1>7. todo' = <<>> => CallInv'
  BY DEF CallInv
<1>8. ASSUME NEW v \in Targets, todo = Up(v)
      PROVE  /\ todo' = <<>> /\ v \in Known /\ applied \subseteq Known /\ NoHoles'
             /\ applied' = applied \cup {u \in Known : u <= v}
  <2>1. t.kind = "up" /\ t.to = v /\ Tail(todo) = <<>>
    BY <1>8, Shapes
  <2>2. v \in Known /\ applied' = applied \cup {u \in Known : u <= v} /\ pastUnknown' = pastUnknown
    BY <1>1, <2>1
  <2>3. ~pastUnknown => Closed(applied')
    BY <1>5, <2>2, RowsAre, UpCloses
  <2> QED
    BY <1>1, <1>2, <1>5, <2>1, <2>2, <2>3
<1>9. ASSUME NEW v \in Targets, t.kind = "down", t.to = v
      PROVE  /\ v \in Known /\ NoHoles'
             /\ applied' = {u \in applied : u \in Known => u <= v}
             /\ ~pastUnknown' => Closed(applied) /\ applied' = {u \in applied : u <= v}
  <2>1. v \in Known /\ applied' = {u \in applied : u \in Known => u <= v}
    BY <1>1, <1>9
  <2>2. ~pastUnknown' => Closed(applied) /\ applied' = {u \in applied : u <= v}
    BY <1>1, <1>5, <1>9, <2>1
  <2>3. ~pastUnknown' => Closed(applied')
    BY <2>1, <2>2, RowsAre, DownCloses
  <2> QED
    BY <1>5, <2>1, <2>2, <2>3
<1>10. ASSUME NEW v \in Targets, todo = Down(v)
       PROVE  todo' = <<>> /\ t.kind = "down" /\ t.to = v
  BY <1>2, <1>10, Shapes
<1>11. ASSUME NEW v \in Targets, todo = One(v)
       PROVE  /\ todo' = <<>> /\ v \in Known /\ applied' = applied \ {v}
              /\ ~pastUnknown' => applied \subseteq Known
  <2>1. t.kind = "one" /\ t.to = v /\ Tail(todo) = <<>>
    BY <1>11, Shapes
  <2> QED
    BY <1>1, <1>2, <2>1
<1> HIDE DEF t
\* A call that migrates up to v, or back to a v that is applied, ends at v.
<1>12. ASSUME NEW v \in Targets, todo = Up(v), Current < v
       PROVE  Current' = v
  <2>1. v \in Nat /\ applied \subseteq Nat /\ \A u \in applied : u <= v
    BY <1>12, AimsAre, RowsAre, CurrentIs DEF MigrationsInv
  <2>2. v \in Known /\ applied' = applied \cup {u \in Known : u <= v}
    BY <1>8, <1>12
  <2>3. v \in applied' /\ \A u \in applied' : u <= v
    BY <2>1, <2>2
  <2> QED
    BY <1>4, <2>3
<1>13. ASSUME NEW v \in Targets, todo = Down(v), Current > v, ~pastUnknown'
       PROVE  Current' = v
  <2>1. v \in Known /\ v \in Versions /\ v \in Nat /\ Closed(applied) /\ applied' = {u \in applied : u <= v}
    BY <1>9, <1>10, <1>13, RowsAre
  <2>2. Current \in applied
    BY <1>13, <2>1, CurrentIs DEF MigrationsInv
  <2>3. v \in applied
    BY <1>13, <2>1, <2>2 DEF Closed
  <2> QED
    BY <1>4, <2>1, <2>3
<1>14. CASE Is("Migrate") /\ todo = Up(IF versions = <<>> THEN 0 ELSE Last(versions))
  <2> DEFINE v == IF versions = <<>> THEN 0 ELSE Last(versions)
  <2>1. v \in Targets
    BY AimsAre
  <2>2. /\ todo' = <<>> /\ v \in Known /\ applied \subseteq Known /\ NoHoles'
        /\ applied' = applied \cup {u \in Known : u <= v}
    BY <1>8, <1>14, <2>1
  <2>3. versions # <<>> /\ \A u \in Known : u <= v
    BY <2>2, AimsAre
  <2>4. applied' = Known
    BY <2>2, <2>3
  <2> QED
    BY <1>2, <1>6, <1>7, <1>14, <2>2, <2>4 DEF OkMeansReached, Is
<1>15. CASE /\ Is("Rollback") /\ versions # <<>>
            /\ todo = Down(versions[1]) \o One(versions[1])
  <2>1. versions[1] \in Targets /\ versions[1] \in Nat /\ \A u \in Known : versions[1] <= u
    BY <1>15, AimsAre
  <2>2. t.kind = "down" /\ t.to = versions[1] /\ Tail(todo) = One(versions[1]) /\ Len(todo) = 2
    BY <1>15, <2>1, Shapes DEF t
  <2>3. applied' \cap Known \subseteq {versions[1]} /\ NoHoles'
    BY <1>9, <2>1, <2>2, RowsAre
  <2>4. CallInv'
    BY <1>2, <1>15, <2>2, <2>3 DEF CallInv, Is
  <2> QED
    BY <1>2, <1>6, <2>2, <2>3, <2>4 DEF OkMeansReached
<1>16. CASE /\ Is("Rollback") /\ versions # <<>>
            /\ todo = One(versions[1]) /\ applied \cap Known \subseteq {versions[1]}
  <2>1. todo' = <<>> /\ (~pastUnknown' => applied' = {})
    BY <1>11, <1>16, AimsAre
  <2> QED
    BY <1>2, <1>5, <1>6, <1>7, <1>16, <2>1 DEF OkMeansReached, Is, Closed
<1>17. CASE Is("MigrateTo") /\ todo = Down(called.to) /\ Current > called.to
  <2>1. todo' = <<>> /\ NoHoles' /\ (~pastUnknown' => Current' = called.to)
    BY <1>9, <1>10, <1>13, <1>17, AimsAre
  <2> QED
    BY <1>2, <1>6, <1>7, <1>17, <2>1 DEF OkMeansReached, Is
<1>18. CASE Is("MigrateTo") /\ todo = Up(called.to) /\ Current < called.to
  <2>1. todo' = <<>> /\ NoHoles' /\ Current' = called.to
    BY <1>8, <1>12, <1>18, AimsAre
  <2> QED
    BY <1>2, <1>6, <1>7, <1>18, <2>1 DEF OkMeansReached, Is
<1>19. CASE /\ Is("MigrateNextTo") /\ NextFrom(versions, called.to) # 0
            /\ todo = Up(NextFrom(versions, called.to)) /\ Current < NextFrom(versions, called.to)
  <2>1. todo' = <<>> /\ NoHoles' /\ Current' = NextFrom(versions, called.to)
    BY <1>8, <1>12, <1>19, AimsAre
  <2>2. NextFrom(versions, called.to)' = NextFrom(versions, called.to)
    BY <1>2 DEF NextFrom
  <2> QED
    BY <1>2, <1>6, <1>7, <1>19, <2>1, <2>2 DEF OkMeansReached, Is
<1>20. CASE /\ Is("MigratePreviousTo") /\ called.to \in Known
            /\ todo = Down(PreviousFrom(versions, called.to)) /\ Current > PreviousFrom(versions, called.to)
  <2>1. todo' = <<>> /\ NoHoles' /\ (~pastUnknown' => Current' = PreviousFrom(versions, called.to))
    BY <1>9, <1>10, <1>13, <1>20, AimsAre
  <2>2. PreviousFrom(versions, called.to)' = PreviousFrom(versions, called.to)
    BY <1>2 DEF PreviousFrom
  <2> QED
    BY <1>2, <1>6, <1>7, <1>20, <2>1, <2>2 DEF OkMeansReached, Is
<1>21. CASE /\ Is("MigratePreviousTo") /\ called.to \in Known
            /\ todo = One(versions[1]) /\ applied = {} /\ PreviousFrom(versions, called.to) = 0
  <2>1. todo' = <<>> /\ applied' = {}
    BY <1>11, <1>21, AimsAre
  <2>2. Current' = 0
    BY <1>4, <2>1
  <2>3. PreviousFrom(versions, called.to)' = 0
    BY <1>2, <1>21 DEF PreviousFrom
  <2> QED
    BY <1>2, <1>5, <1>6, <1>7, <1>21, <2>1, <2>2, <2>3 DEF OkMeansReached, Is, Closed
<1>22. CASE Is("RollbackTo") /\ todo = Down(called.to)
  <2>1. /\ todo' = <<>> /\ NoHoles'
        /\ ~pastUnknown' => applied' = {u \in applied : u <= called.to}
    BY <1>9, <1>10, <1>22, AimsAre
  <2>2. ~pastUnknown' => Current' <= called.to
    BY <1>4, <2>1, AimsAre, RowsAre
  <2> QED
    BY <1>2, <1>6, <1>7, <1>22, <2>1, <2>2 DEF OkMeansReached, Is
<1> QED
  BY <1>2, <1>14, <1>15, <1>16, <1>17, <1>18, <1>19, <1>20, <1>21, <1>22
     DEF MigrationsInv, CallInv

-----------------------------------------------------------------------------
(* A call that opens no transaction has nothing left to reach. *)

LEMMA MigrateCallKeeps ==
    ASSUME MigrationsInv, NEW op \in Operations, NEW v \in Targets, Call(op, v)
    PROVE  VersionsInv' /\ NoHoles' /\ CallInv' /\ OkMeansReached'
<1> DEFINE list == PreparedVersions
<1>1. /\ todo = <<>> /\ UNCHANGED <<registered, db, applied, pastUnknown>>
      /\ called'.op = op /\ called'.to = v /\ Current' = Current
  BY DEF Call, Current
<1>2. NoHoles'
  BY <1>1 DEF MigrationsInv, NoHoles
<1>3. CASE ~db
  <2>1. UNCHANGED <<prepared, versions, todo>> /\ returned' = "error" /\ Known' = Known
    BY <1>3 DEF Call, Known
  <2> QED
    BY <1>1, <1>2, <2>1 DEF MigrationsInv, VersionsInv, CallInv, OkMeansReached
<1>4. CASE db
  <2>1. /\ prepared' = TRUE /\ versions' = list /\ Known' = Range(list)
        /\ todo' = Outcome(op, v, list).does /\ returned' = Outcome(op, v, list).answer
    BY <1>4 DEF Call, Known
  <2>2. /\ list \in Seq(Nat) /\ Range(list) \subseteq registered /\ Range(list) \subseteq Nat
        /\ Increasing(list) /\ Closed(Range(list))
    BY PreparedAre, LenProperties, ElementOfSeq DEF Range
  <2>3. VersionsInv'
    <3>1. Closed(registered)' /\ Closed(Known)' /\ Increasing(versions)'
      BY <1>1, <2>1, <2>2 DEF MigrationsInv, VersionsInv, Closed, Increasing
    <3> QED
      BY <1>1, <1>4, <3>1 DEF VersionsInv
  <2>4. /\ NextFrom(versions, called.to)' = NextFrom(list, v)
        /\ PreviousFrom(versions, called.to)' = PreviousFrom(list, v)
    BY <1>1, <2>1 DEF NextFrom, PreviousFrom
  <2> HIDE DEF list
  <2>5. Current \in Nat /\ v \in Nat /\ applied \subseteq Versions
    BY CurrentIs, RowsAre, BuildsAre DEF MigrationsInv
  <2>6. /\ NextFrom(list, v) \in Nat
        /\ v \in Range(list) => PreviousFrom(list, v) \in Nat
    BY <2>2, NeighboursAre
  <2>7. CASE op = "Migrate"
    <3>1. Outcome(op, v, list) = Migrate(list)
      BY <2>7 DEF Outcome
    <3>2. CASE registered = {}
      <4>1. todo' = <<>> /\ Range(list) = {}
        BY <2>1, <2>2, <3>1, <3>2 DEF Migrate, Done
      <4> QED
        BY <1>1, <1>2, <2>1, <2>3, <2>7, <4>1 DEF CallInv, OkMeansReached
    <3>3. CASE registered # {}
      <4>1. /\ todo' = Up(IF list = <<>> THEN 0 ELSE Last(list))
            /\ returned' = "pending"
        BY <2>1, <3>1, <3>3 DEF Migrate, Do
      <4> QED
        BY <1>1, <1>2, <2>1, <2>3, <2>7, <4>1 DEF CallInv, OkMeansReached, Is
    <3> QED
      BY <3>2, <3>3
  <2>8. CASE op = "Rollback"
    <3>1. Outcome(op, v, list) = Rollback(list)
      BY <2>8 DEF Outcome
    <3>2. CASE list = <<>>
      BY <1>1, <1>2, <2>1, <2>3, <3>1, <3>2 DEF Rollback, Refuse, CallInv, OkMeansReached
    <3>3. CASE list # <<>>
      <4>1. todo' = Down(list[1]) \o One(list[1]) /\ returned' = "pending"
        BY <2>1, <3>1, <3>3 DEF Rollback, Do
      <4> QED
        BY <1>1, <1>2, <2>1, <2>3, <2>8, <3>3, <4>1 DEF CallInv, OkMeansReached, Is
    <3> QED
      BY <3>2, <3>3
  <2>9. CASE op = "MigrateTo"
    <3>1. Outcome(op, v, list) = MigrateTo(v)
      BY <2>9 DEF Outcome
    <3>2. CASE Current > v
      <4>1. todo' = Down(v) /\ returned' = "pending"
        BY <2>1, <2>5, <3>1, <3>2 DEF MigrateTo, Do
      <4> QED
        BY <1>1, <1>2, <2>3, <2>9, <3>2, <4>1 DEF CallInv, OkMeansReached, Is
    <3>3. CASE Current < v
      <4>1. todo' = Up(v) /\ returned' = "pending"
        BY <2>1, <2>5, <3>1, <3>3 DEF MigrateTo, Do
      <4> QED
        BY <1>1, <1>2, <2>3, <2>9, <3>3, <4>1 DEF CallInv, OkMeansReached, Is
    <3>4. CASE Current = v
      <4>1. todo' = <<>>
        BY <2>1, <2>5, <3>1, <3>4 DEF MigrateTo, Done
      <4> QED
        BY <1>1, <1>2, <2>3, <2>9, <3>4, <4>1 DEF CallInv, OkMeansReached
    <3> QED
      BY <2>5, <3>2, <3>3, <3>4
  <2>10. CASE op = "MigrateNextTo"
    <3> DEFINE next == NextFrom(list, v)
    <3>1. Outcome(op, v, list) = MigrateNextTo(list, v)
      BY <2>10 DEF Outcome
    <3>2. CASE next = 0 \/ Current = next
      <4>1. todo' = <<>>
        BY <2>1, <2>5, <2>6, <3>1, <3>2 DEF MigrateNextTo, Done
      <4> QED
        BY <1>1, <1>2, <2>3, <2>4, <2>10, <3>2, <4>1 DEF CallInv, OkMeansReached
    <3>3. CASE next # 0 /\ Current < next
      <4>1. todo' = Up(next) /\ returned' = "pending"
        BY <2>1, <2>5, <2>6, <3>1, <3>3 DEF MigrateNextTo, Do
      <4> QED
        BY <1>1, <1>2, <2>3, <2>4, <2>10, <3>3, <4>1 DEF CallInv, OkMeansReached, Is
    <3>4. CASE next # 0 /\ Current > next
      <4>1. todo' = <<>> /\ returned' = "error"
        BY <2>1, <2>5, <2>6, <3>1, <3>4 DEF MigrateNextTo, Refuse
      <4> QED
        BY <1>1, <1>2, <2>3, <4>1 DEF CallInv, OkMeansReached
    <3> QED
      BY <2>5, <2>6, <3>2, <3>3, <3>4
  <2>11. CASE op = "MigratePreviousTo"
    <3> DEFINE prev == PreviousFrom(list, v)
    <3>1. Outcome(op, v, list) = MigratePreviousTo(list, v)
      BY <2>11 DEF Outcome
    <3>2. CASE v \notin Range(list)
      <4>1. todo' = <<>>
        BY <2>1, <3>1, <3>2 DEF MigratePreviousTo, Done
      <4> QED
        BY <1>1, <1>2, <2>1, <2>3, <2>11, <3>2, <4>1 DEF CallInv, OkMeansReached
    <3>3. CASE v \in Range(list) /\ Current > prev
      <4>1. todo' = Down(prev) /\ returned' = "pending"
        BY <2>1, <2>5, <2>6, <3>1, <3>3 DEF MigratePreviousTo, Do
      <4> QED
        BY <1>1, <1>2, <2>1, <2>3, <2>4, <2>11, <3>3, <4>1 DEF CallInv, OkMeansReached, Is
    <3>4. CASE v \in Range(list) /\ Current < prev
      <4>1. todo' = <<>> /\ returned' = "error"
        BY <2>1, <2>5, <2>6, <3>1, <3>4 DEF MigratePreviousTo, Refuse
      <4> QED
        BY <1>1, <1>2, <2>3, <4>1 DEF CallInv, OkMeansReached
    <3>5. CASE v \in Range(list) /\ Current = prev /\ prev # 0
      <4>1. todo' = <<>>
        BY <2>1, <2>5, <2>6, <3>1, <3>5 DEF MigratePreviousTo, Done
      <4> QED
        BY <1>1, <1>2, <2>3, <2>4, <2>11, <3>5, <4>1 DEF CallInv, OkMeansReached
    <3>6. CASE v \in Range(list) /\ Current = prev /\ prev = 0
      <4>1. todo' = One(list[1]) /\ returned' = "pending"
        BY <2>1, <2>5, <2>6, <3>1, <3>6 DEF MigratePreviousTo, Do
      <4>2. applied = {}
        BY <2>5, <3>6, BuildsAre, CurrentIs DEF MigrationsInv
      <4> QED
        BY <1>1, <1>2, <2>1, <2>3, <2>4, <2>11, <3>6, <4>1, <4>2 DEF CallInv, OkMeansReached, Is
    <3> QED
      BY <2>5, <2>6, <3>2, <3>3, <3>4, <3>5, <3>6
  <2>12. CASE op = "RollbackTo"
    <3>1. todo' = Down(v) /\ returned' = "pending"
      BY <2>1, <2>12 DEF Outcome, Do
    <3> QED
      BY <1>1, <1>2, <2>3, <2>12, <3>1 DEF CallInv, OkMeansReached, Is
  <2> QED
    BY <2>7, <2>8, <2>9, <2>10, <2>11, <2>12 DEF Operations
<1> QED
  BY <1>3, <1>4

LEMMA MigrationsInitially == MigrationsInit => MigrationsInv
<1> SUFFICES ASSUME MigrationsInit PROVE MigrationsInv
  OBVIOUS
<1>1. MigrationsTypes
  BY MigrationsInitTyped
<1>2. Known = {} /\ DOMAIN versions = {}
  BY EmptySeq DEF MigrationsInit, Known, Range
<1>3. VersionsInv
  BY <1>2 DEF MigrationsInit, VersionsInv, Closed, Increasing
<1> QED
  BY <1>1, <1>3 DEF MigrationsInit, MigrationsInv, NoHoles, CallInv, OkMeansReached

LEMMA MigrationsStep ==
    ASSUME BuildsGrow
    PROVE  MigrationsInv /\ [MigrationsNext]_migrationVars => MigrationsInv'
<1> SUFFICES ASSUME MigrationsInv, [MigrationsNext]_migrationVars PROVE MigrationsInv'
  OBVIOUS
<1> USE DEF MigrationsInv
<1>1. MigrationsTypes'
  BY MigrationsStepTyped
<1>2. ASSUME NEW b \in Builds, Restart(b) PROVE MigrationsInv'
  <2>1. Known' = {} /\ DOMAIN versions' = {}
    BY <1>2, EmptySeq DEF Restart, StartOf, Known, Range
  <2>2. VersionsInv'
    BY <1>2, <2>1 DEF Restart, StartOf, VersionsInv, Closed, Increasing
  <2> QED
    BY <1>1, <1>2, <2>2 DEF Restart, StartOf, NoHoles, CallInv, OkMeansReached
<1>3. CASE Add
  <2>1. UNCHANGED <<db, prepared, versions, applied, called, todo, returned, pastUnknown>>
        /\ Known' = Known /\ Current' = Current
    BY <1>3 DEF Add, Known, Current
  <2>2. Closed(registered')
    <3> DEFINE v == Min(build \ registered)
    <3>1. /\ build \in Builds /\ build \subseteq Versions /\ registered \subseteq build
          /\ build \ registered \subseteq Nat /\ build \ registered # {}
      BY <1>3, BuildsAre DEF Add, MigrationsTypes, MigrationsTypeOK
    <3>2. v \in build \ registered /\ \A u \in build \ registered : v <= u
      BY <3>1, MinIs
    <3> HIDE DEF v
    <3>3. \A u \in Versions : u < v => u \in registered
      <4>1. SUFFICES ASSUME NEW u \in Versions, u < v, u \notin registered PROVE FALSE
        OBVIOUS
      <4>2. u \in build
        BY <3>1, <3>2, <4>1 DEF BuildsGrow
      <4>3. u \in Nat /\ v \in Nat /\ v <= u
        BY <3>1, <3>2, <4>1, <4>2, BuildsAre
      <4> QED
        BY <4>1, <4>3
    <3>4. registered' = registered \cup {v}
      BY <1>3 DEF Add, v
    <3> QED
      BY <3>3, <3>4 DEF VersionsInv, Closed
  <2>3. VersionsInv'
    BY <2>1, <2>2 DEF VersionsInv
  <2>4. NoHoles' /\ CallInv'
    BY <1>3, <2>1 DEF Add, NoHoles, CallInv
  <2>5. OkMeansReached'
    BY <2>1 DEF OkMeansReached
  <2> QED
    BY <1>1, <2>3, <2>4, <2>5
<1>4. CASE SetDB
  <2>1. ~prepared'
    BY <1>4 DEF SetDB, VersionsInv
  <2>2. VersionsInv'
    <3>1. CASE db
      <4>1. Known' = {} /\ DOMAIN versions' = {}
        BY <1>4, <3>1, EmptySeq DEF SetDB, Known, Range
      <4> QED
        BY <1>4, <2>1, <4>1 DEF SetDB, VersionsInv, Closed, Increasing
    <3>2. CASE ~db
      BY <1>4, <2>1, <3>2 DEF SetDB, VersionsInv, Known
    <3> QED
      BY <3>1, <3>2
  <2> QED
    BY <1>1, <1>4, <2>1, <2>2 DEF SetDB, NoHoles, CallInv, OkMeansReached
<1>5. CASE Fail
  <2>1. VersionsInv' /\ NoHoles'
    BY <1>5 DEF Fail, VersionsInv, NoHoles, Known
  <2> QED
    BY <1>1, <1>5, <2>1 DEF Fail, CallInv, OkMeansReached
<1>6. CASE Commit
  BY <1>1, <1>6, CommitKeeps
<1>7. ASSUME NEW op \in Operations, NEW v \in Targets, Call(op, v) PROVE MigrationsInv'
  BY <1>1, <1>7, MigrateCallKeeps
<1>8. CASE UNCHANGED migrationVars
  <2>1. UNCHANGED <<registered, db, prepared, versions, applied, called, todo, returned, pastUnknown>>
        /\ Known' = Known /\ Current' = Current
    BY <1>8 DEF migrationVars, process, Known, Current
  <2>2. VersionsInv' /\ NoHoles' /\ CallInv'
    BY <2>1 DEF VersionsInv, NoHoles, CallInv, Is
  <2>3. OkMeansReached'
    BY <2>1 DEF OkMeansReached
  <2> QED
    BY <1>1, <2>2, <2>3
<1> QED
  BY <1>2, <1>3, <1>4, <1>5, <1>6, <1>7, <1>8 DEF MigrationsNext

\* Every step keeps the types of the tool, of the rows and of the call.
THEOREM MigrationTypes == MigrationsSpec => []MigrationsTypeOK
<1>1. MigrationsTypes => MigrationsTypeOK
  BY DEF MigrationsTypes
<1> QED
  BY <1>1, MigrationsInitTyped, MigrationsStepTyped, PTL DEF MigrationsSpec

\* When later builds add later versions, no failed or interrupted call leaves a
\* migration undone below one that is applied (migrate.go:87-245).
THEOREM RowsHaveNoHoles ==
    ASSUME BuildsGrow
    PROVE  MigrationsSpec => []NoHoles
<1>1. MigrationsInv => NoHoles
  BY DEF MigrationsInv
<1> QED
  BY <1>1, MigrationsInitially, MigrationsStep, PTL DEF MigrationsSpec

\* When later builds add later versions, a call that returns nil has taken the
\* database to the version its name says (migrate.go:87-245).
THEOREM CallsReach ==
    ASSUME BuildsGrow
    PROVE  MigrationsSpec => []OkMeansReached
<1>1. MigrationsInv => OkMeansReached
  BY DEF MigrationsInv
<1> QED
  BY <1>1, MigrationsInitially, MigrationsStep, PTL DEF MigrationsSpec
=============================================================================
