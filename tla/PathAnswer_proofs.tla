--------------------------- MODULE PathAnswer_proofs ---------------------------
(***************************************************************************)
(* Proofs about PathAssembly and about PathAnswer on top of it, for any    *)
(* documents, paths, parts and filters: the loop over documents, paths and *)
(* combinations arrives at the groups it is meant to build, in whatever    *)
(* order they come; sorting and cutting keeps the best of them; and every  *)
(* name in the response is that of its own system or part.                 *)
(***************************************************************************)
EXTENDS PathAnswer, FiniteFacts

DataTypes ==
  /\ todo \in [Docs -> SUBSET Paths]
  /\ found \in [Docs -> SUBSET Paths]
  /\ date \in [Docs -> Dates]
  /\ \A d \in Docs : todo[d] \subseteq found[d]

AssemblyInv == DataTypes /\ GroupsExact

\* What a path can look like depends on the path and the client's filters only.
LEMMA KeysFixed ==
  ASSUME NEW path, UNCHANGED request
  PROVE  Keys(path)' = Keys(path)
BY DEF Keys, Sequences, Combos, EffEdge, Edge

LEMMA AssemblyInitially == Init => AssemblyInv
<1> SUFFICES ASSUME Init PROVE AssemblyInv
  OBVIOUS
<1>1. DataTypes
  BY DEF Init, DataTypes
<1>2. UNION {found[d] \ todo[d] : d \in Docs} = {} /\ DOMAIN groups = {}
  BY DEF Init
<1>3. GroupsExact
  BY <1>2 DEF GroupsExact
<1> QED
  BY <1>1, <1>3 DEF AssemblyInv

\* The documents of a key after a path: its own besides those from before.
LEMMA WithGrows ==
  ASSUME DataTypes, NEW d \in Docs, NEW path \in todo[d], TakePath(d, path), NEW key
  PROVE  With(key)' = With(key) \cup (IF key \in Keys(path) THEN {d} ELSE {})
<1>1. /\ todo' = [todo EXCEPT ![d] = @ \ {path}] /\ found' = found
      /\ \A p : Keys(p)' = Keys(p)
  BY KeysFixed DEF TakePath, inputVars
<1>2. \A e \in Docs : (found[e] \ todo[e])' =
                        (found[e] \ todo[e]) \cup (IF e = d THEN {path} ELSE {})
  BY <1>1 DEF DataTypes
<1> QED
  BY <1>1, <1>2 DEF With

\* The groups are those of some taken path.
LEMMA DomainIsWith ==
  ASSUME GroupsExact
  PROVE  \A key : key \in DOMAIN groups <=> With(key) # {}
BY DEF GroupsExact, With

LEMMA TakePathKeeps ==
  ASSUME AssemblyInv, NEW d \in Docs, NEW path \in todo[d], TakePath(d, path)
  PROVE  AssemblyInv'
<1> USE DEF AssemblyInv
<1>1. DataTypes'
  BY DEF TakePath, DataTypes, inputVars
<1>2. /\ DOMAIN groups' = DOMAIN groups \cup Keys(path)
      /\ \A k \in DOMAIN groups' : groups'[k] = IF k \in Keys(path) THEN Join(d, k) ELSE groups[k]
      /\ date' = date
  BY DEF TakePath, inputVars
<1>3. \A key : With(key)' = With(key) \cup (IF key \in Keys(path) THEN {d} ELSE {})
  BY WithGrows
<1>4. \A key : key \in DOMAIN groups <=> With(key) # {}
  BY DomainIsWith
<1>5. \A key : key \in DOMAIN groups' <=> With(key)' # {}
  BY <1>2, <1>3, <1>4
<1>6. DOMAIN groups' = UNION {Keys(p)' : p \in UNION {(found[e] \ todo[e])' : e \in Docs}}
  <2>1. \A key : key \in DOMAIN groups' <=>
                    \E e \in Docs : \E p \in (found[e] \ todo[e])' : key \in Keys(p)'
    BY <1>5 DEF With
  <2>2. \A key : (\E e \in Docs : \E p \in (found[e] \ todo[e])' : key \in Keys(p)') <=>
                    key \in UNION {Keys(p)' : p \in UNION {(found[e] \ todo[e])' : e \in Docs}}
    OBVIOUS
  <2> QED
    BY <2>1, <2>2
<1>7. ASSUME NEW k \in DOMAIN groups'
      PROVE  /\ groups'[k].docs = With(k)'
             /\ \E e \in With(k)' : date'[e] = groups'[k].date
             /\ \A e \in With(k)' : date'[e] <= groups'[k].date
  <2>0. \A e \in Docs : date[e] \in Nat
    BY DocsAssumption DEF DataTypes
  <2>1. CASE k \notin Keys(path)
    <3>1. k \in DOMAIN groups /\ groups'[k] = groups[k] /\ With(k)' = With(k)
      BY <1>2, <1>3, <1>7, <2>1
    <3> QED
      BY <1>2, <3>1 DEF GroupsExact
  <2>2. CASE k \in Keys(path) /\ k \notin DOMAIN groups
    <3>1. groups'[k] = [docs |-> {d}, date |-> date[d]] /\ With(k)' = {d}
      BY <1>2, <1>3, <1>4, <1>7, <2>2 DEF Join
    <3> QED
      BY <1>2, <2>0, <3>1
  <2>3. CASE k \in Keys(path) /\ k \in DOMAIN groups
    <3>1. /\ groups'[k] = [docs |-> groups[k].docs \cup {d}, date |-> Later(groups[k].date, date[d])]
          /\ With(k)' = With(k) \cup {d}
      BY <1>2, <1>3, <1>7, <2>3 DEF Join
    <3>2. /\ groups[k].docs = With(k)
          /\ \E e \in With(k) : date[e] = groups[k].date
          /\ \A e \in With(k) : date[e] <= groups[k].date
      BY <2>3 DEF GroupsExact
    <3>3. With(k) \subseteq Docs
      BY DEF With
    <3>4. groups'[k].date = Later(groups[k].date, date[d]) /\ groups[k].date \in Nat
      BY <2>0, <3>1, <3>2, <3>3
    <3>5. /\ \E e \in With(k) \cup {d} : date[e] = Later(groups[k].date, date[d])
          /\ \A e \in With(k) \cup {d} : date[e] <= Later(groups[k].date, date[d])
      BY <2>0, <3>2, <3>3, <3>4 DEF Later
    <3> QED
      BY <1>2, <3>1, <3>2, <3>4, <3>5
  <2> QED
    BY <2>1, <2>2, <2>3
<1>8. GroupsExact'
  BY <1>6, <1>7 DEF GroupsExact
<1> QED
  BY <1>1, <1>8

LEMMA RespondKeeps ==
  ASSUME AssemblyInv, Respond \/ UNCHANGED vars
  PROVE  AssemblyInv'
<1>1. UNCHANGED <<request, found, date, todo, groups>>
  BY DEF Respond, vars, inputVars
<1>2. \A p : Keys(p)' = Keys(p)
  BY <1>1, KeysFixed
<1>3. \A key : With(key)' = With(key)
  BY <1>1, <1>2 DEF With
<1>4. UNION {Keys(p)' : p \in UNION {(found[d] \ todo[d])' : d \in Docs}}
        = UNION {Keys(p) : p \in UNION {found[d] \ todo[d] : d \in Docs}}
  BY <1>1, <1>2
<1> QED
  BY <1>1, <1>3, <1>4 DEF AssemblyInv, DataTypes, GroupsExact

\* Each group holds the documents in which the path can look like that, each once,
\* and the latest of their dates, for any documents, paths, parts and filters.
THEOREM GroupsAreExact == Spec => []GroupsExact
<1>1. AssemblyInv /\ [Next]_vars => AssemblyInv'
  BY TakePathKeeps, RespondKeeps DEF Next
<1>2. AssemblyInv => GroupsExact
  BY DEF AssemblyInv
<1> QED
  BY AssemblyInitially, <1>1, <1>2, PTL DEF Spec

-----------------------------------------------------------------------------
(***************************************************************************)
(* Sorting and cutting.                                                    *)
(***************************************************************************)
LEMMA KeysFinite ==
  ASSUME NEW path \in Paths
  PROVE  /\ IsFiniteSet(Keys(path))
         /\ \A k \in Keys(path) : k.nodes = path.nodes
<1> DEFINE K == Len(path.nodes) - 1
           U == UNION {Combos(path, i) : i \in 1..K}
           picks == {f \in [1..K -> U] : \A i \in 1..K : f[i] \in Combos(path, i)}
           look(f) == [nodes |-> path.nodes, segs |-> [i \in 1..K |-> EffEdge(path, i, f[i])]]
           looks == [f \in picks |-> look(f)]
<1>1. K \in Nat /\ \A i \in 1..K : IsFiniteSet(path.combos[i])
  BY PathsAssumption DEF Edge
<1>2. \A i \in 1..K : IsFiniteSet(Combos(path, i))
  BY <1>1, FS_Singleton DEF Combos
<1>3. IsFiniteSet(U)
  <2> DEFINE sets == {Combos(path, i) : i \in 1..K}
             set == [i \in 1..K |-> Combos(path, i)]
  <2>1. IsFiniteSet(1..K)
    BY <1>1, FS_Interval
  <2>2. set \in Surjection(1..K, sets)
    BY DEF Surjection
  <2>3. IsFiniteSet(sets)
    <3> HIDE DEF K, set, sets
    <3> QED
      BY <2>1, <2>2, FS_Surjection
  <2>4. \A T \in sets : IsFiniteSet(T)
    BY <1>2
  <2>5. U = UNION sets
    OBVIOUS
  <2> HIDE DEF U, sets
  <2> QED
    BY <2>3, <2>4, <2>5, FS_UNION
<1>4. IsFiniteSet(picks)
  <2>1. IsFiniteSet([1..K -> U])
    <3> HIDE DEF K, U
    <3> QED
      BY <1>1, <1>3, FunctionsFinite
  <2>2. picks \subseteq [1..K -> U]
    OBVIOUS
  <2> HIDE DEF picks, K, U
  <2> QED
    BY <2>1, <2>2, FS_Subset
<1>5. Keys(path) = {look(f) : f \in picks}
  BY DEF Keys, Sequences, Edge
<1>6. looks \in Surjection(picks, {look(f) : f \in picks})
  <2> HIDE DEF picks, look
  <2> QED
    BY DEF Surjection
<1>7. IsFiniteSet({look(f) : f \in picks})
  <2> HIDE DEF picks, look, looks
  <2> QED
    BY <1>4, <1>6, FS_Surjection
<1>8. IsFiniteSet(Keys(path))
  <2> HIDE DEF picks, look
  <2> QED
    BY <1>5, <1>7
<1>9. \A k \in Keys(path) : k.nodes = path.nodes
  BY DEF Keys
<1> QED
  BY <1>8, <1>9

\* Every key of a group has its place in the order of insertion; what the sort
\* compares are numbers.
Numbers(k) ==
  /\ IsFiniteSet(groups[k].docs)
  /\ groups[k].date \in Nat
  /\ Len(k.nodes) \in Nat

GroupData ==
  /\ request \in Requests
  /\ EachOnce(inserted, DOMAIN groups)
  /\ \A k \in DOMAIN groups : Numbers(k)

LEMMA GroupDataInitially == Init => GroupData
<1> SUFFICES ASSUME Init PROVE GroupData
  OBVIOUS
<1>1. groups = <<>> /\ inserted = <<>> /\ request \in Requests
  BY DEF Init
<1>2. DOMAIN groups = {} /\ DOMAIN inserted = {} /\ inserted \in Seq(DOMAIN groups)
  BY <1>1
<1> QED
  BY <1>1, <1>2 DEF GroupData, EachOnce

LEMMA Joined ==
  ASSUME DataTypes, GroupData, NEW d \in Docs, NEW path \in todo[d], TakePath(d, path),
         NEW k \in DOMAIN groups'
  PROVE  Numbers(k)'
<1>1. /\ groups' = [x \in DOMAIN groups \cup Keys(path) |->
                     IF x \in Keys(path) THEN Join(d, x) ELSE groups[x]]
  BY DEF TakePath
<1>2. date[d] \in Nat /\ path \in Paths
  BY DocsAssumption DEF DataTypes
<1>3. Len(path.nodes) \in Nat
  BY <1>2, PathsAssumption
<1>4. CASE k \in DOMAIN groups /\ k \notin Keys(path)
  BY <1>1, <1>4 DEF GroupData, Numbers
<1>5. CASE k \in DOMAIN groups /\ k \in Keys(path)
  <2>1. groups'[k] = [docs |-> groups[k].docs \cup {d}, date |-> Later(groups[k].date, date[d])]
    BY <1>1, <1>5 DEF Join
  <2>2. Numbers(k)
    BY <1>5 DEF GroupData
  <2>3. IsFiniteSet(groups[k].docs \cup {d})
    BY <2>2, FS_AddElement DEF Numbers
  <2>4. Later(groups[k].date, date[d]) \in Nat
    BY <1>2, <2>2 DEF Later, Numbers
  <2> QED
    BY <2>1, <2>2, <2>3, <2>4 DEF Numbers
<1>6. CASE k \notin DOMAIN groups
  <2>1. k \in Keys(path)
    BY <1>1, <1>6
  <2>2. groups'[k] = [docs |-> {d}, date |-> date[d]]
    BY <1>1, <1>6, <2>1 DEF Join
  <2>3. k.nodes = path.nodes
    BY <1>2, <2>1, KeysFinite
  <2>4. IsFiniteSet({d})
    BY FS_Singleton
  <2> QED
    BY <1>2, <1>3, <2>2, <2>3, <2>4 DEF Numbers
<1> QED
  BY <1>4, <1>5, <1>6

LEMMA TakePathOrders ==
  ASSUME DataTypes, GroupData, NEW d \in Docs, NEW path \in todo[d], TakePath(d, path)
  PROVE  GroupData'
<1>1. DOMAIN groups' = DOMAIN groups \cup Keys(path) /\ request' = request
  BY DEF TakePath, inputVars
<1>2. PICK new \in SetToSeqs(Keys(path) \ DOMAIN groups) : inserted' = inserted \o new
  BY DEF TakePath
<1>3. IsFiniteSet(Keys(path) \ DOMAIN groups)
  <2>1. path \in Paths
    BY DEF DataTypes
  <2>2. IsFiniteSet(Keys(path))
    BY <2>1, KeysFinite
  <2> QED
    BY <2>2, FS_Difference
<1>4. /\ new \in Seq(Keys(path) \ DOMAIN groups)
      /\ \A i, j \in DOMAIN new : new[i] = new[j] => i = j
      /\ \A k \in Keys(path) \ DOMAIN groups : \E i \in DOMAIN new : new[i] = k
  BY <1>3, OrderOfSet
<1>5. EachOnce(inserted, DOMAIN groups) /\ EachOnce(new, Keys(path) \ DOMAIN groups)
  BY <1>4 DEF EachOnce, GroupData
<1>6. DOMAIN groups \cap (Keys(path) \ DOMAIN groups) = {}
  OBVIOUS
<1>7. EachOnce(inserted', DOMAIN groups')
  <2>1. EachOnce(inserted \o new, DOMAIN groups \cup (Keys(path) \ DOMAIN groups))
    BY <1>5, <1>6, Concatenated
  <2>2. DOMAIN groups' = DOMAIN groups \cup (Keys(path) \ DOMAIN groups)
    BY <1>1
  <2> QED
    BY <1>2, <2>1, <2>2
<1>8. \A k \in DOMAIN groups' : Numbers(k)'
  BY Joined
<1> QED
  BY <1>1, <1>7, <1>8 DEF GroupData

LEMMA NumbersCompared ==
  ASSUME NEW k, Numbers(k)
  PROVE  Frequency(k) \in Nat /\ Length(k) \in Int /\ groups[k].date \in Nat
BY FS_CardinalityType DEF Numbers, Frequency, Length

\* Whatever the client sorts by, keys are compared like the tuples of numbers they
\* stand for: what is not before the one and after the other is as good as both.
LEMMA BeforeIsWeak ==
  ASSUME NEW order \in Orders, NEW a, NEW b, NEW c, Numbers(a), Numbers(b), Numbers(c)
  PROVE  /\ ~Before(a, a, order)
         /\ Before(a, b, order) => ~Before(b, a, order)
         /\ Before(a, b, order) /\ Before(b, c, order) => Before(a, c, order)
         /\ ~Before(a, b, order) /\ ~Before(b, c, order) => ~Before(a, c, order)
<1>1. /\ Frequency(a) \in Nat /\ Frequency(b) \in Nat /\ Frequency(c) \in Nat
      /\ Length(a) \in Int /\ Length(b) \in Int /\ Length(c) \in Int
      /\ groups[a].date \in Nat /\ groups[b].date \in Nat /\ groups[c].date \in Nat
  BY NumbersCompared
<1>2. order \in {"most_frequent", "longest", "shortest", "most_recent"}
  BY OrdersAssumption
<1>3. CASE order = "most_frequent"
  BY <1>1, <1>3 DEF Before
<1>4. CASE order = "longest"
  BY <1>1, <1>4 DEF Before
<1>5. CASE order = "shortest"
  BY <1>1, <1>5 DEF Before
<1>6. CASE order = "most_recent"
  BY <1>1, <1>6 DEF Before
<1> QED
  BY <1>2, <1>3, <1>4, <1>5, <1>6

\* The order of the sort: as compared, and as inserted where that is the same.
SortOrder == {p \in (DOMAIN inserted) \X (DOMAIN inserted) : Precedes(p[1], p[2])}

LEMMA InSortOrder ==
  ASSUME NEW i \in DOMAIN inserted, NEW j \in DOMAIN inserted
  PROVE  <<i, j>> \in SortOrder <=> Precedes(i, j)
<1> DEFINE p == <<i, j>>
<1>0. p \in (DOMAIN inserted) \X (DOMAIN inserted)
  OBVIOUS
<1>1. p[1] = i /\ p[2] = j
  OBVIOUS
<1> HIDE DEF p
<1>2. p \in SortOrder <=> Precedes(p[1], p[2])
  BY <1>0 DEF SortOrder
<1>3. Precedes(p[1], p[2]) <=> Precedes(i, j)
  BY <1>1
<1> QED
  BY <1>2, <1>3 DEF p

LEMMA SortIsOrder ==
  ASSUME GroupData
  PROVE  StrictOrder(SortOrder, DOMAIN inserted)
<1> DEFINE D == DOMAIN inserted
           before(i, j) == Before(inserted[i], inserted[j], request.order)
<1>1. D \subseteq Nat /\ \A i \in D : Numbers(inserted[i])
  <2>1. inserted \in Seq(DOMAIN groups)
    BY DEF GroupData, EachOnce
  <2>2. D = 1..Len(inserted) /\ Len(inserted) \in Nat /\ \A i \in D : inserted[i] \in DOMAIN groups
    BY <2>1, LenProperties, ElementOfSeq
  <2> QED
    BY <2>2 DEF GroupData
<1>2. request.order \in Orders
  BY DEF GroupData, Requests
<1>3. ASSUME NEW i \in D, NEW j \in D, NEW l \in D
      PROVE  /\ ~before(i, i)
             /\ before(i, j) => ~before(j, i)
             /\ before(i, j) /\ before(j, l) => before(i, l)
             /\ ~before(i, j) /\ ~before(j, l) => ~before(i, l)
  BY <1>1, <1>2, BeforeIsWeak
<1>4. \A i, j \in D : <<i, j>> \in SortOrder <=> before(i, j) \/ (~before(j, i) /\ i < j)
  BY InSortOrder DEF Precedes
<1> HIDE DEF before, D
<1>5. \A i \in D : <<i, i>> \notin SortOrder
  BY <1>1, <1>3, <1>4
<1>6. ASSUME NEW i \in D, NEW j \in D, NEW l \in D, <<i, j>> \in SortOrder, <<j, l>> \in SortOrder
      PROVE  <<i, l>> \in SortOrder
  <2>1. i < j /\ j < l => i < l
    BY <1>1
  <2>2. /\ before(i, j) \/ (~before(j, i) /\ i < j)
        /\ before(j, l) \/ (~before(l, j) /\ j < l)
    BY <1>4, <1>6
  <2>3. before(i, l) \/ (~before(l, i) /\ i < l)
    BY <1>3, <2>1, <2>2
  <2> QED
    BY <1>4, <2>3
<1>7. ASSUME NEW i \in D, NEW j \in D, i # j PROVE <<i, j>> \in SortOrder \/ <<j, i>> \in SortOrder
  <2>1. i < j \/ j < i
    BY <1>1, <1>7
  <2> QED
    BY <1>3, <1>4, <2>1
<1>8. StrictOrder(SortOrder, D)
  BY <1>5, <1>6, <1>7 DEF StrictOrder
<1> QED
  BY <1>8 DEF D

\* Sorted holds every key in one place, none of them before one that comes earlier.
LEMMA SortedIsSorted ==
  ASSUME GroupData
  PROVE  /\ DOMAIN Sorted = 1..Len(inserted) /\ Len(Sorted) = Len(inserted) /\ Len(inserted) \in Nat
         /\ \A n \in DOMAIN Sorted : Sorted[n] \in DOMAIN groups /\ Numbers(Sorted[n])
         /\ \A m, n \in DOMAIN Sorted : Sorted[m] = Sorted[n] => m = n
         /\ \A k \in DOMAIN groups : \E n \in DOMAIN Sorted : Sorted[n] = k
         /\ \A m, n \in DOMAIN Sorted : m < n => ~Before(Sorted[n], Sorted[m], request.order)
<1> DEFINE D == DOMAIN inserted
           N == Len(inserted)
           at(n) == CHOOSE i \in D : Place(i) = n
<1>1. /\ inserted \in Seq(DOMAIN groups) /\ D = 1..N /\ N \in Nat
      /\ \A i \in D : inserted[i] \in DOMAIN groups /\ Numbers(inserted[i])
      /\ \A i, j \in D : inserted[i] = inserted[j] => i = j
      /\ \A k \in DOMAIN groups : \E i \in D : inserted[i] = k
  <2>1. inserted \in Seq(DOMAIN groups)
    BY DEF GroupData, EachOnce
  <2>2. D = 1..N /\ N \in Nat /\ \A i \in D : inserted[i] \in DOMAIN groups
    BY <2>1, LenProperties, ElementOfSeq
  <2> QED
    BY <2>1, <2>2 DEF GroupData, EachOnce
<1>2. IsFiniteSet(D) /\ Cardinality(D) = N
  <2>1. IsFiniteSet(1..N) /\ Cardinality(1..N) = N
    <3>1. N \in Nat
      BY <1>1
    <3> HIDE DEF N
    <3> QED
      BY <3>1, FS_Interval
  <2> QED
    BY <1>1, <2>1
<1>3. \A i \in D : Place(i) = Rank(SortOrder, D, i) + 1
  <2> SUFFICES ASSUME NEW i \in D PROVE Place(i) = Rank(SortOrder, D, i) + 1
    OBVIOUS
  <2>1. {j \in D : Precedes(j, i)} = {j \in D : <<j, i>> \in SortOrder}
    BY InSortOrder
  <2> QED
    BY <2>1 DEF Place, Rank
<1>4. /\ \A i \in D : Rank(SortOrder, D, i) \in 0..N - 1
      /\ \A i, j \in D : Rank(SortOrder, D, i) = Rank(SortOrder, D, j) => i = j
      /\ \A r \in 0..N - 1 : \E i \in D : Rank(SortOrder, D, i) = r
      /\ \A i, j \in D : <<i, j>> \in SortOrder => Rank(SortOrder, D, i) < Rank(SortOrder, D, j)
  <2> HIDE DEF D, N
  <2>1. StrictOrder(SortOrder, D)
    BY SortIsOrder DEF D
  <2> QED
    BY <1>2, <2>1, RanksTaken, SmallerRank
<1>5. ASSUME NEW n \in 1..N PROVE at(n) \in D /\ Place(at(n)) = n
  <2>1. n - 1 \in 0..N - 1
    BY <1>1
  <2>2. PICK i \in D : Rank(SortOrder, D, i) = n - 1
    BY <1>4, <2>1
  <2>3. Place(i) = n
    BY <1>3, <2>2
  <2> QED
    BY <2>3
<1>6. /\ \A i \in D : Place(i) \in 1..N
      /\ \A i, j \in D : <<i, j>> \in SortOrder => Place(i) < Place(j)
      /\ \A i, j \in D : Place(i) = Place(j) => i = j
  <2>1. \A r \in 0..N - 1 : r \in Int /\ r + 1 \in 1..N
    BY <1>1
  <2> HIDE DEF D, N
  <2> QED
    BY <1>3, <1>4, <2>1
<1>7. Sorted = [n \in 1..N |-> inserted[at(n)]]
  BY <1>1 DEF Sorted
<1> HIDE DEF D, N, at
<1>8. DOMAIN Sorted = 1..N /\ Len(Sorted) = N
  BY <1>1, <1>7
<1>9. \A n \in 1..N : Sorted[n] = inserted[at(n)]
  BY <1>7
<1>10. \A n \in 1..N : Sorted[n] \in DOMAIN groups /\ Numbers(Sorted[n])
  BY <1>1, <1>5, <1>9
<1>11. ASSUME NEW m \in 1..N, NEW n \in 1..N, Sorted[m] = Sorted[n] PROVE m = n
  <2>1. PICK i \in D, j \in D : i = at(m) /\ j = at(n) /\ Place(i) = m /\ Place(j) = n
    BY <1>5
  <2>2. inserted[i] = inserted[j]
    BY <1>9, <1>11, <2>1
  <2> QED
    BY <1>1, <2>1, <2>2
<1>12. ASSUME NEW k \in DOMAIN groups PROVE \E n \in 1..N : Sorted[n] = k
  <2>1. PICK i \in D : inserted[i] = k
    BY <1>1
  <2>2. at(Place(i)) = i
    BY <1>5, <1>6
  <2> QED
    BY <1>6, <1>9, <2>1, <2>2
<1>13. ASSUME NEW m \in 1..N, NEW n \in 1..N, m < n
       PROVE  ~Before(Sorted[n], Sorted[m], request.order)
  <2>1. <<at(n), at(m)>> \notin SortOrder
    <3>1. ~(Place(at(n)) < Place(at(m)))
      BY <1>5, <1>13
    <3> QED
      BY <1>5, <1>6, <3>1
  <2>2. ~Precedes(at(n), at(m))
    BY <1>5, <2>1, InSortOrder DEF D
  <2>3. ~Before(inserted[at(n)], inserted[at(m)], request.order)
    BY <2>2 DEF Precedes
  <2> QED
    BY <1>9, <2>3
<1> QED
  BY <1>1, <1>8, <1>10, <1>11, <1>12, <1>13 DEF N

\* What the client asked for decides first.
LEMMA BeatsIsBefore ==
  ASSUME GroupData, GroupsExact, NEW k \in DOMAIN groups, NEW m \in DOMAIN groups, Beats(k, m)
  PROVE  Before(k, m, request.order)
<1>1. Frequency(k) = Cardinality(With(k)) /\ Frequency(m) = Cardinality(With(m))
  BY DEF GroupsExact, Frequency
<1>2. Len(k.nodes) \in Nat /\ Len(m.nodes) \in Nat
  BY DEF GroupData, Numbers
<1>3. request.order \in {"most_frequent", "longest", "shortest", "most_recent"}
  BY OrdersAssumption DEF GroupData, Requests
<1>4. CASE request.order = "most_frequent"
  BY <1>1, <1>4 DEF Beats, Before
<1>5. CASE request.order = "longest"
  BY <1>2, <1>5 DEF Beats, Before, Length
<1>6. CASE request.order = "shortest"
  BY <1>2, <1>6 DEF Beats, Before, Length
<1>7. CASE request.order = "most_recent"
  BY <1>7 DEF Beats, Before
<1> QED
  BY <1>3, <1>4, <1>5, <1>6, <1>7

\* The first keys of the sorted ones.
LEMMA FirstAreBest ==
  ASSUME GroupData, GroupsExact, NEW n \in 1..Len(inserted),
         NEW kept, kept = {Sorted[i] : i \in 1..n}
  PROVE  /\ \A i, j \in 1..n : i < j => ~Beats(Sorted[j], Sorted[i])
         /\ \A k \in kept, out \in DOMAIN groups \ kept : ~Beats(out, k)
         /\ Cardinality(kept) = n
         /\ n = Len(inserted) => DOMAIN groups \subseteq kept
<1>1. /\ DOMAIN Sorted = 1..Len(inserted) /\ Len(inserted) \in Nat
      /\ \A i \in DOMAIN Sorted : Sorted[i] \in DOMAIN groups
      /\ \A i, j \in DOMAIN Sorted : Sorted[i] = Sorted[j] => i = j
      /\ \A k \in DOMAIN groups : \E i \in DOMAIN Sorted : Sorted[i] = k
      /\ \A i, j \in DOMAIN Sorted : i < j => ~Before(Sorted[j], Sorted[i], request.order)
  BY SortedIsSorted
<1>2. 1..n \subseteq DOMAIN Sorted /\ n \in Nat
  BY <1>1
<1>3. \A i, j \in DOMAIN Sorted : i < j => ~Beats(Sorted[j], Sorted[i])
  BY <1>1, BeatsIsBefore
<1>4. ASSUME NEW k \in kept, NEW out \in DOMAIN groups \ kept PROVE ~Beats(out, k)
  <2>1. PICK i \in 1..n : Sorted[i] = k
    BY <1>4
  <2>2. PICK j \in DOMAIN Sorted : Sorted[j] = out
    BY <1>1
  <2>3. j \notin 1..n
    BY <2>2
  <2>4. i < j
    BY <1>1, <1>2, <2>3
  <2> QED
    BY <1>2, <1>3, <2>1, <2>2, <2>4
<1>5. Cardinality(kept) = n
  <2> DEFINE pick == [i \in 1..n |-> Sorted[i]]
  <2>1. pick \in Surjection(1..n, kept)
    BY DEF Surjection
  <2>2. pick \in Injection(1..n, kept)
    BY <1>1, <1>2 DEF Injection, IsInjective
  <2>3. IsFiniteSet(1..n) /\ Cardinality(1..n) = n
    BY <1>2, FS_Interval
  <2> HIDE DEF pick
  <2> QED
    BY <2>1, <2>2, <2>3, FS_Surjection
<1>6. n = Len(inserted) => DOMAIN groups \subseteq kept
  BY <1>1
<1> QED
  BY <1>2, <1>3, <1>4, <1>5, <1>6

LEMMA RespondKeepsBest ==
  ASSUME AssemblyInv, GroupData, Respond
  PROVE  BestKept'
<1> DEFINE n == IF Len(Sorted) < request.count THEN Len(Sorted) ELSE request.count
           kept == {Sorted[i] : i \in 1..n}
<1>1. /\ answer' = [i \in 1..n |-> Group(Sorted[i])] /\ inserted # <<>>
      /\ UNCHANGED <<request, found, date, todo, groups, inserted>>
  BY DEF Respond, inputVars
<1>2. Len(Sorted) = Len(inserted) /\ Len(inserted) \in Nat \ {0} /\ request.count \in Nat \ {0}
  <2>1. inserted \in Seq(DOMAIN groups)
    BY DEF GroupData, EachOnce
  <2>2. Len(inserted) # 0
    BY <1>1, <2>1, EmptySeq
  <2> QED
    BY <2>2, SortedIsSorted, CountsAssumption DEF GroupData, Requests
<1>3. /\ n \in 1..Len(inserted)
      /\ n = Len(inserted) \/ n = request.count
  BY <1>2
<1>4. \A k, m : Beats(k, m)' <=> Beats(k, m)
  <2>1. \A p : Keys(p)' = Keys(p)
    BY <1>1, KeysFixed
  <2>2. \A k : With(k)' = With(k)
    BY <1>1, <2>1 DEF With
  <2> QED
    BY <1>1, <2>2 DEF Beats
<1> HIDE DEF n
<1>5. DOMAIN answer' = 1..n /\ Len(answer') = n /\ \A i \in 1..n : answer'[i].key = Sorted[i]
  BY <1>1, <1>3 DEF Group
<1>6. {answer'[i].key : i \in DOMAIN answer'} = kept
  BY <1>5
<1> HIDE DEF kept
<1>7. /\ \A i, j \in 1..n : i < j => ~Beats(Sorted[j], Sorted[i])
      /\ \A k \in kept, out \in DOMAIN groups \ kept : ~Beats(out, k)
      /\ Cardinality(kept) = n
      /\ n = Len(inserted) => DOMAIN groups \subseteq kept
  BY <1>3, FirstAreBest DEF AssemblyInv, kept
<1>8. \A i, j \in DOMAIN answer' : i < j => ~Beats(answer[j].key, answer[i].key)'
  <2> SUFFICES ASSUME NEW i \in DOMAIN answer', NEW j \in DOMAIN answer', i < j
               PROVE  ~Beats(answer[j].key, answer[i].key)'
    OBVIOUS
  <2>1. PICK k, m : k = answer'[j].key /\ m = answer'[i].key
    OBVIOUS
  <2>2. ~Beats(k, m)'
    BY <1>4, <1>5, <1>7, <2>1
  <2> QED
    BY <2>1, <2>2 DEF Beats
<1>9. \A k \in kept, out \in DOMAIN groups' \ kept : ~Beats(out, k)'
  BY <1>1, <1>4, <1>7
<1>10. DOMAIN groups' \subseteq kept \/ Len(answer') = request'.count
  BY <1>1, <1>3, <1>5, <1>7
<1> QED
  BY <1>5, <1>6, <1>7, <1>8, <1>9, <1>10 DEF BestKept

LEMMA Steady ==
  ASSUME AssemblyInv, GroupData, BestKept, UNCHANGED vars
  PROVE  GroupData' /\ BestKept'
<1>1. UNCHANGED <<request, found, date, todo, groups, inserted, answer>>
  BY DEF vars, inputVars
<1>2. \A k, m : Beats(k, m)' <=> Beats(k, m)
  <2>1. \A p : Keys(p)' = Keys(p)
    BY <1>1, KeysFixed
  <2>2. \A k : With(k)' = With(k)
    BY <1>1, <2>1 DEF With
  <2> QED
    BY <1>1, <2>2 DEF Beats
<1>3. GroupData'
  BY <1>1 DEF GroupData, EachOnce, Numbers
<1>4. BestKept'
  BY <1>1, <1>2 DEF BestKept
<1> QED
  BY <1>3, <1>4

BestInv == AssemblyInv /\ GroupData /\ BestKept

LEMMA BestInvHolds == Spec => []BestInv
<1>1. Init => BestInv
  BY AssemblyInitially, GroupDataInitially DEF BestInv, BestKept, Init
<1>2. BestInv /\ [Next]_vars => BestInv'
  <2> SUFFICES ASSUME BestInv, [Next]_vars PROVE BestInv'
    OBVIOUS
  <2>1. ASSUME NEW d \in Docs, NEW path \in todo[d], TakePath(d, path) PROVE BestInv'
    <3>1. answer' = <<>>
      BY <2>1 DEF TakePath
    <3>2. BestKept'
      BY <3>1 DEF BestKept
    <3> QED
      BY <2>1, <3>2, TakePathKeeps, TakePathOrders DEF BestInv, AssemblyInv
  <2>2. CASE Respond
    <3>1. GroupData'
      BY <2>2 DEF Respond, inputVars, BestInv, GroupData, EachOnce, Numbers
    <3> QED
      BY <2>2, <3>1, RespondKeeps, RespondKeepsBest DEF BestInv
  <2>3. CASE UNCHANGED vars
    BY <2>3, RespondKeeps, Steady DEF BestInv
  <2> QED
    BY <2>1, <2>2, <2>3 DEF Next
<1> QED
  BY <1>1, <1>2, PTL DEF Spec

\* path_count cuts the worst, whatever the client sorts by: no group that was left
\* out beats one that was kept, the kept ones are in order and each is there once,
\* and fewer than path_count are kept only when there are no more.
THEOREM BestAreKept == Spec => []BestKept
<1>1. BestInv => BestKept
  BY DEF BestInv
<1> QED
  BY BestInvHolds, <1>1, PTL

-----------------------------------------------------------------------------
(***************************************************************************)
(* The names.  PathAnswer takes the steps of PathAssembly and those of the *)
(* lookup, which leave the groups alone.                                   *)
(***************************************************************************)
LEMMA AnswerOverAssembly == AnswerSpec => Spec
<1>1. AnswerInit => Init
  BY DEF AnswerInit
<1>2. [AnswerNext]_answerVars => [Next]_vars
  <2> SUFFICES ASSUME [AnswerNext]_answerVars PROVE [Next]_vars
    OBVIOUS
  <2>1. ASSUME NEW d \in Docs, NEW path \in todo[d], Collect(d, path) PROVE [Next]_vars
    BY <2>1 DEF Collect, Next
  <2>2. CASE Build
    BY <2>2 DEF Build, Next
  <2>3. CASE AskNames \/ UseSpace \/ AskSystems \/ AskOneByOne \/ ConnectionLost
    BY <2>3 DEF AskNames, UseSpace, AskSystems, AskOneByOne, ConnectionLost
  <2>4. CASE UNCHANGED answerVars
    BY <2>4 DEF answerVars
  <2> QED
    BY <2>1, <2>2, <2>3, <2>4 DEF AnswerNext
<1> QED
  BY <1>1, <1>2, PTL DEF AnswerSpec, Spec

IsPair(node) == node = <<node[1], node[2]>>

\* The ends of a key's segments are asked for, with their parts and without.
EndsAsked(k) ==
  \A i \in DOMAIN k.segs : \A end \in {k.segs[i].src, k.segs[i].dst} :
    end \in wanted /\ Alone(end) \in wanted

\* What the lookup found is what it should have found.
Settled == \A n \in wanted : NameOf(n) = NameDue(n)

NamesInv ==
  /\ npc \in {"group", "use", "batch", "ask", "build", "failed", "done"}
  /\ \A n \in wanted : IsPair(n)
  /\ \A k \in DOMAIN groups : EndsAsked(k)
  /\ npc # "group" => \A d \in Docs : todo[d] = {}
  /\ npc # "done" => answer = <<>>
  /\ npc \in {"group", "use", "batch"} => names = <<>> /\ silent = {}
  /\ npc = "ask" =>
       /\ silent = {}
       /\ \/ left = PartNodes /\ names = [n \in Named(SystemNodes) |-> Vertex(n)]
          \/ left = SystemNodes \cup PartNodes /\ names = <<>>
  /\ npc \in {"build", "done"} => Settled
  /\ \A n \in DOMAIN answer : answer[n].key \in DOMAIN groups

LEMMA PairsAreNodes ==
  ASSUME NEW path
  PROVE  /\ \A n \in NodesOf(path) : IsPair(n)
         /\ \A k \in Keys(path) : \A i \in DOMAIN k.segs : \A end \in {k.segs[i].src, k.segs[i].dst} :
              end \in NodesOf(path) /\ Alone(end) \in NodesOf(path)
<1>1. ASSUME NEW k \in Keys(path), NEW i \in DOMAIN k.segs
      PROVE  IsPair(k.segs[i].src) /\ IsPair(k.segs[i].dst)
  <2>1. PICK f : k.segs = [j \in Edge(path) |-> EffEdge(path, j, f[j])]
    BY <1>1 DEF Keys, Sequences
  <2>2. k.segs[i] = EffEdge(path, i, f[i])
    BY <1>1, <2>1
  <2> QED
    BY <2>2 DEF EffEdge, IsPair
<1>2. \A end : IsPair(Alone(end))
  BY DEF IsPair, Alone
<1> QED
  BY <1>1, <1>2 DEF NodesOf

LEMMA NamesInitially == AnswerInit => NamesInv /\ NamesBelong
<1> SUFFICES ASSUME AnswerInit PROVE NamesInv /\ NamesBelong
  OBVIOUS
<1>1. groups = <<>> /\ answer = <<>> /\ wanted = {} /\ npc = "group" /\ names = <<>> /\ silent = {}
  BY DEF AnswerInit, Init
<1>2. DOMAIN groups = {} /\ DOMAIN answer = {}
  BY <1>1
<1> QED
  BY <1>1, <1>2 DEF NamesInv, NamesBelong

\* Before the response there is nothing to dress.
LEMMA NothingDressed ==
  ASSUME answer' = <<>>
  PROVE  NamesBelong' /\ (\A n \in DOMAIN answer : answer[n].key \in DOMAIN groups)'
<1>1. DOMAIN answer' = {}
  BY NoPlaces
<1> QED
  BY <1>1 DEF NamesBelong

LEMMA CollectKeepsNames ==
  ASSUME NamesInv, NEW d \in Docs, NEW path \in todo[d], Collect(d, path)
  PROVE  NamesInv' /\ NamesBelong'
<1>1. /\ npc = "group" /\ npc' = "group" /\ wanted' = wanted \cup NodesOf(path)
      /\ UNCHANGED <<names, silent, answer>>
      /\ DOMAIN groups' = DOMAIN groups \cup Keys(path)
  BY DEF Collect, TakePath
<1>2. answer' = <<>> /\ names' = <<>> /\ silent' = {}
  BY <1>1 DEF NamesInv
<1>3. \A n \in wanted' : IsPair(n)
  BY <1>1, PairsAreNodes DEF NamesInv
<1>4. ASSUME NEW k \in DOMAIN groups', NEW i \in DOMAIN k.segs,
             NEW end \in {k.segs[i].src, k.segs[i].dst}
      PROVE  end \in wanted' /\ Alone(end) \in wanted'
  <2>1. CASE k \in Keys(path)
    BY <1>1, <2>1, PairsAreNodes
  <2>2. CASE k \in DOMAIN groups
    BY <1>1, <2>2 DEF NamesInv, EndsAsked
  <2> QED
    BY <1>1, <2>1, <2>2
<1>5. \A k \in DOMAIN groups' : EndsAsked(k)'
  BY <1>4 DEF EndsAsked
<1> QED
  BY <1>1, <1>2, <1>3, <1>5, NothingDressed DEF NamesInv

\* The steps from the grouping to the names leave the groups as they are.
LEMMA LookupKeepsEnds ==
  ASSUME NamesInv, UNCHANGED vars, npc # "done", wanted \subseteq wanted',
         \A n \in wanted' : IsPair(n)
  PROVE  /\ answer' = <<>> /\ NamesBelong'
         /\ \A k \in DOMAIN groups' : EndsAsked(k)'
         /\ \A d \in Docs : todo'[d] = todo[d]
         /\ (\A n \in wanted : IsPair(n))'
         /\ (\A n \in DOMAIN answer : answer[n].key \in DOMAIN groups)'
<1>1. answer' = <<>> /\ groups' = groups /\ todo' = todo
  BY DEF NamesInv, vars
<1>2. \A k \in DOMAIN groups' : EndsAsked(k)'
  BY <1>1 DEF NamesInv, EndsAsked
<1> QED
  BY <1>1, <1>2, NothingDressed

LEMMA SettledWithout ==
  ASSUME names' = <<>>, wanted' \subseteq silent'
  PROVE  Settled'
<1>1. DOMAIN names' = {}
  BY NoPlaces
<1> QED
  BY <1>1 DEF Settled, NameOf, NameDue

LEMMA AskNamesKeeps ==
  ASSUME NamesInv, AskNames
  PROVE  NamesInv' /\ NamesBelong'
<1>1. /\ UNCHANGED vars /\ npc = "group" /\ npc' = IF wanted' = {} THEN "build" ELSE "use"
      /\ wanted' = wanted \cup
           {<<s, NoPart>> : s \in {request.start.system, request.finish.system} \ {NoSystem}}
      /\ UNCHANGED <<names, silent>> /\ \A d \in Docs : todo[d] = {}
  BY DEF AskNames, To
<1>2. names' = <<>> /\ silent' = {}
  BY <1>1 DEF NamesInv
<1>3. wanted \subseteq wanted' /\ \A n \in wanted' : IsPair(n)
  BY <1>1 DEF NamesInv, IsPair
<1>4. npc' = "build" => Settled'
  BY <1>1, <1>2, SettledWithout
<1> QED
  BY <1>1, <1>2, <1>3, <1>4, LookupKeepsEnds DEF NamesInv

LEMMA UseSpaceKeeps ==
  ASSUME NamesInv, UseSpace
  PROVE  NamesInv' /\ NamesBelong'
<1>1. PICK accepted \in Accepted :
        /\ npc = "use" /\ npc' = IF accepted THEN "batch" ELSE "build"
        /\ silent' = IF accepted THEN silent ELSE wanted
  BY DEF UseSpace, To
<1>2. UNCHANGED vars /\ UNCHANGED <<wanted, names>> /\ names = <<>> /\ silent = {}
  BY <1>1 DEF UseSpace, NamesInv
<1>3. npc' = "build" => Settled'
  BY <1>1, <1>2, SettledWithout
<1>4. wanted \subseteq wanted' /\ \A n \in wanted' : IsPair(n)
  BY <1>2 DEF NamesInv
<1>5. \A d \in Docs : todo[d] = {}
  BY <1>1 DEF NamesInv
<1> QED
  BY <1>1, <1>2, <1>3, <1>4, <1>5, LookupKeepsEnds DEF NamesInv

LEMMA AskSystemsKeeps ==
  ASSUME NamesInv, AskSystems
  PROVE  NamesInv' /\ NamesBelong'
<1>1. PICK accepted \in Accepted :
        /\ names' = IF accepted THEN Found(Named(SystemNodes)) ELSE names
        /\ left' = Fallback(accepted) \cup PartNodes
  BY DEF AskSystems
<1>2. /\ UNCHANGED vars /\ UNCHANGED <<wanted, silent>> /\ npc = "batch" /\ npc' = "ask"
      /\ names = <<>> /\ silent = {} /\ \A d \in Docs : todo[d] = {}
  BY DEF AskSystems, To, NamesInv
<1>3. DOMAIN names = {}
  BY <1>2, NoPlaces
<1>4. Found(Named(SystemNodes)) = [n \in Named(SystemNodes) |-> Vertex(n)]
  BY <1>3 DEF Found
<1>5. SystemNodes' = SystemNodes /\ PartNodes' = PartNodes
      /\ Named(SystemNodes)' = Named(SystemNodes)
  BY <1>2 DEF SystemNodes, PartNodes, Named
<1>6. \/ left' = PartNodes' /\ names' = [n \in Named(SystemNodes)' |-> Vertex(n)]
      \/ left' = SystemNodes' \cup PartNodes' /\ names' = <<>>
  BY <1>1, <1>2, <1>4, <1>5 DEF Fallback
<1>7. wanted \subseteq wanted' /\ \A n \in wanted' : IsPair(n)
  BY <1>2 DEF NamesInv
<1> QED
  BY <1>2, <1>6, <1>7, LookupKeepsEnds DEF NamesInv

LEMMA AskOneByOneKeeps ==
  ASSUME NamesInv, AskOneByOne
  PROVE  NamesInv' /\ NamesBelong'
<1>1. PICK deaf \in SUBSET left :
        names' = Found(Named(left \ deaf)) /\ silent' = silent \cup deaf
  BY DEF AskOneByOne
<1>2. /\ UNCHANGED vars /\ UNCHANGED wanted /\ npc = "ask" /\ npc' = "build"
      /\ silent = {} /\ \A d \in Docs : todo[d] = {}
  BY DEF AskOneByOne, To, NamesInv
<1>3. ASSUME NEW n \in wanted PROVE NameOf(n)' = NameDue(n)'
  <2>1. IsPair(n)
    BY DEF NamesInv
  <2>2. n \in SystemNodes \/ n \in PartNodes
    BY <2>1 DEF IsPair, SystemNodes, PartNodes, Alone
  <2>3. ~(n \in SystemNodes /\ n \in PartNodes)
    BY DEF SystemNodes, PartNodes, Alone
  <2>4. /\ DOMAIN names' = DOMAIN names \cup Named(left \ deaf)
        /\ \A x \in DOMAIN names' : names'[x] = IF x \in Named(left \ deaf) THEN Vertex(x) ELSE names[x]
    BY <1>1 DEF Found
  <2>5. silent' = deaf
    BY <1>1, <1>2
  <2>6. CASE left = PartNodes /\ names = [x \in Named(SystemNodes) |-> Vertex(x)]
    <3>1. DOMAIN names = Named(SystemNodes) /\ \A x \in Named(SystemNodes) : names[x] = Vertex(x)
      BY <2>6
    <3> QED
      BY <1>1, <2>2, <2>3, <2>4, <2>5, <2>6, <3>1 DEF NameOf, NameDue, Named
  <2>7. CASE left = SystemNodes \cup PartNodes /\ names = <<>>
    <3>1. DOMAIN names = {}
      BY <2>7, NoPlaces
    <3> QED
      BY <1>1, <2>2, <2>4, <2>5, <2>7, <3>1 DEF NameOf, NameDue, Named
  <2> QED
    BY <1>2, <2>6, <2>7 DEF NamesInv
<1>4. Settled'
  BY <1>2, <1>3 DEF Settled
<1>5. wanted \subseteq wanted' /\ \A n \in wanted' : IsPair(n)
  BY <1>2 DEF NamesInv
<1> QED
  BY <1>2, <1>4, <1>5, LookupKeepsEnds DEF NamesInv

LEMMA ConnectionLostKeeps ==
  ASSUME NamesInv, ConnectionLost
  PROVE  NamesInv' /\ NamesBelong'
<1>1. /\ UNCHANGED vars /\ UNCHANGED wanted /\ npc \in {"use", "batch", "ask"} /\ names' = <<>>
      /\ \/ npc' = "use" /\ silent' = {}
         \/ npc' = "build" /\ silent' = wanted
         \/ npc' = "failed"
  BY DEF ConnectionLost
<1>2. \A d \in Docs : todo[d] = {}
  BY <1>1 DEF NamesInv
<1>3. npc' = "build" => Settled'
  BY <1>1, SettledWithout
<1>4. wanted \subseteq wanted' /\ \A n \in wanted' : IsPair(n)
  BY <1>1 DEF NamesInv
<1> QED
  BY <1>1, <1>2, <1>3, <1>4, LookupKeepsEnds DEF NamesInv

\* The response is dressed with the names of its own systems and parts.
LEMMA BuildKeepsNames ==
  ASSUME NamesInv, GroupData, Build
  PROVE  NamesInv' /\ NamesBelong'
<1>1. /\ npc = "build" /\ npc' = "done" /\ UNCHANGED <<wanted, names, silent>>
      /\ UNCHANGED <<groups, todo>> /\ answer = <<>> /\ Settled
  BY DEF Build, To, NamesInv, vars, Respond
<1>2. /\ Settled' /\ \A n \in wanted' : IsPair(n)
      /\ \A d \in Docs : todo'[d] = {}
  BY <1>1 DEF Settled, NameOf, NameDue, NamesInv
<1>3. \A k \in DOMAIN groups' : EndsAsked(k)'
  BY <1>1 DEF NamesInv, EndsAsked
<1>4. CASE UNCHANGED vars
  <2>1. answer' = <<>>
    BY <1>1, <1>4 DEF vars
  <2> QED
    BY <1>1, <1>2, <1>3, <2>1, NothingDressed DEF NamesInv
<1>5. CASE /\ Respond
           /\ dressed' = [n \in DOMAIN answer' |-> LET segs == answer'[n].key.segs IN
                [i \in DOMAIN segs |-> [src |-> Dressed(segs[i].src), dst |-> Dressed(segs[i].dst)]]]
  <2>1. ASSUME NEW n \in DOMAIN answer' PROVE answer'[n].key \in DOMAIN groups
    <3>1. PICK top \in Nat : /\ top <= Len(Sorted) 
                             /\ answer' = [m \in 1..top |-> Group(Sorted[m])]
      <4>1. request.count \in Nat /\ Len(Sorted) \in Nat
        BY SortedIsSorted, CountsAssumption DEF GroupData, Requests
      <4> QED
        BY <1>5, <4>1 DEF Respond
    <3>2. n \in 1..top /\ answer'[n].key = Sorted[n]
      BY <2>1, <3>1 DEF Group
    <3>3. n \in DOMAIN Sorted
      BY <3>1, <3>2, SortedIsSorted
    <3> QED
      BY <3>2, <3>3, SortedIsSorted
  <2>2. ASSUME NEW n \in DOMAIN answer', NEW i \in DOMAIN answer'[n].key.segs,
               NEW end \in {answer'[n].key.segs[i].src, answer'[n].key.segs[i].dst}
        PROVE  /\ NameOf(Alone(end)) = NameDue(Alone(end))
               /\ NameOf(end) = NameDue(end)
    <3>1. end \in wanted /\ Alone(end) \in wanted
      BY <2>1 DEF NamesInv, EndsAsked
    <3> QED
      BY <1>1, <3>1 DEF Settled
  <2>3. \A n \in DOMAIN answer' : \A i \in DOMAIN answer'[n].key.segs :
          dressed'[n][i] = [src |-> Dressed(answer'[n].key.segs[i].src),
                            dst |-> Dressed(answer'[n].key.segs[i].dst)]
    BY <1>5
  <2>4. \A node : NameDue(node)' = NameDue(node)
    BY <1>1 DEF NameDue
  <2>5. ASSUME NEW n \in DOMAIN answer', NEW i \in DOMAIN answer'[n].key.segs
        PROVE  LET seg == answer'[n].key.segs[i]
                   worn(end, name) ==
                     /\ name.system = NameDue(Alone(end))
                     /\ name.part = IF end[2] = NoPart THEN NoName ELSE NameDue(end)
               IN worn(seg.src, dressed'[n][i].src) /\ worn(seg.dst, dressed'[n][i].dst)
    <3> DEFINE src == answer'[n].key.segs[i].src
               dst == answer'[n].key.segs[i].dst
    <3>1. /\ dressed'[n][i].src = Dressed(src)
          /\ dressed'[n][i].dst = Dressed(dst)
      <4>1. dressed'[n][i] = [src |-> Dressed(src), dst |-> Dressed(dst)]
        BY <2>3
      <4> HIDE DEF src, dst
      <4> QED
        BY <4>1
    <3>2. ASSUME NEW end \in {src, dst}
          PROVE  /\ Dressed(end).system = NameDue(Alone(end))
                 /\ Dressed(end).part = IF end[2] = NoPart THEN NoName ELSE NameDue(end)
      <4>1. /\ NameOf(Alone(end)) = NameDue(Alone(end))
            /\ NameOf(end) = NameDue(end)
        BY <2>2
      <4>2. /\ Dressed(end).system = NameOf(Alone(end))
            /\ Dressed(end).part = IF end[2] = NoPart THEN NoName ELSE NameOf(end)
        BY DEF Dressed
      <4> QED
        BY <4>1, <4>2
    <3>3. /\ Dressed(src).system = NameDue(Alone(src))
          /\ Dressed(src).part = IF src[2] = NoPart THEN NoName ELSE NameDue(src)
          /\ Dressed(dst).system = NameDue(Alone(dst))
          /\ Dressed(dst).part = IF dst[2] = NoPart THEN NoName ELSE NameDue(dst)
      <4> HIDE DEF src, dst
      <4> QED
        BY <3>2
    <3> QED
      BY <3>1, <3>3
  <2>6. NamesBelong'
    <3> SUFFICES ASSUME NEW n \in DOMAIN answer', NEW i \in DOMAIN answer'[n].key.segs
                 PROVE  (LET seg == answer[n].key.segs[i]
                             worn(end, name) ==
                               /\ name.system = NameDue(Alone(end))
                               /\ name.part = IF end[2] = NoPart THEN NoName ELSE NameDue(end)
                         IN worn(seg.src, dressed[n][i].src) /\ worn(seg.dst, dressed[n][i].dst))'
      BY DEF NamesBelong
    <3> QED
      BY <1>1, <2>5 DEF NameDue
  <2> QED
    BY <1>1, <1>2, <1>3, <2>1, <2>6 DEF NamesInv
<1> QED
  BY <1>4, <1>5 DEF Build

AnswerInv == BestInv /\ NamesInv /\ NamesBelong

LEMMA NamesKept ==
  ASSUME BestInv, NamesInv, NamesBelong, [AnswerNext]_answerVars
  PROVE  NamesInv' /\ NamesBelong'
<1>1. ASSUME NEW d \in Docs, NEW path \in todo[d], Collect(d, path)
      PROVE  NamesInv' /\ NamesBelong'
  BY <1>1, CollectKeepsNames
<1>2. CASE Build
  BY <1>2, BuildKeepsNames DEF BestInv
<1>3. CASE UNCHANGED answerVars
  <2>1. UNCHANGED <<groups, todo, answer, wanted, npc, left, names, silent, dressed>>
    BY <1>3 DEF answerVars, nameVars, vars
  <2>2. Settled => Settled'
    BY <2>1 DEF Settled, NameOf, NameDue
  <2>3. SystemNodes' = SystemNodes /\ PartNodes' = PartNodes /\ Named(SystemNodes)' = Named(SystemNodes)
    BY <2>1 DEF SystemNodes, PartNodes, Named
  <2>4. NamesInv'
    BY <2>1, <2>2, <2>3 DEF NamesInv, EndsAsked
  <2>5. NamesBelong'
    BY <2>1 DEF NamesBelong, NameDue
  <2> QED
    BY <2>4, <2>5
<1> QED
  BY <1>1, <1>2, <1>3, AskNamesKeeps, UseSpaceKeeps, AskSystemsKeeps, AskOneByOneKeeps,
     ConnectionLostKeeps DEF AnswerNext

\* Every end of every segment in the response carries the name of its own system
\* and of its own part, and lacks one only when the database has none or rejected
\* the statement that asked for it.
THEOREM NamesAreOwn == AnswerSpec => []NamesBelong
<1>1. AnswerInit => NamesInv /\ NamesBelong
  BY NamesInitially
<1>2. BestInv /\ NamesInv /\ NamesBelong /\ [AnswerNext]_answerVars => NamesInv' /\ NamesBelong'
  BY NamesKept
<1> QED
  BY <1>1, <1>2, AnswerOverAssembly, BestInvHolds, PTL DEF AnswerSpec

\* With the names looked up in between the groups are still exact and the best of
\* them kept.
THEOREM AnswerIsAssembly == AnswerSpec => Spec /\ [](GroupsExact /\ BestKept)
<1>1. BestInv => GroupsExact /\ BestKept
  BY DEF BestInv, AssemblyInv
<1> QED
  BY <1>1, AnswerOverAssembly, BestInvHolds, PTL
=============================================================================
