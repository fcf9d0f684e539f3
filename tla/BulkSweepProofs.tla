-------------------------- MODULE BulkSweepProofs --------------------------
(***************************************************************************)
(* The bulk sweeps, for any set of batches, any number of sweeps at once   *)
(* and any page size: what a page is (the lemmas on FirstOf), and from it  *)
(* that a sweep hands out no batch twice and, if it reaches its end, every *)
(* batch that was in the set all the time.                                 *)
(*                                                                         *)
(* The inductive invariant puts the cursor between what was read and what  *)
(* was not: everything in hand or handed out is at or below it (Behind),   *)
(* everything steady at or below it is in hand or handed out (Covered),    *)
(* and nothing steady is above it when the last page has been read (Last). *)
(***************************************************************************)
EXTENDS BulkSweep, FiniteSetTheorems, WellFoundedInduction, TLAPS

-----------------------------------------------------------------------------
(* The least and the greatest of a finite set of numbers                   *)

\* By the least-counterexample principle over the finite subsets of S.
LEMMA FiniteHasMax ==
    ASSUME NEW S \in SUBSET Nat, IsFiniteSet(S), S # {}
    PROVE  \E x \in S : \A y \in S : x >= y
  <1> DEFINE Bad == {A \in FiniteSubsetsOf(S) : A # {} /\ ~ \E x \in A : \A y \in A : x >= y}
  <1>1. SUFFICES ASSUME Bad # {} PROVE FALSE
    <2>1. S \in FiniteSubsetsOf(S)
      BY DEF FiniteSubsetsOf
    <2> QED
      BY <1>1, <2>1
  <1>2. PICK A \in Bad : \A B \in Bad : ~ (<<B, A>> \in StrictSubsetOrdering(S))
    <2>1. IsWellFoundedOn(StrictSubsetOrdering(S), FiniteSubsetsOf(S))
      BY FS_StrictSubsetOrderingWellFounded
    <2>2. Bad \subseteq FiniteSubsetsOf(S)
      OBVIOUS
    <2> HIDE DEF Bad
    <2> QED
      BY <1>1, <2>1, <2>2, WFMin
  <1>3. PICK a \in A : TRUE
    OBVIOUS
  <1>4. A \subseteq S /\ IsFiniteSet(A) /\ A \subseteq Nat
    BY DEF FiniteSubsetsOf
  <1> DEFINE B == A \ {a}
  <1>5. B \in FiniteSubsetsOf(S) /\ B \subseteq A /\ B # A
    BY <1>4, <1>3, FS_RemoveElement DEF FiniteSubsetsOf
  <1>6. <<B, A>> \in StrictSubsetOrdering(S)
    BY <1>4, <1>5 DEF StrictSubsetOrdering, FiniteSubsetsOf
  <1>7. B \notin Bad
    BY <1>2, <1>6
  <1>8. CASE B = {}
    <2>1. \A y \in A : a >= y
      BY <1>4, <1>8
    <2> QED
      BY <2>1, <1>3
  <1>9. CASE B # {}
    <2>1. PICK x \in B : \A y \in B : x >= y
      BY <1>5, <1>7, <1>9
    <2>2. CASE x >= a
      <3>1. x \in A /\ \A y \in A : x >= y
        BY <2>1, <2>2
      <3> QED
        BY <3>1
    <2>3. CASE ~ (x >= a)
      <3>1. \A y \in A : a >= y
        BY <2>1, <2>3, <1>4
      <3> QED
        BY <3>1, <1>3
    <2> QED
      BY <2>2, <2>3
  <1> QED
    BY <1>8, <1>9

LEMMA FiniteHasMin ==
    ASSUME NEW S \in SUBSET Nat, IsFiniteSet(S), S # {}
    PROVE  \E x \in S : \A y \in S : x <= y
  <1> PICK top \in S : \A y \in S : top >= y
    BY FiniteHasMax
  <1> DEFINE Mirror == {top - y : y \in S}
  <1>1. Mirror \subseteq Nat /\ Mirror # {} /\ \A x \in Mirror : x <= top
    OBVIOUS
  <1>2. IsFiniteSet(Mirror)
    BY <1>1, FS_BoundedSetOfNaturals
  <1>3. PICK m \in Mirror : \A x \in Mirror : m >= x
    <2> HIDE DEF Mirror
    <2> QED
      BY <1>1, <1>2, FiniteHasMax
  <1>4. PICK x \in S : m = top - x
    OBVIOUS
  <1>5. \A y \in S : x <= y
    <2> TAKE y \in S
    <2>1. m >= top - y
      BY <1>3
    <2> QED
      BY <2>1, <1>4
  <1> QED
    BY <1>5

LEMMA MaxIsGreatest ==
    ASSUME NEW S \in SUBSET Nat, IsFiniteSet(S), S # {}
    PROVE  Max(S) \in S /\ \A y \in S : y <= Max(S)
  BY FiniteHasMax DEF Max

LEMMA MinIsLeast ==
    ASSUME NEW S \in SUBSET Nat, IsFiniteSet(S), S # {}
    PROVE  Min(S) \in S /\ \A y \in S : Min(S) <= y
  BY FiniteHasMin DEF Min

-----------------------------------------------------------------------------
(* What a page is                                                          *)

\* A page holds the least elements of a set: with an element of the set it holds
\* every smaller one.
LEMMA FirstOfIsDownwardClosed ==
    ASSUME NEW S \in SUBSET Nat, IsFiniteSet(S), NEW n \in Nat,
           NEW j \in FirstOf(S, n), NEW i \in S, i <= j
    PROVE  i \in FirstOf(S, n)
  <1> DEFINE Upto(k) == {v \in S : v <= k}
  <1>1. Upto(i) \in SUBSET Upto(j)
    <2>1. j \in Nat
      BY DEF FirstOf
    <2>2. ASSUME NEW v \in S, v <= i PROVE v <= j
      BY <2>1, <2>2
    <2> QED
      BY <2>2
  <1>2. IsFiniteSet(Upto(j)) /\ IsFiniteSet(Upto(i))
    BY FS_Subset
  <1>3. Cardinality(Upto(i)) <= Cardinality(Upto(j))
    <2> HIDE DEF Upto
    <2> QED
      BY <1>1, <1>2, FS_Subset
  <1>4. Cardinality(Upto(j)) <= n
    BY DEF FirstOf
  <1>5. Cardinality(Upto(i)) \in Nat /\ Cardinality(Upto(j)) \in Nat
    BY <1>2, FS_CardinalityType
  <1>6. Cardinality(Upto(i)) <= n
    BY <1>3, <1>4, <1>5
  <1> QED
    BY <1>6 DEF FirstOf

\* A page that is shorter than its size holds the whole set.
LEMMA ShortPageIsAll ==
    ASSUME NEW S \in SUBSET Nat, IsFiniteSet(S), NEW n \in Nat,
           Cardinality(FirstOf(S, n)) < n
    PROVE  FirstOf(S, n) = S
  <1> DEFINE F == FirstOf(S, n)
             Rest == S \ F
  <1>1. F \subseteq S
    BY DEF FirstOf
  <1>2. SUFFICES ASSUME Rest # {} PROVE FALSE
    BY <1>1
  <1>3. IsFiniteSet(F) /\ IsFiniteSet(Rest) /\ Rest \in SUBSET Nat
    BY <1>1, FS_Subset
  <1> DEFINE m == Min(Rest)
             Upto == {v \in S : v <= m}
  <1>4. m \in Rest /\ \A y \in Rest : m <= y
    <2> HIDE DEF Rest
    <2> QED
      BY <1>2, <1>3, MinIsLeast
  <1> HIDE DEF m
  <1>5. Upto \in SUBSET (F \cup {m})
    <2>1. ASSUME NEW v \in S, v <= m, v \notin F PROVE v = m
      <3>1. v \in Rest /\ v \in Nat /\ m \in Nat
        BY <2>1, <1>4
      <3> QED
        BY <2>1, <3>1, <1>4
    <2> QED
      BY <2>1
  <1>6. /\ IsFiniteSet(F \cup {m}) /\ Cardinality(F \cup {m}) <= Cardinality(F) + 1
        /\ Cardinality(F) \in Nat
    <2> HIDE DEF F, Rest
    <2>1. /\ IsFiniteSet(F \cup {m})
          /\ Cardinality(F \cup {m}) = IF m \in F THEN Cardinality(F) ELSE Cardinality(F) + 1
      BY <1>3, FS_AddElement, Zenon
    <2>2. Cardinality(F) \in Nat
      BY <1>3, FS_CardinalityType
    <2> QED
      BY <2>1, <2>2
  <1>7. Cardinality(Upto) <= Cardinality(F \cup {m}) /\ IsFiniteSet(Upto)
    BY <1>5, <1>6, FS_Subset
  <1>8. Cardinality(Upto) <= n
    BY <1>6, <1>7, FS_CardinalityType
  <1>9. m \in F
    BY <1>4, <1>8 DEF FirstOf
  <1> QED
    BY <1>4, <1>9

LEMMA PageOfSomeIsSome ==
    ASSUME NEW S \in SUBSET Nat, IsFiniteSet(S), NEW n \in Nat \ {0}, FirstOf(S, n) = {}
    PROVE  S = {}
  <1>1. Cardinality(FirstOf(S, n)) < n
    BY FS_EmptySet
  <1> QED
    BY <1>1, ShortPageIsAll
-----------------------------------------------------------------------------
(* The inductive invariant                                                 *)

Behind(w) ==
    /\ \A i \in visited[w] \cup page[w] : i <= afterId[w]
    /\ visited[w] \cap page[w] = {}
    /\ twice[w] = {}

Covered(w) ==
    /\ steady[w] \subseteq matching
    /\ sweep[w] \in {"idle", "fetching", "done"} => page[w] = {}
    /\ sweep[w] = "idle" => afterId[w] = 0
    /\ sweep[w] \in {"fetching", "handing", "done"} =>
          \A i \in steady[w] : i <= afterId[w] => i \in visited[w] \cup page[w]

Last(w) ==
    (sweep[w] = "done" \/ (sweep[w] = "handing" /\ lastPage[w]))
        => \A i \in steady[w] : i <= afterId[w]

IInv == SweepTypeOK /\ \A w \in Sweeps : Behind(w) /\ Covered(w) /\ Last(w)

LEMMA InitHolds == ASSUME SweepInit PROVE IInv
  <1>1. SweepTypeOK
    BY SweepAssumption, FS_EmptySet DEF SweepInit, SweepTypeOK, SweepState
  <1>2. ASSUME NEW w \in Sweeps PROVE Behind(w) /\ Covered(w) /\ Last(w)
    BY DEF SweepInit, Behind, Covered, Last
  <1> QED
    BY <1>1, <1>2 DEF IInv

LEMMA FiniteSets ==
    ASSUME SweepTypeOK
    PROVE  /\ IsFiniteSet(matching) /\ matching \in SUBSET Nat
           /\ \A w \in Sweeps : /\ IsFiniteSet(flying[w]) /\ Cardinality(flying[w]) \in Nat
                               /\ IsFiniteSet(page[w]) /\ page[w] \in SUBSET Nat
                               /\ afterId[w] \in Nat
  <1>1. ASSUME NEW S \in SUBSET Ids
        PROVE  IsFiniteSet(S) /\ Cardinality(S) \in Nat /\ S \in SUBSET Nat
    BY SweepAssumption, FS_Subset, FS_CardinalityType
  <1>2. ASSUME NEW w \in Sweeps PROVE afterId[w] \in Nat
    <2>1. afterId[w] \in Ids \/ afterId[w] = 0
      BY DEF SweepTypeOK
    <2>2. Ids \in SUBSET Nat
      BY SweepAssumption
    <2>3. CASE afterId[w] \in Ids
      BY <2>2, <2>3
    <2>4. CASE afterId[w] = 0
      BY <2>4
    <2> QED
      BY <2>1, <2>3, <2>4
  <1> QED
    BY <1>1, <1>2 DEF SweepTypeOK

\* What the next page holds: batches of the set above the cursor, and all of them
\* up to its last one.
LEMMA NextPageIs ==
    ASSUME SweepTypeOK, NEW w \in Sweeps
    PROVE  /\ NextPage(w) \in SUBSET matching /\ \A i \in NextPage(w) : i > afterId[w]
           /\ NextPage(w) = {} => \A i \in matching : i <= afterId[w]
           /\ NextPage(w) # {} =>
                 /\ Max(NextPage(w)) \in Ids
                 /\ Max(NextPage(w)) > afterId[w]
                 /\ \A i \in NextPage(w) : i <= Max(NextPage(w))
                 /\ \A i \in matching :
                       i > afterId[w] /\ i <= Max(NextPage(w)) => i \in NextPage(w)
                 /\ Cardinality(NextPage(w)) < PageSize =>
                       \A i \in matching : i <= Max(NextPage(w))
  <1> DEFINE Above == {i \in matching : i > afterId[w]}
  <1>1. /\ Above \in SUBSET Nat /\ IsFiniteSet(Above) /\ afterId[w] \in Nat
        /\ matching \in SUBSET Nat /\ matching \in SUBSET Ids
    BY FiniteSets, FS_Subset DEF SweepTypeOK
  <1>2. NextPage(w) = FirstOf(Above, PageSize) /\ PageSize \in Nat \ {0}
    BY SweepAssumption DEF NextPage
  <1>3. NextPage(w) \in SUBSET Above /\ Above \in SUBSET matching
    BY <1>2 DEF FirstOf
  <1>4. \A i \in NextPage(w) : i > afterId[w]
    BY <1>3
  <1>5. ASSUME NextPage(w) = {} PROVE \A i \in matching : i <= afterId[w]
    <2>1. Above = {}
      <3> HIDE DEF Above
      <3> QED
        BY <1>1, <1>2, <1>5, PageOfSomeIsSome
    <2> QED
      BY <2>1, <1>1
  <1>6. ASSUME NextPage(w) # {}
        PROVE  /\ Max(NextPage(w)) \in NextPage(w)
               /\ \A i \in NextPage(w) : i <= Max(NextPage(w))
    <2>1. NextPage(w) \in SUBSET Nat /\ IsFiniteSet(NextPage(w))
      <3> HIDE DEF Above
      <3> QED
        BY <1>1, <1>3, FS_Subset
    <2> QED
      BY <2>1, <1>6, MaxIsGreatest
  <1>7. ASSUME NextPage(w) # {}, NEW i \in matching, i > afterId[w], i <= Max(NextPage(w))
        PROVE  i \in NextPage(w)
    <2>1. i \in Above /\ Max(NextPage(w)) \in FirstOf(Above, PageSize)
      BY <1>2, <1>6, <1>7
    <2> HIDE DEF Above
    <2>2. i \in FirstOf(Above, PageSize)
      BY <1>1, <1>2, <1>7, <2>1, FirstOfIsDownwardClosed
    <2> QED
      BY <1>2, <2>2
  <1>8. ASSUME NextPage(w) # {}, Cardinality(NextPage(w)) < PageSize
        PROVE  \A i \in matching : i <= Max(NextPage(w))
    <2>1. NextPage(w) = Above
      <3> HIDE DEF Above
      <3> QED
        BY <1>1, <1>2, <1>8, ShortPageIsAll
    <2>2. Max(NextPage(w)) \in Nat /\ Max(NextPage(w)) > afterId[w]
      BY <1>1, <1>3, <1>4, <1>6, <1>8
    <2> TAKE i \in matching
    <2>3. CASE i > afterId[w]
      BY <2>1, <2>3, <1>6, <1>8
    <2>4. CASE ~ (i > afterId[w])
      BY <2>2, <2>4, <1>1
    <2> QED
      BY <2>3, <2>4
  <1> QED
    BY <1>1, <1>3, <1>4, <1>5, <1>6, <1>7, <1>8
-----------------------------------------------------------------------------
(* Every step keeps it                                                     *)

\* A step that leaves the cursor, the page and what was handed out alone, and at
\* most takes batches out of the steady ones.
LEMMA SetChangeKeeps ==
    ASSUME IInv, NEW S \in SUBSET Ids, SetBecomes(S),
           UNCHANGED <<sweep, afterId, page, lastPage, visited, twice>>,
           NEW w \in Sweeps
    PROVE  (Behind(w) /\ Covered(w) /\ Last(w))'
  <1>1. steady'[w] = steady[w] \cap S /\ matching' = S
    BY DEF SetBecomes
  <1>2. Behind(w)'
    BY DEF IInv, Behind
  <1>3. Covered(w)'
    BY <1>1 DEF IInv, Covered
  <1>4. Last(w)'
    BY <1>1 DEF IInv, Last
  <1> QED
    BY <1>2, <1>3, <1>4

LEMMA SetChangeType ==
    ASSUME SweepTypeOK, NEW S \in SUBSET Ids, SetBecomes(S)
    PROVE  (matching \subseteq Ids /\ steady \in [Sweeps -> SUBSET Ids])'
  BY DEF SweepTypeOK, SetBecomes

\* What one sweep does leaves the invariant of the others alone.
LEMMA OthersKept ==
    ASSUME IInv, UNCHANGED matching, NEW w \in Sweeps, NEW v \in Sweeps,
           steady'[v] = steady[v], sweep'[v] = sweep[v], afterId'[v] = afterId[v],
           page'[v] = page[v], lastPage'[v] = lastPage[v], visited'[v] = visited[v],
           twice'[v] = twice[v]
    PROVE  (Behind(v) /\ Covered(v) /\ Last(v))'
  BY DEF IInv, Behind, Covered, Last

LEMMA BatchMovesKeeps == ASSUME IInv, NEW i \in Ids, BatchMoves(i) PROVE IInv'
  <1> DEFINE S == IF i \in matching THEN matching \ {i} ELSE matching \cup {i}
  <1>1. S \in SUBSET Ids /\ SetBecomes(S)
    BY DEF BatchMoves, IInv, SweepTypeOK
  <1>2. UNCHANGED <<sweep, afterId, page, lastPage, flying, visited, twice, sweepFailures>>
    BY DEF BatchMoves, SweepWorks
  <1> HIDE DEF S
  <1>3. SweepTypeOK'
    BY <1>1, <1>2, SetChangeType DEF IInv, SweepTypeOK
  <1> QED
    BY <1>1, <1>2, <1>3, SetChangeKeeps DEF IInv

LEMMA BeginSweepKeeps == ASSUME IInv, NEW w \in Sweeps, BeginSweep(w) PROVE IInv'
  <1>1. SweepTypeOK'
    BY DEF BeginSweep, SweepWorks, IInv, SweepTypeOK, SweepState
  <1>2. ASSUME NEW v \in Sweeps, v # w PROVE (Behind(v) /\ Covered(v) /\ Last(v))'
    BY <1>2, OthersKept DEF BeginSweep, IInv, SweepTypeOK
  <1>3. /\ steady'[w] = matching /\ sweep'[w] = "fetching" /\ sweep[w] = "idle"
        /\ UNCHANGED <<matching, afterId, page, lastPage, visited, twice>>
    BY DEF BeginSweep, IInv, SweepTypeOK
  <1>4. afterId[w] = 0 /\ page[w] = {} /\ \A i \in matching : ~ (i <= 0)
    BY <1>3, SweepAssumption DEF IInv, Covered, SweepTypeOK
  <1>5. (Behind(w) /\ Covered(w) /\ Last(w))'
    BY <1>3, <1>4 DEF IInv, Behind, Covered, Last
  <1> QED
    BY <1>1, <1>2, <1>5 DEF IInv

LEMMA FetchPageKeeps == ASSUME IInv, NEW w \in Sweeps, FetchPage(w) PROVE IInv'
  <1> USE DEF IInv
  <1>1. sweep[w] = "fetching" /\ UNCHANGED <<matching, steady, flying, visited, twice>>
    BY DEF FetchPage
  <1>2. ASSUME NEW v \in Sweeps, v # w PROVE (Behind(v) /\ Covered(v) /\ Last(v))'
    BY <1>2, OthersKept DEF FetchPage, SweepTypeOK
  <1>3. CASE /\ sweep' = [sweep EXCEPT ![w] = "stopped"] /\ SweepFails
             /\ UNCHANGED <<afterId, page, lastPage>>
    <2>1. SweepTypeOK'
      BY <1>1, <1>3, SweepAssumption DEF SweepFails, SweepTypeOK, SweepState
    <2>2. (Behind(w) /\ Covered(w) /\ Last(w))'
      BY <1>1, <1>3 DEF Behind, Covered, Last, SweepTypeOK
    <2> QED
      BY <1>2, <2>1, <2>2
  <1>4. CASE /\ NextPage(w) = {} /\ SweepWorks /\ sweep' = [sweep EXCEPT ![w] = "done"]
             /\ UNCHANGED <<afterId, page, lastPage>>
    <2>1. SweepTypeOK'
      BY <1>1, <1>4 DEF SweepWorks, SweepTypeOK, SweepState
    <2>2. \A i \in matching : i <= afterId[w]
      BY <1>4, NextPageIs
    <2>3. (Behind(w) /\ Covered(w) /\ Last(w))'
      BY <1>1, <1>4, <2>2 DEF Behind, Covered, Last, SweepTypeOK
    <2> QED
      BY <1>2, <2>1, <2>3
  <1>5. CASE /\ NextPage(w) # {} /\ SweepWorks /\ sweep' = [sweep EXCEPT ![w] = "handing"]
             /\ page' = [page EXCEPT ![w] = NextPage(w)]
             /\ afterId' = [afterId EXCEPT ![w] = Max(NextPage(w))]
             /\ lastPage' = [lastPage EXCEPT ![w] = Cardinality(NextPage(w)) < PageSize]
    <2> DEFINE next == NextPage(w)
               top == Max(next)
    <2>1. /\ next \in SUBSET matching /\ top \in Ids /\ top > afterId[w]
          /\ \A i \in next : i > afterId[w] /\ i <= top
          /\ \A i \in matching : i > afterId[w] /\ i <= top => i \in next
          /\ Cardinality(next) < PageSize => \A i \in matching : i <= top
      BY <1>5, NextPageIs
    <2>2. /\ matching \in SUBSET Nat /\ afterId[w] \in Nat /\ top \in Nat
          /\ visited[w] \in SUBSET Nat /\ steady[w] \in SUBSET Nat
      BY <2>1, SweepAssumption, FiniteSets DEF SweepTypeOK
    <2> HIDE DEF next, top
    <2>3. /\ page'[w] = next /\ afterId'[w] = top /\ sweep'[w] = "handing"
          /\ lastPage'[w] = (Cardinality(next) < PageSize)
      BY <1>5 DEF SweepTypeOK, next, top
    <2>4. SweepTypeOK'
      <3>1. /\ page' \in [Sweeps -> SUBSET Ids] /\ afterId' \in [Sweeps -> Ids \cup {0}]
            /\ lastPage' \in [Sweeps -> BOOLEAN] /\ sweep' \in [Sweeps -> SweepState]
        BY <1>5, <2>1 DEF SweepTypeOK, SweepState, next, top
      <3> QED
        BY <1>1, <1>5, <3>1 DEF SweepTypeOK, SweepWorks
    <2>5. Behind(w)'
      <3>1. \A i \in visited[w] \cup next : i <= top
        <4>1. \A i \in visited[w] : i \in Nat /\ i <= afterId[w]
          BY <2>2 DEF Behind
        <4>2. ASSUME NEW i \in visited[w] PROVE i <= top
          <5>1. i \in Nat /\ i <= afterId[w] /\ afterId[w] \in Nat /\ top \in Nat /\ top > afterId[w]
            BY <2>1, <2>2, <4>1
          <5> QED
            BY <5>1
        <4>3. \A i \in next : i <= top
          BY <2>1
        <4> QED
          BY <4>2, <4>3
      <3>2. visited[w] \cap next = {}
        <4>1. ASSUME NEW i \in visited[w], i \in next PROVE FALSE
          <5>1. i \in Nat /\ i <= afterId[w] /\ i > afterId[w] /\ afterId[w] \in Nat
            BY <2>1, <2>2, <4>1 DEF Behind
          <5> QED
            BY <5>1
        <4> QED
          BY <4>1
      <3> QED
        BY <1>1, <2>3, <3>1, <3>2 DEF Behind
    <2>6. Covered(w)'
      <3>1. ASSUME NEW i \in steady[w], i <= top PROVE i \in visited[w] \cup next
        <4>1. CASE i <= afterId[w]
          BY <1>1, <4>1 DEF Covered
        <4>2. CASE ~ (i <= afterId[w])
          <5>1. i \in matching /\ i > afterId[w]
            BY <2>2, <4>2 DEF Covered
          <5> QED
            BY <2>1, <3>1, <5>1
        <4> QED
          BY <4>1, <4>2
      <3> QED
        BY <1>1, <2>3, <3>1 DEF Covered
    <2>7. Last(w)'
      BY <1>1, <2>1, <2>3 DEF Last, Covered
    <2> QED
      BY <1>2, <2>4, <2>5, <2>6, <2>7
  <1> QED
    BY <1>3, <1>4, <1>5 DEF FetchPage

LEMMA HandOutKeeps == ASSUME IInv, NEW w \in Sweeps, HandOut(w) PROVE IInv'
  <1> USE DEF IInv
  <1> DEFINE i == Min(page[w])
  <1>1. i \in page[w] /\ i \in Ids
    BY FiniteSets, MinIsLeast DEF HandOut, SweepTypeOK
  <1> HIDE DEF i
  <1>2. /\ page' = [page EXCEPT ![w] = @ \ {i}]
        /\ flying' = [flying EXCEPT ![w] = @ \cup {i}]
        /\ visited' = [visited EXCEPT ![w] = @ \cup {i}]
        /\ twice' = [twice EXCEPT ![w] = @ \cup ({i} \cap visited[w])]
        /\ UNCHANGED <<matching, steady, sweep, afterId, lastPage, sweepFailures>>
        /\ sweep[w] = "handing" /\ Cardinality(flying[w]) < Concurrency
    BY DEF HandOut, HasToken, SweepWorks, i
  <1>3. ASSUME NEW v \in Sweeps, v # w PROVE (Behind(v) /\ Covered(v) /\ Last(v))'
    BY <1>2, <1>3, OthersKept DEF SweepTypeOK
  <1>4. SweepTypeOK'
    <2>1. Cardinality(flying[w] \cup {i}) <= Concurrency
      <3>1. IsFiniteSet(flying[w]) /\ Cardinality(flying[w]) \in Nat
        BY FiniteSets
      <3>2. \/ Cardinality(flying[w] \cup {i}) = Cardinality(flying[w])
            \/ Cardinality(flying[w] \cup {i}) = Cardinality(flying[w]) + 1
        BY <3>1, FS_AddElement
      <3> QED
        BY <1>2, <3>1, <3>2, SweepAssumption
    <2>2. \A v \in Sweeps : Cardinality(flying'[v]) <= Concurrency
      BY <1>2, <2>1 DEF SweepTypeOK
    <2>3. /\ page' \in [Sweeps -> SUBSET Ids] /\ flying' \in [Sweeps -> SUBSET Ids]
          /\ visited' \in [Sweeps -> SUBSET Ids] /\ twice' \in [Sweeps -> SUBSET Ids]
      BY <1>1, <1>2 DEF SweepTypeOK
    <2>4. \A v \in Sweeps : flying'[v] # {} => sweep'[v] \in {"handing", "stopping"}
      BY <1>2 DEF SweepTypeOK
    <2> QED
      BY <1>2, <2>2, <2>3, <2>4 DEF SweepTypeOK
  <1>5. /\ page'[w] = page[w] \ {i} /\ visited'[w] = visited[w] \cup {i}
        /\ twice'[w] = twice[w] \cup ({i} \cap visited[w])
    BY <1>2 DEF SweepTypeOK
  <1>6. (Behind(w) /\ Covered(w) /\ Last(w))'
    BY <1>1, <1>2, <1>5 DEF Behind, Covered, Last
  <1> QED
    BY <1>3, <1>4, <1>6

LEMMA HandledKeeps ==
    ASSUME IInv, NEW w \in Sweeps, NEW i \in flying[w], Handled(w, i) PROVE IInv'
  <1> USE DEF IInv
  <1>1. PICK S \in SUBSET Ids : SetBecomes(S)
    <2>1. matching \ {i} \in SUBSET Ids /\ matching \cup {i} \in SUBSET Ids
      BY DEF SweepTypeOK
    <2> QED
      BY <2>1 DEF Handled
  <1>2. /\ flying' = [flying EXCEPT ![w] = @ \ {i}]
        /\ UNCHANGED <<sweep, afterId, page, lastPage, visited, twice>>
    BY DEF Handled
  <1>3. sweepFailures' \in 0..MaxSweepFailures
    BY SweepAssumption DEF Handled, SweepWorks, SweepFails, SweepTypeOK
  <1>4. Cardinality(flying[w] \ {i}) <= Concurrency
    <2>1. IsFiniteSet(flying[w]) /\ Cardinality(flying[w]) \in Nat
      BY FiniteSets
    <2>2. Cardinality(flying[w] \ {i}) = Cardinality(flying[w]) - 1
      BY <2>1, FS_RemoveElement
    <2>3. Cardinality(flying[w]) <= Concurrency
      BY DEF SweepTypeOK
    <2> QED
      BY <2>1, <2>2, <2>3, SweepAssumption
  <1>5. SweepTypeOK'
    BY <1>1, <1>2, <1>3, <1>4, SetChangeType DEF SweepTypeOK
  <1> QED
    BY <1>1, <1>2, <1>5, SetChangeKeeps

LEMMA EndPageKeeps == ASSUME IInv, NEW w \in Sweeps, EndPage(w) PROVE IInv'
  <1> USE DEF IInv
  <1>1. /\ sweep[w] = "handing" /\ page[w] = {} /\ flying[w] = {}
        /\ UNCHANGED <<matching, steady, afterId, page, lastPage, flying, visited, twice,
                       sweepFailures>>
        /\ sweep' = [sweep EXCEPT ![w] = IF lastPage[w] THEN "done" ELSE "fetching"]
    BY DEF EndPage, SweepWorks
  <1>2. SweepTypeOK'
    BY <1>1 DEF SweepTypeOK, SweepState
  <1>3. ASSUME NEW v \in Sweeps, v # w PROVE (Behind(v) /\ Covered(v) /\ Last(v))'
    BY <1>1, <1>3, OthersKept DEF SweepTypeOK
  <1>4. (Behind(w) /\ Covered(w) /\ Last(w))'
    BY <1>1 DEF Behind, Covered, Last, SweepTypeOK
  <1> QED
    BY <1>2, <1>3, <1>4

LEMMA RuntimeEndsKeeps == ASSUME IInv, NEW w \in Sweeps, RuntimeEnds(w) PROVE IInv'
  <1> USE DEF IInv
  <1>1. /\ sweep' = [sweep EXCEPT ![w] = "stopping"] /\ page' = [page EXCEPT ![w] = {}]
        /\ UNCHANGED <<matching, steady, afterId, lastPage, flying, visited, twice>>
        /\ sweepFailures' \in 0..MaxSweepFailures
    BY SweepAssumption DEF RuntimeEnds, SweepFails, SweepTypeOK
  <1>2. SweepTypeOK'
    BY <1>1 DEF SweepTypeOK, SweepState
  <1>3. ASSUME NEW v \in Sweeps, v # w PROVE (Behind(v) /\ Covered(v) /\ Last(v))'
    BY <1>1, <1>3, OthersKept DEF SweepTypeOK
  <1>4. (Behind(w) /\ Covered(w) /\ Last(w))'
    BY <1>1 DEF Behind, Covered, Last, SweepTypeOK
  <1> QED
    BY <1>2, <1>3, <1>4

LEMMA StopSweepKeeps == ASSUME IInv, NEW w \in Sweeps, StopSweep(w) PROVE IInv'
  <1> USE DEF IInv
  <1>1. /\ sweep[w] = "stopping" /\ flying[w] = {}
        /\ sweep' = [sweep EXCEPT ![w] = "stopped"]
        /\ UNCHANGED <<matching, steady, afterId, page, lastPage, flying, visited, twice,
                       sweepFailures>>
    BY DEF StopSweep, SweepWorks
  <1>2. SweepTypeOK'
    BY <1>1 DEF SweepTypeOK, SweepState
  <1>3. ASSUME NEW v \in Sweeps, v # w PROVE (Behind(v) /\ Covered(v) /\ Last(v))'
    BY <1>1, <1>3, OthersKept DEF SweepTypeOK
  <1>4. (Behind(w) /\ Covered(w) /\ Last(w))'
    BY <1>1 DEF Behind, Covered, Last, SweepTypeOK
  <1> QED
    BY <1>2, <1>3, <1>4

LEMMA StepKeeps == ASSUME IInv, [SweepNext]_sweepVars PROVE IInv'
  <1>1. CASE UNCHANGED sweepVars
    BY <1>1 DEF sweepVars, IInv, SweepTypeOK, Behind, Covered, Last
  <1>2. CASE SweepNext
    BY <1>2, BatchMovesKeeps, BeginSweepKeeps, FetchPageKeeps, HandOutKeeps, HandledKeeps,
       EndPageKeeps, RuntimeEndsKeeps, StopSweepKeeps
    DEF SweepNext, SweepStep
  <1> QED
    BY <1>1, <1>2

LEMMA Inductive == SweepSpec => []IInv
  <1>1. SweepInit => IInv
    BY InitHolds
  <1>2. IInv /\ [SweepNext]_sweepVars => IInv'
    BY StepKeeps
  <1> QED
    BY <1>1, <1>2, PTL DEF SweepSpec

-----------------------------------------------------------------------------
\* Every variable keeps its type, and no more goroutines run than the semaphore
\* has tokens, for any number of sweeps at once.
THEOREM SweepTypeCorrect == SweepSpec => []SweepTypeOK
  <1>1. IInv => SweepTypeOK
    BY DEF IInv
  <1> QED
    BY <1>1, Inductive, PTL

\* A sweep never hands out a batch twice, though a batch whose delivery failed is
\* still in the set, or back in it, when later pages are read.
THEOREM SweepsVisitOnce == SweepSpec => []SweepVisitsOnce
  <1>1. IInv => SweepVisitsOnce
    BY DEF IInv, Behind, SweepVisitsOnce
  <1> QED
    BY <1>1, Inductive, PTL

\* A sweep that reaches its end has handed out every batch that was in the set
\* from its beginning on, whatever left and entered it meanwhile.
THEOREM SweepsMissNone == SweepSpec => []SweepMissesNone
  <1>1. ASSUME IInv, NEW w \in Sweeps, sweep[w] = "done", NEW i \in steady[w]
        PROVE  i \in visited[w]
    BY <1>1 DEF IInv, Covered, Last
  <1>2. IInv => SweepMissesNone
    BY <1>1 DEF SweepMissesNone
  <1> QED
    BY <1>2, Inductive, PTL
=============================================================================
