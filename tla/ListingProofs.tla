--------------------------- MODULE ListingProofs ----------------------------
(***************************************************************************)
(* A client that pages through a listing misses no row, and sees one twice *)
(* only when another has arrived: proved for any number of rows, arrivals  *)
(* and pages.                                                              *)
(*                                                                         *)
(* A row that is alone with its created_at stands in every page's order    *)
(* right behind the rows that are younger, whatever the order of the       *)
(* others. Arrivals move it back, never forward: so a row not yet seen is  *)
(* never in front of the offset, and each arrival can push one seen row    *)
(* behind the offset again.                                                *)
(***************************************************************************)
EXTENDS Listings, FiniteSetTheorems, TLAPS

(***************************************************************************)
(* The place of a row.  Here M is the set of rows a query matches and c    *)
(* their created_at.                                                       *)
(***************************************************************************)
Younger(M, c, r) == {x \in M : c[x] > c[r]}
Ahead(M, c, r) == Cardinality(Younger(M, c, r))
Alone(M, c, r) == ~\E other \in M \ {r} : c[other] = c[r]

Dated(M, c) == IsFiniteSet(M) /\ \A x \in M : c[x] \in Nat
Sorted(order, c) == \A i, j \in DOMAIN order : i < j => c[order[i]] >= c[order[j]]

\* How many rows are ahead of a row is a number, and less than there are rows.
LEMMA AheadType ==
    ASSUME NEW M, NEW c, Dated(M, c), NEW r \in M
    PROVE  /\ IsFiniteSet(Younger(M, c, r)) /\ Ahead(M, c, r) \in Nat
           /\ Cardinality(M) \in Nat /\ Ahead(M, c, r) < Cardinality(M)
<1>1. Younger(M, c, r) \in SUBSET M /\ r \in M \ Younger(M, c, r)
  BY DEF Younger, Dated
<1>2. IsFiniteSet(Younger(M, c, r)) /\ Ahead(M, c, r) <= Cardinality(M)
  BY <1>1, FS_Subset DEF Ahead, Dated
<1>3. Ahead(M, c, r) # Cardinality(M)
  <2>1. Younger(M, c, r) # M
    BY <1>1
  <2> QED BY <1>1, <2>1, FS_Subset DEF Ahead, Dated
<1>4. Ahead(M, c, r) \in Nat /\ Cardinality(M) \in Nat
  BY <1>2, FS_CardinalityType DEF Ahead, Dated
<1> QED BY <1>2, <1>3, <1>4

\* An order of M has every row of M once.
LEMMA OrderIsBijection ==
    ASSUME NEW M, IsFiniteSet(M), NEW order \in SetToSeqs(M)
    PROVE  /\ Cardinality(M) \in Nat
           /\ order \in [1 .. Cardinality(M) -> M]
           /\ \A i, j \in 1 .. Cardinality(M) : order[i] = order[j] => i = j
           /\ \A r \in M : \E i \in 1 .. Cardinality(M) : order[i] = r
<1> DEFINE D == 1 .. Cardinality(M)
<1>1. Cardinality(M) \in Nat
  BY FS_CardinalityType
<1>2. order \in [D -> M] /\ \A i, j \in D : i # j => order[i] # order[j]
  BY DEF SetToSeqs
<1>3. order \in Injection(D, M)
  BY <1>2 DEF Injection, IsInjective
<1>4. Cardinality(D) = Cardinality(M)
  BY <1>1, FS_Interval
<1>5. order \in Surjection(D, M)
  BY <1>3, <1>4, FS_Injection
<1> QED BY <1>1, <1>2, <1>5 DEF Surjection

\* A row that is alone with its created_at has its place in every order.
LEMMA PlaceOfAlone ==
    ASSUME NEW M, NEW c, Dated(M, c), NEW order \in SetToSeqs(M), Sorted(order, c),
           NEW i \in 1 .. Cardinality(M), Alone(M, c, order[i])
    PROVE  Ahead(M, c, order[i]) = i - 1
<1> DEFINE n == Cardinality(M)
           r == order[i]
           before == [j \in 1 .. i - 1 |-> order[j]]
<1>1. /\ n \in Nat /\ order \in [1 .. n -> M]
      /\ \A k, j \in 1 .. n : order[k] = order[j] => k = j
      /\ \A x \in M : \E j \in 1 .. n : order[j] = x
  BY OrderIsBijection DEF Dated
<1>2. r \in M /\ DOMAIN order = 1 .. n /\ i - 1 \in Nat /\ 1 .. i - 1 \subseteq 1 .. n
  BY <1>1
<1>3. ASSUME NEW j \in 1 .. i - 1
      PROVE  order[j] \in Younger(M, c, r)
  <2>1. j \in 1 .. n /\ j < i /\ order[j] \in M /\ order[j] # r
    BY <1>1, <1>2
  <2>2. c[order[j]] >= c[r] /\ c[order[j]] # c[r]
    BY <1>2, <2>1 DEF Sorted, Alone
  <2>3. c[order[j]] \in Nat /\ c[r] \in Nat
    BY <1>2, <2>1 DEF Dated
  <2> QED BY <2>1, <2>2, <2>3 DEF Younger
<1>4. ASSUME NEW x \in Younger(M, c, r)
      PROVE  \E j \in 1 .. i - 1 : before[j] = x
  <2>1. x \in M /\ c[x] > c[r] /\ c[x] \in Nat /\ c[r] \in Nat
    BY <1>2 DEF Younger, Dated
  <2>2. PICK j \in 1 .. n : order[j] = x
    BY <1>1, <2>1
  <2>3. ~(i <= j)
    <3>1. CASE i = j
      BY <2>1, <2>2, <3>1
    <3>2. CASE i < j
      <4>1. c[r] >= c[x]
        BY <1>2, <2>2, <3>2 DEF Sorted
      <4> QED BY <2>1, <4>1
    <3> QED BY <1>1, <2>2, <3>1, <3>2
  <2>4. j \in 1 .. i - 1
    BY <1>1, <2>2, <2>3
  <2> QED BY <2>2, <2>4
<1>5. before \in Bijection(1 .. i - 1, Younger(M, c, r))
  <2>1. before \in [1 .. i - 1 -> Younger(M, c, r)]
    BY <1>3
  <2>2. \A k, j \in 1 .. i - 1 : before[k] = before[j] => k = j
    BY <1>1, <1>2
  <2> QED BY <1>4, <2>1, <2>2 DEF Bijection, Injection, Surjection, IsInjective
<1>6. ExistsBijection(1 .. i - 1, Younger(M, c, r))
  BY <1>5 DEF ExistsBijection
<1> QED BY <1>2, <1>6, FS_CountingElements DEF Ahead

\* So it is on the page that starts after no more rows than are ahead of it.
LEMMA OnPage ==
    ASSUME NEW M, NEW c, Dated(M, c), NEW order \in SetToSeqs(M), Sorted(order, c),
           NEW limit \in Nat, NEW offset \in Nat, NEW r \in M, Alone(M, c, r)
    PROVE  r \in PageOf(order, limit, offset) <=>
             offset <= Ahead(M, c, r) /\ Ahead(M, c, r) < offset + limit
<1>1. /\ Cardinality(M) \in Nat /\ order \in [1 .. Cardinality(M) -> M]
      /\ \A k, j \in 1 .. Cardinality(M) : order[k] = order[j] => k = j
      /\ \A x \in M : \E j \in 1 .. Cardinality(M) : order[j] = x
  BY OrderIsBijection DEF Dated
<1>2. PICK i \in 1 .. Cardinality(M) : order[i] = r
  BY <1>1
<1>3. Ahead(M, c, r) = i - 1
  BY <1>2, PlaceOfAlone
<1>4. r \in PageOf(order, limit, offset) <=> offset < i /\ i <= offset + limit
  <2>1. DOMAIN order = 1 .. Cardinality(M)
    BY <1>1
  <2>2. r \in PageOf(order, limit, offset) <=>
          \E j \in 1 .. Cardinality(M) : offset < j /\ j <= offset + limit /\ order[j] = r
    BY <2>1 DEF PageOf
  <2> QED BY <1>1, <1>2, <2>2
<1> QED BY <1>1, <1>2, <1>3, <1>4

\* A page is of the rows matched, and it is full while there are enough.
LEMMA FullPage ==
    ASSUME NEW M, IsFiniteSet(M), NEW order \in SetToSeqs(M),
           NEW limit \in Nat, NEW offset \in Nat
    PROVE  /\ PageOf(order, limit, offset) \subseteq M
           /\ offset + limit <= Cardinality(M) =>
                Cardinality(PageOf(order, limit, offset)) = limit
<1> DEFINE n == Cardinality(M)
           f == [k \in 1 .. limit |-> order[offset + k]]
<1>1. /\ n \in Nat /\ order \in [1 .. n -> M] /\ DOMAIN order = 1 .. n
      /\ \A k, j \in 1 .. n : order[k] = order[j] => k = j
  BY OrderIsBijection
<1>2. PageOf(order, limit, offset) \subseteq M
  BY <1>1 DEF PageOf
<1>3. ASSUME offset + limit <= n
      PROVE  Cardinality(PageOf(order, limit, offset)) = limit
  <2>1. ASSUME NEW k \in 1 .. limit
        PROVE  /\ offset + k \in 1 .. n /\ offset < offset + k
               /\ offset + k <= offset + limit
    BY <1>1, <1>3
  <2>2. f \in [1 .. limit -> PageOf(order, limit, offset)]
    BY <1>1, <2>1 DEF PageOf
  <2>3. \A k, j \in 1 .. limit : f[k] = f[j] => k = j
    BY <1>1, <2>1
  <2>4. ASSUME NEW x \in PageOf(order, limit, offset)
        PROVE  \E k \in 1 .. limit : f[k] = x
    <3>1. PICK i \in 1 .. n : offset < i /\ i <= offset + limit /\ order[i] = x
      BY <1>1 DEF PageOf
    <3>2. i - offset \in 1 .. limit /\ offset + (i - offset) = i
      BY <3>1
    <3> QED BY <3>1, <3>2
  <2>5. ExistsBijection(1 .. limit, PageOf(order, limit, offset))
    BY <2>2, <2>3, <2>4
       DEF ExistsBijection, Bijection, Injection, Surjection, IsInjective
  <2> QED BY <2>5, FS_CountingElements
<1> QED BY <1>2, <1>3

\* No two rows that are alone with their created_at have the same place.
LEMMA OneAtAPlace ==
    ASSUME NEW M, NEW c, Dated(M, c), NEW r \in M, NEW q \in M,
           Alone(M, c, r), Alone(M, c, q), Ahead(M, c, r) = Ahead(M, c, q)
    PROVE  r = q
<1>1. ASSUME NEW x \in M, NEW y \in M, c[x] > c[y]
      PROVE  Ahead(M, c, x) < Ahead(M, c, y)
  <2>1. c[x] \in Nat /\ c[y] \in Nat /\ \A z \in M : c[z] \in Nat
    BY DEF Dated
  <2>2. Younger(M, c, x) \in SUBSET Younger(M, c, y)
    BY <1>1, <2>1 DEF Younger
  <2>3. Younger(M, c, x) # Younger(M, c, y)
    <3>1. x \in Younger(M, c, y) /\ x \notin Younger(M, c, x)
      BY <1>1, <2>1 DEF Younger
    <3> QED BY <3>1
  <2>4. IsFiniteSet(Younger(M, c, y)) /\ Ahead(M, c, x) \in Nat /\ Ahead(M, c, y) \in Nat
    BY AheadType
  <2>5. Ahead(M, c, x) <= Ahead(M, c, y) /\ Ahead(M, c, x) # Ahead(M, c, y)
    BY <2>2, <2>3, <2>4, FS_Subset DEF Ahead
  <2> QED BY <2>4, <2>5
<1>2. CASE r # q
  <2>1. c[r] # c[q] /\ c[r] \in Nat /\ c[q] \in Nat
    BY <1>2 DEF Alone, Dated
  <2>2. Ahead(M, c, r) \in Nat /\ Ahead(M, c, q) \in Nat
    BY AheadType
  <2>3. c[r] > c[q] \/ c[q] > c[r]
    BY <2>1
  <2> QED BY <1>1, <2>2, <2>3
<1> QED BY <1>2

(***************************************************************************)
(* What an arrival does.  M2 is M with perhaps one row more, y.            *)
(***************************************************************************)
Grows(M, c, M2, c2, y) ==
    /\ Dated(M, c) /\ Dated(M2, c2)
    /\ M \subseteq M2 /\ M2 \subseteq M \cup {y}
    /\ \A x \in M : c2[x] = c[x]

\* An arrival moves a row one place back at most, and never forward.
LEMMA GrowthMovesBack ==
    ASSUME NEW M, NEW c, NEW M2, NEW c2, NEW y, Grows(M, c, M2, c2, y), NEW r \in M
    PROVE  /\ Alone(M2, c2, r) => Alone(M, c, r)
           /\ Ahead(M, c, r) <= Ahead(M2, c2, r)
           /\ Ahead(M2, c2, r) <= Ahead(M, c, r) + 1
<1>1. Alone(M2, c2, r) => Alone(M, c, r)
  BY DEF Grows, Alone
<1>2. Younger(M, c, r) \subseteq Younger(M2, c2, r)
  BY DEF Grows, Younger
<1>3. Younger(M2, c2, r) \subseteq Younger(M, c, r) \cup {y}
  BY DEF Grows, Younger
<1>4. /\ IsFiniteSet(Younger(M, c, r)) /\ IsFiniteSet(Younger(M2, c2, r))
      /\ Ahead(M, c, r) \in Nat /\ Ahead(M2, c2, r) \in Nat
  BY AheadType DEF Grows
<1>5. Ahead(M, c, r) <= Ahead(M2, c2, r)
  BY <1>2, <1>4, FS_Subset DEF Ahead
<1> DEFINE Y == Younger(M, c, r)
<1>6. /\ IsFiniteSet(Y \cup {y}) /\ Cardinality(Y \cup {y}) \in Nat
      /\ Cardinality(Y \cup {y}) <= Cardinality(Y) + 1
  <2>1. IsFiniteSet(Y) /\ Cardinality(Y) \in Nat
    BY <1>4 DEF Ahead
  <2> HIDE DEF Y
  <2>2. /\ IsFiniteSet(Y \cup {y})
        /\ Cardinality(Y \cup {y}) = Cardinality(Y) \/ Cardinality(Y \cup {y}) = Cardinality(Y) + 1
    BY <2>1, FS_AddElement
  <2> QED BY <2>1, <2>2
<1>7. Ahead(M2, c2, r) <= Cardinality(Y \cup {y})
  BY <1>3, <1>6, FS_Subset DEF Ahead
<1>8. Cardinality(Y) = Ahead(M, c, r)
  BY DEF Ahead
<1> HIDE DEF Y
<1> QED BY <1>1, <1>4, <1>5, <1>6, <1>7, <1>8

\* The rows seen that will come again, and the repetitions that were no
\* fault of the order.
Behind(M, c, seen, offset) == {r \in seen : Alone(M, c, r) /\ Ahead(M, c, r) >= offset}
AloneRepeats(M, c, repeats) == {rep \in repeats : Alone(M, c, rep[1])}

Debt(M, c, seen, repeats, offset) ==
    Cardinality(AloneRepeats(M, c, repeats)) + Cardinality(Behind(M, c, seen, offset))

Read(M, c, seen, repeats, offset) ==
    /\ Dated(M, c) /\ seen \subseteq M /\ IsFiniteSet(repeats)
    /\ \A rep \in repeats : rep[1] \in seen
    /\ offset \in Nat

\* Both are finite.
LEMMA DebtType ==
    ASSUME NEW M, NEW c, NEW seen, NEW repeats, NEW offset,
           Read(M, c, seen, repeats, offset)
    PROVE  /\ IsFiniteSet(AloneRepeats(M, c, repeats))
           /\ IsFiniteSet(Behind(M, c, seen, offset))
           /\ Cardinality(AloneRepeats(M, c, repeats)) \in Nat
           /\ Cardinality(Behind(M, c, seen, offset)) \in Nat
           /\ Debt(M, c, seen, repeats, offset) \in Nat
<1>1. AloneRepeats(M, c, repeats) \in SUBSET repeats /\ Behind(M, c, seen, offset) \in SUBSET M
  BY DEF AloneRepeats, Behind, Read
<1>2. IsFiniteSet(AloneRepeats(M, c, repeats)) /\ IsFiniteSet(Behind(M, c, seen, offset))
  BY <1>1, FS_Subset DEF Read, Dated
<1> QED BY <1>2, FS_CardinalityType DEF Debt

\* An arrival adds one to the debt at most: it pushes one seen row behind the offset.
LEMMA ArrivalAddsOne ==
    ASSUME NEW M, NEW c, NEW M2, NEW c2, NEW y, Grows(M, c, M2, c2, y),
           NEW seen, NEW repeats, NEW offset, Read(M, c, seen, repeats, offset)
    PROVE  /\ Read(M2, c2, seen, repeats, offset)
           /\ Debt(M2, c2, seen, repeats, offset) <= Debt(M, c, seen, repeats, offset) + 1
           /\ Cardinality(AloneRepeats(M2, c2, repeats)) <= Cardinality(AloneRepeats(M, c, repeats))
<1>1. Read(M2, c2, seen, repeats, offset)
  BY DEF Read, Grows
<1>2. ASSUME NEW r \in seen
      PROVE  /\ Alone(M2, c2, r) => Alone(M, c, r)
             /\ Ahead(M2, c2, r) <= Ahead(M, c, r) + 1
             /\ Ahead(M, c, r) \in Nat /\ Ahead(M2, c2, r) \in Nat
  <2>1. r \in M /\ r \in M2 /\ Dated(M, c) /\ Dated(M2, c2)
    BY DEF Read, Grows
  <2> QED BY <2>1, GrowthMovesBack, AheadType
<1>3. AloneRepeats(M2, c2, repeats) \in SUBSET AloneRepeats(M, c, repeats)
  BY <1>2 DEF AloneRepeats, Read
<1>4. Cardinality(AloneRepeats(M2, c2, repeats)) <= Cardinality(AloneRepeats(M, c, repeats))
  BY <1>3, DebtType, FS_Subset
<1> DEFINE B == Behind(M, c, seen, offset)
           B2 == Behind(M2, c2, seen, offset)
<1>5. \E q : B2 \subseteq B \cup {q}
  <2>1. ASSUME NEW r \in B2 \ B
        PROVE  r \in M /\ Alone(M, c, r) /\ Ahead(M, c, r) = offset - 1
    <3>1. r \in seen /\ Alone(M2, c2, r) /\ Ahead(M2, c2, r) >= offset
      BY DEF Behind
    <3>2. ~(Ahead(M, c, r) >= offset)
      BY <1>2, <3>1 DEF Behind
    <3> QED BY <1>2, <3>1, <3>2 DEF Read
  <2>2. \A r, q \in B2 \ B : r = q
    <3> SUFFICES ASSUME NEW r \in B2 \ B, NEW q \in B2 \ B PROVE r = q
      OBVIOUS
    <3> HIDE DEF B, B2
    <3>1. Dated(M, c)
      BY DEF Read
    <3> QED BY <2>1, <3>1, OneAtAPlace
  <2>3. CASE B2 \ B = {}
    BY <2>3
  <2>4. CASE B2 \ B # {}
    <3>1. PICK q \in B2 \ B : TRUE
      BY <2>4
    <3> HIDE DEF B, B2
    <3>2. B2 \subseteq B \cup {q}
      BY <2>2, <3>1
    <3> QED BY <3>2
  <2> QED BY <2>3, <2>4
<1>6. Cardinality(B2) <= Cardinality(B) + 1
  <2>1. PICK q : B2 \subseteq B \cup {q}
    BY <1>5
  <2>2. IsFiniteSet(B) /\ Cardinality(B) \in Nat
    BY DebtType
  <2> HIDE DEF B, B2
  <2>3. IsFiniteSet(B \cup {q}) /\ Cardinality(B \cup {q}) <= Cardinality(B) + 1
    BY <2>2, FS_AddElement
  <2>4. Cardinality(B2) <= Cardinality(B \cup {q})
    BY <2>1, <2>3, FS_Subset
  <2>5. Cardinality(B \cup {q}) \in Nat /\ IsFiniteSet(B2)
    BY <2>1, <2>3, FS_CardinalityType, FS_Subset
  <2>6. Cardinality(B2) \in Nat
    BY <2>5, FS_CardinalityType
  <2> QED BY <2>2, <2>3, <2>4, <2>5, <2>6
<1>7. /\ Cardinality(AloneRepeats(M, c, repeats)) \in Nat /\ Cardinality(B) \in Nat
      /\ Cardinality(AloneRepeats(M2, c2, repeats)) \in Nat /\ Cardinality(B2) \in Nat
  BY <1>1, DebtType
<1> QED BY <1>1, <1>4, <1>6, <1>7 DEF Debt

\* A page shows what it may show again: the rows it repeats were behind the
\* offset and are no longer.
LEMMA PagePaysOff ==
    ASSUME NEW M, NEW c, NEW order \in SetToSeqs(M), Sorted(order, c),
           NEW seen, NEW repeats, NEW offset, Read(M, c, seen, repeats, offset),
           NEW limit \in Nat
    PROVE  LET page == PageOf(order, limit, offset)
               more == repeats \cup {<< r, offset >> : r \in page \cap seen}
           IN  /\ Read(M, c, seen \cup page, more, offset + limit)
               /\ Debt(M, c, seen \cup page, more, offset + limit)
                    <= Debt(M, c, seen, repeats, offset)
<1> DEFINE page == PageOf(order, limit, offset)
           entries(X) == {<< r, offset >> : r \in X}
           more == repeats \cup entries(page \cap seen)
           Q == {r \in page \cap seen : Alone(M, c, r)}
           A == AloneRepeats(M, c, repeats)
           A2 == AloneRepeats(M, c, more)
           B == Behind(M, c, seen, offset)
           B2 == Behind(M, c, seen \cup page, offset + limit)
<1>1. Dated(M, c) /\ IsFiniteSet(M) /\ offset \in Nat /\ seen \subseteq M /\ page \subseteq M
  BY FullPage DEF Read, Dated
<1>2. ASSUME NEW X \in SUBSET M
      PROVE  IsFiniteSet(X) /\ IsFiniteSet(entries(X)) /\ Cardinality(entries(X)) <= Cardinality(X)
  <2> DEFINE f == [r \in X |-> << r, offset >>]
  <2>1. IsFiniteSet(X)
    BY <1>1, FS_Subset
  <2>2. f \in Surjection(X, entries(X))
    <3>1. f \in [X -> entries(X)]
      OBVIOUS
    <3>2. \A e \in entries(X) : \E r \in X : f[r] = e
      OBVIOUS
    <3> QED BY <3>1, <3>2 DEF Surjection
  <2> HIDE DEF f, entries
  <2> QED BY <2>1, <2>2, FS_Surjection
<1>3. IsFiniteSet(more)
  <2>1. IsFiniteSet(repeats) /\ IsFiniteSet(entries(page \cap seen))
    BY <1>1, <1>2 DEF Read
  <2> HIDE DEF entries
  <2> QED BY <2>1, FS_Union
<1>4. Read(M, c, seen \cup page, more, offset + limit)
  <2>1. \A rep \in more : rep[1] \in seen \cup page
    BY DEF Read
  <2> HIDE DEF page, more
  <2> QED BY <1>1, <1>3, <2>1 DEF Read
<1>5. ASSUME NEW r \in M, Alone(M, c, r)
      PROVE  /\ Ahead(M, c, r) \in Nat
             /\ r \in page => offset <= Ahead(M, c, r) /\ Ahead(M, c, r) < offset + limit
             /\ offset <= Ahead(M, c, r) /\ Ahead(M, c, r) < offset + limit => r \in page
  BY <1>1, <1>5, OnPage, AheadType
<1>6. Q \subseteq B
  <2> HIDE DEF page
  <2> QED BY <1>1, <1>5 DEF Behind
<1>7. B2 \subseteq B \ Q
  <2> SUFFICES ASSUME NEW r \in B2 PROVE r \in B \ Q
    OBVIOUS
  <2>1. r \in seen \cup page /\ Alone(M, c, r) /\ Ahead(M, c, r) >= offset + limit
    BY DEF Behind
  <2> HIDE DEF page
  <2>2. r \in M /\ r \notin page /\ Ahead(M, c, r) >= offset
    BY <1>1, <1>5, <2>1
  <2> QED BY <2>1, <2>2 DEF Behind
<1>8. A2 \subseteq A \cup entries(Q)
  BY DEF AloneRepeats
<1>9. /\ IsFiniteSet(A) /\ IsFiniteSet(B) /\ Cardinality(A) \in Nat /\ Cardinality(B) \in Nat
      /\ Cardinality(A2) \in Nat /\ Cardinality(B2) \in Nat
  BY <1>4, DebtType
<1>10. /\ IsFiniteSet(Q) /\ IsFiniteSet(entries(Q)) /\ Cardinality(entries(Q)) <= Cardinality(Q)
  BY <1>1, <1>2
<1>11. Cardinality(Q) \in Nat /\ Cardinality(entries(Q)) \in Nat
  BY <1>10, FS_CardinalityType
<1> DEFINE P == entries(Q)
<1>12. Cardinality(A2) <= Cardinality(A) + Cardinality(P)
  <2> HIDE DEF A, A2, Q, P, entries
  <2>1. /\ IsFiniteSet(A \cup P) /\ IsFiniteSet(A \cap P)
        /\ Cardinality(A \cup P) = Cardinality(A) + Cardinality(P) - Cardinality(A \cap P)
    <3>1. IsFiniteSet(A) /\ IsFiniteSet(P)
      BY <1>9, <1>10 DEF P
    <3> QED BY <3>1, FS_Union, FS_Intersection
  <2>2. Cardinality(A \cap P) \in Nat /\ Cardinality(A \cup P) \in Nat
    BY <2>1, FS_CardinalityType
  <2>3. A2 \in SUBSET (A \cup P)
    BY <1>8 DEF P
  <2>4. Cardinality(A2) <= Cardinality(A \cup P)
    BY <2>1, <2>3, FS_Subset
  <2>5. Cardinality(P) \in Nat
    BY <1>11 DEF P
  <2> QED BY <1>9, <2>1, <2>2, <2>4, <2>5
<1>13. Cardinality(B2) <= Cardinality(B) - Cardinality(Q)
  <2> HIDE DEF B, B2, Q
  <2>1. Q = B \cap Q
    BY <1>6
  <2>2. IsFiniteSet(B \ Q) /\ Cardinality(B \ Q) = Cardinality(B) - Cardinality(Q)
    BY <1>9, <2>1, FS_Difference
  <2>3. B2 \in SUBSET (B \ Q)
    BY <1>7
  <2> QED BY <2>2, <2>3, FS_Subset
<1>14. Cardinality(A2) + Cardinality(B2) <= Cardinality(A) + Cardinality(B)
  <2>1. Cardinality(P) <= Cardinality(Q) /\ Cardinality(P) \in Nat
    BY <1>10, <1>11
  <2> HIDE DEF A, A2, B, B2, Q, P
  <2> QED BY <1>9, <1>11, <1>12, <1>13, <2>1
<1>15. Debt(M, c, seen \cup page, more, offset + limit) <= Debt(M, c, seen, repeats, offset)
  <2>1. /\ Debt(M, c, seen \cup page, more, offset + limit) = Cardinality(A2) + Cardinality(B2)
        /\ Debt(M, c, seen, repeats, offset) = Cardinality(A) + Cardinality(B)
    BY DEF Debt
  <2> HIDE DEF A, A2, B, B2, page, more
  <2> QED BY <1>14, <2>1
<1> QED BY <1>4, <1>15

(***************************************************************************)
(* The reader rd of a listing whose rows are M with created_at c.          *)
(***************************************************************************)
Position ==
    [phase : {"reading", "ended"}, caller : AccountRows, path : Paths, account : AccountRows,
     limit : Nat, offset : Nat, before : SUBSET Rows, seen : SUBSET Rows,
     repeats : SUBSET (Rows \X Nat), arrivals : Nat]

\* What was there when it began is seen, or is tied, or is still to come.
SkipsNone(rd, M, c) ==
    \A r \in rd.before :
        \/ r \in rd.seen
        \/ ~Alone(M, c, r)
        \/ rd.phase = "reading" /\ Ahead(M, c, r) >= rd.offset

\* The rows repeated and those that will be are no more than the arrivals.
PaysForRepeats(rd, M, c) ==
    IF rd.phase = "reading"
    THEN Debt(M, c, rd.seen, rd.repeats, rd.offset) <= rd.arrivals
    ELSE Cardinality(AloneRepeats(M, c, rd.repeats)) <= rd.arrivals

Follows(rd, M, c) ==
    /\ rd \in Position
    /\ Read(M, c, rd.seen, rd.repeats, rd.offset)
    /\ rd.before \subseteq M
    /\ SkipsNone(rd, M, c)
    /\ PaysForRepeats(rd, M, c)

Listed == Matching(reader.path, reader.account)

\* Only finitely many rows have been inserted.
TablesOK ==
    /\ clock \in Nat
    /\ state \in [Rows -> {"absent", "open", "committed"}]
    /\ created_at \in [Rows -> Nat]
    /\ IsFiniteSet({r \in Rows : state[r] # "absent"})

ListingInv ==
    /\ TablesOK
    /\ reader.phase \in {"reading", "ended"} => Follows(reader, Listed, created_at)

\* A reader that has counted an arrival.
Counted(rd) == IF rd.phase = "reading" THEN [rd EXCEPT !.arrivals = @ + 1] ELSE rd

\* A reader keeps its place through an arrival.
LEMMA FollowsArrival ==
    ASSUME NEW M, NEW c, NEW M2, NEW c2, NEW y, Grows(M, c, M2, c2, y),
           NEW rd, Follows(rd, M, c)
    PROVE  Follows(Counted(rd), M2, c2)
<1> DEFINE rd2 == Counted(rd)
<1>1. rd \in Position /\ Read(M, c, rd.seen, rd.repeats, rd.offset) /\ rd.before \subseteq M
  BY DEF Follows
<1>2. /\ rd2 \in Position /\ rd2.phase = rd.phase /\ rd2.seen = rd.seen
      /\ rd2.repeats = rd.repeats /\ rd2.offset = rd.offset /\ rd2.before = rd.before
      /\ rd.arrivals \in Nat /\ rd2.arrivals \in Nat
      /\ rd.phase = "reading" => rd2.arrivals = rd.arrivals + 1
      /\ rd.phase # "reading" => rd2.arrivals = rd.arrivals
      /\ rd.offset \in Nat
  BY <1>1 DEF Counted, Position
<1> HIDE DEF rd2
<1>3. /\ Read(M2, c2, rd.seen, rd.repeats, rd.offset)
      /\ Debt(M2, c2, rd.seen, rd.repeats, rd.offset)
           <= Debt(M, c, rd.seen, rd.repeats, rd.offset) + 1
      /\ Cardinality(AloneRepeats(M2, c2, rd.repeats))
           <= Cardinality(AloneRepeats(M, c, rd.repeats))
  BY <1>1, ArrivalAddsOne
<1>4. rd.before \subseteq M2
  BY <1>1 DEF Grows
<1>5. SkipsNone(rd2, M2, c2)
  <2> SUFFICES ASSUME NEW r \in rd.before
               PROVE  \/ r \in rd.seen
                      \/ ~Alone(M2, c2, r)
                      \/ rd.phase = "reading" /\ Ahead(M2, c2, r) >= rd.offset
    BY <1>2 DEF SkipsNone
  <2>1. \/ r \in rd.seen
        \/ ~Alone(M, c, r)
        \/ rd.phase = "reading" /\ Ahead(M, c, r) >= rd.offset
    BY DEF Follows, SkipsNone
  <2>2. r \in M /\ r \in M2 /\ Dated(M, c) /\ Dated(M2, c2)
    BY <1>1, <1>4 DEF Grows
  <2>3. /\ Alone(M2, c2, r) => Alone(M, c, r)
        /\ Ahead(M, c, r) <= Ahead(M2, c2, r)
    BY <2>2, GrowthMovesBack
  <2>4. Ahead(M, c, r) \in Nat /\ Ahead(M2, c2, r) \in Nat
    BY <2>2, AheadType
  <2> QED BY <1>2, <2>1, <2>3, <2>4
<1>6. PaysForRepeats(rd2, M2, c2)
  <2>1. /\ Debt(M, c, rd.seen, rd.repeats, rd.offset) \in Nat
        /\ Debt(M2, c2, rd.seen, rd.repeats, rd.offset) \in Nat
        /\ Cardinality(AloneRepeats(M, c, rd.repeats)) \in Nat
        /\ Cardinality(AloneRepeats(M2, c2, rd.repeats)) \in Nat
    BY <1>1, <1>3, DebtType
  <2>2. PaysForRepeats(rd, M, c)
    BY DEF Follows
  <2>3. CASE rd.phase = "reading"
    BY <1>2, <1>3, <2>1, <2>2, <2>3 DEF PaysForRepeats
  <2>4. CASE rd.phase # "reading"
    BY <1>2, <1>3, <2>1, <2>2, <2>4 DEF PaysForRepeats
  <2> QED BY <2>3, <2>4
<1> QED BY <1>2, <1>3, <1>4, <1>5, <1>6 DEF Follows, rd2

\* Nothing that a reader has to do with depends on the created_at of other rows.
LEMMA FollowsQuiet ==
    ASSUME NEW M, NEW c, NEW c2, \A x \in M : c2[x] = c[x], NEW rd, Follows(rd, M, c)
    PROVE  Follows(rd, M, c2)
<1>1. /\ rd \in Position /\ Read(M, c, rd.seen, rd.repeats, rd.offset)
      /\ rd.before \subseteq M /\ rd.seen \subseteq M
  BY DEF Follows, Read
<1>2. Read(M, c2, rd.seen, rd.repeats, rd.offset)
  BY <1>1 DEF Read, Dated
<1>3. ASSUME NEW r \in M
      PROVE  /\ Alone(M, c2, r) <=> Alone(M, c, r)
             /\ Ahead(M, c2, r) = Ahead(M, c, r)
  <2>1. Younger(M, c2, r) = Younger(M, c, r)
    BY DEF Younger
  <2> QED BY <2>1 DEF Alone, Ahead
<1>4. SkipsNone(rd, M, c2)
  BY <1>1, <1>3 DEF Follows, SkipsNone
<1>5. AloneRepeats(M, c2, rd.repeats) = AloneRepeats(M, c, rd.repeats)
  BY <1>1, <1>3 DEF AloneRepeats, Read
<1>6. Behind(M, c2, rd.seen, rd.offset) = Behind(M, c, rd.seen, rd.offset)
  BY <1>1, <1>3 DEF Behind
<1>7. PaysForRepeats(rd, M, c2)
  BY <1>5, <1>6 DEF Follows, PaysForRepeats, Debt
<1> QED BY <1>1, <1>2, <1>4, <1>7 DEF Follows

\* A reader keeps its place through a page: what the page does not show is
\* not in front of the next offset, and after a short page nothing is left.
LEMMA FollowsPage ==
    ASSUME NEW M, NEW c, NEW rd, Follows(rd, M, c), rd.phase = "reading", M \subseteq Rows,
           NEW order \in SetToSeqs(M), Sorted(order, c),
           NEW rd2,
           LET page == PageOf(order, rd.limit, rd.offset)
           IN  rd2 = [rd EXCEPT
                        !.offset = @ + rd.limit,
                        !.seen = @ \cup page,
                        !.repeats = @ \cup {<< r, rd.offset >> : r \in page \cap rd.seen},
                        !.phase = IF Cardinality(page) < rd.limit THEN "ended" ELSE "reading"]
    PROVE  Follows(rd2, M, c)
<1> DEFINE page == PageOf(order, rd.limit, rd.offset)
           more == rd.repeats \cup {<< r, rd.offset >> : r \in page \cap rd.seen}
<1>1. /\ rd \in Position /\ Read(M, c, rd.seen, rd.repeats, rd.offset) /\ rd.before \subseteq M
      /\ rd.offset \in Nat /\ rd.limit \in Nat /\ rd.arrivals \in Nat
      /\ Dated(M, c) /\ IsFiniteSet(M)
  BY DEF Follows, Position, Read, Dated
<1>2. page \subseteq M
  BY <1>1, FullPage
<1>3. /\ Read(M, c, rd.seen \cup page, more, rd.offset + rd.limit)
      /\ Debt(M, c, rd.seen \cup page, more, rd.offset + rd.limit)
           <= Debt(M, c, rd.seen, rd.repeats, rd.offset)
  BY <1>1, PagePaysOff
<1>4. more \in SUBSET (Rows \X Nat)
  <2>1. rd.repeats \in SUBSET (Rows \X Nat)
    BY <1>1 DEF Position
  <2> HIDE DEF page
  <2> QED BY <1>1, <1>2, <2>1
<1>5. /\ rd2.offset = rd.offset + rd.limit /\ rd2.seen = rd.seen \cup page
      /\ rd2.repeats = more /\ rd2.before = rd.before /\ rd2.arrivals = rd.arrivals
      /\ rd2.phase = IF Cardinality(page) < rd.limit THEN "ended" ELSE "reading"
      /\ rd2 \in Position
  <2>1. rd.seen \cup page \in SUBSET Rows
    BY <1>1, <1>2 DEF Position
  <2> DEFINE phase == IF Cardinality(page) < rd.limit THEN "ended" ELSE "reading"
             offset == rd.offset + rd.limit
             seen == rd.seen \cup page
  <2>2. rd2 = [rd EXCEPT !.offset = offset, !.seen = seen, !.repeats = more, !.phase = phase]
    OBVIOUS
  <2>3. phase \in {"reading", "ended"} /\ offset \in Nat /\ seen \in SUBSET Rows
    BY <1>1, <2>1
  <2> HIDE DEF page, more, phase, offset, seen
  <2>4. rd2 \in Position
    BY <1>1, <1>4, <2>2, <2>3 DEF Position
  <2>5. /\ rd2.offset = offset /\ rd2.seen = seen /\ rd2.repeats = more /\ rd2.phase = phase
        /\ rd2.before = rd.before /\ rd2.arrivals = rd.arrivals
    BY <1>1, <2>2 DEF Position
  <2> QED BY <2>4, <2>5 DEF phase, offset, seen
<1>6. SkipsNone(rd2, M, c)
  <2> SUFFICES ASSUME NEW r \in rd.before
               PROVE  \/ r \in rd2.seen
                      \/ ~Alone(M, c, r)
                      \/ rd2.phase = "reading" /\ Ahead(M, c, r) >= rd2.offset
    BY <1>5 DEF SkipsNone
  <2>1. r \in rd.seen \/ ~Alone(M, c, r) \/ Ahead(M, c, r) >= rd.offset
    BY DEF Follows, SkipsNone
  <2>2. r \in M /\ Ahead(M, c, r) \in Nat /\ Cardinality(M) \in Nat
        /\ Ahead(M, c, r) < Cardinality(M)
    BY <1>1, AheadType
  <2>3. CASE Alone(M, c, r) /\ r \notin rd.seen /\ r \notin page
    <3>1. Ahead(M, c, r) >= rd.offset + rd.limit
      <4>1. r \in page <=> rd.offset <= Ahead(M, c, r) /\ Ahead(M, c, r) < rd.offset + rd.limit
        BY <1>1, <2>2, <2>3, OnPage
      <4> HIDE DEF page
      <4> QED BY <1>1, <2>1, <2>2, <2>3, <4>1
    <3>2. rd.offset + rd.limit <= Cardinality(M)
      BY <1>1, <2>2, <3>1
    <3>3. Cardinality(page) = rd.limit
      BY <1>1, <3>2, FullPage
    <3>4. rd2.phase = "reading"
      BY <1>1, <1>5, <3>3
    <3> QED BY <1>5, <3>1, <3>4
  <2> QED BY <1>5, <2>3
<1>7. PaysForRepeats(rd2, M, c)
  <2> DEFINE d == Debt(M, c, rd.seen, rd.repeats, rd.offset)
             d2 == Debt(M, c, rd.seen \cup page, more, rd.offset + rd.limit)
             a2 == Cardinality(AloneRepeats(M, c, more))
  <2>1. d <= rd.arrivals
    BY DEF Follows, PaysForRepeats
  <2>2. d \in Nat /\ d2 \in Nat /\ a2 \in Nat /\ a2 <= d2
    <3>1. /\ a2 \in Nat /\ d2 \in Nat /\ d \in Nat
          /\ Cardinality(Behind(M, c, rd.seen \cup page, rd.offset + rd.limit)) \in Nat
          /\ d2 = a2 + Cardinality(Behind(M, c, rd.seen \cup page, rd.offset + rd.limit))
      BY <1>1, <1>3, DebtType DEF Debt
    <3> HIDE DEF a2, d2, d
    <3> QED BY <3>1
  <2>3. d2 <= rd.arrivals /\ a2 <= rd.arrivals
    <3>1. d2 <= d
      BY <1>3
    <3> HIDE DEF a2, d2, d
    <3> QED BY <1>1, <2>1, <2>2, <3>1
  <2> HIDE DEF page, more
  <2> QED BY <1>5, <2>3 DEF PaysForRepeats
<1> HIDE DEF page, more
<1> QED BY <1>1, <1>3, <1>5, <1>6, <1>7 DEF Follows

(***************************************************************************)
(* The steps.                                                              *)
(***************************************************************************)
Tables == tick \/ \E r \in Rows : begin_insert(r) \/ end_insert(r) \/ update(r)

\* What is committed stays as old as it is, and one row at most is added.
LEMMA TablesGrow ==
    ASSUME TablesOK, Tables
    PROVE  /\ TablesOK'
           /\ \A x \in Committed : x \in Committed' /\ created_at'[x] = created_at[x]
           /\ \/ reader' = reader /\ Committed' = Committed
              \/ reader' = Arrivals /\ \E y \in Rows : Committed' \subseteq Committed \cup {y}
<1> DEFINE Present == {r \in Rows : state[r] # "absent"}
<1>1. CASE tick
  BY <1>1 DEF tick, TablesOK, Committed
<1>2. ASSUME NEW r \in Rows, begin_insert(r)
      PROVE  /\ TablesOK' /\ reader' = reader /\ Committed' = Committed
             /\ \A x \in Committed : created_at'[x] = created_at[x]
  <2>1. Present' = Present \cup {r}
    BY <1>2 DEF begin_insert, TablesOK
  <2>2. IsFiniteSet(Present')
    <3>1. IsFiniteSet(Present)
      BY DEF TablesOK
    <3> HIDE DEF Present
    <3> QED BY <2>1, <3>1, FS_AddElement
  <2>3. /\ clock' \in Nat /\ created_at' \in [Rows -> Nat] /\ reader' = reader
        /\ state' \in [Rows -> {"absent", "open", "committed"}]
    BY <1>2 DEF begin_insert, TablesOK
  <2>4. Committed' = Committed /\ \A x \in Committed : created_at'[x] = created_at[x]
    BY <1>2 DEF begin_insert, TablesOK, Committed
  <2> QED BY <2>2, <2>3, <2>4 DEF TablesOK
<1>3. ASSUME NEW r \in Rows, end_insert(r)
      PROVE  /\ TablesOK'
             /\ \A x \in Committed : x \in Committed' /\ created_at'[x] = created_at[x]
             /\ \/ reader' = reader /\ Committed' = Committed
                \/ reader' = Arrivals /\ Committed' \subseteq Committed \cup {r}
  <2>1. Present' \in SUBSET Present
    BY <1>3 DEF end_insert, TablesOK
  <2>2. IsFiniteSet(Present')
    <3>1. IsFiniteSet(Present)
      BY DEF TablesOK
    <3> HIDE DEF Present
    <3> QED BY <2>1, <3>1, FS_Subset
  <2>3. /\ clock' \in Nat /\ created_at' \in [Rows -> Nat]
        /\ state' \in [Rows -> {"absent", "open", "committed"}]
    BY <1>3 DEF end_insert, TablesOK
  <2>4. \A x \in Committed : x \in Committed' /\ created_at'[x] = created_at[x]
    BY <1>3 DEF end_insert, TablesOK, Committed
  <2>5. \/ reader' = reader /\ Committed' = Committed
        \/ reader' = Arrivals /\ Committed' \subseteq Committed \cup {r}
    BY <1>3 DEF end_insert, TablesOK, Committed
  <2> QED BY <2>2, <2>3, <2>4, <2>5 DEF TablesOK
<1>4. ASSUME NEW r \in Rows, update(r)
      PROVE  /\ TablesOK' /\ reader' = reader /\ Committed' = Committed
             /\ \A x \in Committed : created_at'[x] = created_at[x]
  BY <1>4 DEF update, TablesOK, Committed
<1> QED BY <1>1, <1>2, <1>3, <1>4 DEF Tables

\* The rows a listing matches are committed rows, finitely many, with a date.
LEMMA ListedType ==
    ASSUME TablesOK, NEW path, NEW account
    PROVE  /\ Matching(path, account) \subseteq Committed
           /\ Matching(path, account) \subseteq Rows
           /\ Dated(Matching(path, account), created_at)
<1>1. Matching(path, account) \subseteq Committed /\ Committed \subseteq Rows
  BY DEF Matching, Committed
<1>2. Matching(path, account) \in SUBSET {r \in Rows : state[r] # "absent"}
  BY <1>1 DEF Committed
<1>3. IsFiniteSet(Matching(path, account))
  BY <1>2, FS_Subset DEF TablesOK
<1>4. \A x \in Matching(path, account) : created_at[x] \in Nat
  BY <1>1 DEF TablesOK
<1> QED BY <1>1, <1>3, <1>4 DEF Dated

\* At first nobody reads and there is no row.
LEMMA ListingInvInit == Init => ListingInv
<1> SUFFICES ASSUME Init PROVE ListingInv
  OBVIOUS
<1>1. {r \in Rows : state[r] # "absent"} = {}
  BY DEF Init
<1>2. TablesOK
  BY <1>1, FS_EmptySet DEF Init, TablesOK
<1> QED BY <1>2 DEF Init, ListingInv

\* Every step of a table, of a new reader and of a page keeps the invariant.
LEMMA ListingInvStep == ListingInv /\ [Next]_vars => ListingInv'
<1> SUFFICES ASSUME ListingInv, [Next]_vars PROVE ListingInv'
  OBVIOUS
<1>1. TablesOK /\ (reader.phase \in {"reading", "ended"} => Follows(reader, Listed, created_at))
  BY DEF ListingInv
<1>2. CASE Tables
  <2>1. /\ TablesOK'
        /\ \A x \in Committed : x \in Committed' /\ created_at'[x] = created_at[x]
        /\ \/ reader' = reader /\ Committed' = Committed
           \/ reader' = Arrivals /\ \E y \in Rows : Committed' \subseteq Committed \cup {y}
    BY <1>1, <1>2, TablesGrow
  <2>2. ASSUME reader'.phase \in {"reading", "ended"}
        PROVE  Follows(reader', Listed', created_at')
    <3>1. CASE reader' = reader /\ Committed' = Committed
      <4>1. Follows(reader, Listed, created_at)
        BY <1>1, <2>2, <3>1
      <4>2. Listed' = Listed
        BY <3>1 DEF Listed, Matching
      <4>3. \A x \in Listed : created_at'[x] = created_at[x]
        BY <1>1, <2>1, ListedType DEF Listed
      <4> QED BY <3>1, <4>1, <4>2, <4>3, FollowsQuiet
    <3>2. CASE reader' = Arrivals /\ \E y \in Rows : Committed' \subseteq Committed \cup {y}
      <4>1. PICK y \in Rows : Committed' \subseteq Committed \cup {y}
        BY <3>2
      <4>2. reader' = Counted(reader)
        BY <3>2 DEF Arrivals, Counted
      <4>3. reader.phase \in {"reading", "ended"}
        BY <2>2, <4>2 DEF Counted
      <4>4. Follows(reader, Listed, created_at)
        BY <1>1, <4>3
      <4>5. reader'.path = reader.path /\ reader'.account = reader.account
        BY <4>2, <4>4 DEF Counted, Follows, Position
      <4>6. /\ Listed' \subseteq Listed \cup {y} /\ Listed \subseteq Listed'
            /\ \A x \in Listed : created_at'[x] = created_at[x]
        BY <2>1, <4>1, <4>5 DEF Listed, Matching
      <4>7. Dated(Listed, created_at)
        BY <1>1, ListedType DEF Listed
      <4>8. Dated(Listed', created_at')
        <5>1. IsFiniteSet(Listed \cup {y})
          BY <4>7, FS_AddElement DEF Dated
        <5>2. IsFiniteSet(Listed')
          BY <4>6, <5>1, FS_Subset
        <5>3. Listed' \subseteq Rows
          BY DEF Listed, Matching, Committed, Rows
        <5>4. \A x \in Listed' : created_at'[x] \in Nat
          BY <2>1, <5>3 DEF TablesOK
        <5> QED BY <5>2, <5>4 DEF Dated
      <4>9. Grows(Listed, created_at, Listed', created_at', y)
        BY <4>6, <4>7, <4>8 DEF Grows
      <4> QED BY <4>2, <4>4, <4>9, FollowsArrival
    <3> QED BY <2>1, <3>1, <3>2
  <2> QED BY <2>1, <2>2 DEF ListingInv
<1>3. ASSUME NEW caller \in AccountRows, NEW account \in AccountRows,
             NEW path \in Paths, NEW limit \in Limits, start_listing(caller, path, account, limit)
      PROVE  ListingInv'
  <2> DEFINE M == Matching(path, account)
  <2>1. /\ UNCHANGED << clock, state, created_at >>
        /\ reader' = [phase |-> "reading", caller |-> caller, path |-> path,
                      account |-> account, limit |-> limit, offset |-> 0,
                      before |-> M, seen |-> {}, repeats |-> {}, arrivals |-> 0]
    BY <1>3 DEF start_listing
  <2>2. TablesOK' /\ Listed' = M
    BY <1>1, <2>1 DEF TablesOK, Listed, Matching, Committed
  <2>3. Dated(M, created_at) /\ M \subseteq Rows
    BY <1>1, ListedType
  <2> HIDE DEF M
  <2>4. /\ reader'.phase = "reading" /\ reader'.offset = 0 /\ reader'.before = M
        /\ reader'.seen = {} /\ reader'.repeats = {} /\ reader'.arrivals = 0
    BY <2>1
  <2>5. reader' \in Position
    BY <2>1, <2>3, LimitsAreNat DEF Position
  <2>6. Read(M, created_at, {}, {}, 0)
    BY <2>3, FS_EmptySet DEF Read
  <2>7. SkipsNone(reader', M, created_at)
    <3> SUFFICES ASSUME NEW r \in M PROVE Ahead(M, created_at, r) >= 0
      BY <2>4 DEF SkipsNone
    <3> QED BY <2>3, AheadType
  <2>8. PaysForRepeats(reader', M, created_at)
    <3>1. AloneRepeats(M, created_at, {}) = {} /\ Behind(M, created_at, {}, 0) = {}
      BY DEF AloneRepeats, Behind
    <3>2. Debt(M, created_at, {}, {}, 0) = 0
      BY <3>1, FS_EmptySet DEF Debt
    <3> QED BY <2>4, <3>2 DEF PaysForRepeats
  <2>9. Follows(reader', M, created_at)
    BY <2>4, <2>5, <2>6, <2>7, <2>8 DEF Follows
  <2> QED BY <2>1, <2>2, <2>9 DEF ListingInv
<1>4. CASE list_page
  <2>1. reader.phase = "reading" /\ UNCHANGED << clock, state, created_at >>
    BY <1>4 DEF list_page
  <2>2. TablesOK'
    BY <1>1, <2>1 DEF TablesOK
  <2>3. CASE reader' = [phase |-> "refused"]
    BY <2>2, <2>3 DEF ListingInv
  <2>4. ASSUME NEW order \in Ordered(Listed),
               reader' = Shown(PageOf(order, reader.limit, reader.offset))
        PROVE  ListingInv'
    <3>1. Follows(reader, Listed, created_at)
      BY <1>1, <2>1
    <3>2. order \in SetToSeqs(Listed) /\ Sorted(order, created_at)
      BY DEF Ordered, Sorted, SortKey
    <3>3. Listed \subseteq Rows
      BY <1>1, ListedType DEF Listed
    <3>4. Follows(reader', Listed, created_at)
      BY <2>1, <2>4, <3>1, <3>2, <3>3, FollowsPage DEF Shown
    <3>5. reader'.path = reader.path /\ reader'.account = reader.account
      <4>1. reader \in Position
        BY <3>1 DEF Follows
      <4> QED BY <2>4, <4>1 DEF Shown, Position
    <3>6. Listed' = Listed
      BY <2>1, <3>5 DEF Listed, Matching, Committed
    <3> QED BY <2>1, <2>2, <3>4, <3>6 DEF ListingInv
  <2> QED BY <1>4, <2>3, <2>4 DEF list_page, Listed
<1>5. CASE UNCHANGED vars
  BY <1>1, <1>5 DEF vars, ListingInv, TablesOK, Listed, Matching, Committed
<1> QED BY <1>2, <1>3, <1>4, <1>5 DEF Next, Tables

\* The invariant holds throughout: however rows are inserted, changed and read.
THEOREM ListingInvariance == Spec => []ListingInv
<1> QED BY ListingInvInit, ListingInvStep, PTL DEF Spec

\* A listing read to its end has shown every row it had at the start, for any
\* number of rows, inserts and pages: list_my_transactions and the listings of
\* the administrator page by offset over what is committed at each page.
THEOREM NothingIsSkipped == Spec => []NoRowIsSkipped
<1>1. ListingInv => NoRowIsSkipped
  <2> SUFFICES ASSUME ListingInv, reader.phase = "ended", NEW r \in reader.before
               PROVE  r \in reader.seen \/ Tied(r)
    BY DEF NoRowIsSkipped
  <2>1. SkipsNone(reader, Listed, created_at)
    BY DEF ListingInv, Follows
  <2> QED BY <2>1 DEF SkipsNone, Alone, Tied, Listed
<1> QED BY <1>1, ListingInvariance, PTL

\* A row comes twice only for a row that arrived, so a settlement, a refund or
\* a new balance between two pages, which keep created_at, repeats nothing.
THEOREM RepeatsNeedArrivals == Spec => []RepeatsAreArrivals
<1>1. ListingInv => RepeatsAreArrivals
  <2> SUFFICES ASSUME ListingInv, reader.phase \in {"reading", "ended"}
               PROVE  Cardinality({rep \in reader.repeats : ~Tied(rep[1])}) <= reader.arrivals
    BY DEF RepeatsAreArrivals
  <2>1. Follows(reader, Listed, created_at)
    BY DEF ListingInv
  <2>2. {rep \in reader.repeats : ~Tied(rep[1])} = AloneRepeats(Listed, created_at, reader.repeats)
    BY DEF AloneRepeats, Alone, Tied, Listed
  <2>3. CASE reader.phase = "reading"
    <3> DEFINE a == Cardinality(AloneRepeats(Listed, created_at, reader.repeats))
               b == Cardinality(Behind(Listed, created_at, reader.seen, reader.offset))
    <3>1. a + b <= reader.arrivals
      BY <2>1, <2>3 DEF Follows, PaysForRepeats, Debt
    <3>2. a \in Nat /\ b \in Nat /\ reader.arrivals \in Nat
      BY <2>1, DebtType DEF Follows, Position
    <3> HIDE DEF a, b
    <3>3. a <= reader.arrivals
      BY <3>1, <3>2
    <3> QED BY <2>2, <3>3 DEF a
  <2>4. CASE reader.phase # "reading"
    BY <2>1, <2>2, <2>4 DEF Follows, PaysForRepeats
  <2> QED BY <2>3, <2>4
<1> QED BY <1>1, ListingInvariance, PTL

=============================================================================
