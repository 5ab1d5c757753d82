---------------------------- MODULE KetamaProofs ----------------------------
(***************************************************************************)
(* Proofs about Ketama, for every number of servers, all weights and       *)
(* points, and every sufficient precision of the shares.                   *)
(***************************************************************************)
EXTENDS KetamaInvariant, FiniteSetTheorems, WellFoundedInduction, TLAPS

\* The constants, as the leaves need them.
LEMMA Constants ==
    /\ MaxServers \in Nat /\ Weights \subseteq Nat /\ MaxPoint \in Nat
    /\ Hashes \in Nat /\ Hashes > 1 /\ Points \in Nat /\ Points > 0
    /\ Precision \in Nat /\ Precision > 1
    /\ sizeof["Ketama"] \in Nat /\ sizeof["serverinfo"] \in Nat
    /\ sizeof["mcs"] \in Nat
BY BoundsAssumption, PrecisionAssumption, SizeofAssumption

-----------------------------------------------------------------------------
(***************************************************************************)
(* Lemmas of arithmetic.                                                   *)
(***************************************************************************)
LEMMA ProductIsNat ==
    ASSUME NEW a \in Nat, NEW b \in Nat
    PROVE  a * b \in Nat
OBVIOUS

LEMMA ProductMonotone ==
    ASSUME NEW a \in Nat, NEW b \in Nat, NEW c \in Nat, a >= b
    PROVE  a * c >= b * c
<1>1. PICK d \in Nat : a = b + d
  <2>1. a - b \in Nat /\ a = b + (a - b)
    OBVIOUS
  <2> QED
    BY <2>1
<1>2. a * c = b * c + d * c
  BY <1>1
<1>3. d * c \in Nat /\ b * c \in Nat
  BY <1>1, ProductIsNat
<1> QED
  BY <1>2, <1>3

\* A server of at least average weight gets at least one hash.
LEMMA AverageGetsHash ==
    ASSUME NEW w \in Nat, NEW n \in Nat, NEW m \in Nat, NEW k \in Nat,
           m > 0, w * n >= m,
           (k + 1) * m * Precision > w * Hashes * n * (Precision - 1)
    PROVE  k >= 1
<1> SUFFICES ASSUME k = 0 PROVE FALSE
  OBVIOUS
<1> DEFINE q == w * n
           r == Hashes * (Precision - 1)
<1>1. q \in Nat /\ q >= m
  BY ProductIsNat
<1>2. r \in Nat /\ r >= Precision
  <2>1. Hashes * (Precision - 1) >= 2 * (Precision - 1)
    BY Constants, ProductMonotone
  <2> QED
    BY <2>1, Constants, ProductIsNat
<1>3. w * Hashes * n * (Precision - 1) = q * r
  BY Constants
<1>4. q * r >= m * r
  BY <1>1, <1>2, ProductMonotone
<1>5. r * m >= Precision * m
  BY <1>2, Constants, ProductMonotone
<1>6. m * Precision > q * r
  BY <1>3, Constants
<1> HIDE DEF q, r
<1>7. m * r = r * m /\ m * Precision = Precision * m
  BY <1>2, Constants
<1>8. /\ q * r \in Nat /\ r * m \in Nat /\ Precision * m \in Nat
  BY <1>1, <1>2, Constants, ProductIsNat
<1> QED
  BY <1>4, <1>5, <1>6, <1>7, <1>8

\* Some server still has the average weight after another one was added.
LEMMA AverageGrows ==
    ASSUME NEW s \in Seq(Weights), NEW m \in Nat, NEW w \in Nat,
           Len(s) > 0 => \E i \in 1..Len(s) : s[i] * Len(s) >= m,
           Len(s) = 0 => m = 0
    PROVE  \E i \in 1..Len(s) + 1 : Append(s, w)[i] * (Len(s) + 1) >= m + w
<1> DEFINE n == Len(s)
           t == Append(s, w)
           G(i) == t[i] * (n + 1) >= m + w
<1>0. n \in Nat /\ t[n + 1] = w /\ \A i \in 1..n : t[i] = s[i] /\ s[i] \in Nat
  <2>1. Weights \subseteq Nat
    BY Constants
  <2>2. n \in Nat /\ t[n + 1] = w /\ \A i \in 1..n : t[i] = s[i] /\ s[i] \in Weights
    OBVIOUS
  <2> QED
    BY <2>1, <2>2
<1>1. n + 1 \in 1..n + 1 /\ 1..n \subseteq 1..n + 1
  BY <1>0
<1>2. CASE n = 0
  <2>1. G(n + 1)
    BY <1>0, <1>2
  <2> QED
    BY <1>1, <2>1
<1>3. CASE n > 0
  <2>1. PICK i \in 1..n : s[i] * n >= m
    BY <1>3
  <2> DEFINE x == s[i]
  <2>2. x \in Nat /\ x * (n + 1) = x * n + x /\ w * (n + 1) = w * n + w
        /\ x * n \in Nat /\ w * n \in Nat /\ x * n >= m
    BY <1>0, <2>1, ProductIsNat
  <2>3. CASE w <= x
    <3>1. G(i)
      BY <1>0, <2>2, <2>3
    <3> HIDE DEF G
    <3> QED
      BY <3>1, <1>1 DEF G
  <2>4. CASE w > x
    <3>1. w * n >= x * n
      BY <2>2, <2>4, <1>0, ProductMonotone
    <3>2. G(n + 1)
      BY <1>0, <2>2, <3>1
    <3> QED
      BY <3>2, <1>1
  <2>5. w <= x \/ w > x
    BY <2>2
  <2> QED
    BY <2>3, <2>4, <2>5
<1> QED
  BY <1>0, <1>2, <1>3
-----------------------------------------------------------------------------
(***************************************************************************)
(* The turns of the search.                                                *)
(***************************************************************************)
LEMMA RingTypes ==
    ASSUME TypeOK
    PROVE  /\ numpoints \in Nat /\ numservers \in Nat /\ h \in Nat
           /\ lowp \in Nat /\ highp \in Nat /\ MaxPoint \in Nat
           /\ \A i \in 0..numpoints - 1 :
                 /\ Point(i) \in Nat
                 /\ continuum[i + 1].ordinal \in 0..numservers - 1
<1>1. /\ numpoints \in Nat /\ numservers \in Nat /\ h \in Nat
      /\ lowp \in Nat /\ highp \in Nat /\ MaxPoint \in Nat
  BY Constants DEF TypeOK, numpoints, numservers
<1>2. ASSUME NEW i \in 0..numpoints - 1
      PROVE  continuum[i + 1] \in mcs
  BY <1>1 DEF TypeOK, numpoints
<1> QED
  BY <1>1, <1>2 DEF mcs, Point

\* The search returns the server of the next point.
LEMMA ReturnKeepsInv ==
    ASSUME RingInv, pc = "search", NEW i \in 0..numpoints - 1,
           IsNextPoint(i, h), Return(i)
    PROVE  RingInv'
<1> USE DEF RingInv, Return, objectVars
<1>1. TypeOK'
  <2>1. ordinal' \in -1..numservers - 1 /\ 0 \in 0..numpoints
    BY RingTypes
  <2> QED
    BY <2>1 DEF TypeOK, numpoints, numservers, mcs
<1>2. HeaviestHasAverage' /\ RingSorted' /\ HasPoints' /\ AtRest' /\ Balanced'
  BY RingTypes DEF HeaviestHasAverage, RingSorted, HasPoints, AtRest, Balanced,
         numservers, numpoints, Point
<1>3. SearchOK'
  BY DEF SearchOK
<1>4. FindsNextPoint'
  <2>1. /\ capacity' = capacity /\ capacity > 0 /\ numpoints' = numpoints
        /\ ordinal' = continuum'[i + 1].ordinal
    BY RingTypes DEF SearchOK, numpoints
  <2>2. IsNextPoint(i, h)'
    BY DEF IsNextPoint, Point, numpoints
  <2> HIDE DEF RingInv, Return
  <2> QED
    BY <2>1, <2>2, RingTypes DEF FindsNextPoint, RingInv, TypeOK
<1> QED
  BY <1>1, <1>2, <1>3, <1>4

\* The search goes on with bounds that have the next point between them.
LEMMA NarrowKeepsInv ==
    ASSUME RingInv, pc = "search", NEW low \in Nat, NEW high \in 0..numpoints,
           low <= high,
           \A i \in 0..low - 1 : Point(i) < h,
           high = numpoints \/ Point(high) >= h,
           lowp' = low, highp' = high, UNCHANGED <<objectVars, pc, h, ordinal>>
    PROVE  RingInv'
<1> USE DEF RingInv, objectVars
<1>1. TypeOK'
  BY RingTypes DEF TypeOK, numpoints, numservers, mcs
<1>2. HeaviestHasAverage' /\ RingSorted' /\ HasPoints' /\ AtRest' /\ Balanced'
  BY DEF HeaviestHasAverage, RingSorted, HasPoints, AtRest, Balanced, numservers,
         numpoints, Point
<1>3. SearchOK'
  BY DEF SearchOK, Point, numpoints
<1>4. FindsNextPoint'
  BY DEF FindsNextPoint
<1> QED
  BY <1>1, <1>2, <1>3, <1>4

\* The middle is between the bounds, and midval and midval1 are points.
LEMMA Middle ==
    ASSUME RingInv, pc = "search"
    PROVE  /\ midp \in Nat /\ lowp <= midp /\ midp <= highp /\ highp <= numpoints
           /\ midp = highp => lowp = highp
           /\ numpoints > 0
           /\ midp # numpoints =>
                 midp \in 0..numpoints - 1 /\ midval \in Nat /\ midval1 \in Nat
           /\ midp # numpoints /\ midp # 0 => midp - 1 \in 0..numpoints - 1
<1>1. /\ lowp \in Nat /\ highp \in Nat /\ lowp <= highp /\ highp <= numpoints
      /\ numpoints \in Nat /\ numpoints > 0
  BY RingTypes DEF RingInv, SearchOK, HasPoints, TypeOK
<1>2. /\ midp \in Nat /\ lowp <= midp /\ midp <= highp
      /\ midp = highp => lowp = highp
  BY <1>1 DEF midp
<1>3. midp # numpoints => midp \in 0..numpoints - 1
  BY <1>1, <1>2
<1>4. midp # numpoints /\ midp # 0 => midp - 1 \in 0..numpoints - 1
  BY <1>1, <1>2
<1> QED
  BY <1>1, <1>2, <1>3, <1>4, RingTypes DEF RingInv, midval, midval1

LEMMA RollBackKeepsInv == RingInv /\ RollBack => RingInv'
<1> SUFFICES ASSUME RingInv, RollBack PROVE RingInv'
  OBVIOUS
<1>1. lowp = numpoints /\ 0 \in 0..numpoints - 1
  BY Middle, RingTypes DEF RollBack, RingInv
<1>2. IsNextPoint(0, h)
  BY <1>1 DEF RingInv, RollBack, SearchOK, IsNextPoint
<1> QED
  BY <1>1, <1>2, ReturnKeepsInv DEF RollBack

LEMMA FoundKeepsInv == RingInv /\ Found => RingInv'
<1> SUFFICES ASSUME RingInv, Found PROVE RingInv'
  OBVIOUS
<1>1. midp \in 0..numpoints - 1
  BY Middle DEF Found
<1>2. \A j \in 0..midp - 1 : Point(j) < h
  <2> SUFFICES ASSUME NEW j \in 0..midp - 1 PROVE Point(j) < h
    OBVIOUS
  <2>1. /\ midp - 1 \in 0..numpoints - 1 /\ j \in 0..numpoints - 1
        /\ j < midp - 1 \/ j = midp - 1
    BY <1>1, RingTypes DEF RingInv
  <2>2. Point(midp - 1) < h
    BY <2>1, <1>1, RingTypes DEF Found, Matches, midval1, RingInv
  <2> QED
    BY <2>1, <2>2, RingTypes DEF RingInv, RingSorted
<1>3. IsNextPoint(midp, h)
  BY <1>1, <1>2, RingTypes DEF Found, Matches, midval, IsNextPoint, RingInv
<1> QED
  BY <1>1, <1>3, ReturnKeepsInv DEF Found

LEMMA GoUpKeepsInv == RingInv /\ GoUp => RingInv'
<1> SUFFICES ASSUME RingInv, GoUp PROVE RingInv'
  OBVIOUS
<1>1. midp \in 0..numpoints - 1 /\ midp <= highp /\ pc = "search"
  BY Middle DEF GoUp
<1>2. Point(midp) < h
  BY DEF GoUp, midval
<1>3. midp # highp
  BY <1>1, <1>2, RingTypes DEF RingInv, SearchOK
<1>4. \A i \in 0..midp : Point(i) < h
  <2> SUFFICES ASSUME NEW i \in 0..midp PROVE Point(i) < h
    OBVIOUS
  <2>1. i \in 0..numpoints - 1 /\ (i < midp \/ i = midp)
    BY <1>1, RingTypes DEF RingInv
  <2> QED
    BY <1>1, <1>2, <2>1, RingTypes DEF RingInv, RingSorted
<1>5. /\ midp + 1 \in Nat /\ highp \in 0..numpoints /\ midp + 1 <= highp
      /\ 0..(midp + 1) - 1 = 0..midp
  BY <1>1, <1>3, RingTypes, Middle DEF RingInv, TypeOK
<1>6. lowp' = midp + 1 /\ highp' = highp /\ UNCHANGED <<objectVars, pc, h, ordinal>>
  BY <1>5, <1>1 DEF GoUp, Narrow
<1>7. highp = numpoints \/ Point(highp) >= h
  BY <1>1 DEF RingInv, SearchOK
<1> QED
  BY <1>1, <1>4, <1>5, <1>6, <1>7, NarrowKeepsInv

\* A search that goes down has not passed the next point: either the bounds
\* cross at the first point, or the one before the middle is not below the hash.
LEMMA GoDownKeepsInv == RingInv /\ GoDown => RingInv'
<1> SUFFICES ASSUME RingInv, GoDown PROVE RingInv'
  OBVIOUS
<1>1. midp \in 0..numpoints - 1 /\ lowp <= midp /\ pc = "search"
      /\ lowp \in Nat /\ h \in Nat /\ numpoints \in Nat
  BY Middle, RingTypes DEF GoDown, RingInv
<1>2. Point(midp) >= h /\ h <= midval1
  BY <1>1, Middle DEF GoDown, Matches, midval
<1>3. CASE midp = 0
  <2>1. lowp > midp - 1 /\ 0 \in 0..numpoints - 1
    BY <1>1, <1>3
  <2>2. Return(0)
    BY <2>1, <1>1 DEF GoDown, Narrow
  <2>3. IsNextPoint(0, h)
    BY <1>2, <1>3 DEF IsNextPoint
  <2> QED
    BY <2>1, <2>2, <2>3, <1>1, ReturnKeepsInv
<1>4. CASE midp # 0
  <2>1. midp - 1 \in 0..numpoints - 1 /\ Point(midp - 1) >= h
    BY <1>1, <1>2, <1>4, Middle DEF midval1
  <2>2. lowp # midp
    <3> SUFFICES ASSUME lowp = midp PROVE FALSE
      OBVIOUS
    <3>1. midp - 1 \in 0..lowp - 1
      BY <1>1, <1>4
    <3> QED
      BY <3>1, <2>1, <1>1, RingTypes DEF RingInv, SearchOK
  <2>3. /\ midp - 1 \in 0..numpoints /\ lowp <= midp - 1
    BY <1>1, <2>1, <2>2
  <2>4. lowp' = lowp /\ highp' = midp - 1 /\ UNCHANGED <<objectVars, pc, h, ordinal>>
    BY <2>3, <1>1 DEF GoDown, Narrow
  <2>5. \A i \in 0..lowp - 1 : Point(i) < h
    BY <1>1 DEF RingInv, SearchOK
  <2> QED
    BY <1>1, <2>1, <2>3, <2>4, <2>5, NarrowKeepsInv
<1> QED
  BY <1>3, <1>4
-----------------------------------------------------------------------------
(***************************************************************************)
(* The life of a Ketama.                                                   *)
(***************************************************************************)
LEMMA InitRing == Init => RingInv
<1> SUFFICES ASSUME Init PROVE RingInv
  OBVIOUS
<1>1. TypeOK
  <2>1. /\ servers \in Seq(Weights) /\ continuum \in Seq(mcs)
        /\ numpoints = 0 /\ numservers = 0
    BY DEF Init, numpoints, numservers
  <2>2. 0 \in 0..MaxPoint /\ 0 \in 0..numpoints /\ -1 \in -1..numservers - 1
    BY <2>1, Constants
  <2>0. alive \in BOOLEAN
    BY Zenon DEF Init
  <2>3. /\ maxservers \in Nat /\ memory \in Nat
        /\ capacity \in Nat /\ allocated \in Int
        /\ pc \in {"idle", "search", "done"}
    BY DEF Init
  <2>4. /\ h \in 0..MaxPoint /\ lowp \in 0..numpoints /\ highp \in 0..numpoints
        /\ ordinal \in -1..numservers - 1
    BY <2>2 DEF Init
  <2> QED
    BY <2>0, <2>1, <2>3, <2>4 DEF TypeOK
<1>2. HeaviestHasAverage /\ RingSorted /\ HasPoints /\ AtRest /\ SearchOK
      /\ FindsNextPoint /\ Balanced
  BY DEF Init, HeaviestHasAverage, RingSorted, HasPoints, AtRest, SearchOK,
         FindsNextPoint, Balanced, numservers, numpoints
<1> QED
  BY <1>1, <1>2 DEF RingInv

\* An action that does not concern the servers or the continuum.
LEMMA RingUntouched ==
    ASSUME RingInv, UNCHANGED <<servers, memory, continuum, capacity>>
    PROVE  HeaviestHasAverage' /\ RingSorted' /\ HasPoints'
BY DEF RingInv, HeaviestHasAverage, RingSorted, HasPoints, numservers, numpoints, Point

LEMMA NewKeepsInv == RingInv /\ Ketama_new => RingInv'
<1> SUFFICES ASSUME RingInv, Ketama_new PROVE RingInv'
  OBVIOUS
<1> USE DEF RingInv, Ketama_new, searchVars
<1>1. TypeOK'
  BY Constants DEF TypeOK, numpoints, numservers, mcs
<1>2. Balanced'
  <2>1. maxservers' * sizeof["serverinfo"] = 0 /\ capacity' * sizeof["mcs"] = 0
    BY Constants DEF AtRest
  <2> QED
    BY <2>1, Constants DEF Balanced, AtRest
<1>3. AtRest' /\ SearchOK' /\ FindsNextPoint'
  BY DEF AtRest, SearchOK, FindsNextPoint
<1> QED
  BY <1>1, <1>2, <1>3, RingUntouched

\* The sizes of what a Ketama holds.
LEMMA Sizes ==
    ASSUME TypeOK
    PROVE  /\ numservers \in Nat
           /\ numservers * Hashes * Points \in Nat
           /\ numservers * Hashes * Points * sizeof["mcs"] \in Nat
           /\ maxservers * sizeof["serverinfo"] \in Nat
           /\ capacity * sizeof["mcs"] \in Nat
<1>1. numservers \in Nat /\ maxservers \in Nat /\ capacity \in Nat
  BY DEF TypeOK, numservers
<1>2. numservers * Hashes * Points \in Nat
  BY <1>1, Constants, ProductIsNat
<1> QED
  BY <1>1, <1>2, Constants, ProductIsNat

LEMMA FreeKeepsInv == RingInv /\ Ketama_free => RingInv'
<1> SUFFICES ASSUME RingInv, Ketama_free PROVE RingInv'
  OBVIOUS
<1> USE DEF RingInv, Ketama_free, Callable, Forget
<1>1. TypeOK'
  <2>1. allocated' \in Int
    BY Sizes, Constants DEF TypeOK
  <2>2. lowp' = 0 /\ highp' = 0 /\ h' \in 0..MaxPoint
    BY DEF AtRest, TypeOK
  <2>3. /\ servers' \in Seq(Weights) /\ continuum' \in Seq(mcs')
        /\ numpoints' = 0 /\ numservers' = 0
    BY DEF numpoints, numservers
  <2>4. 0 \in 0..numpoints' /\ -1 \in -1..numservers' - 1
    BY <2>3
  <2> QED
    BY <2>1, <2>2, <2>3, <2>4 DEF TypeOK
<1>2. Balanced'
  <2>1. ASSUME ~AddsLate
        PROVE  (IF capacity = 0 THEN 0
                ELSE numservers * Hashes * Points * sizeof["mcs"])
                   = capacity * sizeof["mcs"]
    <3>1. CASE capacity = 0
      BY <3>1, Constants
    <3>2. CASE capacity # 0
      <4>1. capacity = numservers * Hashes * Points
        BY <2>1, <3>2 DEF Balanced, TypeOK
      <4> QED
        BY <3>2, <4>1
    <3> QED
      BY <3>1, <3>2
  <2>2. ASSUME ~AddsLate PROVE allocated' = 0
    BY <2>1, <2>2, Sizes, Constants DEF Balanced
  <2> QED
    BY <2>2 DEF Balanced
<1>3. AtRest' /\ SearchOK' /\ FindsNextPoint' /\ HasPoints' /\ RingSorted'
      /\ HeaviestHasAverage'
  BY DEF AtRest, SearchOK, FindsNextPoint, HasPoints, RingSorted,
         HeaviestHasAverage, numpoints, numservers
<1> QED
  BY <1>1, <1>2, <1>3

LEMMA AddServerKeepsInv ==
    ASSUME RingInv, NEW weight \in Weights, Ketama_add_server(weight)
    PROVE  RingInv'
<1> USE DEF RingInv, Ketama_add_server, Callable, Forget
<1>0. weight \in Nat /\ numservers \in Nat
  BY Constants DEF TypeOK, numservers
<1>1. servers' \in Seq(Weights) /\ numservers' = numservers + 1
  BY DEF TypeOK, numservers
<1>2. TypeOK'
  <2>1. Grown \in Nat
    BY <1>0 DEF Grown, TypeOK
  <2>2. Grown * sizeof["serverinfo"] \in Nat
    BY <2>1, Constants, ProductIsNat
  <2>3. allocated' \in Int /\ memory' \in Nat /\ maxservers' \in Nat
    BY <1>0, <2>1, <2>2, Sizes DEF TypeOK
  <2>4. mcs \subseteq mcs' /\ ordinal' \in -1..numservers' - 1
    BY <1>0, <1>1 DEF mcs
  <2>5. continuum' \in Seq(mcs')
    BY <2>4 DEF TypeOK
  <2>6. lowp' = 0 /\ highp' = 0 /\ 0 \in 0..numpoints'
    BY RingTypes DEF AtRest, numpoints
  <2> QED
    BY <1>1, <2>3, <2>4, <2>5, <2>6 DEF TypeOK
<1>3. HeaviestHasAverage'
  <2>1. servers \in Seq(Weights) /\ memory \in Nat
    BY DEF TypeOK
  <2>2. /\ Len(servers) > 0 =>
              \E i \in 1..Len(servers) : servers[i] * Len(servers) >= memory
        /\ Len(servers) = 0 => memory = 0
    BY DEF HeaviestHasAverage, numservers
  <2>3. \E i \in 1..Len(servers) + 1 :
           Append(servers, weight)[i] * (Len(servers) + 1) >= memory + weight
    BY <1>0, <2>1, <2>2, AverageGrows
  <2> QED
    BY <1>0, <1>1, <2>3 DEF HeaviestHasAverage, numservers
<1>4. RingSorted' /\ HasPoints' /\ SearchOK' /\ FindsNextPoint' /\ AtRest'
  BY DEF RingSorted, HasPoints, SearchOK, FindsNextPoint, AtRest, numpoints, Point
<1>5. Balanced'
  <2>1. Grown * sizeof["serverinfo"] \in Nat
    BY <1>0, Constants, ProductIsNat DEF Grown, TypeOK
  <2>2. allocated' = allocated - maxservers * sizeof["serverinfo"]
                               + maxservers' * sizeof["serverinfo"]
        /\ alive /\ alive' /\ capacity' = capacity
    OBVIOUS
  <2>3. maxservers' * sizeof["serverinfo"] \in Nat
    BY <2>1
  <2>4. ASSUME ~AddsLate PROVE capacity' = 0
    BY <2>4
  <2>5. ASSUME ~AddsLate
        PROVE  allocated' = sizeof["Ketama"] + maxservers' * sizeof["serverinfo"]
                              + capacity' * sizeof["mcs"]
    <3>1. allocated = sizeof["Ketama"] + maxservers * sizeof["serverinfo"]
                        + capacity * sizeof["mcs"]
      BY <2>2, <2>5 DEF Balanced
    <3>2. capacity' * sizeof["mcs"] = capacity * sizeof["mcs"]
      BY <2>2
    <3> HIDE DEF RingInv, Ketama_add_server
    <3> QED
      BY <2>2, <2>3, <3>1, <3>2, Sizes, Constants DEF RingInv
  <2> QED
    BY <2>2, <2>4, <2>5 DEF Balanced
<1> QED
  BY <1>2, <1>3, <1>4, <1>5
\* However many hashes the servers get, some server gets one.
LEMMA SomeDigest ==
    ASSUME RingInv, numservers > 0, memory > 0,
           NEW ks \in [1..numservers -> 0..Hashes * numservers + 1],
           \A i \in 1..numservers : Share(i, ks[i])
    PROVE  Cardinality(Digests(ks)) \in Nat /\ Cardinality(Digests(ks)) > 0
<1> DEFINE n == numservers
           top == Hashes * n + 1
<1>1. n \in Nat /\ memory \in Nat /\ \A i \in 1..n : servers[i] \in Nat
  <2>1. Weights \subseteq Nat /\ servers \in Seq(Weights) /\ memory \in Nat
    BY Constants DEF RingInv, TypeOK
  <2>2. n \in Nat /\ \A i \in 1..n : servers[i] \in Weights
    BY <2>1 DEF numservers
  <2> QED
    BY <2>1, <2>2
<1>2. top \in Nat /\ top > 0
  BY <1>1, Constants, ProductIsNat
<1> HIDE DEF top
<1>3. IsFiniteSet(Digests(ks))
  <2>1. IsFiniteSet(1..n) /\ IsFiniteSet(1..top)
    BY <1>1, <1>2, FS_Interval
  <2>2. IsFiniteSet((1..n) \X (1..top))
    BY <2>1, FS_Product
  <2>3. Digests(ks) \subseteq (1..n) \X (1..top)
    BY DEF Digests, top
  <2> QED
    BY <2>2, <2>3, FS_Subset
<1>4. PICK i \in 1..n : servers[i] * n >= memory
  BY DEF RingInv, HeaviestHasAverage
<1>5. ks[i] \in Nat /\ ks[i] >= 1
  <2>1. ks[i] \in Nat
    BY <1>2 DEF top
  <2>2. (ks[i] + 1) * memory * Precision
            > servers[i] * Hashes * n * (Precision - 1)
    BY DEF Share
  <2>3. servers[i] \in Nat
    BY <1>1
  <2> HIDE DEF n
  <2> QED
    BY <1>1, <1>4, <2>1, <2>2, <2>3, AverageGetsHash
<1>6. <<i, 1>> \in Digests(ks)
  <2>1. 1 \in 1..top
    BY <1>2
  <2> QED
    BY <2>1, <1>5 DEF Digests, top
<1> QED
  BY <1>3, <1>6, FS_EmptySet, FS_CardinalityType

LEMMA CreateKeepsInv == RingInv /\ Ketama_create_continuum => RingInv'
<1> SUFFICES ASSUME RingInv, Ketama_create_continuum PROVE RingInv'
  OBVIOUS
<1>1. /\ pc # "search" /\ alive /\ numservers > 0 /\ memory > 0 /\ capacity = 0
      /\ capacity' = numservers * Hashes * Points
      /\ allocated' = allocated + numservers * Hashes * Points * sizeof["mcs"]
      /\ pc' = "idle" /\ ordinal' = -1 /\ UNCHANGED <<h, lowp, highp>>
      /\ UNCHANGED <<alive, servers, maxservers, memory>>
  BY DEF Ketama_create_continuum, Callable, Forget
<1>2. PICK ks \in [1..numservers -> 0..Hashes * numservers + 1] :
        /\ \A i \in 1..numservers : Share(i, ks[i])
        /\ LET cont == Cardinality(Digests(ks)) * Points
           IN \E point \in {f \in [1..cont -> 0..MaxPoint] : Sorted(f)},
                 owner \in [1..cont -> 0..numservers - 1] :
                 continuum' = [a \in 1..cont |->
                     [point |-> point[a], ordinal |-> owner[a]]]
  BY DEF Ketama_create_continuum
<1> DEFINE cont == Cardinality(Digests(ks)) * Points
<1>3. cont \in Nat /\ cont > 0
  <2> DEFINE digests == Cardinality(Digests(ks))
  <2>1. digests \in Nat /\ digests >= 1
    <3>1. digests \in Nat /\ digests > 0
      BY Zenon, <1>1, <1>2, SomeDigest
    <3> HIDE DEF digests
    <3> QED
      BY <3>1
  <2> HIDE DEF digests
  <2>2. digests * Points >= 1 * Points /\ digests * Points \in Nat
    BY <2>1, Constants, ProductIsNat, ProductMonotone
  <2> QED
    BY <2>2, Constants DEF digests
<1>4. PICK point \in [1..cont -> 0..MaxPoint], owner \in [1..cont -> 0..numservers - 1] :
        /\ Sorted(point)
        /\ continuum' = [a \in 1..cont |->
               [point |-> point[a], ordinal |-> owner[a]]]
  BY <1>2
<1> HIDE DEF cont
<1>5. continuum' \in Seq(mcs') /\ Len(continuum') = cont
  <2>1. numservers' = numservers
    BY <1>1 DEF numservers
  <2>2. \A a \in 1..cont : [point |-> point[a], ordinal |-> owner[a]] \in mcs'
    BY <2>1, <1>4 DEF mcs
  <2> HIDE DEF mcs
  <2> QED
    BY <1>3, <1>4, <2>2
<1>6. TypeOK'
  <2>1. allocated' \in Int /\ capacity' \in Nat
    BY <1>1, Sizes DEF RingInv, TypeOK
  <2>2. lowp' \in 0..numpoints' /\ highp' \in 0..numpoints'
    BY <1>1, <1>3, <1>5 DEF RingInv, AtRest, numpoints
  <2>3. numservers' = numservers
    BY <1>1 DEF numservers
  <2>4. ordinal' \in -1..numservers' - 1
    BY <1>1, <2>3, Sizes DEF RingInv
  <2> QED
    BY <1>1, <1>5, <2>1, <2>2, <2>4 DEF RingInv, TypeOK
<1>7. RingSorted'
  <2> SUFFICES ASSUME NEW i \in 0..cont - 1, NEW j \in 0..cont - 1, i < j
               PROVE  continuum'[i + 1].point <= continuum'[j + 1].point
    BY <1>5 DEF RingSorted, numpoints, Point
  <2>1. i + 1 \in 1..cont /\ j + 1 \in 1..cont /\ i + 1 < j + 1
    BY <1>3
  <2>2. point[i + 1] <= point[j + 1]
    BY <1>4, <2>1 DEF Sorted
  <2> QED
    BY <1>4, <2>1, <2>2
<1>8. HeaviestHasAverage' /\ HasPoints'
  BY <1>1, <1>3, <1>5 DEF RingInv, HeaviestHasAverage, HasPoints, numservers, numpoints
<1>9. capacity' > 0
  <2>1. numservers * Hashes \in Nat /\ numservers * Hashes >= 1 * Hashes
    BY <1>1, Sizes, Constants, ProductIsNat, ProductMonotone DEF RingInv
  <2>2. numservers * Hashes * Points >= 1 * Points
    BY <2>1, Constants, ProductMonotone
  <2> QED
    BY <1>1, <2>2, Constants
<1>10. AtRest' /\ SearchOK' /\ FindsNextPoint'
  BY <1>1, <1>9 DEF RingInv, AtRest, SearchOK, FindsNextPoint
<1>11. Balanced'
  <2>1. ASSUME ~AddsLate
        PROVE  allocated' = sizeof["Ketama"] + maxservers' * sizeof["serverinfo"]
                              + capacity' * sizeof["mcs"]
    <3>1. allocated = sizeof["Ketama"] + maxservers * sizeof["serverinfo"]
                        + capacity * sizeof["mcs"]
      BY <1>1, <2>1 DEF RingInv, Balanced
    <3>2. capacity * sizeof["mcs"] = 0
      BY <1>1, Constants
    <3>3. capacity' * sizeof["mcs"] = numservers * Hashes * Points * sizeof["mcs"]
      BY <1>1
    <3>4. maxservers' * sizeof["serverinfo"] = maxservers * sizeof["serverinfo"]
      BY <1>1
    <3> DEFINE slots == maxservers * sizeof["serverinfo"]
               slotsAfter == maxservers' * sizeof["serverinfo"]
               ring == capacity * sizeof["mcs"]
               ringAfter == capacity' * sizeof["mcs"]
               struct == sizeof["Ketama"]
    <3>5. struct \in Nat /\ slots \in Nat /\ ringAfter \in Nat
      <4>1. maxservers \in Nat
        BY DEF RingInv, TypeOK
      <4>2. capacity' \in Nat
        BY <1>9, <1>6 DEF TypeOK
      <4> QED
        BY <4>1, <4>2, Constants, ProductIsNat
    <3>6. /\ allocated' = allocated + ringAfter
          /\ allocated = struct + slots + ring
          /\ ring = 0 /\ slotsAfter = slots
      BY <1>1, <3>1, <3>2, <3>3, <3>4
    <3>7. allocated' = struct + slotsAfter + ringAfter
      <4> HIDE DEF slots, slotsAfter, ring, ringAfter, struct
      <4> QED
        BY <3>5, <3>6
    <3> QED
      BY <3>7
  <2>2. numservers' = numservers
    BY <1>1 DEF numservers
  <2> QED
    BY <1>1, <2>1, <2>2 DEF Balanced
<1> QED
  BY <1>6, <1>7, <1>8, <1>10, <1>11 DEF RingInv

LEMMA StartKeepsInv ==
    ASSUME RingInv, NEW hash \in 0..MaxPoint, NotReady(hash) \/ Search(hash)
    PROVE  RingInv'
<1> USE DEF RingInv, NotReady, Search, Callable, objectVars
<1>1. /\ 0 \in 0..numpoints /\ numpoints \in 0..numpoints
      /\ -1 \in -1..numservers - 1
  BY RingTypes
<1>2. TypeOK'
  BY <1>1 DEF TypeOK, numpoints, numservers, mcs
<1>3. SearchOK'
  BY RingTypes DEF SearchOK, numpoints, Point
<1>4. FindsNextPoint' /\ AtRest' /\ Balanced'
  BY DEF FindsNextPoint, AtRest, Balanced, numservers
<1> QED
  BY <1>2, <1>3, <1>4, RingUntouched

-----------------------------------------------------------------------------
LEMMA NextRing == RingInv /\ [Next]_vars => RingInv'
<1> SUFFICES ASSUME RingInv, [Next]_vars PROVE RingInv'
  OBVIOUS
<1>1. CASE Next
  <2>1. ASSUME NEW weight \in Weights, Ketama_add_server(weight) PROVE RingInv'
    BY <2>1, AddServerKeepsInv
  <2>2. ASSUME NEW hash \in 0..MaxPoint, NotReady(hash) \/ Search(hash) PROVE RingInv'
    BY <2>2, StartKeepsInv
  <2> QED
    BY <1>1, <2>1, <2>2, NewKeepsInv, FreeKeepsInv, CreateKeepsInv, RollBackKeepsInv,
       FoundKeepsInv, GoUpKeepsInv, GoDownKeepsInv DEF Next, Turn
<1>2. CASE UNCHANGED vars
  BY <1>2 DEF vars, objectVars, searchVars, RingInv, TypeOK, HeaviestHasAverage,
     RingSorted, HasPoints, AtRest, SearchOK, FindsNextPoint, Balanced,
     numservers, numpoints, mcs, Point, IsNextPoint
<1> QED
  BY <1>1, <1>2

-----------------------------------------------------------------------------
(***************************************************************************)
(* Sums.  A sum is the size of a Pile; facts about every part are brought  *)
(* to the whole by looking at the first number where they would fail.      *)
(***************************************************************************)

LEMMA LeastNumber ==
  ASSUME NEW S \in SUBSET Nat, S # {}
  PROVE  \E m \in S : \A k \in S : m <= k
<1> DEFINE R == OpToRel(<, Nat)
<1>1. IsWellFoundedOn(R, Nat)
  BY NatLessThanWellFounded
<1>2. \A k, m \in Nat : k < m => <<k, m>> \in R
  BY DEF OpToRel
<1> HIDE DEF R
<1>3. PICK m \in S : \A k \in S : <<k, m>> \notin R
  BY <1>1, WFMin
<1>4. \A k \in S : m <= k
  <2> SUFFICES ASSUME NEW k \in S PROVE m <= k
    OBVIOUS
  <2>1. k \in Nat /\ m \in Nat
    OBVIOUS
  <2>2. ~(k < m)
    BY <1>2, <1>3, <2>1
  <2> QED
    BY <2>1, <2>2
<1> QED
  BY <1>4

LEMMA PileMembers ==
  ASSUME NEW f, NEW n
  PROVE  \A d : d \in Pile(f, n) <=>
            \E i \in 1..n : \E u \in 1..f[i] : d = <<i, u>>
BY DEF Pile

LEMMA EmptyPile ==
  ASSUME NEW f
  PROVE  IsFiniteSet(Pile(f, 0)) /\ Cardinality(Pile(f, 0)) = 0
<1>1. Pile(f, 0) = {}
  BY DEF Pile
<1> QED
  BY <1>1, FS_EmptySet

LEMMA HigherPile ==
  ASSUME NEW f, NEW n \in Nat, f[n + 1] \in Nat, IsFiniteSet(Pile(f, n))
  PROVE  /\ IsFiniteSet(Pile(f, n + 1))
         /\ Cardinality(Pile(f, n + 1)) = Cardinality(Pile(f, n)) + f[n + 1]
<1> DEFINE top == {n + 1} \X (1..f[n + 1])
<1>1. Pile(f, n + 1) = Pile(f, n) \cup top
  <2>1. 1..n + 1 = (1..n) \cup {n + 1}
    OBVIOUS
  <2> QED
    BY <2>1 DEF Pile
<1>2. IsFiniteSet(top) /\ Cardinality(top) = f[n + 1]
  <2>0. IsFiniteSet(1..f[n + 1]) /\ Cardinality(1..f[n + 1]) = f[n + 1]
    <3> DEFINE c == f[n + 1]
    <3>1. c \in Nat /\ c \in Int /\ 1 \in Int
      OBVIOUS
    <3> HIDE DEF c
    <3>2. /\ IsFiniteSet(1..c)
          /\ Cardinality(1..c) = IF 1 > c THEN 0 ELSE c - 1 + 1
      BY <3>1, FS_Interval, Zenon
    <3>3. Cardinality(1..c) = c
      BY <3>1, <3>2
    <3> QED
      BY <3>2, <3>3 DEF c
  <2>1. /\ IsFiniteSet({n + 1}) /\ Cardinality({n + 1}) = 1
        /\ IsFiniteSet(1..f[n + 1]) /\ Cardinality(1..f[n + 1]) = f[n + 1]
    BY <2>0, FS_Singleton
  <2>2. /\ IsFiniteSet(top)
        /\ Cardinality(top) = Cardinality({n + 1}) * Cardinality(1..f[n + 1])
    BY <2>1, FS_Product
  <2> QED
    BY <2>1, <2>2
<1>3. Pile(f, n) \cap top = {}
  <2>1. \A d \in top : d[1] = n + 1
    OBVIOUS
  <2>2. \A d \in Pile(f, n) : d[1] \in 1..n
    BY PileMembers
  <2> QED
    BY <2>1, <2>2
<1> HIDE DEF top
<1>4. Cardinality(Pile(f, n)) \in Nat
  BY FS_CardinalityType
<1>5. /\ IsFiniteSet(Pile(f, n) \cup top)
      /\ Cardinality(Pile(f, n) \cup top) = Cardinality(Pile(f, n))
            + Cardinality(top) - Cardinality(Pile(f, n) \cap top)
  BY <1>2, FS_Union
<1>6. Cardinality(Pile(f, n) \cap top) = 0
  BY <1>3, FS_EmptySet
<1> QED
  BY <1>1, <1>2, <1>4, <1>5, <1>6

\* What is true of every part is true of the whole.
LEMMA PilesCompare ==
  ASSUME NEW n \in Nat, NEW f, NEW g, NEW a \in Nat, NEW b \in Nat,
         \A i \in 1..n : f[i] \in Nat /\ g[i] \in Nat /\ f[i] * a <= g[i] * b
  PROVE  /\ IsFiniteSet(Pile(f, n)) /\ IsFiniteSet(Pile(g, n))
         /\ Cardinality(Pile(f, n)) * a <= Cardinality(Pile(g, n)) * b
<1> DEFINE Less(j) ==
       /\ IsFiniteSet(Pile(f, j)) /\ IsFiniteSet(Pile(g, j))
       /\ Cardinality(Pile(f, j)) * a <= Cardinality(Pile(g, j)) * b
           S == {j \in 0..n : ~Less(j)}
<1>1. Less(0)
  <2>1. 0 * a <= 0 * b
    OBVIOUS
  <2> QED
    BY <2>1, EmptyPile
<1>2. ASSUME NEW j \in 0..n, j # n, Less(j) PROVE Less(j + 1)
  <2>1. /\ j + 1 \in 1..n /\ j \in Nat
        /\ f[j + 1] \in Nat /\ g[j + 1] \in Nat
        /\ f[j + 1] * a <= g[j + 1] * b
    BY <1>2
  <2> DEFINE F == Cardinality(Pile(f, j))
             G == Cardinality(Pile(g, j))
  <2>2. F \in Nat /\ G \in Nat /\ F * a <= G * b
    BY <1>2, FS_CardinalityType
  <2>3. /\ IsFiniteSet(Pile(f, j + 1)) /\ IsFiniteSet(Pile(g, j + 1))
        /\ Cardinality(Pile(f, j + 1)) = F + f[j + 1]
        /\ Cardinality(Pile(g, j + 1)) = G + g[j + 1]
    BY <1>2, <2>1, HigherPile
  <2> HIDE DEF F, G
  <2>4. ASSUME NEW x \in Nat, NEW y \in Nat, NEW c \in Nat
        PROVE  (x + y) * c = x * c + y * c /\ x * c \in Nat /\ y * c \in Nat
    OBVIOUS
  <2>5. (F + f[j + 1]) * a <= (G + g[j + 1]) * b
    <3>1. /\ (F + f[j + 1]) * a = F * a + f[j + 1] * a
          /\ (G + g[j + 1]) * b = G * b + g[j + 1] * b
      BY <2>1, <2>2, <2>4
    <3>2. /\ F * a \in Nat /\ f[j + 1] * a \in Nat
          /\ G * b \in Nat /\ g[j + 1] * b \in Nat
      BY <2>1, <2>2, ProductIsNat
    <3> QED
      BY <2>1, <2>2, <3>1, <3>2
  <2> QED
    BY <2>3, <2>5
<1> HIDE DEF Less
<1>3. S = {}
  <2> SUFFICES ASSUME S # {} PROVE FALSE
    OBVIOUS
  <2>1. S \in SUBSET Nat
    OBVIOUS
  <2>2. PICK m \in S : \A k \in S : m <= k
    BY <2>1, LeastNumber
  <2>3. m \in 0..n /\ ~Less(m) /\ m # 0
    BY <1>1
  <2>4. m - 1 \in 0..n /\ m - 1 # n /\ m - 1 \notin S
    BY <2>2, <2>3
  <2>5. Less(m - 1) /\ (m - 1) + 1 = m
    BY <2>3, <2>4
  <2> QED
    BY <1>2, <2>3, <2>4, <2>5
<1>4. Less(n)
  BY <1>3
<1> QED
  BY <1>4 DEF Less

LEMMA PileIsFinite ==
  ASSUME NEW n \in Nat, NEW f, \A i \in 1..n : f[i] \in Nat
  PROVE  IsFiniteSet(Pile(f, n)) /\ Cardinality(Pile(f, n)) \in Nat
<1>1. \A i \in 1..n : f[i] \in Nat /\ f[i] * 1 <= f[i] * 1
  OBVIOUS
<1>2. IsFiniteSet(Pile(f, n))
  BY <1>1, PilesCompare
<1> QED
  BY <1>2, FS_CardinalityType

-----------------------------------------------------------------------------
(***************************************************************************)
(* The size of the continuum.                                              *)
(***************************************************************************)

LEMMA ProductAssociates ==
  ASSUME NEW a \in Nat, NEW b \in Nat, NEW c \in Nat
  PROVE  (a * b) * c = a * (b * c) /\ a * b = b * a
OBVIOUS

\* If the k of m are a share of the w that is right to one part in p, and the n
\* hashes are fewer than p, then k is no more than n.
LEMMA RoundedDown ==
  ASSUME NEW k \in Nat, NEW m \in Nat \ {0}, NEW n \in Nat, NEW p \in Nat, n < p,
         k * (m * p) <= m * (n * (p + 1))
  PROVE  k <= n
<1>1. k * p <= n * (p + 1)
  <2>1. /\ k * (m * p) = m * (k * p) /\ k * p \in Nat /\ n * (p + 1) \in Nat
    BY ProductAssociates, ProductIsNat
  <2> DEFINE x == k * p
             y == n * (p + 1)
  <2>2. x \in Nat /\ y \in Nat /\ m * x <= m * y
    BY <2>1
  <2> HIDE DEF x, y
  <2>3. ASSUME x >= y + 1 PROVE FALSE
    <3>1. x * m >= (y + 1) * m
      BY <2>2, <2>3, ProductMonotone
    <3>2. (y + 1) * m = y * m + m /\ y * m = m * y /\ x * m = m * x
      BY <2>2
    <3>3. y * m \in Nat /\ x * m \in Nat
      BY <2>2, ProductIsNat
    <3> QED
      BY <2>2, <3>1, <3>2, <3>3
  <2>4. x <= y
    BY <2>2, <2>3
  <2> QED
    BY <2>4 DEF x, y
<1>2. ASSUME k >= n + 1 PROVE FALSE
  <2>1. k * p >= (n + 1) * p
    BY <1>2, ProductMonotone
  <2>2. (n + 1) * p = n * p + p /\ n * (p + 1) = n * p + n
    OBVIOUS
  <2>3. n * p \in Nat /\ k * p \in Nat
    BY ProductIsNat
  <2> QED
    BY <1>1, <2>1, <2>2, <2>3
<1> QED
  BY <1>2

\* No more digests are taken than there are hashes for the servers.
LEMMA DigestsFit ==
  ASSUME TypeOK, WeightsAddUp, memory > 0,
         NEW ks \in [1..numservers -> 0..Hashes * numservers + 1],
         \A i \in 1..numservers : Share(i, ks[i])
  PROVE  Cardinality(Digests(ks)) <= numservers * Hashes
<1> DEFINE n == numservers
           H == Hashes * n
           a == memory * Precision
           b == H * (Precision + 1)
<1>1. n \in Nat /\ memory \in Nat /\ \A i \in 1..n : servers[i] \in Nat
  <2>1. Weights \subseteq Nat /\ servers \in Seq(Weights) /\ memory \in Nat
    BY Constants DEF TypeOK
  <2>2. n \in Nat /\ \A i \in 1..n : servers[i] \in Weights
    BY <2>1 DEF numservers
  <2> QED
    BY <2>1, <2>2
<1>2. H \in Nat /\ H = numservers * Hashes /\ a \in Nat /\ b \in Nat
  BY <1>1, Constants, ProductIsNat, ProductAssociates
<1>3. \A i \in 1..n : ks[i] \in Nat /\ ks[i] <= H + 1
  BY <1>2
<1>4. ASSUME NEW i \in 1..n PROVE ks[i] * a <= servers[i] * b
  <2>1. ks[i] * memory * Precision <= (servers[i] * Hashes * n) * (Precision + 1)
    BY DEF Share
  <2>2. servers[i] \in Nat /\ ks[i] \in Nat
    BY <1>1, <1>3
  <2>3. ks[i] * memory * Precision = ks[i] * a
    BY <1>1, <2>2, Constants, ProductAssociates
  <2>4. servers[i] * Hashes * n = servers[i] * H
    BY <1>1, <2>2, Constants, ProductAssociates
  <2>5. (servers[i] * H) * (Precision + 1) = servers[i] * b
    <3>1. Precision + 1 \in Nat
      BY Constants
    <3> HIDE DEF H
    <3> QED
      BY <1>2, <2>2, <3>1, ProductAssociates
  <2> QED
    BY <2>1, <2>3, <2>4, <2>5
<1>5. Digests(ks) = Pile(ks, n)
  <2>1. \A d : d \in Digests(ks) <=>
           \E i \in 1..n : \E u \in 1..H + 1 : d = <<i, u>> /\ u <= ks[i]
    <3>1. Digests(ks) = {d \in (1..n) \X (1..H + 1) : d[2] <= ks[d[1]]}
      BY DEF Digests
    <3> HIDE DEF H, n
    <3> QED
      BY <3>1
  <2>2. \A d : d \in Pile(ks, n) <=> \E i \in 1..n : \E u \in 1..ks[i] : d = <<i, u>>
    BY DEF Pile
  <2>3. \A i \in 1..n : \A u : u \in 1..ks[i] <=> u \in 1..H + 1 /\ u <= ks[i]
    BY <1>2, <1>3
  <2> HIDE DEF H, n
  <2>4. \A d : d \in Digests(ks) <=> d \in Pile(ks, n)
    BY <2>1, <2>2, <2>3
  <2> QED
    BY <2>4 DEF Digests
<1> DEFINE k == Cardinality(Pile(ks, n))
<1>6. /\ IsFiniteSet(Pile(ks, n))
      /\ k * a <= Cardinality(Pile(servers, n)) * b
  <2> HIDE DEF a, b, H, n
  <2> QED
    BY <1>1, <1>2, <1>3, <1>4, PilesCompare
<1>7. k \in Nat /\ Cardinality(Pile(servers, n)) = memory
  BY <1>6, FS_CardinalityType DEF WeightsAddUp
<1>8. H < Precision
  <2>1. n <= MaxServers /\ MaxServers \in Nat
    BY Constants DEF WeightsAddUp
  <2>2. MaxServers * Hashes >= n * Hashes /\ Hashes * MaxServers = MaxServers * Hashes
    BY <1>1, <2>1, Constants, ProductMonotone, ProductAssociates
  <2>3. Hashes * MaxServers < Precision /\ Hashes * MaxServers \in Nat
    BY <2>1, Constants, ProductIsNat, PrecisionAssumption
  <2> QED
    BY <1>2, <2>2, <2>3, Constants
<1>9. k <= H
  <2>1. k * (memory * Precision) <= memory * (H * (Precision + 1))
    BY <1>6, <1>7
  <2>2. /\ memory \in Nat \ {0} /\ Precision \in Nat /\ H \in Nat
        /\ k \in Nat /\ H < Precision
    BY <1>1, <1>2, <1>7, <1>8, Constants
  <2> HIDE DEF k, H, n
  <2> QED
    BY <2>1, <2>2, RoundedDown, Zenon
<1> QED
  BY <1>2, <1>5, <1>9

LEMMA SizesInit == Init => WeightsAddUp /\ FitsAllocation
<1> SUFFICES ASSUME Init PROVE WeightsAddUp /\ FitsAllocation
  OBVIOUS
<1>1. numservers = 0 /\ numpoints = 0 /\ memory = 0 /\ capacity = 0
  BY DEF Init, numservers, numpoints
<1> QED
  BY <1>1, EmptyPile, Constants DEF WeightsAddUp, FitsAllocation

\* A server's weight goes on the pile and on the total.
LEMMA AddingAddsUp ==
  ASSUME TypeOK, WeightsAddUp, NEW weight \in Weights, Ketama_add_server(weight)
  PROVE  WeightsAddUp'
<1> DEFINE n == numservers
<1>1. /\ servers \in Seq(Weights) /\ n \in Nat /\ n < MaxServers
      /\ servers' = Append(servers, weight) /\ memory' = memory + weight
      /\ weight \in Nat /\ Weights \subseteq Nat /\ MaxServers \in Nat
  BY Constants DEF TypeOK, Ketama_add_server, numservers
<1>2. /\ numservers' = n + 1 /\ servers'[n + 1] = weight
      /\ \A i \in 1..n : servers'[i] = servers[i] /\ servers[i] \in Nat
  <2>1. \A i \in 1..n : servers[i] \in Weights
    BY <1>1 DEF numservers
  <2>2. Len(servers') = n + 1
    BY <1>1 DEF numservers
  <2>3. /\ servers'[n + 1] = weight
        /\ \A i \in 1..n : servers'[i] = servers[i]
    BY <1>1 DEF numservers
  <2> QED
    BY <1>1, <2>1, <2>2, <2>3 DEF numservers
<1>3. Pile(servers', n) = Pile(servers, n)
  BY <1>2 DEF Pile
<1>4. IsFiniteSet(Pile(servers, n))
  BY <1>1, <1>2, PileIsFinite
<1> HIDE DEF n
<1>5. Cardinality(Pile(servers', n + 1)) = Cardinality(Pile(servers, n)) + weight
  <2>1. IsFiniteSet(Pile(servers', n)) /\ servers'[n + 1] \in Nat
    BY <1>1, <1>2, <1>3, <1>4
  <2>2. Cardinality(Pile(servers', n + 1))
           = Cardinality(Pile(servers', n)) + servers'[n + 1]
    BY <1>1, <2>1, HigherPile
  <2> QED
    BY <1>2, <1>3, <2>2
<1>6. memory = Cardinality(Pile(servers, n))
  BY DEF WeightsAddUp, n
<1> QED
  BY <1>1, <1>2, <1>5, <1>6 DEF WeightsAddUp

\* The continuum is allocated for the average number of points per server, and
\* its points are at most as many.
LEMMA CreatingFits ==
  ASSUME RingInv, WeightsAddUp, Ketama_create_continuum
  PROVE  FitsAllocation'
<1>1. /\ numservers > 0 /\ memory > 0 /\ TypeOK
      /\ capacity' = numservers * Hashes * Points
  BY DEF Ketama_create_continuum, RingInv
<1>2. PICK ks \in [1..numservers -> 0..Hashes * numservers + 1] :
        /\ \A i \in 1..numservers : Share(i, ks[i])
        /\ LET cont == Cardinality(Digests(ks)) * Points
           IN \E point \in {f \in [1..cont -> 0..MaxPoint] : Sorted(f)},
                 owner \in [1..cont -> 0..numservers - 1] :
                 continuum' = [a \in 1..cont |->
                     [point |-> point[a], ordinal |-> owner[a]]]
  BY DEF Ketama_create_continuum
<1> DEFINE digests == Cardinality(Digests(ks))
<1>3. digests \in Nat
  BY Zenon, <1>1, <1>2, SomeDigest
<1>4. digests <= numservers * Hashes
  BY Zenon, <1>1, <1>2, DigestsFit
<1>5. PICK point \in [1..digests * Points -> 0..MaxPoint],
           owner \in [1..digests * Points -> 0..numservers - 1] :
        continuum' = [a \in 1..digests * Points |->
               [point |-> point[a], ordinal |-> owner[a]]]
  BY <1>2
<1> HIDE DEF digests
<1>6. digests * Points \in Nat
  BY <1>3, Constants, ProductIsNat
<1>7. numpoints' = digests * Points
  BY <1>5, <1>6 DEF numpoints
<1>8. numservers * Hashes * Points >= digests * Points
  <2>1. numservers * Hashes \in Nat
    BY <1>1, Constants, ProductIsNat DEF TypeOK, numservers
  <2> QED
    BY <1>3, <1>4, <2>1, Constants, ProductMonotone
<1>9. numservers * Hashes * Points \in Nat
  BY <1>1, Sizes
<1> QED
  BY <1>1, <1>6, <1>7, <1>8, <1>9 DEF FitsAllocation

LEMMA SizesNext ==
  ASSUME IInv, [Next]_vars
  PROVE  WeightsAddUp' /\ FitsAllocation'
<1> USE DEF IInv
<1>1. CASE UNCHANGED <<servers, memory, continuum, capacity>>
  BY <1>1 DEF WeightsAddUp, FitsAllocation, numservers, numpoints
<1>2. CASE Ketama_free
  <2>1. numservers' = 0 /\ numpoints' = 0 /\ memory' = 0 /\ capacity' = 0
    BY <1>2 DEF Ketama_free, numservers, numpoints
  <2> QED
    BY <2>1, EmptyPile, Constants DEF WeightsAddUp, FitsAllocation
<1>3. ASSUME NEW weight \in Weights, Ketama_add_server(weight)
      PROVE  WeightsAddUp' /\ FitsAllocation'
  <2>1. continuum' = continuum /\ capacity' = capacity
    BY <1>3 DEF Ketama_add_server
  <2>2. FitsAllocation'
    BY <2>1 DEF FitsAllocation, numpoints
  <2> QED
    BY <1>3, <2>2, AddingAddsUp DEF RingInv
<1>4. CASE Ketama_create_continuum
  <2>1. servers' = servers /\ memory' = memory
    BY <1>4 DEF Ketama_create_continuum
  <2>2. WeightsAddUp'
    BY <2>1 DEF WeightsAddUp, numservers
  <2> QED
    BY <1>4, <2>2, CreatingFits
<1>5. ASSUME NEW hash \in 0..MaxPoint, NotReady(hash) \/ Search(hash)
      PROVE  UNCHANGED <<servers, memory, continuum, capacity>>
  BY <1>5 DEF NotReady, Search, objectVars
<1>6. CASE Ketama_new \/ Turn \/ UNCHANGED vars
  <2>1. UNCHANGED <<servers, memory, continuum, capacity>>
    BY <1>6 DEF Ketama_new, Turn, RollBack, Found, GoUp, GoDown, Return, Narrow,
       vars, objectVars
  <2> QED
    BY <1>1, <2>1
<1> QED
  BY <1>1, <1>2, <1>3, <1>4, <1>5, <1>6 DEF Next

LEMMA InitInv == Init => IInv
  BY InitRing, SizesInit DEF IInv

LEMMA NextInv == IInv /\ [Next]_vars => IInv'
<1> SUFFICES ASSUME IInv, [Next]_vars PROVE IInv'
  OBVIOUS
<1>1. RingInv'
  BY NextRing DEF IInv
<1> QED
  BY <1>1, SizesNext DEF IInv

\* What ketama.c keeps true of a Ketama and of a search in it.
THEOREM Invariance == Spec => []IInv
BY InitInv, NextInv, PTL DEF Spec

\* The result is the server of the next point on the circle: the binary search of
\* Ketama_get_server_ordinal is right for every ring and every hash.
THEOREM FindsTheNextPoint == Spec => []FindsNextPoint
<1>1. IInv => FindsNextPoint
  BY DEF IInv, RingInv
<1> QED
  BY <1>1, Invariance, PTL

\* A continuum is never empty: whatever the weights, the server of at least
\* average weight has a point in it.
THEOREM ContinuumHasPoints == Spec => []HasPoints
<1>1. IInv => HasPoints
  BY DEF IInv, RingInv
<1> QED
  BY <1>1, Invariance, PTL

\* The continuum has no more points than it was allocated for, whatever the
\* weights are and however their float shares are rounded.
THEOREM PointsFitAllocation == Spec => []FitsAllocation
<1>1. IInv => FitsAllocation
  BY DEF IInv
<1> QED
  BY <1>1, Invariance, PTL

\* Used in the documented order, a Ketama gives back the bytes it was counted for.
THEOREM LeaksNothing ==
    ASSUME ~AddsLate
    PROVE  Spec => []NothingLeaked
<1>1. IInv => NothingLeaked
  BY DEF IInv, RingInv, Balanced, NothingLeaked
<1> QED
  BY <1>1, Invariance, PTL

\* Each turn of the loop returns or brings the bounds closer together, and never
\* leaves them as they were: the search ends.
THEOREM TurnNarrows ==
    ASSUME IInv, Turn
    PROVE  pc' = "done" \/ highp' - lowp' < highp - lowp
<1>1. RingInv /\ lowp \in Nat /\ highp \in Nat
  BY RingTypes DEF IInv, RingInv
<1>2. CASE RollBack \/ Found
  BY <1>2 DEF RollBack, Found, Return
<1>3. CASE GoUp \/ GoDown
  <2>1. midp \in Nat /\ lowp <= midp /\ midp <= highp
    BY <1>1, <1>3, Middle DEF GoUp, GoDown
  <2> QED
    BY <1>1, <1>3, <2>1 DEF GoUp, GoDown, Narrow, Return
<1> QED
  BY <1>2, <1>3 DEF Turn
=============================================================================
