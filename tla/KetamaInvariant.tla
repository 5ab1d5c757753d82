--------------------------- MODULE KetamaInvariant ---------------------------
(***************************************************************************)
(* The inductive invariant of Ketama, checked by TLC and proved in         *)
(* KetamaProofs.                                                           *)
(***************************************************************************)
EXTENDS Ketama

\* Some server has at least the average weight, and so its share is Hashes.
HeaviestHasAverage ==
    /\ numservers = 0 => memory = 0
    /\ numservers > 0 =>
          \E i \in 1..numservers : servers[i] * numservers >= memory

RingSorted ==
    \A i, j \in 0..numpoints - 1 : i < j => Point(i) <= Point(j)

\* The next point is between the bounds: what is below lowp is below the hash,
\* and highp is the end or is not below it.
SearchOK ==
    pc = "search" =>
        /\ capacity > 0
        /\ lowp <= highp
        /\ \A i \in 0..lowp - 1 : Point(i) < h
        /\ highp = numpoints \/ Point(highp) >= h

\* Module.allocated counts what this object holds.
Balanced ==
    /\ capacity > 0 /\ ~AddsLate => capacity = numservers * Hashes * Points
    /\ ~AddsLate => allocated = IF alive THEN sizeof["Ketama"]
                          + maxservers * sizeof["serverinfo"]
                          + capacity * sizeof["mcs"]
                     ELSE 0

AtRest ==
    /\ capacity = 0 => continuum = <<>>
    /\ ~alive => servers = <<>> /\ maxservers = 0 /\ memory = 0 /\ capacity = 0
    /\ ~alive => pc = "idle"
    /\ pc # "search" => lowp = 0 /\ highp = 0

RingInv ==
    /\ TypeOK
    /\ HeaviestHasAverage
    /\ RingSorted
    /\ HasPoints
    /\ AtRest
    /\ SearchOK
    /\ FindsNextPoint
    /\ Balanced

\* The pairs of an i up to n and a unit of f[i]: there are as many as the sum of
\* the f[i].
Pile(f, n) == UNION {{i} \X (1..f[i]) : i \in 1..n}

WeightsAddUp ==
    /\ numservers <= MaxServers
    /\ memory = Cardinality(Pile(servers, numservers))

IInv == RingInv /\ WeightsAddUp /\ FitsAllocation
=============================================================================
