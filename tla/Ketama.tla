------------------------------- MODULE Ketama -------------------------------
(***************************************************************************)
(* The consistent hash of src/libredis/ketama.c: the list of servers, the  *)
(* continuum of points it is turned into, and the binary search that maps  *)
(* a key to a server, one turn of its loop per action.                     *)
(*                                                                         *)
(* The md5 hashes are arbitrary points, and a server is its ordinal and    *)
(* its weight.  The total weight is the mathematical sum, and must be      *)
(* positive for the shares to be defined.                                  *)
(***************************************************************************)
EXTENDS Integers, Sequences, FiniteSets

CONSTANTS
    MaxServers,  \* bound on the servers of one Ketama
    Weights,     \* the weights a server may have
    Hashes,      \* 40, the hashes of a server of average weight
    Points,      \* 4, the points of a hash
    MaxPoint,    \* UINT_MAX
    Precision,   \* the float arithmetic is exact to one part in so many
    sizeof,      \* of each of the three structs
    AddsLate     \* servers may be added after Ketama_create_continuum

ASSUME BoundsAssumption ==
    /\ MaxServers \in Nat /\ Weights \subseteq Nat /\ MaxPoint \in Nat
    /\ Hashes \in Nat \ {0, 1} /\ Points \in Nat \ {0}
ASSUME PrecisionAssumption ==
    Precision \in Nat \ {0, 1} /\ Hashes * MaxServers < Precision
ASSUME SizeofAssumption == sizeof \in [{"Ketama", "serverinfo", "mcs"} -> Nat]
ASSUME AddsLateAssumption == AddsLate \in BOOLEAN

VARIABLES
    alive,       \* between Ketama_new and Ketama_free
    servers,     \* the weights of the servers, in the order of the ordinals
    maxservers,
    memory,      \* the sum of the weights
    continuum,
    capacity,    \* the points continuum has room for, 0 if it is NULL
    allocated,   \* what Module.allocated has counted for this Ketama
    \* Ketama_get_server_ordinal
    pc, h, lowp, highp,
    ordinal      \* its result

objectVars == <<alive, servers, maxservers, memory, continuum, capacity, allocated>>
searchVars == <<pc, h, lowp, highp, ordinal>>
vars == <<objectVars, searchVars>>

numservers == Len(servers)
numpoints == Len(continuum)
mcs == [point : 0..MaxPoint, ordinal : 0..numservers - 1]

\* Every variable has the type of the C variable it stands for; the result is
\* the ordinal of a server that was added, or -1.
TypeOK ==
    /\ alive \in BOOLEAN
    /\ servers \in Seq(Weights)
    /\ maxservers \in Nat /\ memory \in Nat /\ capacity \in Nat
    /\ continuum \in Seq(mcs)
    /\ allocated \in Int
    /\ pc \in {"idle", "search", "done"}
    /\ h \in 0..MaxPoint
    /\ lowp \in 0..numpoints /\ highp \in 0..numpoints
    /\ ordinal \in -1..numservers - 1

Init ==
    /\ alive = FALSE
    /\ servers = <<>> /\ maxservers = 0 /\ memory = 0
    /\ continuum = <<>> /\ capacity = 0
    /\ allocated = 0
    /\ pc = "idle" /\ h = 0 /\ lowp = 0 /\ highp = 0 /\ ordinal = -1

-----------------------------------------------------------------------------
(***************************************************************************)
(* The life of a Ketama.                                                   *)
(***************************************************************************)
Callable == alive /\ pc # "search"

\* What the last search returned is of no further interest.
Forget ==
    /\ pc' = "idle"
    /\ ordinal' = -1
    /\ UNCHANGED <<h, lowp, highp>>

Ketama_new ==
    /\ ~alive
    /\ alive' = TRUE
    /\ allocated' = sizeof["Ketama"]
    /\ UNCHANGED <<servers, maxservers, memory, continuum, capacity, searchVars>>

\* Mutant of Ketama_free: the list of servers is as long as its use.
Ketama_free_used ==
    /\ Callable
    /\ alive' = FALSE
    /\ allocated' = allocated - sizeof["Ketama"]
          - numservers * sizeof["serverinfo"]
          - (IF capacity = 0 THEN 0
             ELSE numservers * Hashes * Points * sizeof["mcs"])
    /\ servers' = <<>> /\ maxservers' = 0 /\ memory' = 0
    /\ continuum' = <<>> /\ capacity' = 0
    /\ Forget

\* The size of the continuum is computed from the present number of servers.
Ketama_free ==
    /\ Callable
    /\ alive' = FALSE
    /\ allocated' = allocated - sizeof["Ketama"]
          - maxservers * sizeof["serverinfo"]
          - (IF capacity = 0 THEN 0
             ELSE numservers * Hashes * Points * sizeof["mcs"])
    /\ servers' = <<>> /\ maxservers' = 0 /\ memory' = 0
    /\ continuum' = <<>> /\ capacity' = 0
    /\ Forget

\* The list of servers starts with one entry and is doubled when it is full.
Grown ==
    CASE maxservers = 0 -> 1
      [] maxservers > 0 /\ numservers >= maxservers -> 2 * maxservers
      [] OTHER -> maxservers

Ketama_add_server(weight) ==
    /\ Callable
    /\ numservers < MaxServers
    /\ capacity = 0 \/ AddsLate
    /\ maxservers' = Grown
    /\ allocated' = allocated - maxservers * sizeof["serverinfo"]
                              + Grown * sizeof["serverinfo"]
    /\ servers' = Append(servers, weight)
    /\ memory' = memory + weight
    /\ Forget
    /\ UNCHANGED <<alive, continuum, capacity>>

\* Mutants of Share: the share is rounded up, and computed with integers.
ShareUp(i, ks) ==
    /\ ks * memory >= servers[i] * Hashes * numservers
    /\ (ks - 1) * memory < servers[i] * Hashes * numservers
ShareInteger(i, ks) == ks = (servers[i] \div memory) * Hashes * numservers

\* ks is floorf(pct * 40.0 * numservers) for a float product that differs from
\* the exact share by at most one part in Precision.
Share(i, ks) ==
    LET weighted == servers[i] * Hashes * numservers
    IN /\ ks * memory * Precision <= weighted * (Precision + 1)
       /\ (ks + 1) * memory * Precision > weighted * (Precision - 1)

\* The hashes of every server, the first ks[i] of server i.
Digests(ks) ==
    {d \in (1..numservers) \X (1..Hashes * numservers + 1) : d[2] <= ks[d[1]]}

Sorted(point) ==
    \A i, j \in DOMAIN point : i < j => point[i] <= point[j]

\* qsort leaves the order of equal points open.
Ketama_create_continuum ==
    /\ Callable
    /\ numservers > 0 /\ capacity = 0
    /\ memory > 0
    /\ capacity' = numservers * Hashes * Points
    /\ allocated' = allocated + numservers * Hashes * Points * sizeof["mcs"]
    /\ \E ks \in [1..numservers -> 0..Hashes * numservers + 1] :
          /\ \A i \in 1..numservers : Share(i, ks[i])
          /\ LET cont == Cardinality(Digests(ks)) * Points
             IN \E point \in {f \in [1..cont -> 0..MaxPoint] : Sorted(f)},
                   owner \in [1..cont -> 0..numservers - 1] :
                   /\ \A i \in 1..numservers :
                         Cardinality({a \in 1..cont : owner[a] = i - 1})
                             = ks[i] * Points
                   /\ continuum' = [a \in 1..cont |->
                          [point |-> point[a], ordinal |-> owner[a]]]
    /\ Forget
    /\ UNCHANGED <<alive, servers, maxservers, memory>>

-----------------------------------------------------------------------------
(***************************************************************************)
(* Ketama_get_server_ordinal; the array index i is continuum[i + 1].       *)
(***************************************************************************)
Point(i) == continuum[i + 1].point
midp == (lowp + highp) \div 2
midval == Point(midp)
midval1 == IF midp = 0 THEN 0 ELSE Point(midp - 1)

Return(i) ==
    /\ pc' = "done"
    /\ ordinal' = continuum[i + 1].ordinal
    /\ lowp' = 0 /\ highp' = 0
    /\ UNCHANGED <<objectVars, h>>

\* The loop goes round with these bounds, or they have crossed.
Narrow(low, high) ==
    \/ /\ low > high
       /\ Return(0)
    \/ /\ low <= high
       /\ lowp' = low /\ highp' = high
       /\ UNCHANGED <<objectVars, pc, h, ordinal>>

\* There is no continuum.
NotReady(hash) ==
    /\ Callable
    /\ capacity = 0
    /\ pc' = "done" /\ h' = hash /\ ordinal' = -1
    /\ UNCHANGED <<objectVars, lowp, highp>>

\* Mutant of Search: the search starts after a point that may be the first.
SearchFromOne(hash) ==
    /\ Callable
    /\ capacity > 0
    /\ pc' = "search" /\ h' = hash /\ ordinal' = -1
    /\ lowp' = 1 /\ highp' = numpoints
    /\ UNCHANGED objectVars

Search(hash) ==
    /\ Callable
    /\ capacity > 0
    /\ pc' = "search" /\ h' = hash /\ ordinal' = -1
    /\ lowp' = 0 /\ highp' = numpoints
    /\ UNCHANGED objectVars

RollBack ==
    /\ pc = "search"
    /\ midp = numpoints
    /\ Return(0)

\* Mutant of Matches: a key whose hash is a point goes to the next one.
MatchesStrictly == h < midval /\ h > midval1

Matches == h <= midval /\ h > midval1

Found ==
    /\ pc = "search"
    /\ midp # numpoints
    /\ Matches
    /\ Return(midp)

\* Mutant of GoUp: the lower bound stays on the point that was looked at.
GoUpSlowly ==
    /\ pc = "search"
    /\ midp # numpoints
    /\ ~Matches
    /\ midval < h
    /\ Narrow(midp, highp)

GoUp ==
    /\ pc = "search"
    /\ midp # numpoints
    /\ ~Matches
    /\ midval < h
    /\ Narrow(midp + 1, highp)

GoDown ==
    /\ pc = "search"
    /\ midp # numpoints
    /\ ~Matches
    /\ midval >= h
    /\ Narrow(lowp, midp - 1)

Turn == RollBack \/ Found \/ GoUp \/ GoDown

Next ==
    \/ Ketama_new \/ Ketama_free
    \/ \E weight \in Weights : Ketama_add_server(weight)
    \/ Ketama_create_continuum
    \/ \E hash \in 0..MaxPoint : NotReady(hash) \/ Search(hash)
    \/ Turn

Spec == Init /\ [][Next]_vars

\* The loop of the search goes round.
FairSpec == Spec /\ WF_vars(Turn)

-----------------------------------------------------------------------------
(***************************************************************************)
(* Properties.                                                             *)
(***************************************************************************)

\* Point i is the next one on the circle from where the hash is.
IsNextPoint(i, hash) ==
    \/ Point(i) >= hash /\ \A j \in 0..i - 1 : Point(j) < hash
    \/ i = 0 /\ \A j \in 0..numpoints - 1 : Point(j) < hash

\* A key belongs to the server of the first point that is not below its hash,
\* and of the first of all if there is none (ketama.c:173), also if points
\* coincide, if the hash is 0 or beyond the last point; without a continuum the
\* result is -1.
FindsNextPoint ==
    pc = "done" =>
        IF capacity = 0 THEN ordinal = -1
        ELSE \E i \in 0..numpoints - 1 :
                /\ IsNextPoint(i, h)
                /\ ordinal = continuum[i + 1].ordinal

\* The search ends, although its loop has no condition (ketama.c:175).
SearchEnds == pc = "search" ~> pc = "done"

\* A continuum has points, however the weights are spread and rounded: the search
\* never reads an entry of an empty array.
HasPoints == capacity > 0 => numpoints > 0

\* The continuum holds as many points as it was allocated for, whatever the
\* rounding of the shares.
FitsAllocation == numpoints <= capacity

\* The bytes given back are those that were taken: Module.allocated is 0 after
\* Ketama_free (redis.h:94).
NothingLeaked == ~alive => allocated = 0
=============================================================================
