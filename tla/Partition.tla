------------------------------ MODULE Partition ------------------------------
(***************************************************************************)
(* A variable's domain cut into regions (partition_within, model.rs).  One *)
(* piece is followed for each variable: it starts as the domain, read back *)
(* from a file through the normaliser, and each set that splits it leaves  *)
(* either what lies in the set or what is left over.  A piece that holds   *)
(* no value is dropped, so it is never followed.                           *)
(***************************************************************************)
EXTENDS IntervalSet

CONSTANTS
    Vars,         \* the variables
    Loaded        \* what the domains are read back from: raw ranges, by variable

ASSUME LoadedAssumption ==
    Loaded \subseteq [Vars -> Seq((0 .. Top) \X (0 .. Top))]

VARIABLES
    regions,      \* the ranges each variable is in, by name
    domains,      \* the ranges each variable started in
    cuts          \* <<variable, set, side>> of each cut

partVars == <<regions, domains, cuts>>

PartInit ==
    /\ \E raw \in Loaded : domains = [v \in Vars |-> Normalize(raw[v])]
    /\ regions = domains
    /\ cuts = {}

(* One side of a set: what lies in it, or what is left.                    *)
Piece(region, set, side) ==
    IF side THEN Meet(region, set) ELSE Difference(region, set)

Cut(v, S, side) ==
    LET piece == Piece(regions[v], RangesOf(S), side)
    IN  /\ piece # Empty
        /\ regions' = [regions EXCEPT ![v] = piece]
        /\ cuts' = cuts \cup {<<v, S, side>>}
        /\ UNCHANGED domains

PartNext ==
    \E v \in Vars, S \in SUBSET (0 .. Top), side \in BOOLEAN : Cut(v, S, side)

PartSpec == PartInit /\ [][PartNext]_partVars

-----------------------------------------------------------------------------
(* The ranges stay in their one canonical form through every operation, so *)
(* comparing two sets by their ranges compares the sets (interval.rs:59).  *)
RegionsCanonical == \A v \in Vars : Canonical(regions[v])

(* A region holds exactly the values of its domain that lie on the side it *)
(* was given of every set that cut it: the pieces of a domain lose no      *)
(* value and no value is in two of them.                                   *)
RegionIsCut ==
    \A v \in Vars :
        Members(regions[v]) =
            {x \in Members(domains[v]) :
                \A cut \in cuts : cut[1] = v => (x \in cut[2]) = cut[3]}

(* Two regions are the same, one is inside the other, or they are apart,   *)
(* by what their ranges say exactly when it is so of their values          *)
(* (interval.rs:9-10): nothing that compares sets looks at the values.     *)
RangesTellValues ==
    \A v, w \in Vars :
        LET s == regions[v]
            t == regions[w]
        IN  /\ s = t <=> Members(s) = Members(t)
            /\ SubsetOf(s, t) <=> Members(s) \subseteq Members(t)
            /\ DisjointFrom(s, t) <=> Members(s) \cap Members(t) = {}
=============================================================================
