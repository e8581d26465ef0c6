--------------------------- MODULE MCAnalysisDir ---------------------------
(* Two models, the first given directly and by a contract; the second has  *)
(* a control plant, and a certificate on it that the first has not.  The   *)
(* envelope of the second is that of its plant.                            *)
EXTENDS AnalysisDir

In(m, k) == [model |-> m, kind |-> k]

MCInputs == {In("m1", "model-only"), In("m1", "solidity"), In("m2", "model-only")}

MCWithPlant == {"m2"}

MCCertsOf == [in \in MCInputs |->
                IF in.model = "m1" THEN <<"reach-impl", "envelope">>
                ELSE <<"reach-impl", "reach-plant", "envelope">>]

MCOnPlant == [in \in MCInputs |->
                IF in.model \in MCWithPlant THEN {"reach-plant", "envelope"} ELSE {}]
=============================================================================
