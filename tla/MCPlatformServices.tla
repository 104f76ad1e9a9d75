--------------------------- MODULE MCPlatformServices ---------------------------
(* The instance for the run of PlatformServices. *)
EXTENDS PlatformServices, TLC

CONSTANTS g1, g2, g3, b1, b2, i1, i2, i3

\* Three fields, of which g3 has up to two rules and the others up to one, g1
\* may be required, and one of g1 and g2 may have a least value above zero.
MCFields == {g1, g2, g3}
MCRules  == {S \in SUBSET [field : MCFields, op : {"eq", "neq"}, value : {1}] :
               Cardinality(S) <= 2}
MCVisibility == {v \in [MCFields -> MCRules] :
                   \A f \in {g1, g2} : Cardinality(v[f]) <= 1}
MCMin    == {[f \in MCFields |-> IF f \in S THEN 1 ELSE 0] : S \in {{}, {g1}, {g2}}}
MCSchemas == [required : {{}, {g1}}, min : MCMin, visibility : MCVisibility,
              policy : {"strict_block", "warn_and_submit"}]

\* Two records of one facility, and one of the other.
MCPlaceOf == (i1 :> b1) @@ (i2 :> b1) @@ (i3 :> b2)

\* Two numbers, of which JavaScript makes one.
MCPayloads == {"1", "1.0"}
MCSqlText  == [p \in MCPayloads |-> p]
MCJsText   == [p \in MCPayloads |-> "1"]
=============================================================================
