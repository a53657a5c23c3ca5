---------------------------- MODULE MCSchemaCache ---------------------------
(* A chart with two subcharts, the schema of one of which cannot be made, while *)
(* the chart's own cannot always be written: each subchart is related to its    *)
(* parent and the parent to both.  The other subchart's values change twice,    *)
(* and keep their checksum the first time; or those of the chart change too.    *)
EXTENDS SchemaCache
Family == [parent |-> {"sub", "faulty"}, sub |-> {"parent"}, faulty |-> {"parent"}]
SubChanges == [parent |-> <<5>>, sub |-> <<5, 5, 6>>, faulty |-> <<5>>]
BothChange == [SubChanges EXCEPT !["parent"] = <<5, 6>>]
=============================================================================
