-------------------------- MODULE MCQueryPipeline --------------------------
(***************************************************************************)
(* Instances of QueryPipeline for TLC: two banking relations and a system   *)
(* one, a statement for each verdict of the validators and of the server.  *)
(***************************************************************************)
EXTENDS QueryPipeline

MCBanking == {"accounts", "customers"}
MCRelation == MCBanking \cup {"pg_class"}
MCStatement == {"report", "constant", "catalog", "unapproved", "mutation"}
MCReadOnly == MCStatement \ {"mutation"}
MCAnalytical == MCStatement \ {"unapproved"}
MCRefs ==
  [s \in MCStatement |->
     CASE s = "constant" -> {}
       [] s = "catalog"  -> {"pg_class"}
       [] s = "mutation" -> {"accounts"}
       [] OTHER          -> MCBanking]

MCStatementErrors == {"22012", "53200"}
=============================================================================
