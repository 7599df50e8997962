----------------------------- MODULE MCInventory -----------------------------
(* CVM instances and the nodes of a cluster, pages of two.                   *)
EXTENDS Inventory, TLC

CONSTANTS a, b, c, d, k1, k2

MCIds    == {a, b, c, d}
MCClusters == {k1, k2}
MCShows  == (NoFilter :> {a, b, c, d, k1, k2}) @@ ("some" :> {a, c})
Filter0  == [s \in Sources |-> NoFilter]

Ask(sources, asked) ==
  [path |-> "a", sources |-> sources, regions |-> <<"gz">>, filters |-> Filter0,
   dedupe |-> TRUE, caching |-> TRUE, cache |-> asked]
Some(r) == [r EXCEPT !.filters["cvm"] = "some"]

CvmOnly == Ask(<<"cvm">>, TRUE)
Both    == Ask(<<"tke", "cvm", "cvm">>, TRUE)

MCScripts ==
  {<<CvmOnly, CvmOnly>>, <<CvmOnly, Some(CvmOnly)>>, <<Ask(<<"cvm">>, FALSE), CvmOnly>>,
   <<CvmOnly, Ask(<<"cvm">>, FALSE)>>, <<Both, Ask(<<"tke", "cvm">>, TRUE)>>,
   <<[Both EXCEPT !.dedupe = FALSE]>>, <<[CvmOnly EXCEPT !.regions = <<"gz", "sh">>]>>,
   <<Ask(<<"unknown">>, TRUE), Some(Ask(<<"tke">>, TRUE))>>}

World(cvm, clusters, nodes) ==
  [l \in Listing |->
     IF l.source = "cvm" THEN IF l.region = "gz" THEN cvm ELSE <<c>>
     ELSE IF l.region # "gz" THEN <<>>
     ELSE IF l.cluster = None THEN clusters
     ELSE IF l.cluster = k1 THEN nodes ELSE <<d>>]

MCWorlds == {World(<<>>, <<>>, <<>>), World(<<a, b>>, <<k1, k2>>, <<b, c>>),
             World(<<a, b, c, d>>, <<k1>>, <<a>>)}
MCApis   == [honours : BOOLEAN, counts : BOOLEAN, cap : {1, 2}]
=============================================================================
