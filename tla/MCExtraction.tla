----------------------------- MODULE MCExtraction -----------------------------
(* One instance of each module of the fan-out and the extraction.  They share *)
(* no state: part says which of them a behaviour is about, and the others     *)
(* rest in a state of theirs from which nothing is owed.                      *)
EXTENDS FanOut, EntityClusters, GraphResolution, EntityQueries, HalvedCalls, GraphBatches,
        MentionFiles, TLC

CONSTANTS c1, c2, m1, m2, m3, m4, a1, a2, ea, b1, eb

IdentityTexts == (m1 :> 1) @@ (m2 :> 2) @@ (m3 :> 3) @@ (m4 :> 1)

SourceOfMention == (a1 :> "A") @@ (a2 :> "A") @@ (ea :> "A") @@ (b1 :> "B") @@ (eb :> "B")
TypeOfMention == (a1 :> "P") @@ (a2 :> "Q") @@ (b1 :> "P") @@ (ea :> "E") @@ (eb :> "F")
EdgeEnds == (ea :> <<a1, a2>>) @@ (eb :> <<b1, b1>>)

(* Paragraphs and words: 0 is white space, 5 the last character. *)
Paragraphs == {<<1, 2, 0, 0, 3, 4, 5, 6>>, <<1, 0, 2, 3, 0, 0, 4, 0, 5>>}

EdgeReferences == {<<0, 1>>, <<1, 0>>, <<0, 2>>, <<2, 2>>}
LegalPairs == {<<"x", "y">>, <<"x", "x">>}

IdsOfVersions == (1 :> <<"a">>) @@ (2 :> <<"b", "a">>)

VARIABLE part

fanVars == <<helper, call, task, cancelling, ended, result>>
restVars == <<clusterVars, graphVars, dated, calls, batchVars, fileVars>>

Parts == {"fan out", "clusters", "graph", "queries", "calls", "batches", "files"}

Resting(p, Fixed) == part # p => Fixed

ExtractionInit ==
  /\ part \in Parts
  /\ Init /\ Resting("fan out", helper = "stream")
  /\ ClustersInit
  /\ GraphInit /\ Resting("graph", inPlace /\ mentioned = {})
  /\ QueriesInit
  /\ IF part = "calls" THEN CallsInit
     ELSE calls = <<>> :> [NewCall(<<1>>) EXCEPT !.state = "answered"]
  /\ BatchesInit
  /\ FilesInit /\ Resting("files", \A s \in FileSources : versions[s] = 1)

Fan == part = "fan out"
Resolution == part = "graph"

ExtractionNext ==
  /\ \/ Fan /\ Next /\ UNCHANGED restVars
     \/ /\ part = "clusters" /\ ClustersNext
        /\ UNCHANGED <<fanVars, graphVars, dated, calls, batchVars, fileVars>>
     \/ /\ Resolution /\ GraphNext
        /\ UNCHANGED <<fanVars, clusterVars, dated, calls, batchVars, fileVars>>
     \/ /\ part = "queries" /\ QueriesNext
        /\ UNCHANGED <<fanVars, clusterVars, graphVars, calls, batchVars, fileVars>>
     \/ /\ part = "calls" /\ CallsNext
        /\ UNCHANGED <<fanVars, clusterVars, graphVars, dated, batchVars, fileVars>>
     \/ /\ part = "batches" /\ BatchesNext
        /\ UNCHANGED <<fanVars, clusterVars, graphVars, dated, calls, fileVars>>
     \/ /\ part = "files" /\ FilesNext
        /\ UNCHANGED <<fanVars, clusterVars, graphVars, dated, calls, batchVars>>
  /\ UNCHANGED part

(* The fairness of each module, in the behaviours that are about it. *)
ExtractionSpec ==
  /\ ExtractionInit /\ [][ExtractionNext]_<<fanVars, restVars, part>>
  /\ \A t \in Tasks : WF_fanVars(Fan /\ TaskStep(t) /\ UNCHANGED helper)
  /\ \A c \in Calls : WF_fanVars(Fan /\ CallStep(c) /\ UNCHANGED helper)
  /\ WF_graphVars(Resolution /\ (ResolveStep \/ DropStep))
=============================================================================
