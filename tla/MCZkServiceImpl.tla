--------------------------- MODULE MCZkServiceImpl ---------------------------
(***************************************************************************)
(* Instances of ZkServiceImpl, composed with calls of KafkaServiceImpl,    *)
(* for TLC.                                                                *)
(***************************************************************************)
EXTENDS ZkServiceImpl, TLC

\* The methods with a local client that share the plain pools with the fields
\* and whose exceptions skip the release; they differ in nothing else.
Commands == {lsCommand, deleteCommand}

\* Web services: their users may share an object.  Jobs: every user has one.
AllSharings == [Users -> Instances]

\* Users, objects and clusters are interchangeable.
Symmetry == Permutations(Users) \cup Permutations(Instances)
            \cup Permutations(Clusters)

=============================================================================
