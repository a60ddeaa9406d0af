----------------------------- MODULE MCOffsetPages -----------------------------
(***************************************************************************)
(* The instance of MCKafkaOffsetGetter, and beside it the field in which   *)
(* the owners of an alarm are entered.  Nothing relates them: a behaviour  *)
(* has the steps of one of the two.                                        *)
(***************************************************************************)
EXTENDS MCKafkaOffsetGetter, TokenField

VARIABLE part    \* "offsets" or "owners"

mcVars == <<vars, tokenVars, part>>

\* An address is typed; two are pasted, with a blank before them.
OneAddress == {<<"a">>}
TwoAddresses == {<<Blank, "a", "b">>}

MCInit ==
  /\ Init /\ TokenFieldInit
  /\ part \in {"offsets", "owners"}
  /\ part # "owners" => blursMoved

Offsets(A) == part = "offsets" /\ A /\ UNCHANGED <<tokenVars, part>>
OwnersStep == part = "owners" /\ TokenFieldNext /\ UNCHANGED <<vars, part>>

MCNext == Offsets(Next) \/ OwnersStep
MCSpec ==
  /\ MCInit /\ [][MCNext]_mcVars
  /\ WF_mcVars(Offsets(Subscribe)) /\ WF_mcVars(Offsets(Consume))

\* The commits of the part with the offsets get cached (CommitsGetCached).
CommitsAreCached == part = "offsets" => CommitsGetCached

=============================================================================
