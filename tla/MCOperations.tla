---------------------------- MODULE MCOperations ----------------------------
(***************************************************************************)
(* What the scheduled jobs and the operator's scripts keep beside the      *)
(* trading data: the strategy library, the records of a provider's         *)
(* requests, the shadow trades and the provider qualifications. They share *)
(* no row; a behaviour is one of one of them, while the others rest.       *)
(***************************************************************************)
EXTENDS StrategyRegistry, ProviderRecords, ShadowTrading, ProviderQualification

VARIABLE concern  \* which of the four moves

operationsVars == <<concern, registryVars, recordsVars, shadowVars, qualificationVars>>

OperationsInit ==
    /\ concern \in {"strategies", "records", "shadow", "qualification"}
    /\ RegistryInit /\ RecordsInit /\ ShadowInit /\ QualificationInit
    /\ concern # "records" => stored = {}
    /\ library["fodder"] = NoRow
    /\ concern # "strategies" => library["rebound"] = NoRow
    /\ concern # "qualification" => upstream = CHOOSE source \in Provenance : TRUE

OperationsNext ==
    /\ UNCHANGED concern
    /\ \/ /\ concern = "strategies" /\ RegistryNext
          /\ UNCHANGED <<recordsVars, shadowVars, qualificationVars>>
       \/ /\ concern = "records" /\ RecordsNext
          /\ UNCHANGED <<registryVars, shadowVars, qualificationVars>>
       \/ /\ concern = "shadow" /\ ShadowNext
          /\ UNCHANGED <<registryVars, recordsVars, qualificationVars>>
       \/ /\ concern = "qualification" /\ QualificationNext
          /\ UNCHANGED <<registryVars, recordsVars, shadowVars>>

OperationsSpec ==
    /\ OperationsInit /\ [][OperationsNext]_operationsVars
    /\ concern = "records" => RecordsFairness

-----------------------------------------------------------------------------
MCFile     == <<"rebound", "fodder">>
MCSlug     == <<"fodder", "rebound">>
MCKey      == <<"fodder", "rebound">>
MCQuality  == [e \in SeedSource |-> 70]
MCEditions == <<{"video"}, {"video", "guide", "thread", "rant"}>>
MCSamples  == {[n |-> 0, wins |-> 0, profit |-> 0],
               [n |-> 20, wins |-> 8, profit |-> -1],
               [n |-> 50, wins |-> 29, profit |-> 1]}

MCProvenance == {<<"futbin", "futbin", "ea">>, <<"unknown", "futbin", "ea">>}
MCQuoted ==
    {[stamped |-> TRUE, age |-> 290, error |-> 3, latency |-> 80, skewed |-> FALSE],
     [stamped |-> TRUE, age |-> 301, error |-> 0, latency |-> 120, skewed |-> FALSE],
     [stamped |-> FALSE, age |-> 0, error |-> 1, latency |-> 80, skewed |-> FALSE]}
MCDelays == {<<30, 310>>, <<200, 240>>}
=============================================================================
