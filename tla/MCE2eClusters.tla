--------------------------- MODULE MCE2eClusters ---------------------------
(* An instance of E2eClusters for TLC.                                      *)
EXTENDS E2eClusters

MCRegions == {"us-central1", "us-west1", "us-east1"}
MCJobName == [m \in Machines |-> "job"]
MCResourceName == [m \in Machines |-> "kinfra-e2e-cls"]
MCBackup == <<"us-west1">>

Plain == [project |-> "", name |-> "", region |-> "", backup |-> <<>>, zone |-> "",
          minNodes |-> 0, maxNodes |-> 0, version |-> "", channel |-> "",
          addons |-> TRUE, save |-> TRUE]
InProject == [Plain EXCEPT !.project = "mine"]

MCOthers == {[project |-> "mine", location |-> <<"us-central1">>, name |-> "kinfra-e2e-cls"]}

MCCommands ==
    [prow \in BOOLEAN |->
       IF prow
       THEN [cmd : {"create"}, req : {[Plain EXCEPT !.zone = "a"],
                [Plain EXCEPT !.channel = "rapid", !.version = "latest"]}]
            \cup [cmd : {"delete"}, req : {Plain}]
            \cup [cmd : {"kubetest2"}, req : {[Plain EXCEPT !.region = "us-west1"]}]
       ELSE [cmd : {"create"}, req : {InProject}]
            \cup [cmd : {"get", "delete"}, req : {Plain}]]

=============================================================================
