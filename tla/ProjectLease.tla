---------------------------- MODULE ProjectLease ----------------------------
(***************************************************************************)
(* What DKCM promises about the GCP projects it takes from Boskos: each    *)
(* project goes through one life at a time.  It is leased, it carries at   *)
(* most one cluster, which is created, waits in the pool and is handed out,*)
(* and it goes back to Boskos only when no cluster is recorded for it.     *)
(* "leased" is a project that DKCM holds and that no cluster row records:  *)
(* on its way into the Clusters table, out of it, or lost.                 *)
(***************************************************************************)
CONSTANT Projects
VARIABLE life       \* life[p]: the stage that project p is in

Stages == {"free", "leased", "WIP", "Ready", "In Use", "dirty"}

Init == life = [p \in Projects |-> "free"]

Becomes(p, from, to) ==
    /\ life[p] = from
    /\ life' = [life EXCEPT ![p] = to]

Lease(p)   == Becomes(p, "free", "leased")
Record(p)  == Becomes(p, "leased", "WIP")
Finish(p)  == Becomes(p, "WIP", "Ready")
HandOut(p) == Becomes(p, "Ready", "In Use")
Forget(p)  == \E s \in {"WIP", "Ready", "In Use"} : Becomes(p, s, "leased")
Return(p)  == Becomes(p, "leased", "dirty")
Recycle(p) == Becomes(p, "dirty", "free")

Next ==
    \E p \in Projects :
        \/ Lease(p) \/ Record(p) \/ Finish(p) \/ HandOut(p) \/ Forget(p)
        \/ Return(p) \/ Recycle(p)

Spec == Init /\ [][Next]_life

=============================================================================
