---------------------------- MODULE MediaLifecycle ----------------------------
(***************************************************************************)
(* What deleting a client promises about its media, whatever happens in    *)
(* between: a client is revoked before it is deleted, it is deleted only   *)
(* in a moment when MediaMTX serves none of its paths, and from then on    *)
(* none of its paths comes back.                                           *)
(***************************************************************************)
CONSTANTS Cameras, Paths

VARIABLES
    phase,     \* "open", "revoked" or "deleted"
    served     \* the paths MediaMTX has configured for the camera

Phases == {"open", "revoked", "deleted"}

LifecycleTypeOK == /\ phase  \in [Cameras -> Phases]
                   /\ served \in [Cameras -> SUBSET Paths]

LifecycleInit == /\ phase  = [c \in Cameras |-> "open"]
                 /\ served = [c \in Cameras |-> {}]

Revoke(c) == /\ phase[c] = "open"
             /\ phase' = [phase EXCEPT ![c] = "revoked"]
             /\ UNCHANGED served

Delete(c) == /\ phase[c] = "revoked" /\ served[c] = {}
             /\ phase' = [phase EXCEPT ![c] = "deleted"]
             /\ UNCHANGED served

(* Until it is deleted, its paths are configured and removed freely.       *)
Configure(c) == /\ phase[c] # "deleted"
                /\ \E paths \in SUBSET Paths : served' = [served EXCEPT ![c] = paths]
                /\ UNCHANGED phase

LifecycleNext == \E c \in Cameras : Revoke(c) \/ Delete(c) \/ Configure(c)

LifecycleSpec == LifecycleInit /\ [][LifecycleNext]_<<phase, served>>

=============================================================================
