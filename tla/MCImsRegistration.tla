-------------------------- MODULE MCImsRegistration --------------------------
(* Model values and event kinds for the runs of ImsRegistration. *)
EXTENDS ImsRegistration, TLC

NetworkSymmetry == Permutations(Networks)

AllKinds == {"network", "link", "suspend", "wfc", "register", "transport", "call", "alarm",
            "rat"}
=============================================================================
