------------------------- MODULE MCSvcRegistration ---------------------------
(* SvcRegistration with interchangeable connections and objects. *)
EXTENDS SvcRegistration, TLC

RegistrationSymmetry == Permutations(Conn) \cup Permutations(Svc)
=============================================================================
