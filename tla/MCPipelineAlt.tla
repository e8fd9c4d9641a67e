----------------------------- MODULE MCPipelineAlt -----------------------------
(***************************************************************************)
(* The policies of one request, and the HTTP/3 tables that requests share, *)
(* side by side: in a behaviour one of them runs and the other is at rest. *)
(* They share no variable, so what holds of each holds of the program that *)
(* runs them together.                                                     *)
(***************************************************************************)
EXTENDS MCPipeline, AltSvc, TLC

VARIABLE part

\* Interchangeable requests.
TaskSymmetry == Permutations(Tasks)

SafetyInit ==
    /\ part \in {"policy", "altsvc"}
    /\ IF part = "policy" THEN Init
       ELSE Init /\ conf = (CHOOSE r \in Requests : TRUE) /\ ~others /\ jar = {}
    /\ IF part = "altsvc" THEN AltInit
       ELSE AltInit /\ policy = (CHOOSE p \in Policies : TRUE)

SafetyNext ==
    \/ part = "policy" /\ Next /\ UNCHANGED <<part, altVars>>
    \/ part = "altsvc" /\ AltNext /\ UNCHANGED <<part, vars>>

SafetySpec == SafetyInit /\ [][SafetyNext]_<<part, vars, altVars>>
=============================================================================
