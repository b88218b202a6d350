----------------------------- MODULE DeskClaims -----------------------------
(***************************************************************************)
(* What the texts of the repository say of the desk and its code does not  *)
(* do, refuted by a run.                                                   *)
(***************************************************************************)
EXTENDS DeskProperties

\* findBestAssessor: "Prioridad 1: El que tenga menos tickets en curso"
\* (ticket.service.ts:882): no candidate has fewer tickets in process.
LeastBusyChosen ==
  [][\A s \in Slots :
       (req[s].op = "create.assign" /\ req'[s].op = "create.commit"
          /\ req'[s].pick # NoUser)
         => \A a \in Candidates :
              Cardinality(Processing(req'[s].pick)) <= Cardinality(Processing(a))]_vars
=============================================================================
