----------------------------- MODULE MCServices -----------------------------
(***************************************************************************)
(* The parts of which only safety is asked - commands of the client and    *)
(* the requests they cause, application permissions, group records, texts, *)
(* the inspection of clusters, DNS names, the client's output, the         *)
(* multimap of the category caches and the catalogue - share no state.     *)
(* They are checked together: a behaviour is one of one part, which the    *)
(* initial state chooses, while the others stand still in one of their     *)
(* initial states.                                                         *)
(***************************************************************************)
EXTENDS Client, AppPermissions, GroupRecords, Texts, Inspection, Names, Output, Multimap, Catalogue

VARIABLE part     \* the part that moves

Parts == {"requests", "permissions", "groups", "texts", "inspection", "names", "output", "multimap",
          "catalogue"}
Chosen(p) == part = p

ServicesInit ==
  /\ part \in Parts
  /\ RequestInit /\ (~Chosen("requests") => command = "printVersion")
  /\ PermissionInit /\ NamesInit /\ OutputInit /\ MapInit /\ CatalogueInit
  /\ GroupInit /\ (~Chosen("groups") => \A g \in GroupIDs : nameOf[g] = Nameless)
  /\ InspectionInit
  /\ ~Chosen("inspection") => looking = "pods" /\ helm = 2 /\ service = ClusterService
  /\ IF Chosen("texts") THEN TextsInit
     ELSE sample = [kind |-> "bytes", raw |-> <<>>] /\ result = NotYet

(* Only the chosen part moves.                                             *)
Only(p) ==
  /\ Chosen(p) /\ UNCHANGED part
  /\ p # "requests" => UNCHANGED requestVars
  /\ p # "permissions" => UNCHANGED permVars
  /\ p # "groups" => UNCHANGED groupVars
  /\ p # "texts" => UNCHANGED textVars
  /\ p # "inspection" => UNCHANGED inspectionVars
  /\ p # "names" => UNCHANGED namesVars
  /\ p # "output" => UNCHANGED outputVars
  /\ p # "multimap" => UNCHANGED mapVars
  /\ p # "catalogue" => UNCHANGED catalogueVars

ServicesNext ==
  \/ Only("requests") /\ RequestNext
  \/ Only("permissions") /\ PermissionNext
  \/ Only("groups") /\ GroupNext
  \/ Only("texts") /\ TextsNext
  \/ Only("inspection") /\ InspectionNext
  \/ Only("names") /\ NamesNext
  \/ Only("output") /\ OutputNext
  \/ Only("multimap") /\ MapNext
  \/ Only("catalogue") /\ CatalogueNext

servicesVars == <<part, requestVars, permVars, groupVars, textVars, inspectionVars,
                  namesVars, outputVars, mapVars, catalogueVars>>

ServicesSpec == ServicesInit /\ [][ServicesNext]_servicesVars
=============================================================================
