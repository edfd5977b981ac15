--------------------------- MODULE MCSharedState ----------------------------
(* Small instances for TLC of what requests share, count and add up: the   *)
(* health of an upstream, the resources of requests, their cost.  These    *)
(* have no state in common; a behaviour is one of the component that       *)
(* "subject" names.                                                        *)
EXTENDS UpstreamHealth, RequestAdmission, RequestCosts, TLC

CONSTANTS h1, h2, s1, s2

VARIABLE subject

Usage(input, cachedTokens, creation, uncached) ==
  [input |-> input, cached |-> cachedTokens, creation |-> creation, uncached |-> uncached]
MCRates == {[input |-> i, read |-> 1, write |-> 2] : i \in {1, 3}}
MCRequests ==
  {[protocol |-> "messages", usage |-> Usage(2, Nil, 1, 3)],
   [protocol |-> "chat", usage |-> Usage(3, 2, Nil, 1)],
   [protocol |-> "chat", usage |-> Usage(Nil, Nil, Nil, Nil)]}
(* Without a charge, with the old one at the lower rate, with a plain one. *)
MCLegacy ==
  {[at |-> 0, protocol |-> "messages", usage |-> Usage(2, Nil, 1, 3), cost |-> c,
    version |-> 1, counted |-> TRUE, gone |-> FALSE] : c \in {Nil, 5, 4}}
MCBudgets == {[saves |-> 2, logs |-> 0], [saves |-> 1, logs |-> 1]}

(* h1 and h2 score an upstream, or hold resources next to a third handler. *)
Symmetry ==
  {h @@ s : h \in Permutations({h1, h2}), s \in Permutations({s1, s2})}

mcVars == <<subject, healthVars, vars, costVars>>

(* The components that are not watched stay where they are.                *)
CostIdle == CostInit /\ log = <<>> /\ left.logs = 0

MCInit ==
  /\ HealthInit /\ Init
  /\ \/ subject \in {"health", "admission"} /\ CostIdle
     \/ subject = "costs" /\ CostInit

(* A 403 stands for the answers nobody scores.                             *)
MCNext ==
  \/ /\ subject = "health" /\ HealthNext /\ UNCHANGED <<subject, vars, costVars>>
     /\ \A p \in Markers : outcome'[p] # "retry"
  \/ subject = "admission" /\ Next /\ UNCHANGED <<subject, healthVars, costVars>>
  \/ subject = "costs" /\ CostNext /\ UNCHANGED <<subject, healthVars, vars>>

MCSpec == MCInit /\ [][MCNext]_mcVars
=============================================================================
