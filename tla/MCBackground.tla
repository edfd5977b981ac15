---------------------------- MODULE MCBackground ----------------------------
(* Small instances for TLC of what runs beside the requests and asks other *)
(* systems: the outbox, which delivers to channels, and the balance        *)
(* checks, which read from upstreams.  They share no state; a behaviour is *)
(* one of either.                                                          *)
EXTENDS NotificationOutbox, BalanceDiscovery, TLC

CONSTANTS e1, e2, w1, w2

VARIABLE subject

(* The workers of the outbox lend their names to the checks.               *)
Symmetry ==
  {w @@ e : w \in Permutations({w1, w2}), e \in Permutations({e1, e2})}

(* The upstream that has all four APIs.                                    *)
AllSources == [kind |-> "sub2api", account |-> TRUE]

MCInit ==
  /\ Init /\ DiscoveryInit /\ source = AllSources
  /\ subject \in {"outbox", "balance"}

MCNext ==
  \/ subject = "outbox" /\ Next /\ UNCHANGED <<subject, discoveryVars>>
  \/ subject = "balance" /\ DiscoveryNext /\ UNCHANGED <<subject, vars>>

MCSpec == MCInit /\ [][MCNext]_<<subject, vars, discoveryVars>>
=============================================================================
