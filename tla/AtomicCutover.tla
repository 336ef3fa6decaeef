--------------------------- MODULE AtomicCutover ---------------------------
(***************************************************************************)
(* What a private cutover promises: the release that runs and the two saved *)
(* dumps change together or not at all.                                    *)
(***************************************************************************)
EXTENDS SavedState

VARIABLE host

Hosts == [release : Releases, primary : Files, backup : Files]

Init == host \in Hosts

Cutover(c) ==
  host' = [release |-> c,
           primary |-> Recomposed(host.primary, c),
           backup |-> Recomposed(host.primary, host.release)]

Next == \E c \in Releases : Cutover(c)

Spec == Init /\ [][Next]_host

=============================================================================
