----------------------------- MODULE WorkLedger -----------------------------
(***************************************************************************)
(* What the session controller promises its callers, without leases,       *)
(* receipts or files: generations of a work id are opened in increasing    *)
(* order, one at a time, never after one was accepted; a generation ends   *)
(* once and for good; the checkpoint chain only grows, by one checkpoint,  *)
(* when a live generation is accepted, and growing it ends every other     *)
(* live generation.                                                        *)
(***************************************************************************)
EXTENDS Naturals, Sequences

CONSTANTS WorkIds, Generation, Hashes, Chains

VARIABLES
    chain,      \* committed checkpoint hashes, oldest first
    live,       \* <<work id, generation>> pairs in progress
    ended,      \* pairs that are over, however they ended
    accepted    \* the ended pairs whose result was accepted

lvars == <<chain, live, ended, accepted>>

Init == chain = <<>> /\ live = {} /\ ended = {} /\ accepted = {}

Bind ==
    /\ chain = <<>> /\ chain' \in Chains
    /\ UNCHANGED <<live, ended, accepted>>

\* k may be opened once K, the generations of its work id that would still be
\* live, is empty.
Fresh(k, K) ==
    /\ \A x \in K : x[1] # k[1]
    /\ \A x \in ended \cup live : x[1] = k[1] => x[2] < k[2]
    /\ \A x \in accepted : x[1] # k[1]

Open(k) ==
    /\ chain # <<>> /\ Fresh(k, live)
    /\ live' = live \cup {k}
    /\ UNCHANGED <<chain, ended, accepted>>

Supersede(k, n) ==
    /\ k \in live /\ n[1] = k[1] /\ Fresh(n, live \ {k})
    /\ live' = (live \ {k}) \cup {n}
    /\ ended' = ended \cup {k}
    /\ UNCHANGED <<chain, accepted>>

Drop(K) ==
    /\ K # {} /\ K \subseteq live
    /\ live' = live \ K
    /\ ended' = ended \cup K
    /\ UNCHANGED <<chain, accepted>>

Accept(k) ==
    /\ k \in live
    /\ live' = live \ {k}
    /\ ended' = ended \cup {k}
    /\ accepted' = accepted \cup {k}
    /\ UNCHANGED chain

Promote(k, h) ==
    /\ k \in live
    /\ \A i \in 1..Len(chain) : chain[i] # h
    /\ chain' = Append(chain, h)
    /\ live' = {}
    /\ ended' = ended \cup live
    /\ accepted' = accepted \cup {k}

LNext ==
    \/ Bind
    \/ \E id \in WorkIds, g \in Generation : Open(<<id, g>>)
    \/ \E k \in live, g \in Generation : Supersede(k, <<k[1], g>>)
    \/ \E K \in SUBSET live : Drop(K)
    \/ \E k \in live : Accept(k)
    \/ \E k \in live, h \in Hashes : Promote(k, h)

Spec == Init /\ [][LNext]_lvars
=============================================================================
