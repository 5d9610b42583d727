---------------------------- MODULE MCFulfilment ----------------------------
(* The small instances of Fulfilment: the sets are given in the .cfg files. *)
EXTENDS FulfilmentProofs, FiniteSets, TLC

\* Identifiers and actors are interchangeable.  Only runs without temporal
\* properties over the symmetric sets, or with boxed actions only, use it.
Symmetry == Permutations(Requests) \cup Permutations(Visitors) \cup Permutations(LinkIds)
              \cup Permutations(OrderIds) \cup Permutations(Customers)
              \cup Permutations(Watchers) \cup Permutations(PreviewIds)

\* The merged instance: either one order with its commands, its link and its
\* downloads, or preview links with the orders placed from them.  The two halves
\* meet in the serial instance only.  Of the first half three are at work at
\* once: two writers and a reader, or a writer and two readers.
AtWork ==
    {c \in Customers : submission[c] # NoSubmission}
    \cup {r \in Requests : request[r] # NoRequest}
    \cup {v \in Visitors : visit[v] # NoVisit}

OneOrderApart ==
    /\ Cardinality(DOMAIN orders) <= 1
    /\ previews = NoRows
    /\ Cardinality({c \in Customers : submission[c] # NoSubmission}) <= 1
    /\ Cardinality(AtWork) <= 3

PreviewsApart ==
    /\ links = NoRows
    /\ \A r \in Requests : request[r] = NoRequest

ApartSpec == Init /\ [][Next /\ (OneOrderApart \/ PreviewsApart)']_vars
=============================================================================
