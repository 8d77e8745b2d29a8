----------------------------- MODULE MCDispatch -----------------------------
(* Symmetry for the TLC runs of Dispatch: entries, dispatchers, users and   *)
(* sources are interchangeable.  The runs of liveness do not use it.        *)
EXTENDS Dispatch, TLC

Symmetry == Permutations(Entry) \cup Permutations(Dispatcher)
            \cup Permutations(User) \cup Permutations(Source)

\* Bound: only one of the channels attaches.
OneChannel ==
    \A p, q \in Channel : attaches[p] < MaxAttach /\ attaches[q] < MaxAttach => p = q

=============================================================================
