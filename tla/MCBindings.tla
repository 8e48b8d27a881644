------------------------------ MODULE MCBindings ------------------------------
(***************************************************************************)
(* One contract that requires a checked path, pins a credential and a       *)
(* delegated authority; everything it is bound to may be replaced, and two   *)
(* postures of its path may be drawn up at once.                            *)
(***************************************************************************)
EXTENDS Bindings, TLC

CONSTANTS c1, path, other, kind, cred, auth, q1, p1, p2

MCPathOf == [c \in Contracts |-> path]
MCPathRequired == Contracts

\* A probe of the path that expires within the run, and one of another path that
\* outlives it.
MCProbeInputs ==
  {[path |-> path, kind |-> kind, sound |-> TRUE, expires |-> 1],
   [path |-> other, kind |-> kind, sound |-> TRUE, expires |-> 2]}
MCPostureInputs ==
  {[path |-> path, sound |-> TRUE, owned |-> TRUE, expires |-> 2]}

Pinned(issue) == [id |-> cred, issue |-> issue, covers |-> Contracts, held |-> TRUE, expires |-> 2]
MCCredentialInputs == {Pinned(0), Pinned(1)}
MCCredentialOf == [c \in Contracts |-> Pinned(0)]

Granted(active) == [id |-> auth, issue |-> 0, covers |-> Contracts, active |-> active, expires |-> 2]
MCAuthorityInputs == {Granted(TRUE), Granted(FALSE)}
MCAuthorityOf == [c \in Contracts |-> Granted(TRUE)]

Entry(version, compatible) == [version |-> version, enforces |-> 0, compatible |-> compatible]
MCRegistryInputs == {Entry(1, {}), Entry(2, {}), Entry(3, {1})}
MCRegistryOf == [c \in Contracts |-> Entry(1, {})]

SamePostures == Permutations(Postures)
=============================================================================
