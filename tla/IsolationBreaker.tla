-------------------------- MODULE IsolationBreaker --------------------------
(***************************************************************************)
(* areas/isolation-breaker: the current isolation state of a scope is an    *)
(* index entry the last commit overwrites, whoever wrote it.  Also the      *)
(* other facts that change under a request's feet: time, and the bindings   *)
(* (posture, credentials, delegated authority, gateway registry) that later *)
(* modules refine and this one sees only as "evaluates ok" or not.          *)
(***************************************************************************)
EXTENDS KernelState

\* isolationStates.find / some in evaluateDeterministicPolicy
PolicyBlocking == {"quarantined", "halted", "revoked", "state_suspect"}

\* the longer list of gateRefusalReason
GateBlocking == PolicyBlocking \cup {"review_only"}

\* listIsolationStates(isolationScopeRefsForContract(contract)); an entry's
\* expiresAt is not consulted.
StatesFor(c) == {isolation[s] : s \in ScopesOf[c]}

GateBlocked(c) == StatesFor(c) \cap GateBlocking # {}

\* What policy may conclude from the states it listed: the FIRST blocking one
\* decides between halt and quarantine, and the list has no promised order.
PolicyVerdicts(c) ==
  LET blocking == StatesFor(c) \cap PolicyBlocking IN
  IF blocking # {} THEN {IF s = "halted" THEN "halt" ELSE "quarantine" : s \in blocking}
  ELSE IF "review_only" \in StatesFor(c) THEN {"review_required"}
  ELSE {"clear"}

SetIsolation(scope, state) ==
  /\ isolation' = [isolation EXCEPT ![scope] = state]
  /\ UNCHANGED <<requestVars, expired, bound, policyVars, ledger, gateVars, claim, lifecycleVars>>

\* createIsolationState: any state, "active" included, replaces the current one.
CreateIsolationState(scope, state) ==
  /\ isolation[scope] # state
  /\ SetIsolation(scope, state)

\* createBreakerDecision: a breaker may narrow, never set "active".
CreateBreakerDecision(scope, state) ==
  /\ state # "active"
  /\ isolation[scope] # state
  /\ SetIsolation(scope, state)

\* nowIso() passes contract.expiresAt.
Expire(c) ==
  /\ expired' = expired \cup {c}
  /\ c \notin expired
  /\ UNCHANGED <<requestVars, bound, isolation, policyVars, ledger, gateVars, claim, lifecycleVars>>

\* A posture, credential, delegation or gateway registry change makes the
\* bindings of c evaluate not-ok, or ok again.
ChangeBinding(c) ==
  /\ bound' = IF c \in bound THEN bound \ {c} ELSE bound \cup {c}
  /\ UNCHANGED <<requestVars, expired, isolation, policyVars, ledger, gateVars, claim, lifecycleVars>>
=============================================================================
