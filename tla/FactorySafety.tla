---------------------------- MODULE FactorySafety ----------------------------
(***************************************************************************)
(* The safety theorems of the contract factory, from inductive invariants  *)
(* that hold of the ledger, and of the ledger a transaction has saved.     *)
(***************************************************************************)
EXTENDS FactoryProofs, SequenceTheorems

\* The entries of a log up to the last: those it had, and the one appended.
LEMMA AppendEntries ==
    ASSUME NEW S, NEW l \in Seq(S), NEW e
    PROVE  /\ Len(Append(l, e)) = Len(l) + 1
           /\ DOMAIN Append(l, e) = 1 .. Len(l) + 1
           /\ DOMAIN l = 1 .. Len(l) /\ Len(l) \in Nat
           /\ \A i \in DOMAIN l : Append(l, e)[i] = l[i]
           /\ Append(l, e)[Len(l) + 1] = e
OBVIOUS

-----------------------------------------------------------------------------
(* Frozen roles.                                                           *)

\* A transaction changes roles with its only step that does not commit.
AccessInv ==
    tx # NoTx => \/ /\ admin = tx.saved.admin
                    /\ pendingAdmin = tx.saved.pendingAdmin
                    /\ holders = tx.saved.holders
                    /\ roleAdmin = tx.saved.roleAdmin
                 \/ tx.phase = "calls" /\ tx.calls = <<>>

\* AccessInv is inductive.
LEMMA AccessInvStep == ASSUME TypeOK, AccessInv, [Next]_vars PROVE AccessInv'
<1>1. CASE Client \/ Begun
  <2>1. /\ admin' = Saved.admin /\ pendingAdmin' = Saved.pendingAdmin
        /\ holders' = Saved.holders /\ roleAdmin' = Saved.roleAdmin
    BY <1>1 DEF Client, Begun, Saved
  <2> QED BY <1>1, <2>1 DEF Client, Begun, AccessInv, Saved
<1>2. CASE Execute
  BY <1>2, ExecuteSteps
     DEF AccessInv, Reverted, Committed, Granting, Revoking, Administering, Deploying, Approving,
         Invoking, Goes, access, Saved
<1> QED BY <1>1, <1>2, StepKinds

\* Once there is no admin, nobody to accept its transfer and nobody who holds a
\* role that administers another, nobody is ever granted a role again, whatever was signed before or is signed
\* after: FrozenForEver, for every set of roles and addresses.
THEOREM RolesFrozenForEver == Spec => FrozenForEver
<1>1. Init => TypeOK /\ AccessInv
  BY InitType DEF Init, AccessInv
<1>2. TypeOK /\ AccessInv /\ [Next]_vars => (TypeOK /\ AccessInv)'
  BY StepKinds, AccessInvStep
<1>3. ASSUME TypeOK, AccessInv, [Next]_vars, Frozen
      PROVE  Frozen' /\ \A r \in Roles : holders'[r] \subseteq holders[r]
  <2>1. CASE UNCHANGED <<admin, pendingAdmin, holders, roleAdmin>>
    BY <1>3, <2>1 DEF Frozen
  <2>2. CASE Client \/ Begun
    BY <2>1, <2>2 DEF Client, Begun, Saved
  <2>3. CASE Execute
    <3>t. tx # NoTx /\ tx \in Tx /\ tx.order \in Requests
      BY <2>3, ExecuteInTx, <1>3 DEF Tx
    <3>1. CASE Reverted /\ (tx.phase = "calls" => tx.calls # <<>>)
      BY <1>3, <2>1, <3>1, <3>t DEF AccessInv, Reverted, Saved
    <3>2. CASE Committed \/ Approving
      BY <2>1, <3>2 DEF Committed, Approving, Saved
    <3>3. CASE Deploying \/ Invoking
      BY <2>1, <3>3 DEF Deploying, Invoking, access
    <3>4. ~Granting
      <4>1. tx.order.caller # admin
        BY <1>3, <3>t, RequestsAssumption, NoAddressAssumption
           DEF Frozen, Order, Deployment, RoleChange
      <4>2. \A r \in Roles : roleAdmin[r] # NoRole => ~HasRole(tx.order.caller, roleAdmin[r])
        BY <1>3 DEF Frozen, HasRole
      <4> QED BY <4>1, <4>2 DEF Granting, MayAdminister
    <3>5. ASSUME NEW account \in Addresses, Revoking(account)
          PROVE  Frozen' /\ \A r \in Roles : holders'[r] \subseteq holders[r]
      <4>1. /\ admin' = admin /\ pendingAdmin' = pendingAdmin /\ roleAdmin' = roleAdmin
            /\ \A r \in Roles : holders'[r] \subseteq holders[r]
        BY <1>3, <3>5 DEF Revoking, Revoke, TypeOK, AccessTypeOK
      <4> QED BY <1>3, <4>1 DEF Frozen, TypeOK, AccessTypeOK
    <3>6. ~Administering
      BY <1>3, <3>t, NoAddressAssumption, RequestsAssumption
         DEF Administering, Frozen, Order, Deployment, RoleChange
    <3> QED BY <1>3, <2>3, <3>1, <3>2, <3>3, <3>4, <3>5, <3>6, ExecuteSteps
  <2> QED BY <1>3, <2>2, <2>3, StepKinds
<1>4. TypeOK /\ AccessInv /\ [Next]_vars
      => [Frozen => Frozen' /\ \A r \in Roles : holders'[r] \subseteq holders[r]]_vars
  BY <1>3
<1> QED BY <1>1, <1>2, <1>4, PTL DEF Spec, FrozenForEver

-----------------------------------------------------------------------------
(* Deployments and the calls made after them.                              *)

\* What an entry of the log, or a call, tells of the order it is about, when the contracts
\* of the ledger are c, the orders os and their endorsements es.
Tells(e, c, os, es) ==
    e.what \in {"deployed", "called"} =>
        LET order == os[e.nonce]
        IN  /\ order \in Requests \cap Deployment
            /\ c[order.salt] = order.build
            /\ e.what = "deployed" => e.salt = order.salt
            /\ e.what = "called" => OwnerOf[order.build] \in es[e.nonce]

Traced(l, c, os, es) == \A i \in DOMAIN l : Tells(l[i], c, os, es)

\* The transaction carries an order as it was signed, and from the deployment on
\* it stands on what that order asked for.
TraceInv ==
    /\ Traced(log, contracts, orders, endorsed)
    /\ Traced(called, contracts, orders, endorsed)
    /\ tx # NoTx =>
          /\ Traced(tx.saved.log, tx.saved.contracts, orders, endorsed)
          /\ Traced(tx.saved.called, tx.saved.contracts, orders, endorsed)
          /\ tx.nonce # NoNonce => orders[tx.nonce] = tx.order
          /\ \/ tx.phase = "factory"
             \/ tx.phase = "calls" /\ tx.calls = <<>>
             \/ /\ tx.order \in Deployment
                /\ contracts[tx.order.salt] = tx.order.build
                /\ tx.phase = "calls" => OwnerOf[tx.order.build] \in endorsed[tx.nonce]

\* An entry is added to a log that tells as much as it does.
LEMMA TracedAppend ==
    ASSUME NEW S, NEW l \in Seq(S), NEW e, NEW c, NEW os, NEW es,
           Traced(l, c, os, es), Tells(e, c, os, es)
    PROVE  Traced(Append(l, e), c, os, es)
<1>1. \A i \in 1 .. Len(l) : Tells(Append(l, e)[i], c, os, es)
  BY AppendEntries DEF Traced
<1>2. Tells(Append(l, e)[Len(l) + 1], c, os, es)
  BY AppendEntries
<1> QED BY <1>1, <1>2, AppendEntries DEF Traced

\* A contract deployed at a free address changes nothing of what the log tells.
LEMMA TracedDeploy ==
    ASSUME NEW l, NEW c \in [Salts -> Builds \cup {NoContract}], NEW os, NEW es,
           Traced(l, c, os, es), NEW salt \in Salts, NEW build \in Builds, c[salt] = NoContract
    PROVE  Traced(l, [c EXCEPT ![salt] = build], os, es)
<1> SUFFICES ASSUME NEW i \in DOMAIN l, l[i].what \in {"deployed", "called"}
             PROVE  Tells(l[i], [c EXCEPT ![salt] = build], os, es)
  BY DEF Traced, Tells
<1> DEFINE order == os[l[i].nonce]
<1>1. Tells(l[i], c, os, es)
  BY DEF Traced
<1>2. order.salt \in Salts /\ order.build \in Builds /\ c[order.salt] = order.build
  BY <1>1 DEF Tells, Deployment
<1>3. order.salt # salt
  BY <1>2, BuildsAssumption
<1>4. [c EXCEPT ![salt] = build][order.salt] = order.build
  BY <1>2, <1>3
<1> QED BY <1>1, <1>4 DEF Tells

\* The log tells as much after callers and owners have signed more.
LEMMA TracedClient ==
    ASSUME Client, NEW l \in Seq(Entry) \cup Seq(Call), NEW c, Traced(l, c, orders, endorsed)
    PROVE  Traced(l, c, orders', endorsed')
<1> SUFFICES ASSUME NEW i \in DOMAIN l, l[i].what \in {"deployed", "called"}
             PROVE  Tells(l[i], c, orders', endorsed')
  BY DEF Traced, Tells
<1>1. l[i] \in Entry \/ l[i] \in Call
  OBVIOUS
<1>2. l[i].nonce \in Nonces
  BY <1>1 DEF Entry, Call
<1>3. Tells(l[i], c, orders, endorsed)
  BY DEF Traced
<1>4. orders[l[i].nonce] # NoOrder
  BY <1>3, NoOrderAssumption DEF Tells
<1>5. orders'[l[i].nonce] = orders[l[i].nonce] /\ endorsed[l[i].nonce] \subseteq endorsed'[l[i].nonce]
  BY <1>2, <1>4 DEF Client
<1> QED BY <1>3, <1>5 DEF Tells

\* TraceInv is inductive.
LEMMA TraceInvStep == ASSUME TypeOK, TraceInv, [Next]_vars PROVE TraceInv'
<1>l. log \in Seq(Entry) /\ called \in Seq(Call) /\ contracts \in [Salts -> Builds \cup {NoContract}]
  BY DEF TypeOK
<1>s. ASSUME Saved' = Saved PROVE log' = log /\ called' = called /\ contracts' = contracts
  BY <1>s DEF Saved
<1>1. CASE Client
  <2>1. /\ Traced(log, contracts, orders', endorsed')
        /\ Traced(called, contracts, orders', endorsed')
    BY <1>1, <1>l, TracedClient DEF TraceInv
  <2>2. log' = log /\ called' = called /\ contracts' = contracts /\ tx' = tx
    BY <1>1, <1>s DEF Client
  <2>3. CASE tx = NoTx
    BY <2>1, <2>2, <2>3 DEF TraceInv
  <2>4. CASE tx # NoTx
    <3>1. tx \in Tx /\ tx.saved.log \in Seq(Entry) /\ tx.saved.called \in Seq(Call)
      BY <2>4 DEF TypeOK, Tx, LedgerState
    <3>2. /\ Traced(tx.saved.log, tx.saved.contracts, orders', endorsed')
          /\ Traced(tx.saved.called, tx.saved.contracts, orders', endorsed')
      BY <1>1, <2>4, <3>1, TracedClient DEF TraceInv
    <3>3. tx.nonce # NoNonce => orders'[tx.nonce] = tx.order
      BY <1>1, <2>4, <3>1, NoOrderAssumption DEF TraceInv, Client, Tx
    <3>4. tx.phase # "factory" => endorsed[tx.nonce] \subseteq endorsed'[tx.nonce]
      BY <1>1, <2>4 DEF TypeOK, Client
    <3> QED BY <2>1, <2>2, <2>4, <3>2, <3>3, <3>4 DEF TraceInv
  <2> QED BY <2>3, <2>4
<1>2. CASE Begun
  <2>1. log' = log /\ called' = called /\ contracts' = contracts
    BY <1>2, <1>s DEF Begun
  <2> QED BY <1>2, <2>1 DEF Begun, TraceInv, Saved
<1>3. CASE Execute
  <2>t. tx # NoTx /\ tx \in Tx
    BY <1>3, ExecuteInTx
  <2>1. CASE Reverted
    <3>1. log' = tx.saved.log /\ called' = tx.saved.called /\ contracts' = tx.saved.contracts
      BY <2>1 DEF Reverted, Saved
    <3> QED BY <2>t, <2>1, <3>1 DEF Reverted, TraceInv
  <2>2. CASE Committed
    BY <1>s, <2>2 DEF Committed, TraceInv
  <2>3. ASSUME NEW account \in Addresses, Granting \/ Administering \/ Revoking(account)
        PROVE  TraceInv'
    <3>1. Goes("calls", <<>>) /\ UNCHANGED <<contracts, called>>
      BY <2>3 DEF Granting, Administering, Revoking
    <3>2. \/ log' = log
          \/ \E e : log' = Append(log, e) /\ e.what \in {"granted", "revoked"}
      BY <2>3 DEF Granting, Administering, Revoking
    <3>3. Traced(log', contracts, orders, endorsed)
      BY <1>l, <3>2, TracedAppend DEF TraceInv, Tells
    <3> QED BY <2>t, <3>1, <3>3 DEF Goes, TraceInv
  <2>4. CASE Deploying
    <3>1. /\ tx.order \in Deployment /\ tx.nonce \in Nonces /\ tx.nonce # NoNonce
          /\ contracts[tx.order.salt] = NoContract
          /\ contracts' = [contracts EXCEPT ![tx.order.salt] = tx.order.build]
          /\ log' = Append(log, [what |-> "deployed", nonce |-> tx.nonce, salt |-> tx.order.salt])
          /\ Goes("account", tx.order.calls) \/ Goes("calls", <<>>)
          /\ UNCHANGED called
      BY <2>4, NoNonceAssumption DEF Deploying, Settling
    <3>2. tx.order.salt \in Salts /\ tx.order.build \in Builds /\ tx.order \in Requests
      BY <2>t, <3>1 DEF Deployment, Tx
    <3>3. /\ Traced(log, contracts', orders, endorsed)
          /\ Traced(called, contracts', orders, endorsed)
          /\ contracts'[tx.order.salt] = tx.order.build
      BY <1>l, <3>1, <3>2, TracedDeploy DEF TraceInv
    <3>4. orders[tx.nonce] = tx.order
      BY <2>t, <3>1 DEF TraceInv
    <3> DEFINE e == [what |-> "deployed", nonce |-> tx.nonce, salt |-> tx.order.salt]
    <3>5. Tells(e, contracts', orders, endorsed)
      BY <3>1, <3>2, <3>3, <3>4 DEF Tells
    <3>6. Traced(log', contracts', orders, endorsed)
      BY <1>l, <3>1, <3>3, <3>5, TracedAppend
    <3> QED BY <2>t, <3>1, <3>3, <3>6 DEF Goes, TraceInv
  <2>5. CASE Approving
    <3>1. UNCHANGED <<log, called, contracts>> /\ Goes("calls", tx.calls) /\ tx.phase = "account"
      BY <1>s, <2>5 DEF Approving
    <3> QED BY <2>t, <2>5, <3>1 DEF Approving, Goes, TraceInv
  <2>6. CASE Invoking
    <3>1. /\ tx.phase = "calls" /\ tx.calls # <<>> /\ Goes("calls", Tail(tx.calls))
          /\ UNCHANGED <<contracts, log>>
          /\ called' = Append(called, [what |-> "called", nonce |-> tx.nonce, target |-> Head(tx.calls)])
      BY <2>6 DEF Invoking, RecordCall
    <3>2. /\ tx.nonce \in Nonces /\ tx.nonce # NoNonce /\ tx.order \in Requests
          /\ tx.order \in Deployment /\ contracts[tx.order.salt] = tx.order.build
          /\ OwnerOf[tx.order.build] \in endorsed[tx.nonce] /\ orders[tx.nonce] = tx.order
      BY <2>t, <3>1, NoNonceAssumption DEF TypeOK, TraceInv, Tx
    <3> DEFINE e == [what |-> "called", nonce |-> tx.nonce, target |-> Head(tx.calls)]
    <3>3. Tells(e, contracts, orders, endorsed)
      BY <3>2 DEF Tells
    <3>4. Traced(called', contracts', orders', endorsed')
      BY <1>l, <3>1, <3>3, TracedAppend DEF TraceInv, Goes
    <3>5. /\ tx'.saved = tx.saved /\ tx'.nonce = tx.nonce /\ tx'.order = tx.order
          /\ UNCHANGED <<log, contracts, orders, endorsed>>
      BY <3>1 DEF Goes
    <3> QED BY <2>t, <3>2, <3>4, <3>5 DEF TraceInv
  <2> QED BY <1>3, <2>1, <2>2, <2>3, <2>4, <2>5, <2>6, ExecuteSteps, RolesAssumption
<1> QED BY <1>1, <1>2, <1>3, StepKinds

\* TraceInv holds of every behaviour.
LEMMA Trace == Spec => []TraceInv
<1>1. Init => TypeOK /\ TraceInv
  <2>1. ASSUME Init
        PROVE  Traced(log, contracts, orders, endorsed) /\ Traced(called, contracts, orders, endorsed)
    BY <2>1 DEF Init, Traced, Tells
  <2> QED BY <2>1, InitType DEF Init, TraceInv
<1>2. TypeOK /\ TraceInv /\ [Next]_vars => (TypeOK /\ TraceInv)'
  BY StepKinds, TraceInvStep
<1> QED BY <1>1, <1>2, PTL DEF Spec

\* What an order deployed stays at the address of its salt for ever, whoever else
\* ordered something for that salt, before or after.
THEOREM AddressesKept == Spec => []DeployedAsOrdered
<1>1. TraceInv => DeployedAsOrdered
  BY DEF TraceInv, Traced, Tells, DeployedAsOrdered
<1> QED BY <1>1, Trace, PTL

\* No call is ever made after a deployment that the owner of the deployed account
\* has not endorsed.
THEOREM CallsAreEndorsed == Spec => []CallsEndorsed
<1>1. TypeOK /\ TraceInv => CallsEndorsed
  <2> SUFFICES ASSUME TypeOK, TraceInv, NEW i \in DOMAIN called
               PROVE  LET n == called[i].nonce
                      IN  OwnerOf[contracts[orders[n].salt]] \in endorsed[n]
    BY DEF CallsEndorsed
  <2>1. called[i].what = "called" /\ Tells(called[i], contracts, orders, endorsed)
    <3>1. called[i] \in Call
      BY DEF TypeOK
    <3> QED BY <3>1 DEF TraceInv, Traced, Call
  <2> QED BY <2>1 DEF Tells
<1> QED BY <1>1, Trace, FactoryTypeCorrect, PTL

-----------------------------------------------------------------------------
(* Deployers.                                                              *)

\* What the log says of roles up to an entry does not depend on what follows.
LEMMA HeldBefore ==
    ASSUME NEW l \in Seq(Entry), NEW e, NEW a, NEW r, NEW i \in 1 .. Len(l) + 1
    PROVE  Held(Append(l, e), a, r, i) <=> Held(l, a, r, i)
<1>1. \A j \in 1 .. i - 1 : Append(l, e)[j] = l[j]
  BY AppendEntries
<1>2. \A j \in 1 .. i - 1 : \A k \in j + 1 .. i - 1 : k \in 1 .. i - 1
  OBVIOUS
<1> QED BY <1>1, <1>2 DEF Held

\* The last entry decides about the role it concerns, and about no other.
LEMMA HeldAfter ==
    ASSUME NEW l \in Seq(Entry), NEW e, NEW a, NEW r
    PROVE  /\ Concerns(e, a, r) =>
                  (Held(Append(l, e), a, r, Len(l) + 2) <=> e.what = "granted")
           /\ ~Concerns(e, a, r) =>
                  (Held(Append(l, e), a, r, Len(l) + 2) <=> Held(l, a, r, Len(l) + 1))
<1> DEFINE m == Append(l, e)
           n == Len(l) + 1
<1>1. /\ n \in Nat /\ n >= 1 /\ m[n] = e /\ n = Len(l) + 2 - 1
      /\ \A j \in 1 .. n - 1 : m[j] = l[j]
  BY AppendEntries
<1> HIDE DEF m, n
<1>2. Held(m, a, r, Len(l) + 2) <=>
          \E j \in 1 .. n : /\ Concerns(m[j], a, r) /\ m[j].what = "granted"
                            /\ \A k \in j + 1 .. n : ~Concerns(m[k], a, r)
  BY <1>1 DEF Held
<1>3. Held(l, a, r, Len(l) + 1) <=>
          \E j \in 1 .. n - 1 : /\ Concerns(m[j], a, r) /\ m[j].what = "granted"
                                /\ \A k \in j + 1 .. n - 1 : ~Concerns(m[k], a, r)
  <2>1. \A j \in 1 .. n - 1 : \A k \in j + 1 .. n - 1 : m[j] = l[j] /\ m[k] = l[k]
    BY <1>1
  <2> QED BY <1>1, <2>1 DEF Held, n
<1>4. ASSUME Concerns(e, a, r)
      PROVE  Held(m, a, r, Len(l) + 2) <=> e.what = "granted"
  <2>1. \A j \in 1 .. n : (\A k \in j + 1 .. n : ~Concerns(m[k], a, r)) => j = n
    BY <1>1, <1>4
  <2>2. n \in 1 .. n /\ \A k \in n + 1 .. n : ~Concerns(m[k], a, r)
    BY <1>1
  <2>3. Held(m, a, r, Len(l) + 2) => e.what = "granted"
    <3> SUFFICES ASSUME Held(m, a, r, Len(l) + 2) PROVE e.what = "granted"
      OBVIOUS
    <3>1. PICK j \in 1 .. n : /\ m[j].what = "granted"
                              /\ \A k \in j + 1 .. n : ~Concerns(m[k], a, r)
      BY <1>2
    <3>2. j = n
      BY <2>1, <3>1
    <3> QED BY <1>1, <3>1, <3>2
  <2>4. e.what = "granted" => Held(m, a, r, Len(l) + 2)
    <3>1. Concerns(m[n], a, r) /\ m[n] = e
      BY <1>1, <1>4
    <3> QED BY <1>2, <2>2, <3>1
  <2> QED BY <2>3, <2>4
<1>5. ASSUME ~Concerns(e, a, r)
      PROVE  Held(m, a, r, Len(l) + 2) <=> Held(l, a, r, Len(l) + 1)
  <2>1. \A j \in 1 .. n : Concerns(m[j], a, r) => j \in 1 .. n - 1
    BY <1>1, <1>5
  <2>2. \A j \in 1 .. n - 1 : (\A k \in j + 1 .. n : ~Concerns(m[k], a, r))
                              <=> (\A k \in j + 1 .. n - 1 : ~Concerns(m[k], a, r))
    BY <1>1, <1>5
  <2>3. 1 .. n - 1 \subseteq 1 .. n
    BY <1>1
  <2>4. Held(m, a, r, Len(l) + 2) => Held(l, a, r, Len(l) + 1)
    <3> SUFFICES ASSUME Held(m, a, r, Len(l) + 2) PROVE Held(l, a, r, Len(l) + 1)
      OBVIOUS
    <3>1. PICK j \in 1 .. n : /\ Concerns(m[j], a, r) /\ m[j].what = "granted"
                              /\ \A k \in j + 1 .. n : ~Concerns(m[k], a, r)
      BY <1>2
    <3>2. j \in 1 .. n - 1 /\ \A k \in j + 1 .. n - 1 : ~Concerns(m[k], a, r)
      BY <2>1, <2>2, <3>1
    <3> QED BY <1>3, <3>1, <3>2
  <2>5. Held(l, a, r, Len(l) + 1) => Held(m, a, r, Len(l) + 2)
    <3> SUFFICES ASSUME Held(l, a, r, Len(l) + 1) PROVE Held(m, a, r, Len(l) + 2)
      OBVIOUS
    <3>1. PICK j \in 1 .. n - 1 : /\ Concerns(m[j], a, r) /\ m[j].what = "granted"
                                  /\ \A k \in j + 1 .. n - 1 : ~Concerns(m[k], a, r)
      BY <1>3
    <3>2. j \in 1 .. n /\ \A k \in j + 1 .. n : ~Concerns(m[k], a, r)
      BY <2>2, <2>3, <3>1
    <3> QED BY <1>2, <3>1, <3>2
  <2> QED BY <2>4, <2>5
<1> QED BY <1>4, <1>5 DEF m

\* The log l accounts for the roles h, and for every deployment in it.
Accounts(l, h, os) ==
    /\ \A a \in Addresses, r \in Roles : a \in h[r] <=> Held(l, a, r, Len(l) + 1)
    /\ \A i \in DOMAIN l : l[i].what = "deployed" => Held(l, os[l[i].nonce].caller, Deployer, i)

\* An entry that changes the roles as the ledger does, about no deployment that
\* is not a deployer's.
LEMMA AccountsAppend ==
    ASSUME NEW l \in Seq(Entry), NEW h, NEW g, NEW os, NEW e, Accounts(l, h, os),
           \A a \in Addresses, r \in Roles :
               a \in g[r] <=> IF Concerns(e, a, r) THEN e.what = "granted" ELSE a \in h[r],
           e.what = "deployed" => Held(l, os[e.nonce].caller, Deployer, Len(l) + 1)
    PROVE  Accounts(Append(l, e), g, os)
<1>1. Len(Append(l, e)) + 1 = Len(l) + 2
  BY AppendEntries
<1>2. \A a \in Addresses, r \in Roles : a \in g[r] <=> Held(Append(l, e), a, r, Len(l) + 2)
  BY HeldAfter DEF Accounts
<1>3. ASSUME NEW i \in 1 .. Len(l) + 1, Append(l, e)[i].what = "deployed"
      PROVE  Held(Append(l, e), os[Append(l, e)[i].nonce].caller, Deployer, i)
  <2>1. CASE i \in DOMAIN l
    <3>1. Held(l, os[l[i].nonce].caller, Deployer, i) /\ Append(l, e)[i] = l[i]
      BY <1>3, <2>1, AppendEntries DEF Accounts
    <3> QED BY <3>1, HeldBefore
  <2>2. CASE i = Len(l) + 1
    <3>1. Append(l, e)[i] = e
      BY <2>2, AppendEntries
    <3>2. Held(l, os[e.nonce].caller, Deployer, i)
      BY <1>3, <2>2, <3>1
    <3> QED BY <3>1, <3>2, HeldBefore
  <2> QED BY <2>1, <2>2, AppendEntries
<1> QED BY <1>1, <1>2, <1>3, AppendEntries DEF Accounts

\* Orders signed since do not change what the log accounts for.
LEMMA AccountsClient ==
    ASSUME Client, NEW l \in Seq(Entry), NEW h, NEW c,
           Traced(l, c, orders, endorsed), Accounts(l, h, orders)
    PROVE  Accounts(l, h, orders')
<1>1. ASSUME NEW i \in DOMAIN l, l[i].what = "deployed"
      PROVE  orders'[l[i].nonce] = orders[l[i].nonce]
  <2>1. l[i] \in Entry
    OBVIOUS
  <2>2. l[i].nonce \in Nonces
    BY <1>1, <2>1 DEF Entry
  <2>3. orders[l[i].nonce] # NoOrder
    BY <1>1, NoOrderAssumption DEF Traced, Tells
  <2> QED BY <2>2, <2>3 DEF Client
<1> QED BY <1>1 DEF Accounts

\* The log accounts for the roles, and the saved log for the saved roles.
DeployersInv ==
    /\ Accounts(log, holders, orders)
    /\ tx # NoTx => Accounts(tx.saved.log, tx.saved.holders, orders)

\* DeployersInv is inductive.
LEMMA DeployersInvStep ==
    ASSUME TypeOK, TraceInv, DeployersInv, [Next]_vars
    PROVE  DeployersInv'
<1>l. log \in Seq(Entry) /\ holders \in [Roles -> SUBSET Addresses]
  BY DEF TypeOK, AccessTypeOK
<1>1. CASE Client
  <2>1. log' = log /\ holders' = holders /\ tx' = tx
    BY <1>1 DEF Client, Saved
  <2>2. Accounts(log, holders, orders')
    BY <1>1, <1>l, AccountsClient DEF TraceInv, DeployersInv
  <2>3. ASSUME tx # NoTx PROVE Accounts(tx.saved.log, tx.saved.holders, orders')
    <3>1. tx.saved.log \in Seq(Entry)
      BY <2>3 DEF TypeOK, Tx, LedgerState
    <3> QED BY <1>1, <2>3, <3>1, AccountsClient DEF TraceInv, DeployersInv
  <2> QED BY <2>1, <2>2, <2>3 DEF DeployersInv
<1>2. CASE Begun
  <2>1. log' = log /\ holders' = holders /\ tx'.saved.log = log /\ tx'.saved.holders = holders
    BY <1>2 DEF Begun, Saved
  <2> QED BY <1>2, <2>1 DEF Begun, DeployersInv
<1>3. CASE Execute
  <2>t. tx # NoTx /\ tx \in Tx
    BY <1>3, ExecuteInTx
  <2>g. ASSUME NEW phase, NEW calls, Goes(phase, calls), Accounts(log', holders', orders)
        PROVE  DeployersInv'
    BY <2>g, <2>t DEF Goes, DeployersInv
  <2>1. CASE Reverted
    <3>1. log' = tx.saved.log /\ holders' = tx.saved.holders
      BY <2>1 DEF Reverted, Saved
    <3> QED BY <2>t, <2>1, <3>1 DEF Reverted, DeployersInv
  <2>2. CASE Committed
    BY <2>2 DEF Committed, DeployersInv, Saved
  <2>3. CASE Granting
    <3> DEFINE a == tx.order.account
               r == tx.order.role
               e == [what |-> "granted", account |-> a, role |-> r]
    <3>1. /\ Goes("calls", <<>>) /\ a \in Addresses /\ r \in Roles
          /\ holders' = [holders EXCEPT ![r] = @ \cup {a}]
          /\ IF a \in holders[r] THEN log' = log ELSE log' = Append(log, e)
      BY <2>3 DEF Granting, Grant, HasRole
    <3>2. CASE a \in holders[r]
      <4>1. holders' = holders
        BY <1>l, <3>1, <3>2
      <4> QED BY <2>g, <3>1, <3>2, <4>1 DEF DeployersInv
    <3>3. CASE a \notin holders[r]
      <4>1. \A b \in Addresses, s \in Roles :
                b \in holders'[s] <=> IF Concerns(e, b, s) THEN e.what = "granted"
                                      ELSE b \in holders[s]
        BY <1>l, <3>1 DEF Concerns
      <4>2. e.what # "deployed"
        OBVIOUS
      <4>3. log' = Append(log, e) /\ Goes("calls", <<>>) /\ Accounts(log, holders, orders)
        BY <3>1, <3>3 DEF DeployersInv
      <4> HIDE DEF e, a, r
      <4>4. Accounts(log', holders', orders)
        BY <1>l, <4>1, <4>2, <4>3, AccountsAppend
      <4> QED BY <2>g, <4>3, <4>4
    <3> QED BY <3>2, <3>3
  <2>4. ASSUME NEW a \in Addresses, Revoking(a) PROVE DeployersInv'
    <3> DEFINE r == tx.order.role
               e == [what |-> "revoked", account |-> a, role |-> r]
    <3>1. /\ Goes("calls", <<>>) /\ r \in Roles
          /\ holders' = [holders EXCEPT ![r] = @ \ {a}] /\ log' = Append(log, e)
      BY <2>4 DEF Revoking, Revoke
    <3>2. \A b \in Addresses, s \in Roles :
              b \in holders'[s] <=> IF Concerns(e, b, s) THEN e.what = "granted"
                                    ELSE b \in holders[s]
      BY <1>l, <3>1 DEF Concerns
    <3>3. e.what # "deployed"
      OBVIOUS
    <3> HIDE DEF e
    <3> QED BY <1>l, <2>g, <3>1, <3>2, <3>3, AccountsAppend DEF DeployersInv
  <2>5. CASE Administering
    BY <2>5, <2>g DEF Administering, DeployersInv
  <2>6. CASE Deploying
    <3> DEFINE e == [what |-> "deployed", nonce |-> tx.nonce, salt |-> tx.order.salt]
    <3>1. /\ Goes("account", tx.order.calls) \/ Goes("calls", <<>>)
          /\ holders' = holders /\ log' = Append(log, e)
          /\ tx.order \in Deployment /\ tx.nonce \in Nonces
          /\ tx.order.caller \in holders[Deployer]
      BY <2>6 DEF Deploying, Settling, access, HasRole
    <3>2. orders[tx.nonce] = tx.order
      BY <2>t, <3>1, NoNonceAssumption DEF TraceInv
    <3>3. Held(log, orders[tx.nonce].caller, Deployer, Len(log) + 1)
      BY <3>1, <3>2, RolesAssumption DEF DeployersInv, Accounts, Deployment
    <3>4. \A b \in Addresses, s \in Roles : ~Concerns(e, b, s)
      BY DEF Concerns
    <3>5. e.nonce = tx.nonce
      OBVIOUS
    <3> HIDE DEF e
    <3>6. Accounts(log', holders', orders)
      BY <1>l, <3>1, <3>3, <3>4, <3>5, AccountsAppend DEF DeployersInv
    <3> QED BY <2>g, <3>1, <3>6
  <2>7. CASE Approving
    BY <2>7, <2>g DEF Approving, DeployersInv, Saved
  <2>8. CASE Invoking
    BY <2>8, <2>g DEF Invoking, access, DeployersInv
  <2> QED BY <1>3, <2>1, <2>2, <2>3, <2>4, <2>5, <2>6, <2>7, <2>8, ExecuteSteps
<1> QED BY <1>1, <1>2, <1>3, StepKinds

\* Only an address that holds the role deployer at that moment ever deploys,
\* whoever granted, revoked or renounced roles and however old its order is.
THEOREM OnlyDeployersDeploy == Spec => []DeployedByDeployers
<1>1. Init => TypeOK /\ TraceInv /\ DeployersInv
  <2> SUFFICES ASSUME Init PROVE TraceInv /\ DeployersInv
    BY InitType
  <2> DEFINE e == [what |-> "granted", account |-> Root, role |-> Deployer]
  <2>1. /\ log = <<e>> /\ tx = NoTx
        /\ holders = [r \in Roles |-> IF r = Deployer THEN {Root} ELSE {}]
    BY DEF Init, AccessInit
  <2>2. Len(log) = 1 /\ DOMAIN log = {1} /\ log[1] = e
    BY <2>1
  <2>3. \A a \in Addresses, r \in Roles :
            a \in holders[r] <=> Held(log, a, r, Len(log) + 1)
    <3>1. \A a \in Addresses, r \in Roles : Held(log, a, r, 2) <=> Concerns(log[1], a, r)
      BY <2>2 DEF Held, Concerns
    <3> QED BY <2>1, <2>2, <3>1 DEF Concerns
  <2>4. TraceInv
    BY <2>1, <2>2 DEF Init, TraceInv, Traced, Tells
  <2> QED BY <2>1, <2>2, <2>3, <2>4 DEF DeployersInv, Accounts
<1>2. TypeOK /\ TraceInv /\ DeployersInv /\ [Next]_vars => (TypeOK /\ TraceInv /\ DeployersInv)'
  BY StepKinds, TraceInvStep, DeployersInvStep
<1>3. DeployersInv => DeployedByDeployers
  BY DEF DeployersInv, Accounts, DeployedByDeployers
<1> QED BY <1>1, <1>2, <1>3, PTL DEF Spec

-----------------------------------------------------------------------------
(* The promise: FactorySpec, implemented by what transactions settle.      *)

\* The calls of an order, as they are recorded.
Made(n, calls) ==
    [i \in DOMAIN calls |-> [what |-> "called", nonce |-> n, target |-> calls[i]]]

\* What a change of roles and of their administration has settled when it is done.
RolesSettled(o, before) ==
    \/ /\ o.fn = "grant_role"
       /\ holders[Deployer] = IF o.role = Deployer THEN before \cup {o.account} ELSE before
    \/ /\ o.fn = "revoke_role"
       /\ holders[Deployer] = IF o.role = Deployer THEN before \ {o.account} ELSE before
    \/ /\ o.fn = "renounce_role"
       /\ holders[Deployer] = IF o.role = Deployer THEN before \ {o.caller} ELSE before
    \/ /\ o.fn \in {"set_role_admin", "renounce_admin", "transfer_admin_role",
                    "accept_admin_transfer"}
       /\ holders[Deployer] = before

\* What a deployment has settled of what was saved, its calls those made and those left.
DeploymentSettled ==
    LET o == tx.order
        s == tx.saved
    IN  /\ o \in Deployment
        /\ o.caller \in s.holders[Deployer] /\ holders = s.holders
        /\ s.contracts[o.salt] = NoContract
        /\ contracts = [s.contracts EXCEPT ![o.salt] = o.build]
        /\ called \o Made(tx.nonce, tx.calls) = s.called \o Made(tx.nonce, o.calls)
        /\ o.fn = "deploy_account_and_invoke" /\ tx.phase = "calls" =>
               OwnerOf[o.build] \in endorsed[tx.nonce]

\* How the ledger of a transaction differs from the one it has saved.
SettledInv ==
    tx # NoTx =>
        \/ tx.phase = "factory" /\ Saved = tx.saved
        \/ /\ tx.phase # "factory"
           /\ tx.nonce \notin tx.saved.used /\ used = tx.saved.used \cup {tx.nonce}
           /\ \/ DeploymentSettled
              \/ /\ tx.phase = "calls" /\ tx.calls = <<>>
                 /\ contracts = tx.saved.contracts /\ called = tx.saved.called
                 /\ RolesSettled(tx.order, tx.saved.holders[Deployer])

\* The calls of an order, recorded, are as many and in the same order.
LEMMA MadeType ==
    ASSUME NEW n \in Nonces, NEW calls \in Seq(Targets)
    PROVE  /\ Made(n, calls) \in Seq(Call) /\ Len(Made(n, calls)) = Len(calls)
           /\ \A i \in 1 .. Len(calls) :
                  Made(n, calls)[i] = [what |-> "called", nonce |-> n, target |-> calls[i]]
           /\ Made(n, <<>>) = <<>>
<1>1. DOMAIN calls = 1 .. Len(calls) /\ Len(calls) \in Nat
      /\ \A i \in 1 .. Len(calls) : calls[i] \in Targets
  OBVIOUS
<1>2. Made(n, calls) \in [1 .. Len(calls) -> Call]
  BY <1>1 DEF Made, Call
<1>3. Made(n, calls) \in Seq(Call) /\ Len(Made(n, calls)) = Len(calls)
  BY <1>1, <1>2, SeqDef
<1>4. Made(n, <<>>) = <<>>
  BY DEF Made
<1> QED BY <1>1, <1>3, <1>4 DEF Made

\* A call that is made moves from those left to those made.
LEMMA MadeNext ==
    ASSUME NEW l \in Seq(Call), NEW n \in Nonces, NEW calls \in Seq(Targets), calls # <<>>
    PROVE  Append(l, [what |-> "called", nonce |-> n, target |-> Head(calls)]) \o Made(n, Tail(calls))
           = l \o Made(n, calls)
<1> DEFINE c == [what |-> "called", nonce |-> n, target |-> Head(calls)]
           all == Made(n, calls)
           rest == Made(n, Tail(calls))
<1>1. /\ Tail(calls) \in Seq(Targets) /\ Len(Tail(calls)) = Len(calls) - 1
      /\ \A i \in 1 .. Len(calls) - 1 : Tail(calls)[i] = calls[i + 1]
      /\ Len(calls) \in Nat \ {0} /\ Head(calls) = calls[1] /\ Head(calls) \in Targets
  BY HeadTailProperties, EmptySeq
<1>2. all \in Seq(Call) /\ Len(all) = Len(calls) /\ c \in Call /\ all[1] = c
  <2>1. all \in Seq(Call) /\ Len(all) = Len(calls)
    BY MadeType
  <2>2. 1 \in 1 .. Len(calls)
    BY <1>1
  <2>3. all[1] = [what |-> "called", nonce |-> n, target |-> calls[1]]
    BY <2>2, MadeType
  <2> QED BY <1>1, <2>1, <2>3 DEF Call
<1>3. rest \in Seq(Call) /\ Len(rest) = Len(calls) - 1
      /\ \A i \in 1 .. Len(calls) - 1 : rest[i] = all[i + 1]
  <2>1. rest \in Seq(Call) /\ Len(rest) = Len(calls) - 1
    BY <1>1, MadeType
  <2>2. ASSUME NEW i \in 1 .. Len(calls) - 1 PROVE rest[i] = all[i + 1]
    <3>1. i \in 1 .. Len(Tail(calls)) /\ i + 1 \in 1 .. Len(calls)
      BY <1>1
    <3>2. rest[i] = [what |-> "called", nonce |-> n, target |-> Tail(calls)[i]]
      BY <1>1, <3>1, MadeType
    <3>3. all[i + 1] = [what |-> "called", nonce |-> n, target |-> calls[i + 1]]
      BY <3>1, MadeType
    <3> QED BY <1>1, <3>2, <3>3
  <2> QED BY <2>1, <2>2
<1> HIDE DEF c, all, rest
<1> DEFINE head == Append(l, c)
<1>4. head \in Seq(Call) /\ Len(head) = Len(l) + 1 /\ head[Len(l) + 1] = c
      /\ \A i \in 1 .. Len(l) : head[i] = l[i]
  BY <1>2
<1> HIDE DEF head
<1>5. /\ head \o rest \in Seq(Call) /\ l \o all \in Seq(Call)
      /\ Len(head \o rest) = Len(l) + Len(calls) /\ Len(l \o all) = Len(l) + Len(calls)
  <2>1. head \o rest \in Seq(Call) /\ Len(head \o rest) = Len(head) + Len(rest)
    BY <1>3, <1>4, ConcatProperties
  <2>2. l \o all \in Seq(Call) /\ Len(l \o all) = Len(l) + Len(all)
    BY <1>2, ConcatProperties
  <2>3. Len(l) \in Nat
    BY LenProperties
  <2> QED BY <1>1, <1>2, <1>3, <1>4, <2>1, <2>2, <2>3
<1>6. ASSUME NEW i \in 1 .. Len(l) + Len(calls)
      PROVE  (head \o rest)[i] = (l \o all)[i]
  <2>0. Len(l) \in Nat /\ i \in Nat /\ Len(calls) \in Nat
    BY <1>1, LenProperties
  <2>1. (head \o rest)[i] = IF i <= Len(l) + 1 THEN head[i] ELSE rest[i - (Len(l) + 1)]
    BY <1>1, <1>3, <1>4, ConcatProperties
  <2>2. (l \o all)[i] = IF i <= Len(l) THEN l[i] ELSE all[i - Len(l)]
    BY <1>1, <1>2, ConcatProperties
  <2>3. CASE i <= Len(l)
    BY <1>4, <2>1, <2>2, <2>3
  <2>4. CASE i = Len(l) + 1
    BY <1>2, <1>4, <2>1, <2>2, <2>4
  <2>5. CASE i > Len(l) + 1
    <3> DEFINE j == i - (Len(l) + 1)
    <3>1. j \in 1 .. Len(calls) - 1 /\ j + 1 = i - Len(l) /\ ~(i <= Len(l) + 1) /\ ~(i <= Len(l))
      BY <1>1, <2>0, <2>5
    <3>2. (head \o rest)[i] = rest[j] /\ (l \o all)[i] = all[i - Len(l)]
      BY <2>1, <2>2, <3>1
    <3> HIDE DEF j
    <3>3. rest[j] = all[j + 1]
      BY <1>3, <3>1
    <3> QED BY <3>1, <3>2, <3>3
  <2>6. i <= Len(l) \/ i = Len(l) + 1 \/ i > Len(l) + 1
    BY <2>0
  <2> QED BY <2>3, <2>4, <2>5, <2>6, Zenon
<1>7. head \o rest = l \o all
  BY <1>5, <1>6, SeqEqual
<1> QED BY <1>7 DEF head, rest, all, c

\* SettledInv is inductive.
LEMMA SettledInvStep == ASSUME TypeOK, TraceInv, SettledInv, [Next]_vars PROVE SettledInv'
<1>l. /\ called \in Seq(Call) /\ contracts \in [Salts -> Builds \cup {NoContract}]
      /\ holders \in [Roles -> SUBSET Addresses]
  BY DEF TypeOK, AccessTypeOK
<1>1. CASE Client
  <2>1. CASE tx = NoTx
    BY <1>1, <2>1 DEF Client, SettledInv
  <2>2. CASE tx # NoTx
    <3>1. /\ tx' = tx /\ Saved' = Saved /\ used' = used /\ called' = called
          /\ contracts' = contracts /\ holders' = holders
      BY <1>1 DEF Client, Saved
    <3>2. tx.phase # "factory" => endorsed[tx.nonce] \subseteq endorsed'[tx.nonce]
      BY <1>1, <2>2 DEF TypeOK, Client
    <3> QED BY <2>2, <3>1, <3>2 DEF SettledInv, DeploymentSettled, RolesSettled
  <2> QED BY <2>1, <2>2
<1>2. CASE Begun
  BY <1>2 DEF Begun, SettledInv
<1>3. CASE Execute
  <2>t. tx # NoTx /\ tx \in Tx /\ tx.order \in Requests /\ tx.saved \in LedgerState
    BY <1>3, ExecuteInTx DEF Tx
  <2>s. ASSUME tx.phase = "factory"
        PROVE  /\ used = tx.saved.used /\ contracts = tx.saved.contracts
               /\ holders = tx.saved.holders /\ called = tx.saved.called
    BY <2>s, <2>t DEF SettledInv, Saved
  <2>1. CASE tx' = NoTx
    BY <2>1 DEF SettledInv
  <2>3. CASE Granting
    <3>1. holders'[Deployer] = IF tx.order.role = Deployer THEN holders[Deployer] \cup {tx.order.account}
                               ELSE holders[Deployer]
      BY <1>l, <2>3, RolesAssumption DEF Granting, Grant
    <3> QED BY <2>3, <2>s, <3>1 DEF Granting, Goes, Settling, SettledInv, RolesSettled
  <2>4. ASSUME NEW account \in Addresses, Revoking(account) PROVE SettledInv'
    <3>1. holders'[Deployer] = IF tx.order.role = Deployer THEN holders[Deployer] \ {account}
                               ELSE holders[Deployer]
      BY <1>l, <2>4, RolesAssumption DEF Revoking, Revoke
    <3> QED BY <2>4, <2>s, <3>1 DEF Revoking, Goes, Settling, SettledInv, RolesSettled
  <2>5. CASE Administering
    BY <2>5, <2>s DEF Administering, Goes, Settling, SettledInv, RolesSettled
  <2>6. CASE Deploying
    <3>1. /\ tx.phase = "factory" /\ Settling /\ UNCHANGED <<holders, called, orders, endorsed>>
          /\ tx'.order = tx.order /\ tx'.nonce = tx.nonce /\ tx'.saved = tx.saved /\ tx' # NoTx
          /\ tx'.phase # "factory"
          /\ tx.order \in Deployment /\ tx.order.caller \in holders[Deployer]
          /\ contracts[tx.order.salt] = NoContract
          /\ contracts' = [contracts EXCEPT ![tx.order.salt] = tx.order.build]
      BY <2>6 DEF Deploying, Goes, access, HasRole
    <3>2. /\ tx'.calls = tx.order.calls
          /\ tx.order.fn = "deploy_account_and_invoke" => tx'.phase = "account"
      BY <2>6, <2>t, RequestsAssumption DEF Deploying, Goes
    <3>3. DeploymentSettled'
      BY <2>s, <3>1, <3>2 DEF DeploymentSettled
    <3> QED BY <2>s, <3>1, <3>3 DEF SettledInv, Settling
  <2>7. CASE Approving
    <3>1. /\ tx.phase = "account" /\ Goes("calls", tx.calls)
          /\ UNCHANGED <<used, contracts, called, holders>>
          /\ OwnerOf[contracts[tx.order.salt]] \in endorsed[tx.nonce]
      BY <2>7 DEF Approving, Saved
    <3>2. DeploymentSettled
      BY <2>t, <3>1 DEF SettledInv
    <3>3. contracts[tx.order.salt] = tx.order.build
      BY <2>t, <3>1 DEF TraceInv
    <3>4. DeploymentSettled'
      BY <3>1, <3>2, <3>3 DEF DeploymentSettled, Goes
    <3> QED BY <2>t, <3>1, <3>4 DEF SettledInv, Goes
  <2>8. CASE Invoking
    <3>1. /\ tx.phase = "calls" /\ tx.calls # <<>> /\ tx.calls \in Seq(Targets)
          /\ Goes("calls", Tail(tx.calls)) /\ RecordCall(Head(tx.calls))
          /\ UNCHANGED <<used, contracts, holders>> /\ tx.nonce \in Nonces
      BY <2>8, <2>t DEF Invoking, Tx, access, TypeOK
    <3>2. DeploymentSettled
      BY <2>t, <3>1 DEF SettledInv
    <3>3. called' \o Made(tx.nonce, Tail(tx.calls)) = called \o Made(tx.nonce, tx.calls)
      BY <1>l, <3>1, MadeNext DEF RecordCall
    <3>4. DeploymentSettled'
      BY <3>1, <3>2, <3>3 DEF DeploymentSettled, Goes
    <3> QED BY <2>t, <3>1, <3>4 DEF SettledInv, Goes
  <2> QED BY <1>3, <2>1, <2>3, <2>4, <2>5, <2>6, <2>7, <2>8, ExecuteSteps DEF Reverted, Committed
<1> QED BY <1>1, <1>2, <1>3, StepKinds

\* A transaction that commits is an order carried out whole, as FactorySpec has it.
LEMMA CommitSettles ==
    ASSUME TypeOK, TraceInv, SettledInv, tx # NoTx, Committed
    PROVE  Promise!Next
<1> DEFINE o == tx.order
           n == tx.nonce
           s == tx.saved
<1>1. /\ n \in Nonces /\ o \in Requests /\ orders[n] = o /\ o # NoOrder
      /\ n \notin s.used /\ used = s.used \cup {n} /\ UNCHANGED <<orders, endorsed>>
  BY NoNonceAssumption, NoOrderAssumption DEF TypeOK, TraceInv, SettledInv, Committed, Tx
<1>2. /\ Settled = s /\ Settled' = Saved'
      /\ Saved'.used = used /\ Saved'.holders = holders
      /\ Saved'.contracts = contracts /\ Saved'.called = called
  BY DEF Settled, Committed, Saved
<1>3. Promise!Settle(n)
  BY <1>1, <1>2 DEF Promise!Settle
<1>4. CASE DeploymentSettled
  <2>1. called = s.called \o Made(n, o.calls)
    <3>1. Made(n, <<>>) = <<>> /\ called \o <<>> = called
      BY <1>1, MadeType, ConcatEmptySeq, EmptySeq DEF TypeOK
    <3> QED BY <1>4, <3>1 DEF DeploymentSettled, Committed
  <2>2. Promise!Calls(n) = Made(n, o.calls)
    BY <1>1 DEF Promise!Calls, Made
  <2>3. Promise!Deploy(n)
    BY <1>1, <1>2, <1>3, <1>4, <2>1, <2>2 DEF Promise!Deploy, DeploymentSettled, Deployment, Committed
  <2> QED BY <1>1, <2>3 DEF Promise!Next
<1>5. CASE /\ contracts = s.contracts /\ called = s.called
           /\ RolesSettled(o, s.holders[Deployer])
  <2>1. Promise!Appoint(n) \/ Promise!Dismiss(n) \/ Promise!Administer(n)
    BY <1>1, <1>2, <1>3, <1>5 DEF RolesSettled, Promise!Appoint, Promise!Dismiss, Promise!Administer
  <2> QED BY <1>1, <2>1 DEF Promise!Next
<1> QED BY <1>4, <1>5 DEF SettledInv, Committed

\* Every step is a step of FactorySpec or leaves what it speaks of alone.
LEMMA StepImplements ==
    ASSUME TypeOK, TraceInv, SettledInv, [Next]_vars
    PROVE  [Promise!Next]_(Promise!vars)
<1> DEFINE Stutter == UNCHANGED <<orders, endorsed>> /\ Settled' = Settled
<1>s. Stutter => UNCHANGED Promise!vars
  BY DEF Promise!vars
<1>1. ASSUME NEW n \in Nonces, NEW o \in Requests, SignOrder(n, o) PROVE Promise!Next
  <2>1. Settled' = Settled /\ UNCHANGED endorsed
    BY <1>1 DEF SignOrder, Settled, Saved, ledger, access
  <2>2. Promise!Sign(n, o)
    BY <1>1, <2>1 DEF SignOrder, Promise!Sign
  <2> QED BY <2>2 DEF Promise!Next
<1>2. ASSUME NEW n \in Nonces, NEW owner \in Owners, Endorse(n, owner) PROVE Promise!Next
  <2>1. Settled' = Settled /\ Settled.used = used /\ UNCHANGED orders
    BY <1>2 DEF Endorse, Settled, Saved, ledger, access
  <2>2. Promise!Endorse(n, owner)
    BY <1>2, <2>1 DEF Endorse, Promise!Endorse
  <2> QED BY <2>2 DEF Promise!Next
<1>3. CASE Begun
  BY <1>3, <1>s DEF Begun, Settled
<1>4. CASE Execute
  <2>1. CASE Committed
    BY <1>4, <2>1, CommitSettles, ExecuteInTx
  <2>2. CASE Reverted
    BY <1>4, <1>s, <2>2, ExecuteInTx DEF Reverted, Settled, Saved
  <2>3. ASSUME NEW phase, NEW calls, Goes(phase, calls) PROVE Stutter
    BY <1>4, <2>3, ExecuteInTx DEF Goes, Settled
  <2> QED BY <1>4, <1>s, <2>1, <2>2, <2>3, ExecuteSteps
          DEF Granting, Revoking, Administering, Deploying, Approving, Invoking
<1>5. CASE UNCHANGED vars
  BY <1>5, <1>s DEF vars, ledger, access, Settled, Saved
<1>6. ASSUME NEW n \in Nonces, Submit(n) PROVE Begun
  BY <1>6, BeginBegun DEF Submit, TypeOK
<1>7. ASSUME NEW o \in Requests, SubmitUnsigned(o) PROVE Begun
  BY <1>7, BeginBegun DEF SubmitUnsigned
<1> QED BY <1>1, <1>2, <1>3, <1>4, <1>5, <1>6, <1>7 DEF Next

\* The factory keeps the promise of FactorySpec: an order is carried out at most
\* once, whole, by a deployer of that moment, with the calls its owner endorsed.
THEOREM FactoryKeepsPromise == Spec => ImplementsPromise
<1>1. Init => TypeOK /\ TraceInv /\ SettledInv /\ Promise!Init
  <2> SUFFICES ASSUME Init PROVE TraceInv /\ SettledInv /\ Promise!Init
    BY InitType
  <2>1. Traced(log, contracts, orders, endorsed) /\ Traced(called, contracts, orders, endorsed)
    BY DEF Init, Traced, Tells
  <2>2. Promise!Init
    BY RolesAssumption DEF Init, AccessInit, Promise!Init, Settled, Saved
  <2> QED BY <2>1, <2>2 DEF Init, TraceInv, SettledInv
<1>2. TypeOK /\ TraceInv /\ SettledInv /\ [Next]_vars => (TypeOK /\ TraceInv /\ SettledInv)'
  BY StepKinds, TraceInvStep, SettledInvStep
<1>3. TypeOK /\ TraceInv /\ SettledInv /\ [Next]_vars => [Promise!Next]_(Promise!vars)
  BY StepImplements
<1> QED BY <1>1, <1>2, <1>3, PTL DEF Spec, ImplementsPromise, Promise!Spec
=============================================================================
