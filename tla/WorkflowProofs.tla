--------------------------- MODULE WorkflowProofs ---------------------------
(***************************************************************************)
(* The operations of main take effect in order, and fail only because of   *)
(* the node or the network, for every set of keys and salts, every         *)
(* validity and lag, and any number of ledgers.                            *)
(***************************************************************************)
EXTENDS Workflow, TLAPS

\* Where in its steps an operation sends its transaction, and how many it has.
SendAt == <<4, 5, 7, 6, 8, 6, 6, 6>>
Length == <<6, 6, 9, 7, 9, 7, 7, 7>>

\* Every operation sends once, confirms next, and reads no result before
\* (the bodies of the operations, in whatever account they work with).
LEMMA StepsOfMain ==
    ASSUME NEW w, NEW n \in 1 .. 8
    PROVE  /\ Len(main(w)[n].steps) = Length[n] /\ DOMAIN main(w)[n].steps = 1 .. Length[n]
           /\ \A i \in 1 .. Length[n] :
                 /\ main(w)[n].steps[i].do = "send" <=> i = SendAt[n]
                 /\ main(w)[n].steps[i].do = "confirmTransaction" <=> i = SendAt[n] + 1
<1>1. CASE n = 1
  BY <1>1 DEF main, deployFactory, SendAt, Length, Step, sign
<1>2. CASE n = 2
  BY <1>2 DEF main, grantDeployerRole, SendAt, Length, Step, sign, signAuthEntries
<1>3. CASE n = 3
  BY <1>3 DEF main, deploySmartAccount, SendAt, Length, Step, sign, signAuthEntries
<1>4. CASE n = 4
  BY <1>4 DEF main, addSigner, WithSmartAccountAuth, SendAt, Length, Step, sign,
              authorizeWithSmartAccount
<1>5. CASE n = 5
  BY <1>5 DEF main, deployAndInvokeContractWithSmartAccount, SendAt, Length, Step, sign,
              signAuthEntries, authorizeWithSmartAccount
<1>6. CASE n = 6
  BY <1>6 DEF main, sendHelloWorldTransactionWithSmartAccountAuth, WithSmartAccountAuth,
              SendAt, Length, Step, sign, authorizeWithSmartAccount
<1>7. CASE n = 7
  BY <1>7 DEF main, upgradeSmartAccount, WithSmartAccountAuth, SendAt, Length, Step, sign,
              authorizeWithSmartAccount
<1>8. CASE n = 8
  BY <1>8 DEF main, sendHelloWorldTransactionWithSmartAccountAuth, WithSmartAccountAuth,
              SendAt, Length, Step, sign, authorizeWithSmartAccount
<1> QED BY <1>1, <1>2, <1>3, <1>4, <1>5, <1>6, <1>7, <1>8

\* The numbers of the steps, as the proofs below use them.
LEMMA StepNumbers ==
    ASSUME NEW n \in 1 .. 8
    PROVE  SendAt[n] \in Nat /\ Length[n] \in Nat /\ 1 <= SendAt[n] /\ SendAt[n] < Length[n]
BY DEF SendAt, Length

\* One operation more.
LEMMA NextOperation ==
    ASSUME NEW n \in 1 .. 8
    PROVE  Append(FirstOperations(n - 1), n) = FirstOperations(n)
BY DEF FirstOperations

-----------------------------------------------------------------------------
\* The operation being run has not sent its transaction ...
Preparing ==
    /\ pc <= SendAt[at]
    /\ status # "pending"
    /\ executed = FirstOperations(at - 1)

\* ... has sent it and waits for it, unless main has failed ...
InFlight ==
    /\ sent.at = at
    /\ status # "SUCCESS"
    /\ executed = FirstOperations(at - 1)
    /\ exit = "running" => pc = SendAt[at] + 1

\* ... or has had its effect.
InEffect ==
    /\ status = "SUCCESS"
    /\ executed = FirstOperations(at)
    /\ exit = "running" => pc > SendAt[at]

PhaseInv ==
    \/ /\ at \in 1 .. 8
       /\ pc \in 1 .. Length[at]
       /\ Preparing \/ InFlight \/ InEffect
    \/ /\ at = 9
       /\ exit = "completed"
       /\ status # "pending"
       /\ executed = FirstOperations(8)

\* A step of the client that sends nothing.
Quiet ==
    /\ exit = "running"
    /\ UNCHANGED <<executed, network>>
    /\ \/ /\ Advance
          /\ step.do # "send"
          /\ step.do = "confirmTransaction" => status = "SUCCESS"
       \/ Throw

\* Only send sends.
LEMMA ClientSteps == Client \/ Unreachable => Send \/ Quiet
<1> USE DEF At, Quiet, chain, network, transaction
<1>1. GetDeployedAddress => Quiet BY DEF GetDeployedAddress
<1>2. Build => Quiet BY DEF Build
<1>3. PrintAuthEntries => Quiet BY DEF PrintAuthEntries, ReadSimulation
<1>4. AuthorizeWithSmartAccount => Quiet BY DEF AuthorizeWithSmartAccount, AttachSignature
<1>5. SignAuthEntries => Quiet BY DEF SignAuthEntries, AttachSignature
<1>6. Simulate => Quiet BY DEF Simulate
<1>7. Sign => Quiet BY DEF Sign
<1>8. ConfirmTransaction => Quiet BY DEF ConfirmTransaction
<1>9. Result => Quiet BY DEF Result, ReadSimulation
<1>10. Unreachable => Quiet BY DEF Unreachable
<1> QED BY <1>1, <1>2, <1>3, <1>4, <1>5, <1>6, <1>7, <1>8, <1>9, <1>10 DEF Client

\* At first nothing is sent and nothing in effect.
LEMMA PhaseInit == Init => PhaseInv
<1> SUFFICES ASSUME Init PROVE PhaseInv
  OBVIOUS
<1>1. at = 1 /\ pc = 1 /\ status = "none" /\ executed = <<>>
  BY DEF Init
<1>2. FirstOperations(1 - 1) = <<>>
  BY DEF FirstOperations
<1>3. 1 <= SendAt[1] /\ 1 \in 1 .. Length[1]
  BY StepNumbers
<1> QED BY <1>1, <1>2, <1>3 DEF PhaseInv, Preparing

\* Where the client is while it runs.
LEMMA RunningAt ==
    ASSUME PhaseInv, exit = "running"
    PROVE  /\ at \in 1 .. 8
           /\ pc \in 1 .. Length[at]
           /\ Preparing \/ InFlight \/ InEffect
           /\ Len(Operation.steps) = Length[at]
           /\ step.do = "send" <=> pc = SendAt[at]
           /\ step.do = "confirmTransaction" <=> pc = SendAt[at] + 1
<1>1. at \in 1 .. 8 /\ pc \in 1 .. Length[at] /\ (Preparing \/ InFlight \/ InEffect)
  BY DEF PhaseInv
<1>2. Operation.steps = main(wallet)[at].steps /\ step = main(wallet)[at].steps[pc]
  BY DEF Operation, step
<1>3. /\ Len(main(wallet)[at].steps) = Length[at]
      /\ \A i \in 1 .. Length[at] :
            /\ main(wallet)[at].steps[i].do = "send" <=> i = SendAt[at]
            /\ main(wallet)[at].steps[i].do = "confirmTransaction" <=> i = SendAt[at] + 1
  BY <1>1, StepsOfMain
<1> HIDE DEF Preparing, InFlight, InEffect
<1> QED BY <1>1, <1>2, <1>3

\* The phase changes with the operation, once its transaction is confirmed.
LEMMA PhaseQuiet == PhaseInv /\ Quiet => PhaseInv'
<1> SUFFICES ASSUME PhaseInv, Quiet PROVE PhaseInv'
  OBVIOUS
<1>1. exit = "running" /\ executed' = executed /\ sent' = sent /\ status' = status
  BY DEF Quiet, network
<1>2. /\ at \in 1 .. 8 /\ pc \in 1 .. Length[at] /\ (Preparing \/ InFlight \/ InEffect)
      /\ Len(Operation.steps) = Length[at]
      /\ step.do = "send" <=> pc = SendAt[at]
      /\ step.do = "confirmTransaction" <=> pc = SendAt[at] + 1
  BY <1>1, RunningAt
<1>3. SendAt[at] \in Nat /\ Length[at] \in Nat /\ SendAt[at] < Length[at]
  BY <1>2, StepNumbers
<1>4. CASE Throw
  BY <1>1, <1>2, <1>4 DEF Throw, PhaseInv, Preparing, InFlight, InEffect
<1>5. CASE /\ Advance
           /\ step.do # "send"
           /\ step.do = "confirmTransaction" => status = "SUCCESS"
  <2>1. CASE Preparing
    <3>1. pc < SendAt[at] /\ pc < Length[at]
      BY <1>2, <1>3, <1>5, <2>1 DEF Preparing
    <3>2. pc' = pc + 1 /\ at' = at
      BY <1>2, <1>3, <1>5, <3>1 DEF Advance
    <3> QED BY <1>1, <1>2, <1>3, <2>1, <3>1, <3>2 DEF PhaseInv, Preparing
  <2>2. CASE InFlight
    BY <1>1, <1>2, <1>5, <2>2 DEF InFlight
  <2>3. CASE InEffect
    <3>1. status = "SUCCESS" /\ executed = FirstOperations(at) /\ pc > SendAt[at]
      BY <1>1, <2>3 DEF InEffect
    <3>2. CASE pc < Length[at]
      <4>1. pc' = pc + 1 /\ at' = at
        BY <1>2, <1>3, <1>5, <3>2 DEF Advance
      <4> QED BY <1>1, <1>2, <1>3, <3>1, <3>2, <4>1 DEF PhaseInv, InEffect
    <3>3. CASE pc = Length[at]
      <4>1. pc' = 1 /\ at' = at + 1 /\ (at = 8 => exit' = "completed")
        BY <1>2, <1>3, <1>5, <3>3 DEF Advance, main
      <4>2. CASE at = 8
        BY <1>1, <3>1, <4>1, <4>2 DEF PhaseInv
      <4>3. CASE at # 8
        <5>1. at' \in 1 .. 8 /\ at' - 1 = at
          BY <1>2, <4>1, <4>3
        <5>2. 1 <= SendAt[at'] /\ 1 \in 1 .. Length[at']
          BY <5>1, StepNumbers
        <5> QED BY <1>1, <3>1, <4>1, <5>1, <5>2 DEF PhaseInv, Preparing
      <4> QED BY <4>2, <4>3
    <3> QED BY <1>2, <1>3, <3>2, <3>3
  <2> QED BY <1>2, <2>1, <2>2, <2>3
<1> QED BY <1>4, <1>5 DEF Quiet

\* Sending is the step from preparing to waiting.
LEMMA PhaseSend == PhaseInv /\ Send => PhaseInv'
<1> SUFFICES ASSUME PhaseInv, Send PROVE PhaseInv'
  OBVIOUS
<1>1. exit = "running" /\ step.do = "send"
  BY DEF Send, At
<1>2. /\ at \in 1 .. 8 /\ pc \in 1 .. Length[at] /\ (Preparing \/ InFlight \/ InEffect)
      /\ Len(Operation.steps) = Length[at]
      /\ pc = SendAt[at]
  BY <1>1, RunningAt
<1>3. SendAt[at] \in Nat /\ Length[at] \in Nat /\ SendAt[at] < Length[at]
  BY <1>2, StepNumbers
<1>4. executed = FirstOperations(at - 1)
  BY <1>1, <1>2, <1>3 DEF Preparing, InFlight, InEffect
<1>5. executed' = executed /\ sent'.at = at /\ status' = "pending"
  BY DEF Send, chain
<1>6. at' = at /\ pc' \in 1 .. Length[at] /\ (exit' = "running" => pc' = SendAt[at] + 1)
  <2>1. CASE Advance
    BY <1>2, <1>3, <2>1 DEF Advance
  <2>2. CASE Throw
    BY <1>2, <2>2 DEF Throw
  <2> QED BY <2>1, <2>2 DEF Send
<1> QED BY <1>2, <1>4, <1>5, <1>6 DEF PhaseInv, InFlight

\* The network decides on the transaction that is waited for.
LEMMA PhaseNetwork == PhaseInv /\ (Include \/ Drop) => PhaseInv'
<1> SUFFICES ASSUME PhaseInv, Include \/ Drop PROVE PhaseInv'
  OBVIOUS
<1>1. status = "pending" /\ at' = at /\ pc' = pc /\ exit' = exit /\ sent' = sent
  BY DEF Include, Drop, client, network
<1>2. at \in 1 .. 8 /\ pc \in 1 .. Length[at] /\ InFlight
  BY <1>1 DEF PhaseInv, Preparing, InEffect
<1>3. SendAt[at] \in Nat
  BY <1>2, StepNumbers
<1>4. CASE status' = "SUCCESS" /\ executed' = Append(executed, sent.at)
  <2>. HIDE DEF PhaseInv, InFlight
  <2>1. Append(FirstOperations(at - 1), at) = FirstOperations(at)
    BY <1>2, NextOperation
  <2>2. executed' = FirstOperations(at)
    BY <1>2, <1>4, <2>1 DEF InFlight
  <2> QED BY <1>1, <1>2, <1>3, <1>4, <2>2 DEF PhaseInv, InFlight, InEffect
<1>5. CASE status' # "SUCCESS" /\ executed' = executed
  BY <1>1, <1>2, <1>5 DEF PhaseInv, InFlight
<1> QED BY <1>4, <1>5 DEF Include, Drop, chain

\* The phases are kept by every step.
LEMMA PhaseNext == PhaseInv /\ [Next]_vars => PhaseInv'
<1> SUFFICES ASSUME PhaseInv, [Next]_vars PROVE PhaseInv'
  OBVIOUS
<1>1. CASE Client \/ Unreachable
  BY <1>1, ClientSteps, PhaseQuiet, PhaseSend
<1>2. CASE Include \/ Drop
  BY <1>2, PhaseNetwork
<1>3. CASE Tick \/ UNCHANGED vars
  BY <1>3 DEF Tick, vars, chain, client, network, PhaseInv, Preparing, InFlight, InEffect
<1> QED BY <1>1, <1>2, <1>3 DEF Next

\* Whatever fails, the operations of main take effect in its order, once each, and
\* all but the one being run are in effect (main and confirmTransaction).
THEOREM OperationsInOrder == Spec => []EffectsInOrder
<1>1. PhaseInv => EffectsInOrder
  BY DEF PhaseInv, Preparing, InFlight, InEffect, EffectsInOrder
<1> QED BY <1>1, PhaseInit, PhaseNext, PTL DEF Spec

-----------------------------------------------------------------------------
(* What an operation is about to ask of the contracts and of its entries:  *)
(* why no operation stands in the way of a later one, and why a            *)
(* transaction that is included in time succeeds.                          *)

\* Where an operation chooses its account, is simulated and signed, and by when
\* its entries are.
AddressAt == <<0, 0, 1, 0, 1, 0, 0, 0>>
BuildAt == <<1, 1, 2, 1, 2, 1, 1, 1>>
ReadyAt == <<1, 3, 4, 3, 5, 3, 3, 3>>
SignAt == <<3, 4, 5, 5, 7, 5, 5, 5>>

\* The order of those places.
LEMMA Places ==
    ASSUME NEW n \in 1 .. 8
    PROVE  /\ {AddressAt[n], BuildAt[n], ReadyAt[n], SignAt[n], SendAt[n], Length[n]} \subseteq Nat
           /\ AddressAt[n] < BuildAt[n] /\ 1 <= BuildAt[n] /\ BuildAt[n] <= ReadyAt[n]
           /\ n # 1 => BuildAt[n] + 1 < ReadyAt[n]
           /\ ReadyAt[n] < SignAt[n] /\ BuildAt[n] + 1 < SignAt[n]
           /\ SignAt[n] < SendAt[n] /\ SendAt[n] < Length[n]
           /\ AddressAt[n] = IF n \in {3, 5} THEN 1 ELSE 0
           /\ BuildAt[n] = AddressAt[n] + 1
           /\ n = 1 => SignAt[n] = 3 /\ ReadyAt[n] = 1
BY DEF AddressAt, BuildAt, ReadyAt, SignAt, SendAt, Length

\* The step that signs the entry of an address, and the key pair that signs it.
EntryAt(n, address) == IF n = 5 /\ address \in Salts THEN 4 ELSE ReadyAt[n]

SignerOf(n, address) ==
    IF address \notin Salts THEN address
    ELSE IF n \in {6, 8} THEN DELEGATED_SIGNER ELSE ADMIN_SIGNER

Calls(n, w) == main(w)[n].call
Attaches == {"signAuthEntries", "authorizeWithSmartAccount"}

\* Whose authorization an operation needs.
LEMMA RequiredOf ==
    ASSUME NEW n \in 1 .. 8, NEW w
    PROVE  Required(Calls(n, w)) =
              CASE n = 1 -> {} [] n = 2 -> {ROOT} [] n = 3 -> {DEPLOYER} [] n = 5 -> {DEPLOYER, w}
                [] OTHER -> {w}
<1> USE DEF Calls, Required
<1>1. CASE n = 1 BY <1>1 DEF main, deployFactory, factory_constructor
<1>2. CASE n = 2 BY <1>2 DEF main, grantDeployerRole, grant_role
<1>3. CASE n = 3 BY <1>3 DEF main, deploySmartAccount, deploy
<1>4. CASE n = 4 BY <1>4 DEF main, addSigner, add_signer, WithSmartAccountAuth
<1>5. CASE n = 5 BY <1>5 DEF main, deployAndInvokeContractWithSmartAccount, deploy_account_and_invoke
<1>6. CASE n = 6
  BY <1>6 DEF main, sendHelloWorldTransactionWithSmartAccountAuth, hello, WithSmartAccountAuth
<1>7. CASE n = 7 BY <1>7 DEF main, upgradeSmartAccount, upgrade, WithSmartAccountAuth
<1>8. CASE n = 8
  BY <1>8 DEF main, sendHelloWorldTransactionWithSmartAccountAuth, hello, WithSmartAccountAuth
<1> QED BY <1>1, <1>2, <1>3, <1>4, <1>5, <1>6, <1>7, <1>8

\* What a step of an operation can be, by its place among the steps.
KindOf(n, w, i, s) ==
    /\ s.do = "get_deployed_address" <=> i = AddressAt[n]
    /\ s.do = "build" <=> i = BuildAt[n]
    /\ s.do = "printAuthEntries" => n # 1 /\ i = BuildAt[n] + 1
    /\ n # 1 /\ i = BuildAt[n] + 1 => s.do = "printAuthEntries"
    /\ s.do \in Attaches =>
          /\ s.address \in Required(Calls(n, w))
          /\ i = EntryAt(n, s.address)
          /\ s.do = "signAuthEntries" => s.address \in {ROOT, DEPLOYER}
          /\ s.do = "authorizeWithSmartAccount" =>
                 s.address \in Salts /\ s.signer = SignerOf(n, s.address)
    /\ \A a \in Required(Calls(n, w)) :
          i = EntryAt(n, a) => s.do \in Attaches /\ s.address = a
    /\ s.do = "simulate" => i > ReadyAt[n] /\ i < SendAt[n] /\ (n = 1 => i < SignAt[n])
    /\ s.do = "sign" <=> i = SignAt[n]
    /\ s.do = "sign" => s.signer = main(w)[n].source
    /\ s.do = "result" => n \in {1, 3} /\ i = Length[n]

\* Every step of main is what its place says.
LEMMA StepOf ==
    ASSUME NEW n \in 1 .. 8, NEW w, n \in {4, 6, 7, 8} => w \in Salts, NEW i \in 1 .. Length[n],
           n = 5 /\ i > 1 => w \in Salts,
           NEW s, s = main(w)[n].steps[i]
    PROVE  KindOf(n, w, i, s)
<1> USE DEF SendAt, Length, KindOf
<1>0. {ROOT, DEPLOYER} \cap Salts = {}
  BY PartiesAssumption, SaltsAssumption
<1>1. CASE n = 1
  <2>1. Required(Calls(n, w)) = {}
    BY <1>1, RequiredOf
  <2> QED
    BY <1>1, <2>1 DEF main, deployFactory, Step, sign, Attaches, AddressAt, BuildAt, ReadyAt, SignAt
<1>2. CASE n = 2
  <2>1. Required(Calls(n, w)) = {ROOT}
    BY <1>2, RequiredOf
  <2>2. main(w)[n].source = TREASURY
    BY <1>2 DEF main, grantDeployerRole
  <2>3. \/ i = 1 /\ s = Step("build")
        \/ i = 2 /\ s = Step("printAuthEntries")
        \/ i = 3 /\ s = signAuthEntries(ROOT)
        \/ i = 4 /\ s = sign(TREASURY)
        \/ i = 5 /\ s = Step("send")
        \/ i = 6 /\ s = Step("confirmTransaction")
    BY <1>2 DEF main, grantDeployerRole
  <2> QED
    BY <1>0, <1>2, <2>1, <2>2, <2>3
       DEF Step, sign, signAuthEntries, authorizeWithSmartAccount, Attaches, EntryAt, SignerOf,
           AddressAt, BuildAt, ReadyAt, SignAt
<1>3. CASE n = 3
  <2>1. Required(Calls(n, w)) = {DEPLOYER}
    BY <1>3, RequiredOf
  <2>2. main(w)[n].source = TREASURY
    BY <1>3 DEF main, deploySmartAccount
  <2>3. \/ i = 1 /\ s = Step("get_deployed_address")
        \/ i = 2 /\ s = Step("build")
        \/ i = 3 /\ s = Step("printAuthEntries")
        \/ i = 4 /\ s = signAuthEntries(DEPLOYER)
        \/ i = 5 /\ s = sign(TREASURY)
        \/ i = 6 /\ s = Step("simulate")
        \/ i = 7 /\ s = Step("send")
        \/ i = 8 /\ s = Step("confirmTransaction")
        \/ i = 9 /\ s = Step("result")
    BY <1>3 DEF main, deploySmartAccount
  <2> QED
    BY <1>0, <1>3, <2>1, <2>2, <2>3
       DEF Step, sign, signAuthEntries, authorizeWithSmartAccount, Attaches, EntryAt, SignerOf,
           AddressAt, BuildAt, ReadyAt, SignAt
<1>4. CASE n = 4
  <2>1. Required(Calls(n, w)) = {w}
    BY <1>4, RequiredOf
  <2>2. main(w)[n].source = TREASURY
    BY <1>4 DEF main, addSigner, WithSmartAccountAuth, add_signer
  <2>3. \/ i = 1 /\ s = Step("build")
        \/ i = 2 /\ s = Step("printAuthEntries")
        \/ i = 3 /\ s = authorizeWithSmartAccount(w, ADMIN_SIGNER)
        \/ i = 4 /\ s = Step("simulate")
        \/ i = 5 /\ s = sign(TREASURY)
        \/ i = 6 /\ s = Step("send")
        \/ i = 7 /\ s = Step("confirmTransaction")
    BY <1>4 DEF main, addSigner, WithSmartAccountAuth, add_signer
  <2> QED
    BY <1>0, <1>4, <2>1, <2>2, <2>3
       DEF Step, sign, signAuthEntries, authorizeWithSmartAccount, Attaches, EntryAt, SignerOf,
           AddressAt, BuildAt, ReadyAt, SignAt
<1>5. CASE n = 5
  <2>1. Required(Calls(n, w)) = {DEPLOYER, w}
    BY <1>5, RequiredOf
  <2>2. main(w)[n].source = TREASURY
    BY <1>5 DEF main, deployAndInvokeContractWithSmartAccount
  <2>3. \/ i = 1 /\ s = Step("get_deployed_address")
        \/ i = 2 /\ s = Step("build")
        \/ i = 3 /\ s = Step("printAuthEntries")
        \/ i = 4 /\ s = authorizeWithSmartAccount(w, ADMIN_SIGNER)
        \/ i = 5 /\ s = signAuthEntries(DEPLOYER)
        \/ i = 6 /\ s = Step("simulate")
        \/ i = 7 /\ s = sign(TREASURY)
        \/ i = 8 /\ s = Step("send")
        \/ i = 9 /\ s = Step("confirmTransaction")
    BY <1>5 DEF main, deployAndInvokeContractWithSmartAccount
  <2> QED
    BY <1>0, <1>5, <2>1, <2>2, <2>3
       DEF Step, sign, signAuthEntries, authorizeWithSmartAccount, Attaches, EntryAt, SignerOf,
           AddressAt, BuildAt, ReadyAt, SignAt
<1>6. CASE n = 6
  <2>1. Required(Calls(n, w)) = {w}
    BY <1>6, RequiredOf
  <2>2. main(w)[n].source = TREASURY
    BY <1>6 DEF main, sendHelloWorldTransactionWithSmartAccountAuth, WithSmartAccountAuth, hello
  <2>3. \/ i = 1 /\ s = Step("build")
        \/ i = 2 /\ s = Step("printAuthEntries")
        \/ i = 3 /\ s = authorizeWithSmartAccount(w, DELEGATED_SIGNER)
        \/ i = 4 /\ s = Step("simulate")
        \/ i = 5 /\ s = sign(TREASURY)
        \/ i = 6 /\ s = Step("send")
        \/ i = 7 /\ s = Step("confirmTransaction")
    BY <1>6 DEF main, sendHelloWorldTransactionWithSmartAccountAuth, WithSmartAccountAuth, hello
  <2> QED
    BY <1>0, <1>6, <2>1, <2>2, <2>3
       DEF Step, sign, signAuthEntries, authorizeWithSmartAccount, Attaches, EntryAt, SignerOf,
           AddressAt, BuildAt, ReadyAt, SignAt
<1>7. CASE n = 7
  <2>1. Required(Calls(n, w)) = {w}
    BY <1>7, RequiredOf
  <2>2. main(w)[n].source = TREASURY
    BY <1>7 DEF main, upgradeSmartAccount, WithSmartAccountAuth, upgrade
  <2>3. \/ i = 1 /\ s = Step("build")
        \/ i = 2 /\ s = Step("printAuthEntries")
        \/ i = 3 /\ s = authorizeWithSmartAccount(w, ADMIN_SIGNER)
        \/ i = 4 /\ s = Step("simulate")
        \/ i = 5 /\ s = sign(TREASURY)
        \/ i = 6 /\ s = Step("send")
        \/ i = 7 /\ s = Step("confirmTransaction")
    BY <1>7 DEF main, upgradeSmartAccount, WithSmartAccountAuth, upgrade
  <2> QED
    BY <1>0, <1>7, <2>1, <2>2, <2>3
       DEF Step, sign, signAuthEntries, authorizeWithSmartAccount, Attaches, EntryAt, SignerOf,
           AddressAt, BuildAt, ReadyAt, SignAt
<1>8. CASE n = 8
  <2>1. Required(Calls(n, w)) = {w}
    BY <1>8, RequiredOf
  <2>2. main(w)[n].source = TREASURY
    BY <1>8 DEF main, sendHelloWorldTransactionWithSmartAccountAuth, WithSmartAccountAuth, hello
  <2>3. \/ i = 1 /\ s = Step("build")
        \/ i = 2 /\ s = Step("printAuthEntries")
        \/ i = 3 /\ s = authorizeWithSmartAccount(w, DELEGATED_SIGNER)
        \/ i = 4 /\ s = Step("simulate")
        \/ i = 5 /\ s = sign(TREASURY)
        \/ i = 6 /\ s = Step("send")
        \/ i = 7 /\ s = Step("confirmTransaction")
    BY <1>8 DEF main, sendHelloWorldTransactionWithSmartAccountAuth, WithSmartAccountAuth, hello
  <2> QED
    BY <1>0, <1>8, <2>1, <2>2, <2>3
       DEF Step, sign, signAuthEntries, authorizeWithSmartAccount, Attaches, EntryAt, SignerOf,
           AddressAt, BuildAt, ReadyAt, SignAt
<1> QED BY <1>1, <1>2, <1>3, <1>4, <1>5, <1>6, <1>7, <1>8

-----------------------------------------------------------------------------
\* The signers of an account: as it is deployed, and with the delegated signer.
Deployed ==
    [k \in SignerKeys |-> IF k = ADMIN_SIGNER THEN createAdminSignerFromKeypair(ADMIN_SIGNER) ELSE Missing]
Delegated ==
    [k \in SignerKeys |-> IF k = ADMIN_SIGNER THEN createAdminSignerFromKeypair(ADMIN_SIGNER)
                          ELSE Signer(DELEGATED_SIGNER, Decision!Standard)]

\* The two key pairs are not one, and what they sign with is something.
LEMMA KeysOfMain ==
    /\ ADMIN_SIGNER # DELEGATED_SIGNER
    /\ Decision!SignerKeys = SignerKeys
    /\ createAdminSignerFromKeypair(ADMIN_SIGNER) \in Decision!Signer \ {Missing}
    /\ Signer(DELEGATED_SIGNER, Decision!Standard) \in Decision!Signer \ {Missing}
<1>1. ADMIN_SIGNER # DELEGATED_SIGNER
  <2>1. Keypairs[4] = ADMIN_SIGNER /\ Keypairs[5] = DELEGATED_SIGNER /\ {4, 5} \subseteq DOMAIN Keypairs
    BY DEF Keypairs
  <2> QED BY <2>1, KeypairsAssumption
<1>2. Decision!SignerKeys = SignerKeys
  BY DEF Decision!SignerKeys
<1>3. Signer(ADMIN_SIGNER, Decision!Admin) \in Decision!Signer
  BY DEF Decision!Signer, Decision!Credentials, Decision!SignerKeys, Decision!SignerRole, Decision!Admin,
         SignerKeys, Signer
<1>4. Signer(DELEGATED_SIGNER, Decision!Standard) \in Decision!Signer
  BY DEF Decision!Signer, Decision!Credentials, Decision!SignerKeys, Decision!SignerRole, Decision!Standard,
         SignerKeys, Signer
<1> QED BY <1>1, <1>2, <1>3, <1>4, NothingAssumption DEF createAdminSignerFromKeypair

\* What deployment and addSigner store (ContractFactory::deploy, add_signer).
LEMMA Stores ==
    /\ Constructed({createAdminSignerFromKeypair(ADMIN_SIGNER)}) = Deployed
    /\ Decision!SetEntry(Deployed, DELEGATED_SIGNER, Signer(DELEGATED_SIGNER, Decision!Standard)) = Delegated
    /\ ~Decision!Has(Deployed, DELEGATED_SIGNER)
    /\ Deployed # NoAccount /\ Delegated # NoAccount /\ Deployed # Delegated
<1> DEFINE a == createAdminSignerFromKeypair(ADMIN_SIGNER)
           d == Signer(DELEGATED_SIGNER, Decision!Standard)
<1>1. a.key = ADMIN_SIGNER /\ d.key = DELEGATED_SIGNER
  BY DEF createAdminSignerFromKeypair, Signer
<1>2. /\ ADMIN_SIGNER # DELEGATED_SIGNER /\ Decision!SignerKeys = SignerKeys
      /\ a \in Decision!Signer \ {Missing} /\ d \in Decision!Signer \ {Missing}
  BY KeysOfMain
<1> HIDE DEF a, d
<1>3. Constructed({a}) = Deployed
  <2>1. ASSUME NEW k \in SignerKeys
        PROVE  (IF \E s \in {a} : s.key = k THEN CHOOSE s \in {a} : s.key = k ELSE Missing)
                  = IF k = ADMIN_SIGNER THEN a ELSE Missing
    <3>1. CASE k = ADMIN_SIGNER
      <4>1. \E s \in {a} : s.key = k
        BY <1>1, <3>1
      <4>2. (CHOOSE s \in {a} : s.key = k) \in {a}
        BY <4>1
      <4> QED BY <3>1, <4>1, <4>2
    <3>2. CASE k # ADMIN_SIGNER
      BY <1>1, <3>2
    <3> QED BY <3>1, <3>2
  <2> QED BY <2>1 DEF Constructed, Deployed, a
<1>4. Decision!SetEntry(Deployed, DELEGATED_SIGNER, d) = Delegated
  <2>1. /\ Deployed = [k \in SignerKeys |-> IF k = ADMIN_SIGNER THEN a ELSE Missing]
        /\ Delegated = [k \in SignerKeys |-> IF k = ADMIN_SIGNER THEN a ELSE d]
    BY DEF Deployed, Delegated, a, d
  <2>2. Decision!SetEntry(Deployed, DELEGATED_SIGNER, d) = [Deployed EXCEPT ![DELEGATED_SIGNER] = d]
    BY DEF Decision!SetEntry
  <2> QED BY <1>2, <2>1, <2>2 DEF SignerKeys
<1>5. ~Decision!Has(Deployed, DELEGATED_SIGNER)
  BY <1>2 DEF Decision!Has, Decision!Present, Deployed
<1>6. Deployed \in Decision!SignerMap /\ Delegated \in Decision!SignerMap
  BY <1>1, <1>2 DEF Decision!SignerMap, Decision!Present, Deployed, Delegated, SignerKeys, d, a
<1>7. Deployed[DELEGATED_SIGNER] = Missing /\ Delegated[DELEGATED_SIGNER] = d
  BY <1>2 DEF Deployed, Delegated, SignerKeys, d
<1> QED BY <1>2, <1>3, <1>4, <1>5, <1>6, <1>7, NothingAssumption DEF d, a

\* An account accepts a proof of its admin for any call, and of the delegated
\* signer for a call of another contract, if the proof is over the entry.
LEMMA AccountAccepts ==
    ASSUME NEW store \in {Deployed, Delegated}, NEW k \in SignerKeys, NEW when,
           NEW entry, entry.signer = k, entry.expiration \in Nat, NEW contexts,
           k # ADMIN_SIGNER => store = Delegated /\ contexts = <<Decision!ContractCallContext(Hello)>>
    PROVE  Decision!CheckAuthOk(store, when, entry.expiration, Proofs(entry), contexts)
<1> DEFINE proof == [scheme |-> "Ed25519", pub |-> k, payload |-> entry.expiration]
           a == createAdminSignerFromKeypair(ADMIN_SIGNER)
           d == Signer(DELEGATED_SIGNER, Decision!Standard)
<1>1. /\ ADMIN_SIGNER # DELEGATED_SIGNER /\ Decision!SignerKeys = SignerKeys
      /\ a # Missing /\ d # Missing
  BY KeysOfMain
<1>2. proof # Missing
  <2>1. proof \in Decision!Proof(Nat)
    BY DEF Decision!Proof, Decision!Schemes
  <2> QED BY <2>1, NothingAssumption
<1>3. /\ a.key = ADMIN_SIGNER /\ a.pub = ADMIN_SIGNER /\ a.role = [kind |-> "Admin"]
      /\ d.key = DELEGATED_SIGNER /\ d.pub = DELEGATED_SIGNER /\ d.role = [kind |-> "Standard"]
      /\ proof.scheme = "Ed25519" /\ proof.pub = k /\ proof.payload = entry.expiration
  BY DEF createAdminSignerFromKeypair, Signer, Decision!Admin, Decision!Standard
<1>4. /\ store[k] = IF k = ADMIN_SIGNER THEN a ELSE d
      /\ Proofs(entry) = [j \in SignerKeys |-> IF j = k THEN proof ELSE Missing]
  <2>1. store[k] = IF k = ADMIN_SIGNER THEN a ELSE d
    BY <1>1 DEF Deployed, Delegated, SignerKeys
  <2>2. Proofs(entry) = [j \in SignerKeys |-> IF j = k THEN proof ELSE Missing]
    BY <1>1 DEF Proofs, Decision!SetEntry, Decision!Empty
  <2> QED BY <2>1, <2>2
<1> HIDE DEF a, d, proof
<1>5. Decision!Present(Proofs(entry)) = {k} /\ Proofs(entry)[k] = proof
  BY <1>1, <1>2, <1>4 DEF Decision!Present
<1>6. Decision!Has(store, k)
  BY <1>1, <1>4 DEF Decision!Has, Decision!Present
<1>7. Decision!Verify(store[k], entry.expiration, proof) = "Ok"
  BY <1>3, <1>4 DEF Decision!Verify, Decision!Ed25519Verify, SignerKeys
<1>8. ASSUME NEW i \in DOMAIN contexts
      PROVE  Decision!IsAuthorized(store[k].role, when, contexts[i])
  <2>1. CASE k = ADMIN_SIGNER
    BY <1>3, <1>4, <2>1 DEF Decision!IsAuthorized
  <2>2. CASE k # ADMIN_SIGNER
    <3>1. contexts[i] = [kind |-> "Contract", contract |-> Hello]
      BY <2>2 DEF Decision!ContractCallContext
    <3>2. ~Decision!IsAdminOperation(contexts[i])
      BY <3>1, HelloAssumption DEF Decision!IsAdminOperation
    <3> QED BY <1>3, <1>4, <2>2, <3>2 DEF Decision!IsAuthorized
  <2> QED BY <2>1, <2>2
<1>9. /\ Decision!AllKnown(store, Proofs(entry))
      /\ Decision!AllVerify(store, entry.expiration, Proofs(entry))
  BY <1>5, <1>6, <1>7 DEF Decision!AllKnown, Decision!AllVerify
<1>10. \A i \in DOMAIN contexts : Decision!ContextAuthorized(store, when, Proofs(entry), contexts[i])
  BY <1>5, <1>8 DEF Decision!ContextAuthorized
<1> QED BY <1>5, <1>9, <1>10 DEF Decision!CheckAuthOk

-----------------------------------------------------------------------------
Done == Len(executed)

\* The only account there is.
OnlyAccount(signers) == \A s \in Salts : accounts[s] = IF s = wallet THEN signers ELSE NoAccount

\* The contracts, after so many effects.
WorldInv ==
    /\ AccessTypeOK
    /\ accounts \in [Salts -> {NoAccount, Deployed, Delegated}]
    /\ Done >= 1 => admin = ROOT
    /\ Done >= 2 => HasRole(DEPLOYER, Deployer)
    /\ Done <= 2 => \A s \in Salts : accounts[s] = NoAccount
    /\ Done = 3 => OnlyAccount(Deployed)
    /\ Done = 4 => IF at = 5 /\ pc > 1 THEN accounts[wallet] = NoAccount
                   ELSE exit = "running" => OnlyAccount(Delegated)
    /\ Done >= 5 => accounts[wallet] = Delegated

WalletInv ==
    /\ wallet \in Salts \cup {NoWallet}
    /\ at > 3 \/ (at = 3 /\ pc > 1) => wallet \in Salts

\* An entry signed by the right key pair, for the validity the code gives it.
SignedWell(address, entry) ==
    /\ entry.signer = SignerOf(at, address)
    /\ entry.since + ValidityOf(address) <= entry.expiration + MaxLag

AllSigned(auth) ==
    /\ DOMAIN auth = Required(Operation.call)
    /\ \A address \in DOMAIN auth : SignedWell(address, auth[address])

\* Once its account is chosen, an operation is permitted, and signed well and
\* included in time it is accepted (the calls and signers of main).
LEMMA CallsPermitted ==
    ASSUME WorldInv, WalletInv, at \in 1 .. 8, pc \in Nat, pc >= BuildAt[at], Done = at - 1
    PROVE  Permitted(Operation.call)
<1>1. Operation.call = main(wallet)[at].call
  BY DEF Operation
<1>2. at \in {3, 5} => BuildAt[at] = 2
  BY DEF BuildAt
<1>3. (pc > 1 /\ at = 3) \/ at > 3 => wallet \in Salts
  BY DEF WalletInv
<1>4. at \in {3, 5} => \E s \in {createAdminSignerFromKeypair(ADMIN_SIGNER)} : s.role = Decision!Admin
  BY DEF createAdminSignerFromKeypair, Signer
<1>5. CASE at = 1
  BY <1>1, <1>5 DEF Permitted, main, deployFactory, factory_constructor
<1>6. CASE at = 2
  BY <1>1, <1>6 DEF Permitted, main, grantDeployerRole, grant_role, WorldInv, MayAdminister
<1>7. CASE at = 3
  <2>1. HasRole(DEPLOYER, Deployer) /\ accounts[wallet] = NoAccount
    BY <1>2, <1>3, <1>7 DEF WorldInv
  <2>2. /\ Operation.call.fn = "deploy"
        /\ Operation.call.caller = DEPLOYER /\ Operation.call.salt = wallet
        /\ Operation.call.signers = {createAdminSignerFromKeypair(ADMIN_SIGNER)}
    BY <1>1, <1>7 DEF main, deploySmartAccount, deploy
  <2> QED BY <1>4, <1>7, <2>1, <2>2 DEF Permitted, Deploys
<1>8. CASE at = 4
  <2>1. accounts[wallet] = Deployed
    BY <1>3, <1>8 DEF WorldInv, OnlyAccount
  <2>2. /\ Operation.call.fn = "add_signer" /\ Operation.call.contract = wallet
        /\ Operation.call.signer.key = DELEGATED_SIGNER
    BY <1>1, <1>8 DEF main, addSigner, add_signer, WithSmartAccountAuth, Signer
  <2> QED BY <2>1, <2>2, Stores DEF Permitted
<1>9. CASE at = 5
  <2>1. HasRole(DEPLOYER, Deployer) /\ accounts[wallet] = NoAccount
    BY <1>2, <1>9 DEF WorldInv
  <2>2. /\ Operation.call.fn = "deploy_account_and_invoke"
        /\ Operation.call.caller = DEPLOYER /\ Operation.call.salt = wallet
        /\ Operation.call.signers = {createAdminSignerFromKeypair(ADMIN_SIGNER)}
        /\ Operation.call.signer.key = DELEGATED_SIGNER
    BY <1>1, <1>9 DEF main, deployAndInvokeContractWithSmartAccount, deploy_account_and_invoke, Signer
  <2>3. ~Decision!Has(Constructed(Operation.call.signers), DELEGATED_SIGNER)
    BY <2>2, Stores
  <2> QED BY <1>4, <1>9, <2>1, <2>2, <2>3 DEF Permitted, Deploys
<1>10. CASE at \in 6 .. 8
  <2>1. accounts[wallet] = Delegated
    BY <1>10 DEF WorldInv
  <2>2. Operation.call.fn \in {"upgrade", "hello"} /\ Operation.call.contract = wallet
    <3>1. CASE at = 7
      BY <1>1, <3>1 DEF main, upgradeSmartAccount, upgrade, WithSmartAccountAuth
    <3>2. CASE at \in {6, 8}
      BY <1>1, <3>2 DEF main, sendHelloWorldTransactionWithSmartAccountAuth, hello, WithSmartAccountAuth
    <3> QED BY <1>10, <3>1, <3>2
  <2> QED BY <2>1, <2>2, Stores DEF Permitted
<1> QED BY <1>5, <1>6, <1>7, <1>8, <1>9, <1>10

\* Signed or not, an entry has an expiration and the ledger of its signature.
LEMMA EntryNumbers == ASSUME NEW entry \in Entry PROVE entry.expiration \in Nat /\ entry.since \in Nat
BY BoundsAssumption DEF Entry, Signed, Unsigned

\* Nothing but the expiration of an entry can then make it fail (__check_auth of the
\* accounts, require_auth of the others).
LEMMA CallsAccepted ==
    ASSUME WorldInv, WalletInv, at \in 1 .. 8, pc \in Nat, pc >= BuildAt[at], Done = at - 1,
           NEW auth, IsEntryMap(auth), AllSigned(auth), NEW when, ~Late(Operation.call, auth, when)
    PROVE  Accepted(Operation.call, auth, when)
<1>1. Operation.call = Calls(at, wallet)
  BY DEF Operation, Calls
<1>2. Permitted(Operation.call)
  BY CallsPermitted
<1>3. {ROOT, DEPLOYER} \cap Salts = {}
  BY PartiesAssumption, SaltsAssumption
<1>4. (pc > 1 /\ at = 3) \/ at > 3 => wallet \in Salts
  BY DEF WalletInv
<1>5. ASSUME NEW address \in Required(Operation.call)
      PROVE  Authenticated(Operation.call, address, auth[address], when)
  <2> DEFINE entry == auth[address]
  <2>1. address \in DOMAIN auth /\ entry.expiration \in Nat /\ entry.signer = SignerOf(at, address)
    BY EntryNumbers DEF AllSigned, SignedWell, IsEntryMap
  <2>2. ~Expired(entry, when)
    BY DEF Late
  <2>3. address \in {ROOT, DEPLOYER} \/ (address = wallet /\ at > 3)
    BY <1>1, RequiredOf
  <2>4. CASE address \in {ROOT, DEPLOYER}
    <3>1. entry.signer = address /\ entry.signer # Nobody
      BY <1>3, <2>1, <2>4, NothingAssumption DEF SignerOf
    <3> QED BY <1>3, <2>2, <2>4, <3>1 DEF Authenticated
  <2>5. CASE address = wallet /\ at > 3
    <3>1. address \in Salts
      BY <1>4, <2>5
    <3>2. entry.signer = (IF at \in {6, 8} THEN DELEGATED_SIGNER ELSE ADMIN_SIGNER)
      BY <2>1, <3>1 DEF SignerOf
    <3>3. entry.signer \in SignerKeys /\ entry.signer # Nobody
      BY <3>2, NothingAssumption DEF SignerKeys
    <3>4. StoreFor(Operation.call) \in {Deployed, Delegated}
      <4>1. CASE at = 5
        <5>1. /\ Operation.call.fn = "deploy_account_and_invoke"
              /\ Operation.call.signers = {createAdminSignerFromKeypair(ADMIN_SIGNER)}
          BY <1>1, <4>1 DEF Calls, main, deployAndInvokeContractWithSmartAccount, deploy_account_and_invoke
        <5> QED BY <5>1, Stores DEF StoreFor
      <4>2. CASE at = 4
        <5>1. Operation.call.fn = "add_signer" /\ Operation.call.contract = wallet
          BY <1>1, <4>2 DEF Calls, main, addSigner, add_signer, WithSmartAccountAuth
        <5>2. accounts[wallet] = Deployed
          BY <1>4, <4>2 DEF WorldInv, OnlyAccount
        <5> QED BY <5>1, <5>2 DEF StoreFor
      <4>3. CASE at = 7
        <5>1. Operation.call.fn = "upgrade" /\ Operation.call.contract = wallet
          BY <1>1, <4>3 DEF Calls, main, upgradeSmartAccount, upgrade, WithSmartAccountAuth
        <5>2. accounts[wallet] = Delegated
          BY <4>3 DEF WorldInv
        <5> QED BY <5>1, <5>2 DEF StoreFor
      <4>4. CASE at \in {6, 8}
        <5>1. Operation.call.fn = "hello" /\ Operation.call.contract = wallet
          BY <1>1, <4>4
             DEF Calls, main, sendHelloWorldTransactionWithSmartAccountAuth, hello, WithSmartAccountAuth
        <5>2. accounts[wallet] = Delegated
          BY <4>4 DEF WorldInv
        <5> QED BY <5>1, <5>2 DEF StoreFor
      <4> QED BY <2>5, <4>1, <4>2, <4>3, <4>4
    <3>5. at \in {6, 8} => /\ StoreFor(Operation.call) = Delegated
                           /\ Contexts(Operation.call) = <<Decision!ContractCallContext(Hello)>>
      <4>1. at \in {6, 8} => Operation.call.fn = "hello" /\ Operation.call.contract = wallet
        BY <1>1 DEF Calls, main, sendHelloWorldTransactionWithSmartAccountAuth, hello, WithSmartAccountAuth
      <4>2. at \in {6, 8} => accounts[wallet] = Delegated
        BY DEF WorldInv
      <4> QED BY <4>1, <4>2 DEF StoreFor, Contexts
    <3> HIDE DEF entry
    <3>6. entry.signer # ADMIN_SIGNER => at \in {6, 8}
      BY <3>2
    <3>7. Decision!CheckAuthOk(StoreFor(Operation.call), when, entry.expiration, Proofs(entry),
                               Contexts(Operation.call))
      BY <2>1, <3>3, <3>4, <3>5, <3>6, AccountAccepts
    <3> QED BY <2>2, <3>1, <3>3, <3>7 DEF Authenticated, entry
  <2> QED BY <2>3, <2>4, <2>5
<1> QED BY <1>2, <1>5 DEF Accepted

-----------------------------------------------------------------------------
\* What the client holds: entries for the call, those signed that it has passed,
\* and no failed simulation without something having gone wrong.
PreparedInv ==
    at \in 1 .. 8 =>
        /\ pc > BuildAt[at] =>
              /\ simulation = "success" \/ (simulation = "error" /\ trouble # {})
              /\ \/ DOMAIN entries = Required(Operation.call)
                 \/ simulation = "error" /\ at # 1 /\ pc = BuildAt[at] + 1
              /\ \A address \in DOMAIN entries :
                    pc > EntryAt(at, address) => SignedWell(address, entries[address])
        /\ pc > SignAt[at] => AllSigned(signed)
        /\ pc > SignAt[at] /\ at = 1 => simulation = "success"

HeldTypes ==
    /\ simulation \in {"none", "success", "error"}
    /\ IsEntryMap(entries) /\ IsEntryMap(signed) /\ IsEntryMap(sent.auth)

\* What is on its way is the call of the operation being run.
SentInv ==
    /\ sent.at \in 0 .. 8
    /\ status = "pending" =>
          at \in 1 .. 8 /\ pc > SignAt[at] /\ sent.call = Operation.call /\ sent.auth = signed

LedgerInv ==
    /\ ledger \in 1 .. MaxLedger /\ closed \in 0 .. ledger
    /\ exit \in {"running", "completed", "failed"}
    /\ status \in {"none", "pending", "SUCCESS", "FAILED", "lost"}

BlameInv ==
    /\ FailureHasCause
    /\ status = "FAILED" => trouble # {}
    /\ InTimeSucceeds
    /\ exit = "failed" => at \in 1 .. 8 /\ (step.do = "result" => at = 3)

WorkInv ==
    /\ PhaseInv
    /\ WorldInv
    /\ WalletInv
    /\ PreparedInv
    /\ HeldTypes
    /\ SentInv
    /\ LedgerInv
    /\ BlameInv

\* Entries are signed after they are printed and before the transaction is signed.
LEMMA EntryPlace ==
    ASSUME NEW n \in 1 .. 8, NEW w, NEW a \in Required(Calls(n, w))
    PROVE  n # 1 /\ EntryAt(n, a) \in Nat /\ BuildAt[n] + 1 < EntryAt(n, a) /\ EntryAt(n, a) <= ReadyAt[n]
<1>1. n # 1
  BY RequiredOf
<1>2. CASE n = 5
  BY <1>2 DEF EntryAt, ReadyAt, BuildAt
<1>3. CASE n # 5
  BY <1>1, <1>3, Places DEF EntryAt
<1> QED BY <1>1, <1>2, <1>3

\* How many effects there are.
LEMMA EffectsDone ==
    ASSUME PhaseInv
    PROVE  /\ at \in 1 .. 8 /\ status = "pending" => Done = at - 1 /\ InFlight
           /\ at \in 1 .. 8 /\ exit = "running" /\ pc <= SendAt[at] =>
                 Done = at - 1 /\ status # "pending"
           /\ at \in 1 .. 8 => Done \in {at - 1, at} /\ (Done = at => status = "SUCCESS")
           /\ at = 9 => Done = 8
<1>1. \A n \in 0 .. 8 : Len(FirstOperations(n)) = n
  BY DEF FirstOperations
<1>2. CASE at \in 1 .. 8
  <2>1. SendAt[at] \in Nat /\ Length[at] \in Nat /\ at - 1 \in 0 .. 8 /\ at \in 0 .. 8 /\ at - 1 # at
    BY <1>2, StepNumbers
  <2>2. pc \in 1 .. Length[at] /\ (Preparing \/ InFlight \/ InEffect)
    BY <1>2 DEF PhaseInv
  <2>3. Len(FirstOperations(at - 1)) = at - 1 /\ Len(FirstOperations(at)) = at
    BY <1>1, <2>1
  <2>4. pc = SendAt[at] + 1 \/ pc > SendAt[at] => ~(pc <= SendAt[at])
    BY <2>1, <2>2
  <2> HIDE DEF PhaseInv
  <2>5. Preparing => Done = at - 1 /\ status # "pending"
    BY <2>3 DEF Preparing, Done
  <2>6. InFlight => Done = at - 1 /\ status # "SUCCESS" /\ (exit = "running" => ~(pc <= SendAt[at]))
    BY <2>3, <2>4 DEF InFlight, Done
  <2>7. InEffect => Done = at /\ status = "SUCCESS" /\ (exit = "running" => ~(pc <= SendAt[at]))
    BY <2>3, <2>4 DEF InEffect, Done
  <2> QED BY <1>2, <2>1, <2>2, <2>5, <2>6, <2>7
<1>3. CASE at = 9
  BY <1>1, <1>3 DEF PhaseInv, Done
<1> QED BY <1>2, <1>3 DEF PhaseInv

\* Where main is while it runs, and what the step it is at can be.
LEMMA StepRunning ==
    ASSUME WorkInv, exit = "running"
    PROVE  /\ at \in 1 .. 8 /\ pc \in 1 .. Length[at] /\ Len(Operation.steps) = Length[at]
           /\ Operation = main(wallet)[at] /\ Operation.call = Calls(at, wallet)
           /\ step = main(wallet)[at].steps[pc]
           /\ at \in {4, 6, 7, 8} => wallet \in Salts
           /\ at = 5 => wallet \in Salts
           /\ step.do = "send" <=> pc = SendAt[at]
           /\ step.do = "confirmTransaction" <=> pc = SendAt[at] + 1
<1>1. PhaseInv /\ WalletInv
  BY DEF WorkInv
<1>2. /\ at \in 1 .. 8 /\ pc \in 1 .. Length[at] /\ Len(Operation.steps) = Length[at]
      /\ step.do = "send" <=> pc = SendAt[at]
      /\ step.do = "confirmTransaction" <=> pc = SendAt[at] + 1
  BY <1>1, RunningAt
<1>3. Operation = main(wallet)[at] /\ Operation.call = Calls(at, wallet)
      /\ step = main(wallet)[at].steps[pc]
  BY DEF Operation, Calls, step
<1>4. at \in {4, 5, 6, 7, 8} => wallet \in Salts
  BY <1>1, <1>2 DEF WalletInv
<1> QED BY <1>2, <1>3, <1>4

\* The same of the step that runs.
LEMMA StepKinds ==
    ASSUME WorkInv, exit = "running"
    PROVE  KindOf(at, wallet, pc, step)
<1>1. /\ at \in 1 .. 8 /\ pc \in 1 .. Length[at]
      /\ Operation = main(wallet)[at]
      /\ step = main(wallet)[at].steps[pc]
      /\ at \in {4, 6, 7, 8} => wallet \in Salts
      /\ at = 5 => wallet \in Salts
  BY StepRunning
<1>2. PICK n \in 1 .. 8 : n = at
  BY <1>1
<1>3. PICK i \in 1 .. Length[n] : i = pc
  BY <1>1, <1>2
<1>4. PICK w : w = wallet
  OBVIOUS
<1>5. PICK s : s = main(w)[n].steps[i]
  OBVIOUS
<1>6. KindOf(n, w, i, s)
  BY <1>1, <1>2, <1>3, <1>4, <1>5, StepOf
<1> QED BY <1>1, <1>2, <1>3, <1>4, <1>5, <1>6

\* The contracts and the account do not change while the client moves on.
LEMMA WorldKeeps ==
    ASSUME WorkInv, exit = "running", UNCHANGED <<access, accounts, executed, wallet>>,
           \/ Throw
           \/ /\ Advance
              /\ step.do # "get_deployed_address"
              /\ step.do = "confirmTransaction" => status = "SUCCESS"
    PROVE  WorldInv' /\ WalletInv'
<1>1. WorldInv /\ WalletInv
  BY DEF WorkInv
<1>2. at \in 1 .. 8 /\ pc \in 1 .. Length[at] /\ Len(Operation.steps) = Length[at]
      /\ Length[at] \in Nat /\ Length[at] > 1
  <2>1. at \in 1 .. 8 /\ pc \in 1 .. Length[at] /\ Len(Operation.steps) = Length[at]
    BY StepRunning
  <2>2. SendAt[at] \in Nat /\ Length[at] \in Nat /\ 1 <= SendAt[at] /\ SendAt[at] < Length[at]
    BY <2>1, StepNumbers
  <2>3. Length[at] > 1
    BY <2>2
  <2> QED BY <2>1, <2>2, <2>3
<1>3. /\ AccessTypeOK' /\ Done' = Done /\ admin' = admin /\ holders' = holders
      /\ accounts' = accounts /\ wallet' = wallet
  BY <1>1 DEF WorldInv, AccessTypeOK, access, Done
<1> HIDE DEF WorldInv
<1>6. \A s : OnlyAccount(s)' <=> OnlyAccount(s)
  BY <1>3 DEF OnlyAccount
<1>4. CASE Throw
  BY <1>1, <1>3, <1>4, <1>6 DEF Throw, WorldInv, WalletInv, HasRole
<1>5. CASE /\ Advance
           /\ step.do # "get_deployed_address"
           /\ step.do = "confirmTransaction" => status = "SUCCESS"
  <2>1. ~(at \in {3, 5} /\ pc = 1)
    BY <1>2, <1>5, StepKinds DEF KindOf, AddressAt
  <2>2. \/ at' = at /\ pc' = pc + 1 /\ exit' = exit
        \/ at' = at + 1 /\ pc' = 1 /\ pc = Length[at]
    BY <1>2, <1>5 DEF Advance
  <2>3. WalletInv'
    BY <1>1, <1>2, <1>3, <2>1, <2>2 DEF WalletInv
  <2>4. Done = 4 => at \in 4 .. 5
    <3>1. Done \in {at - 1, at}
      BY <1>2, EffectsDone DEF WorkInv
    <3> QED BY <1>2, <3>1
  <2>5. Done = 4 => IF at' = 5 /\ pc' > 1 THEN accounts[wallet] = NoAccount
                    ELSE exit' = "running" => OnlyAccount(Delegated)
    <3>1. CASE at = 4
      <4>1. ~(at' = 5 /\ pc' > 1)
        BY <1>2, <2>2, <3>1
      <4> QED BY <1>1, <3>1, <4>1 DEF WorldInv
    <3>2. CASE at = 5
      <4>1. pc > 1 /\ (at' = 5 => pc' > 1)
        BY <1>2, <2>1, <2>2, <3>2
      <4>2. at' = 6 => pc = Length[5] /\ Done # 4
        <5>1. at' = 6 => pc = SendAt[5] + 1 /\ pc = Length[5]
          BY <1>2, <2>2, <3>2 DEF Length, SendAt
        <5>2. pc = SendAt[5] + 1 => status = "SUCCESS"
          BY <1>5, <3>2, StepRunning
        <5>3. pc = SendAt[5] + 1 /\ status = "SUCCESS" => InEffect
          BY <3>2 DEF WorkInv, PhaseInv, Preparing, InFlight, SendAt
        <5>4. InEffect => Done = 5
          <6>1. Len(FirstOperations(5)) = 5
            BY DEF FirstOperations
          <6> QED BY <3>2, <6>1 DEF InEffect, Done
        <5> QED BY <5>1, <5>2, <5>3, <5>4
      <4> QED BY <1>1, <2>2, <3>2, <4>1, <4>2 DEF WorldInv
    <3> QED BY <2>4, <3>1, <3>2
  <2> HIDE DEF WorldInv
  <2>6. WorldInv'
    BY <1>1, <1>3, <1>6, <2>5 DEF WorldInv, HasRole
  <2> QED BY <2>3, <2>6
<1> QED BY <1>4, <1>5

\* What the client holds stays what it is while the client moves on, except in
\* the steps that change it.
LEMMA HeldKeeps ==
    ASSUME WorkInv, exit = "running", UNCHANGED <<wallet, transaction>>, trouble \subseteq trouble',
           \/ Throw
           \/ /\ Advance
              /\ step.do \notin Attaches \cup {"build", "sign"}
              /\ step.do = "printAuthEntries" => simulation # "error"
    PROVE  PreparedInv'
<1>1. PreparedInv
  BY DEF WorkInv
<1>2. /\ at \in 1 .. 8 /\ pc \in 1 .. Length[at] /\ Len(Operation.steps) = Length[at]
      /\ Operation.call = Calls(at, wallet)
  BY StepRunning
<1>3. /\ BuildAt[at] \in Nat /\ SignAt[at] \in Nat /\ Length[at] \in Nat
      /\ 1 <= BuildAt[at] /\ BuildAt[at] + 1 < SignAt[at]
  <2>1. /\ {BuildAt[at], ReadyAt[at], SignAt[at], Length[at]} \subseteq Nat
        /\ 1 <= BuildAt[at] /\ BuildAt[at] + 1 < SignAt[at]
    BY <1>2, Places
  <2> QED BY <2>1
<1>4. /\ simulation' = simulation /\ entries' = entries /\ signed' = signed /\ wallet' = wallet
      /\ at' = at => /\ Operation' = Operation
                     /\ \A a, e : SignedWell(a, e)' <=> SignedWell(a, e)
  BY DEF transaction, Operation, SignedWell
<1>5. trouble # {} => trouble' # {}
  OBVIOUS
<1>6. CASE Throw
  BY <1>1, <1>4, <1>5, <1>6 DEF Throw, PreparedInv, AllSigned
<1>7. CASE /\ Advance
           /\ step.do \notin Attaches \cup {"build", "sign"}
           /\ step.do = "printAuthEntries" => simulation # "error"
  <2>1. CASE at' = at + 1 /\ pc' = 1
    <3>1. at' \in 1 .. 8 => 1 <= BuildAt[at'] /\ 1 <= SignAt[at'] /\ BuildAt[at'] \in Nat /\ SignAt[at'] \in Nat
      BY DEF BuildAt, SignAt
    <3>2. at' \in 1 .. 8 => ~(pc' > BuildAt[at']) /\ ~(pc' > SignAt[at'])
      BY <2>1, <3>1
    <3> QED BY <3>2 DEF PreparedInv
  <2>2. CASE at' = at /\ pc' = pc + 1
    <3>1. pc # BuildAt[at] /\ pc # SignAt[at]
      BY <1>7, StepKinds DEF KindOf
    <3>2. (pc' > BuildAt[at] => pc > BuildAt[at]) /\ (pc' > SignAt[at] => pc > SignAt[at])
      BY <1>2, <1>3, <2>2, <3>1
    <3>3. pc' > BuildAt[at] => DOMAIN entries = Required(Operation.call)
      <4>1. at # 1 /\ pc = BuildAt[at] + 1 => simulation # "error"
        BY <1>7, StepKinds DEF KindOf
      <4> QED BY <1>1, <1>2, <3>2, <4>1 DEF PreparedInv
    <3>4. ASSUME pc' > BuildAt[at], NEW a \in DOMAIN entries, pc' > EntryAt(at, a)
          PROVE  SignedWell(a, entries[a])
      <4>1. a \in Required(Calls(at, wallet))
        BY <1>2, <3>3, <3>4
      <4>2. pc # EntryAt(at, a)
        BY <1>7, <4>1, StepKinds DEF KindOf
      <4>3. EntryAt(at, a) \in Nat
        BY <1>2, <4>1, EntryPlace
      <4>4. pc > EntryAt(at, a)
        BY <1>2, <2>2, <3>4, <4>2, <4>3
      <4> QED BY <1>1, <1>2, <3>2, <3>4, <4>4 DEF PreparedInv
    <3>5. /\ pc' > BuildAt[at] => simulation = "success" \/ (simulation = "error" /\ trouble' # {})
          /\ pc' > SignAt[at] => AllSigned(signed)
          /\ pc' > SignAt[at] /\ at = 1 => simulation = "success"
      BY <1>1, <1>2, <1>5, <3>2 DEF PreparedInv
    <3>6. AllSigned(signed)' <=> AllSigned(signed)
      BY <1>4, <2>2 DEF AllSigned
    <3> QED BY <1>2, <1>4, <2>2, <3>3, <3>4, <3>5, <3>6 DEF PreparedInv
  <2> QED BY <1>2, <1>7, <2>1, <2>2 DEF Advance
<1> QED BY <1>6, <1>7

\* A step that sends nothing and leaves in order what the client holds keeps the
\* rest of the invariant.
LEMMA QuietKeeps ==
    ASSUME WorkInv, exit = "running", PreparedInv', HeldTypes', trouble \subseteq trouble',
           UNCHANGED <<chain, ledger, wallet, network>>,
           UNCHANGED signed \/ pc < SendAt[at],
           \/ Throw /\ trouble' # {} /\ (step.do = "result" => at = 3)
           \/ /\ Advance
              /\ step.do \notin {"get_deployed_address", "send"}
              /\ step.do = "confirmTransaction" => status = "SUCCESS"
    PROVE  WorkInv'
<1>1. /\ access' = access /\ accounts' = accounts /\ executed' = executed /\ closed' = closed
      /\ ledger' = ledger /\ wallet' = wallet /\ sent' = sent /\ status' = status
  BY DEF chain, network
<1>2. PhaseInv /\ SentInv /\ LedgerInv /\ BlameInv
  BY DEF WorkInv
<1>3. PhaseInv'
  <2>1. Quiet
    BY <1>1 DEF Quiet, network
  <2> QED BY <1>2, <2>1, PhaseQuiet
<1>4. WorldInv' /\ WalletInv'
  BY <1>1, WorldKeeps
<1>5. /\ at \in 1 .. 8 /\ pc \in 1 .. Length[at]
      /\ step.do = "confirmTransaction" <=> pc = SendAt[at] + 1
  BY StepRunning
<1>6. SendAt[at] \in Nat
  BY <1>5, StepNumbers
<1>7. SentInv'
  <2>1. CASE status = "pending"
    <3>1. InFlight
      BY <1>2, <1>5, <2>1, EffectsDone
    <3>2. pc = SendAt[at] + 1
      BY <3>1 DEF InFlight
    <3>3. Throw /\ signed' = signed
      BY <1>5, <1>6, <2>1, <3>2
    <3> QED BY <1>1, <1>2, <3>3 DEF Throw, SentInv, Operation
  <2>2. CASE status # "pending"
    BY <1>1, <1>2, <2>2 DEF SentInv
  <2> QED BY <2>1, <2>2
<1>8. LedgerInv'
  BY <1>1, <1>2 DEF LedgerInv, Throw, Advance
<1>9. exit' = "failed" => Throw
  BY DEF Advance
<1>10. Throw => step' = step
  BY <1>1 DEF Throw, step, Operation
<1>11. BlameInv'
  <2>1. exit' = "failed" => /\ trouble' # {} /\ at' \in 1 .. 8 /\ (step'.do = "result" => at' = 3)
    BY <1>5, <1>9, <1>10 DEF Throw, Advance
  <2>2. (status' = "FAILED" => trouble' # {}) /\ InTimeSucceeds'
    BY <1>1, <1>2 DEF BlameInv, InTimeSucceeds
  <2> QED BY <2>1, <2>2 DEF BlameInv, FailureHasCause
<1> QED BY <1>3, <1>4, <1>7, <1>8, <1>11 DEF WorkInv

\* By then, the entries of a transaction are signed.
LEMMA EntriesReady ==
    ASSUME WorkInv, exit = "running", pc > ReadyAt[at]
    PROVE  /\ AllSigned(entries)
           /\ simulation = "success" \/ (simulation = "error" /\ trouble # {})
<1>1. /\ at \in 1 .. 8 /\ pc \in 1 .. Length[at] /\ Operation.call = Calls(at, wallet)
      /\ PreparedInv
  BY StepRunning DEF WorkInv
<1>2. /\ BuildAt[at] \in Nat /\ ReadyAt[at] \in Nat /\ Length[at] \in Nat
      /\ BuildAt[at] <= ReadyAt[at] /\ (at # 1 => BuildAt[at] + 1 < ReadyAt[at])
  <2>1. /\ {BuildAt[at], ReadyAt[at], Length[at]} \subseteq Nat
        /\ BuildAt[at] <= ReadyAt[at] /\ (at # 1 => BuildAt[at] + 1 < ReadyAt[at])
    BY <1>1, Places
  <2> QED BY <2>1
<1>3. pc > BuildAt[at] /\ ~(at # 1 /\ pc = BuildAt[at] + 1)
  BY <1>1, <1>2
<1>4. DOMAIN entries = Required(Operation.call)
  BY <1>1, <1>3 DEF PreparedInv
<1>5. ASSUME NEW a \in DOMAIN entries PROVE SignedWell(a, entries[a])
  <2>1. EntryAt(at, a) \in Nat /\ EntryAt(at, a) <= ReadyAt[at]
    BY <1>1, <1>4, EntryPlace
  <2>2. pc > EntryAt(at, a)
    BY <1>1, <1>2, <2>1
  <2> QED BY <1>1, <1>3, <2>2 DEF PreparedInv
<1>6. simulation = "success" \/ (simulation = "error" /\ trouble # {})
  BY <1>1, <1>3 DEF PreparedInv
<1> QED BY <1>4, <1>5, <1>6 DEF AllSigned

\* Moving on within an operation.
LEMMA MovesOn ==
    ASSUME WorkInv, exit = "running", Advance, pc < Length[at]
    PROVE  pc' = pc + 1 /\ at' = at /\ exit' = exit
<1>1. at \in 1 .. 8 /\ pc \in 1 .. Length[at] /\ Len(Operation.steps) = Length[at]
  BY StepRunning
<1>2. Length[at] \in Nat
  BY <1>1, StepNumbers
<1> QED BY <1>1, <1>2 DEF Advance

\* Before it is sent, a call finds the contracts as it needs them.
LEMMA BeforeSend ==
    ASSUME WorkInv, exit = "running", pc >= BuildAt[at], pc <= SendAt[at]
    PROVE  /\ Permitted(Operation.call)
           /\ \A auth : IsEntryMap(auth) /\ AllSigned(auth) =>
                 \A when : ~Late(Operation.call, auth, when) => Accepted(Operation.call, auth, when)
<1>1. at \in 1 .. 8 /\ pc \in 1 .. Length[at] /\ WorldInv /\ WalletInv /\ PhaseInv
  BY StepRunning DEF WorkInv
<1>2. pc \in Nat
  BY <1>1
<1>3. Done = at - 1
  BY <1>1, EffectsDone
<1> QED BY <1>1, <1>2, <1>3, CallsPermitted, CallsAccepted

\* Building never fails for want of a role, an account or a signer.
LEMMA BuildKeeps == ASSUME WorkInv, Build PROVE WorkInv'
<1>1. exit = "running" /\ step.do = "build" /\ pc = BuildAt[at]
  BY StepKinds DEF KindOf, Build, At
<1>2. /\ at \in 1 .. 8 /\ pc \in 1 .. Length[at] /\ Operation.call = Calls(at, wallet)
      /\ (at \in 3 .. 8 => wallet \in Salts)
  <2>1. at \in 1 .. 8 /\ pc \in 1 .. Length[at] /\ Operation.call = Calls(at, wallet) /\ WalletInv
    BY <1>1, StepRunning DEF WorkInv
  <2>2. at = 3 => pc > 1
    BY <1>1 DEF BuildAt
  <2> QED BY <2>1, <2>2 DEF WalletInv
<1>3. /\ BuildAt[at] \in Nat /\ SignAt[at] \in Nat /\ SendAt[at] \in Nat /\ Length[at] \in Nat
      /\ BuildAt[at] + 1 < SignAt[at] /\ SignAt[at] < SendAt[at] /\ SendAt[at] < Length[at]
  <2>1. /\ {BuildAt[at], SignAt[at], SendAt[at], Length[at]} \subseteq Nat
        /\ BuildAt[at] + 1 < SignAt[at] /\ SignAt[at] < SendAt[at] /\ SendAt[at] < Length[at]
    BY <1>2, Places
  <2> QED BY <2>1
<1>4. pc' = pc + 1 /\ at' = at /\ exit' = exit
  <2>1. pc < Length[at] /\ Advance
    BY <1>1, <1>3 DEF Build
  <2> QED BY <1>1, <2>1, MovesOn
<1>5. /\ UNCHANGED <<chain, ledger, wallet, network>> /\ signed' = signed /\ wallet' = wallet
      /\ Operation' = Operation
  BY <1>4 DEF Build, Operation
<1>6. \/ /\ simulation' = "success"
         /\ entries' = [address \in Required(Operation.call) |-> Unsigned]
         /\ trouble' = trouble
      \/ /\ simulation' = "error"
         /\ entries' = NoEntries
         /\ trouble' # {} /\ trouble \subseteq trouble'
  <2>1. Permitted(Operation.call)
    <3>1. pc >= BuildAt[at] /\ pc <= SendAt[at]
      BY <1>1, <1>3
    <3> QED BY <1>1, <3>1, BeforeSend
  <2> QED BY <2>1 DEF Build, Meet
<1>7. DOMAIN NoEntries = {} /\ IsEntryMap(NoEntries)
  BY DEF NoEntries, IsEntryMap
<1>8. IsEntryMap([address \in Required(Operation.call) |-> Unsigned])
  <2>1. Required(Operation.call) \subseteq Addressable
    <3>1. Required(Operation.call) \subseteq {ROOT, DEPLOYER} \cup (IF at \in 3 .. 8 THEN {wallet} ELSE {})
      BY <1>2, RequiredOf
    <3> QED BY <1>2, <3>1, PartiesAssumption DEF Addressable
  <2>2. Unsigned \in Entry
    BY DEF Unsigned, Entry
  <2> QED BY <2>1, <2>2 DEF IsEntryMap
<1>9. HeldTypes'
  BY <1>5, <1>6, <1>7, <1>8 DEF HeldTypes, WorkInv, network
<1>10. PreparedInv'
  <2>1. /\ simulation' = "success" \/ (simulation' = "error" /\ trouble' # {})
        /\ \/ DOMAIN entries' = Required(Operation.call)'
           \/ simulation' = "error" /\ at' # 1 /\ pc' = BuildAt[at'] + 1
    <3>1. at = 1 => Required(Operation.call) = {}
      BY <1>2, RequiredOf
    <3> QED BY <1>1, <1>4, <1>5, <1>6, <1>7, <3>1
  <2>2. ASSUME NEW a \in DOMAIN entries' PROVE ~(pc' > EntryAt(at', a))
    <3>1. a \in Required(Calls(at, wallet))
      BY <1>2, <1>6, <1>7, <2>2
    <3>2. EntryAt(at, a) \in Nat /\ BuildAt[at] + 1 < EntryAt(at, a)
      BY <1>2, <3>1, EntryPlace
    <3> QED BY <1>1, <1>3, <1>4, <3>2
  <2>3. ~(pc' > SignAt[at'])
    BY <1>1, <1>3, <1>4
  <2> QED BY <2>1, <2>2, <2>3 DEF PreparedInv
<1>11. UNCHANGED signed \/ pc < SendAt[at]
  BY <1>5
<1>12. Advance /\ step.do \notin {"get_deployed_address", "send"} /\ step.do # "confirmTransaction"
  BY <1>1 DEF Build
<1>13. trouble \subseteq trouble'
  BY <1>6
<1> QED BY <1>1, <1>5, <1>9, <1>10, <1>11, <1>12, <1>13, QuietKeeps

\* Steps that change nothing the client holds.
LEMMA ReadKeeps ==
    ASSUME WorkInv, PrintAuthEntries \/ Result \/ ConfirmTransaction \/ Unreachable
    PROVE  WorkInv'
<1>1. /\ exit = "running"
      /\ UNCHANGED <<chain, ledger, wallet, network>> /\ UNCHANGED transaction
      /\ trouble \subseteq trouble'
  BY DEF PrintAuthEntries, Result, ReadSimulation, ConfirmTransaction, Unreachable, At, Meet
<1>2. /\ at \in 1 .. 8 /\ pc \in 1 .. Length[at] /\ PreparedInv
      /\ BlameInv /\ KindOf(at, wallet, pc, step)
  BY <1>1, StepRunning, StepKinds DEF WorkInv
<1>3. /\ BuildAt[at] \in Nat /\ Length[at] \in Nat /\ BuildAt[at] < Length[at]
      /\ SignAt[at] \in Nat /\ SignAt[at] < Length[at]
  <2>1. /\ {BuildAt[at], SignAt[at], SendAt[at], Length[at]} \subseteq Nat
        /\ BuildAt[at] + 1 < SignAt[at] /\ SignAt[at] < SendAt[at] /\ SendAt[at] < Length[at]
    BY <1>2, Places
  <2> QED BY <2>1
<1>4. step.do \in {"printAuthEntries", "result"} /\ simulation = "error" =>
          trouble # {} /\ (step.do = "result" => at = 3)
  <2>1. step.do \in {"printAuthEntries", "result"} => pc > BuildAt[at]
    BY <1>2, <1>3 DEF KindOf
  <2>2. step.do = "result" => at \in {1, 3} /\ pc > SignAt[at]
    BY <1>2, <1>3 DEF KindOf
  <2> QED BY <1>2, <2>1, <2>2 DEF PreparedInv
<1>5. \/ Throw /\ trouble' # {} /\ (step.do = "result" => at = 3)
      \/ /\ Advance
         /\ step.do \in {"printAuthEntries", "result", "confirmTransaction"}
         /\ step.do = "confirmTransaction" => status = "SUCCESS"
         /\ step.do = "printAuthEntries" => simulation # "error"
  <2>1. CASE PrintAuthEntries \/ Result
    BY <1>1, <1>4, <2>1 DEF PrintAuthEntries, Result, ReadSimulation, At
  <2>2. CASE ConfirmTransaction
    BY <1>1, <1>2, <2>2 DEF ConfirmTransaction, At, BlameInv
  <2>3. CASE Unreachable
    BY <2>3 DEF Unreachable, Awaits, Meet
  <2> QED BY <2>1, <2>2, <2>3
<1>6. HeldTypes'
  BY <1>1 DEF WorkInv, HeldTypes, transaction, network
<1>7. UNCHANGED <<wallet, transaction>> /\ signed' = signed
  BY <1>1 DEF transaction
<1>8. /\ step.do \in {"printAuthEntries", "result", "confirmTransaction"} =>
            step.do \notin Attaches \cup {"build", "sign"}
      /\ step.do \in {"printAuthEntries", "result", "confirmTransaction"} =>
            step.do \notin {"get_deployed_address", "send"}
  BY DEF Attaches
<1>9. PreparedInv'
  BY <1>1, <1>5, <1>7, <1>8, HeldKeeps
<1> QED BY <1>1, <1>5, <1>6, <1>7, <1>8, <1>9, QuietKeeps

\* A step that signs an entry.
LEMMA AttachKeeps ==
    ASSUME WorkInv, exit = "running", step.do \in Attaches, NEW expiration \in Nat \ {0},
           AttachSignature(step.address, SignerOf(at, step.address), expiration),
           ledger + ValidityOf(step.address) <= expiration + MaxLag
    PROVE  WorkInv'
<1> DEFINE a == step.address
           e == [signer |-> SignerOf(at, a), expiration |-> expiration, since |-> ledger]
<1>1. /\ at \in 1 .. 8 /\ pc \in 1 .. Length[at] /\ Operation.call = Calls(at, wallet)
      /\ PreparedInv /\ HeldTypes /\ LedgerInv /\ KindOf(at, wallet, pc, step)
  BY StepRunning, StepKinds DEF WorkInv
<1>2. a \in Required(Calls(at, wallet)) /\ pc = EntryAt(at, a)
  BY <1>1 DEF KindOf
<1>3. at # 1 /\ EntryAt(at, a) \in Nat /\ BuildAt[at] + 1 < EntryAt(at, a) /\ EntryAt(at, a) <= ReadyAt[at]
  BY <1>1, <1>2, EntryPlace
<1>4. /\ BuildAt[at] \in Nat /\ ReadyAt[at] \in Nat /\ SignAt[at] \in Nat /\ SendAt[at] \in Nat
      /\ Length[at] \in Nat
      /\ ReadyAt[at] < SignAt[at] /\ SignAt[at] < SendAt[at] /\ SendAt[at] < Length[at]
  <2>1. /\ {BuildAt[at], ReadyAt[at], SignAt[at], SendAt[at], Length[at]} \subseteq Nat
        /\ ReadyAt[at] < SignAt[at] /\ SignAt[at] < SendAt[at] /\ SendAt[at] < Length[at]
    BY <1>1, Places
  <2> QED BY <2>1
<1>5. pc > BuildAt[at] /\ pc # BuildAt[at] + 1 /\ ~(pc + 1 > SignAt[at]) /\ pc < SendAt[at] /\ pc < Length[at]
  BY <1>2, <1>3, <1>4
<1>6. pc' = pc + 1 /\ at' = at /\ exit' = exit
  BY <1>5, MovesOn DEF AttachSignature
<1>7. /\ UNCHANGED <<chain, ledger, wallet, network>> /\ signed' = signed /\ trouble' = trouble
      /\ simulation' = simulation /\ entries' = [entries EXCEPT ![a] = e] /\ wallet' = wallet
      /\ Operation' = Operation
  BY <1>6 DEF AttachSignature, Operation
<1>8. SignerOf(at, a) \in Addressable \cup SignerKeys
  <2>1. a \in {ROOT, DEPLOYER} \cup {wallet}
    BY <1>1, <1>2, RequiredOf
  <2>2. a \notin Salts => a \in Addressable
    <3>1. a \in {ROOT, DEPLOYER} \/ a \in Salts
      BY <1>1 DEF KindOf, Attaches
    <3> QED BY <3>1, PartiesAssumption DEF Addressable
  <2> QED BY <2>2 DEF SignerOf, SignerKeys
<1> HIDE DEF a
<1>9. e \in Entry /\ e.signer = SignerOf(at, a) /\ e.expiration = expiration /\ e.since = ledger
  BY <1>1, <1>8 DEF Entry, Signed, LedgerInv
<1> HIDE DEF e
<1>10. DOMAIN entries = Required(Calls(at, wallet)) /\ IsEntryMap(entries)
  BY <1>1, <1>5 DEF PreparedInv, HeldTypes
<1>11. IsEntryMap(entries') /\ DOMAIN entries' = DOMAIN entries /\ entries'[a] = e
       /\ \A b \in DOMAIN entries \ {a} : entries'[b] = entries[b]
  BY <1>2, <1>7, <1>9, <1>10 DEF IsEntryMap
<1>12. HeldTypes'
  BY <1>1, <1>7, <1>11 DEF HeldTypes, network
<1>13. PreparedInv'
  <2>1. \A b, x : SignedWell(b, x)' <=> SignedWell(b, x)
    BY <1>6 DEF SignedWell
  <2>2. ASSUME NEW b \in DOMAIN entries, pc + 1 > EntryAt(at, b) PROVE SignedWell(b, entries'[b])
    <3>1. CASE b = a
      <4>1. SignedWell(a, e)
        BY <1>9 DEF SignedWell, a
      <4> QED BY <1>11, <3>1, <4>1
    <3>2. CASE b # a
      <4>1. EntryAt(at, b) \in Nat
        BY <1>1, <1>10, <2>2, EntryPlace
      <4>2. pc # EntryAt(at, b)
        BY <1>1, <1>10, <3>2 DEF KindOf, a
      <4>3. pc > EntryAt(at, b)
        BY <1>1, <2>2, <4>1, <4>2
      <4>4. SignedWell(b, entries[b])
        BY <1>1, <1>5, <2>2, <4>3 DEF PreparedInv
      <4> QED BY <1>11, <3>2, <4>4
    <3> QED BY <3>1, <3>2
  <2>3. /\ simulation = "success" \/ (simulation = "error" /\ trouble # {})
    BY <1>1, <1>5 DEF PreparedInv
  <2>4. Required(Operation.call)' = Required(Operation.call) /\ Operation.call = Calls(at, wallet)
    BY <1>1, <1>7
  <2> QED BY <1>5, <1>6, <1>7, <1>10, <1>11, <2>1, <2>2, <2>3, <2>4 DEF PreparedInv
<1>14. Advance /\ step.do \notin {"get_deployed_address", "send"} /\ step.do # "confirmTransaction"
  BY DEF AttachSignature, Attaches
<1> QED BY <1>7, <1>12, <1>13, <1>14, QuietKeeps

\* The lag of the node takes no more than MaxLag from the validity of an entry.
LEMMA SignEntriesKeep == ASSUME WorkInv, AuthorizeWithSmartAccount \/ SignAuthEntries PROVE WorkInv'
<1>1. exit = "running" /\ step.do \in Attaches
  BY DEF AuthorizeWithSmartAccount, SignAuthEntries, At, Attaches
<1>2. KindOf(at, wallet, pc, step) /\ ledger \in Nat
  BY <1>1, StepKinds DEF WorkInv, LedgerInv
<1>3. {ROOT, DEPLOYER} \cap Salts = {}
  BY PartiesAssumption, SaltsAssumption
<1>4. CASE AuthorizeWithSmartAccount
  <2>1. step.address \in Salts /\ step.signer = SignerOf(at, step.address)
    BY <1>2, <1>4 DEF KindOf, AuthorizeWithSmartAccount, At, Attaches
  <2>2. PICK seen \in Seen : AttachSignature(step.address, step.signer, seen + Validity)
    BY <1>4 DEF AuthorizeWithSmartAccount, Expiration
  <2>3. seen \in Nat \ {0} /\ ledger <= seen + MaxLag
    BY <1>2 DEF Seen
  <2>4. ValidityOf(step.address) = Validity
    BY <2>1 DEF ValidityOf
  <2>5. seen + Validity \in Nat \ {0} /\ ledger + ValidityOf(step.address) <= (seen + Validity) + MaxLag
    BY <1>2, <2>3, <2>4, BoundsAssumption
  <2> QED BY <1>1, <2>1, <2>2, <2>5, AttachKeeps
<1>5. CASE SignAuthEntries
  <2>1. step.address \notin Salts /\ step.address = SignerOf(at, step.address)
    BY <1>2, <1>3, <1>5 DEF KindOf, SignAuthEntries, At, Attaches, SignerOf
  <2>2. PICK seen \in Seen : AttachSignature(step.address, step.address, seen + SdkValidity)
    BY <1>5 DEF SignAuthEntries
  <2>3. seen \in Nat \ {0} /\ ledger <= seen + MaxLag
    BY <1>2 DEF Seen
  <2>4. ValidityOf(step.address) = SdkValidity
    BY <2>1 DEF ValidityOf
  <2>5. seen + SdkValidity \in Nat \ {0} /\ ledger + ValidityOf(step.address) <= (seen + SdkValidity) + MaxLag
    BY <1>2, <2>3, <2>4, BoundsAssumption
  <2> QED BY <1>1, <2>1, <2>2, <2>5, AttachKeeps
<1> QED BY <1>4, <1>5

\* Simulating signed entries fails only behind the ledger or after their expiration.
LEMMA SimulateKeeps == ASSUME WorkInv, Simulate PROVE WorkInv'
<1>1. exit = "running" /\ step.do = "simulate" /\ Advance
  BY DEF Simulate, At
<1>2. /\ at \in 1 .. 8 /\ pc \in 1 .. Length[at] /\ Operation.call = Calls(at, wallet)
      /\ PreparedInv /\ HeldTypes /\ KindOf(at, wallet, pc, step)
  BY <1>1, StepRunning, StepKinds DEF WorkInv
<1>3. pc > ReadyAt[at] /\ pc < SendAt[at] /\ (at = 1 => pc < SignAt[at]) /\ pc # SignAt[at]
  BY <1>1, <1>2 DEF KindOf
<1>4. /\ BuildAt[at] \in Nat /\ ReadyAt[at] \in Nat /\ SignAt[at] \in Nat /\ SendAt[at] \in Nat
      /\ Length[at] \in Nat
      /\ BuildAt[at] <= ReadyAt[at] /\ SendAt[at] < Length[at]
  <2>1. /\ {BuildAt[at], ReadyAt[at], SignAt[at], SendAt[at], Length[at]} \subseteq Nat
        /\ BuildAt[at] <= ReadyAt[at] /\ SendAt[at] < Length[at]
    BY <1>2, Places
  <2> QED BY <2>1
<1>5. pc' = pc + 1 /\ at' = at /\ exit' = exit
  <2>1. pc < Length[at]
    BY <1>2, <1>3, <1>4
  <2> QED BY <1>1, <2>1, MovesOn
<1>6. /\ UNCHANGED <<chain, ledger, wallet, network>> /\ signed' = signed /\ wallet' = wallet
      /\ entries' = entries /\ Operation' = Operation
  BY <1>5 DEF Simulate, Operation
<1>7. AllSigned(entries)
  BY <1>1, <1>3, EntriesReady
<1>8. /\ trouble \subseteq trouble'
      /\ simulation' = "success" \/ (simulation' = "error" /\ trouble' # {})
  <2>1. ASSUME NEW seen, ~Late(Operation.call, entries, seen) PROVE Accepted(Operation.call, entries, seen)
    <3>1. pc >= BuildAt[at] /\ pc <= SendAt[at]
      BY <1>2, <1>3, <1>4
    <3>2. IsEntryMap(entries)
      BY <1>2 DEF HeldTypes
    <3> QED BY <1>1, <1>7, <2>1, <3>1, <3>2, BeforeSend
  <2>2. PICK seen \in Seen :
            \/ simulation' = "success" /\ trouble' = trouble
            \/ /\ Behind(seen) \/ ~Accepted(Operation.call, entries, seen)
               /\ simulation' = "error"
               /\ Meet((IF Behind(seen) THEN {"behind"} ELSE {})
                       \cup IF Late(Operation.call, entries, seen) THEN {"late"} ELSE {})
    BY DEF Simulate
  <2> QED BY <2>1, <2>2 DEF Meet
<1>9. HeldTypes'
  BY <1>2, <1>6, <1>8 DEF HeldTypes, network
<1>10. PreparedInv'
  <2>1. \A b, x : SignedWell(b, x)' <=> SignedWell(b, x)
    BY <1>5 DEF SignedWell
  <2>2. AllSigned(entries)' /\ AllSigned(signed)' = AllSigned(signed)
    BY <1>6, <1>7, <2>1 DEF AllSigned
  <2>3. (pc' > SignAt[at] => pc > SignAt[at]) /\ (at = 1 => ~(pc' > SignAt[at]))
    BY <1>2, <1>3, <1>4, <1>5
  <2>4. pc > SignAt[at] => AllSigned(signed)
    BY <1>2 DEF PreparedInv
  <2> QED BY <1>5, <1>8, <2>2, <2>3, <2>4 DEF PreparedInv, AllSigned
<1> QED BY <1>1, <1>6, <1>8, <1>9, <1>10, QuietKeeps

\* The entries are signed when the transaction is (AssembledTransaction.sign).
LEMMA SignKeeps == ASSUME WorkInv, Sign PROVE WorkInv'
<1>1. exit = "running" /\ step.do = "sign"
  BY DEF Sign, At
<1>2. /\ at \in 1 .. 8 /\ pc \in 1 .. Length[at] /\ Operation.call = Calls(at, wallet)
      /\ Operation = main(wallet)[at]
      /\ PreparedInv /\ HeldTypes /\ KindOf(at, wallet, pc, step)
  BY <1>1, StepRunning, StepKinds DEF WorkInv
<1>3. pc = SignAt[at] /\ step.signer = Operation.source
  BY <1>1, <1>2 DEF KindOf
<1>4. /\ BuildAt[at] \in Nat /\ ReadyAt[at] \in Nat /\ SignAt[at] \in Nat /\ SendAt[at] \in Nat
      /\ Length[at] \in Nat
      /\ BuildAt[at] <= ReadyAt[at] /\ ReadyAt[at] < SignAt[at] /\ SignAt[at] < SendAt[at]
      /\ SendAt[at] < Length[at]
  <2>1. /\ {BuildAt[at], ReadyAt[at], SignAt[at], SendAt[at], Length[at]} \subseteq Nat
        /\ BuildAt[at] <= ReadyAt[at] /\ ReadyAt[at] < SignAt[at] /\ SignAt[at] < SendAt[at]
        /\ SendAt[at] < Length[at]
    BY <1>2, Places
  <2> QED BY <2>1
<1>5. AllSigned(entries) /\ (simulation = "success" \/ (simulation = "error" /\ trouble # {}))
  <2>1. pc > ReadyAt[at]
    BY <1>3, <1>4
  <2> QED BY <1>1, <2>1, EntriesReady
<1>6. ASSUME NEW address \in DOMAIN entries
      PROVE  address \in Salts \/ entries[address].signer # Nobody
  <2>1. address \in {ROOT, DEPLOYER, wallet} /\ (address = wallet => wallet \in Salts \/ wallet \in {ROOT, DEPLOYER})
    <3>1. at > 3 => wallet \in Salts
      BY DEF WorkInv, WalletInv
    <3> QED BY <1>2, <1>5, <3>1, RequiredOf DEF AllSigned
  <2>2. entries[address].signer = SignerOf(at, address)
    BY <1>5 DEF AllSigned, SignedWell
  <2> QED BY <2>1, <2>2, NothingAssumption DEF SignerOf
<1>7. /\ UNCHANGED <<chain, ledger, wallet, network>> /\ trouble' = trouble
      /\ simulation' = simulation /\ entries' = entries /\ wallet' = wallet
  BY DEF Sign
<1>8. CASE ~Signable /\ Throw /\ signed' = signed
  <2>1. UNCHANGED <<wallet, transaction>>
    BY <1>7, <1>8 DEF transaction
  <2>2. PreparedInv'
    BY <1>1, <1>7, <1>8, <2>1, HeldKeeps
  <2>3. HeldTypes'
    BY <1>2, <1>7, <1>8 DEF HeldTypes, network
  <2>4. trouble # {}
    BY <1>3, <1>5, <1>6, <1>8 DEF Signable
  <2> QED BY <1>1, <1>7, <1>8, <2>2, <2>3, <2>4, QuietKeeps
<1>9. CASE Signable /\ Advance /\ signed' = entries
  <2>1. pc < Length[at] /\ pc < SendAt[at]
    BY <1>3, <1>4
  <2>2. pc' = pc + 1 /\ at' = at
    BY <1>1, <1>9, <2>1, MovesOn
  <2>3. \A b, x : SignedWell(b, x)' <=> SignedWell(b, x)
    BY <2>2 DEF SignedWell
  <2>4. Operation' = Operation
    BY <1>7, <2>2 DEF Operation
  <2>5. AllSigned(entries)' /\ AllSigned(signed)'
    BY <1>5, <1>7, <1>9, <2>3, <2>4 DEF AllSigned
  <2>6. PreparedInv'
    BY <1>5, <1>7, <1>9, <2>2, <2>5 DEF PreparedInv, AllSigned, Signable
  <2>7. HeldTypes'
    BY <1>2, <1>7, <1>9 DEF HeldTypes, network
  <2> QED BY <1>1, <1>7, <1>9, <2>1, <2>6, <2>7, QuietKeeps
<1> QED BY <1>8, <1>9 DEF Sign

\* An account is chosen that there is not yet, and which is not the last one.
LEMMA GetDeployedAddressKeeps == ASSUME WorkInv, GetDeployedAddress PROVE WorkInv'
<1>1. /\ exit = "running" /\ step.do = "get_deployed_address"
      /\ wallet' \in Salts \ {wallet}
      /\ UNCHANGED <<chain, ledger, transaction, network>>
      /\ trouble \subseteq trouble'
      /\ Advance \/ (Throw /\ trouble' # {})
  BY DEF GetDeployedAddress, At, Meet
<1>2. /\ access' = access /\ accounts' = accounts /\ executed' = executed /\ closed' = closed
      /\ ledger' = ledger /\ sent' = sent /\ status' = status
      /\ simulation' = simulation /\ entries' = entries /\ signed' = signed
  BY <1>1 DEF chain, transaction, network
<1>3. /\ at \in {3, 5} /\ pc = 1
      /\ PhaseInv /\ WorldInv /\ HeldTypes /\ SentInv /\ LedgerInv /\ BlameInv
  <2>1. at \in 1 .. 8 /\ pc \in 1 .. Length[at] /\ KindOf(at, wallet, pc, step)
    BY <1>1, StepRunning, StepKinds
  <2>2. pc = AddressAt[at]
    BY <1>1, <2>1 DEF KindOf
  <2>3. at \in {3, 5} /\ pc = 1
    BY <2>1, <2>2 DEF AddressAt
  <2> QED BY <2>3 DEF WorkInv
<1>4. PhaseInv'
  <2>1. Quiet
    BY <1>1, <1>2 DEF Quiet, network
  <2> QED BY <1>3, <2>1, PhaseQuiet
<1>5. at' = at /\ (\/ pc' = 2 /\ exit' = "running"
                   \/ pc' = 1 /\ exit' = "failed" /\ trouble' # {})
  <2>1. Advance => pc' = pc + 1 /\ at' = at /\ exit' = exit
    <3>1. 1 < Length[at]
      BY <1>3 DEF Length
    <3> QED BY <1>1, <1>3, <3>1, MovesOn
  <2> QED BY <1>1, <1>3, <2>1 DEF Throw
<1>6. Done = at - 1 /\ status # "pending"
  <2>1. pc <= SendAt[at] /\ at \in 1 .. 8
    BY <1>3 DEF SendAt
  <2> QED BY <1>1, <1>3, <2>1, EffectsDone
<1>7. accounts[wallet'] = NoAccount
  BY <1>1, <1>3, <1>6 DEF WorldInv, OnlyAccount
<1>8. WorldInv'
  <2>1. Done' = Done /\ admin' = admin /\ holders' = holders /\ AccessTypeOK'
    BY <1>2, <1>3 DEF Done, WorldInv, AccessTypeOK, access
  <2>2. Done' \in {2, 4} /\ (Done' = 4 => at' = 5)
    BY <1>3, <1>5, <1>6, <2>1
  <2>3. Done' = 4 => IF at' = 5 /\ pc' > 1 THEN accounts'[wallet'] = NoAccount
                     ELSE exit' = "running" => OnlyAccount(Delegated)'
    BY <1>2, <1>5, <1>7, <2>2
  <2>4. Done' <= 2 => \A s \in Salts : accounts'[s] = NoAccount
    BY <1>2, <1>3, <2>1 DEF WorldInv
  <2>5. (Done' >= 1 => admin' = ROOT) /\ (Done' >= 2 => HasRole(DEPLOYER, Deployer)')
        /\ accounts' \in [Salts -> {NoAccount, Deployed, Delegated}]
    BY <1>2, <1>3, <2>1 DEF WorldInv, HasRole
  <2>6. ~(Done' = 3) /\ ~(Done' >= 5)
    BY <2>2
  <2> QED BY <2>1, <2>3, <2>4, <2>5, <2>6 DEF WorldInv
<1>9. WalletInv'
  BY <1>1 DEF WalletInv
<1>10. PreparedInv' /\ HeldTypes' /\ SentInv' /\ LedgerInv'
  <2>1. ~(pc' > BuildAt[at']) /\ ~(pc' > SignAt[at'])
    BY <1>3, <1>5 DEF BuildAt, SignAt
  <2> QED BY <1>2, <1>3, <1>5, <1>6, <2>1 DEF PreparedInv, HeldTypes, SentInv, LedgerInv
<1>11. BlameInv'
  <2>1. exit' = "failed" => step'.do # "result"
    <3>1. step' = main(wallet')[at'].steps[pc']
      BY DEF step, Operation
    <3>2. PICK w \in Salts : w = wallet'
      BY <1>1
    <3>3. PICK n \in {3, 5} : n = at
      BY <1>3
    <3>4. KindOf(n, w, 1, main(w)[n].steps[1])
      <4>1. 1 \in 1 .. Length[n] /\ n \in 1 .. 8
        BY DEF Length
      <4> QED BY <4>1, StepOf
    <3>5. main(w)[n].steps[1].do = "get_deployed_address"
      BY <3>3, <3>4 DEF KindOf, AddressAt
    <3> QED BY <1>5, <3>1, <3>2, <3>3, <3>5
  <2>2. (status' = "FAILED" => trouble' # {}) /\ InTimeSucceeds'
    BY <1>1, <1>2, <1>3 DEF BlameInv, InTimeSucceeds
  <2>3. exit' = "failed" => trouble' # {} /\ at' \in 1 .. 8
    BY <1>3, <1>5
  <2> QED BY <2>1, <2>2, <2>3 DEF BlameInv, FailureHasCause
<1> QED BY <1>4, <1>8, <1>9, <1>10, <1>11 DEF WorkInv

\* What is sent is what was signed.
LEMMA SendKeeps == ASSUME WorkInv, Send PROVE WorkInv'
<1>1. /\ exit = "running" /\ step.do = "send"
      /\ sent' = [at |-> at, call |-> Operation.call, auth |-> signed] /\ status' = "pending"
      /\ UNCHANGED <<chain, ledger, wallet, transaction>>
      /\ trouble \subseteq trouble'
      /\ Advance \/ (Throw /\ trouble' # {})
  BY DEF Send, At, Meet
<1>2. /\ access' = access /\ accounts' = accounts /\ executed' = executed /\ closed' = closed
      /\ ledger' = ledger /\ wallet' = wallet
      /\ simulation' = simulation /\ entries' = entries /\ signed' = signed
  BY <1>1 DEF chain, transaction
<1>3. /\ at \in 1 .. 8 /\ pc \in 1 .. Length[at] /\ pc = SendAt[at]
      /\ PhaseInv /\ HeldTypes /\ LedgerInv
  BY <1>1, StepRunning DEF WorkInv
<1>4. /\ SignAt[at] \in Nat /\ SendAt[at] \in Nat /\ Length[at] \in Nat
      /\ SignAt[at] < SendAt[at] /\ SendAt[at] < Length[at]
  <2>1. /\ {SignAt[at], SendAt[at], Length[at]} \subseteq Nat
        /\ SignAt[at] < SendAt[at] /\ SendAt[at] < Length[at]
    BY <1>3, Places
  <2> QED BY <2>1
<1>5. PhaseInv'
  BY <1>3, PhaseSend
<1>6. WorldInv' /\ WalletInv'
  BY <1>1, <1>2, WorldKeeps
<1>7. PreparedInv'
  BY <1>1, <1>2, HeldKeeps DEF Attaches
<1>8. HeldTypes'
  BY <1>1, <1>2, <1>3 DEF HeldTypes
<1>9. at' = at /\ pc' > SignAt[at] /\ (exit' = exit \/ (exit' = "failed" /\ pc' = pc /\ trouble' # {}))
  <2>1. Advance => pc' = pc + 1 /\ at' = at /\ exit' = exit
    <3>1. pc < Length[at]
      BY <1>3, <1>4
    <3> QED BY <1>1, <3>1, MovesOn
  <2> QED BY <1>1, <1>3, <1>4, <2>1 DEF Throw
<1>10. SentInv'
  BY <1>1, <1>2, <1>3, <1>9 DEF SentInv, Operation
<1>11. LedgerInv'
  BY <1>1, <1>2, <1>3, <1>9 DEF LedgerInv
<1>12. BlameInv'
  <2>1. exit' = "failed" => step' = step
    BY <1>1, <1>2, <1>9 DEF step, Operation
  <2> QED BY <1>1, <1>3, <1>9, <2>1 DEF BlameInv, FailureHasCause, InTimeSucceeds
<1> QED BY <1>5, <1>6, <1>7, <1>8, <1>10, <1>11, <1>12 DEF WorkInv

\* What an operation's transaction does to the contracts is what the next one needs.
LEMMA EffectKeeps ==
    ASSUME WorldInv, WalletInv, at \in 1 .. 8, pc \in Nat, pc > 1, Done = at - 1,
           Effect(Operation.call), Done' = at, UNCHANGED <<at, pc, exit, wallet>>
    PROVE  WorldInv'
<1>1. Operation.call = main(wallet)[at].call /\ (at >= 3 => wallet \in Salts)
  BY DEF Operation, WalletInv
<1>2. /\ accounts \in [Salts -> {NoAccount, Deployed, Delegated}]
      /\ holders \in [Roles -> SUBSET Addresses] /\ AccessTypeOK
      /\ ROOT \in Addresses /\ DEPLOYER \in Addresses /\ Deployer \in Roles
  BY PartiesAssumption DEF WorldInv, AccessTypeOK
<1>3. CASE at = 1
  <2>1. Operation.call.fn = "__constructor" /\ Operation.call.admin = ROOT
    BY <1>1, <1>3 DEF main, deployFactory, factory_constructor
  <2>2. /\ admin' = ROOT /\ holders' = [holders EXCEPT ![Deployer] = {ROOT}]
        /\ UNCHANGED <<pendingAdmin, roleAdmin, accounts>>
    BY <2>1 DEF Effect
  <2>3. AccessTypeOK'
    BY <1>2, <2>2 DEF AccessTypeOK
  <2> QED BY <1>3, <2>2, <2>3 DEF WorldInv
<1>4. CASE at = 2
  <2>1. /\ Operation.call.fn = "grant_role"
        /\ Operation.call.account = DEPLOYER /\ Operation.call.role = Deployer
    BY <1>1, <1>4 DEF main, grantDeployerRole, grant_role
  <2>2. /\ holders' = [holders EXCEPT ![Deployer] = @ \cup {DEPLOYER}]
        /\ UNCHANGED <<admin, pendingAdmin, roleAdmin, accounts>>
    BY <2>1 DEF Effect, Grant
  <2>3. AccessTypeOK' /\ HasRole(DEPLOYER, Deployer)'
    BY <1>2, <2>2 DEF AccessTypeOK, HasRole
  <2> QED BY <1>4, <2>2, <2>3 DEF WorldInv
<1>5. CASE at \in 3 .. 8
  <2>1. /\ UNCHANGED access
        /\ \/ at = 3 /\ accounts' = [accounts EXCEPT ![wallet] = Deployed]
           \/ at = 4 /\ accounts' = [accounts EXCEPT ![wallet] = Delegated]
           \/ at = 5 /\ accounts' = [accounts EXCEPT ![wallet] = Delegated]
           \/ at \in 6 .. 8 /\ accounts' = accounts
    <3>1. CASE at = 3
      <4>1. /\ Operation.call.fn = "deploy" /\ Operation.call.salt = wallet
            /\ Operation.call.signers = {createAdminSignerFromKeypair(ADMIN_SIGNER)}
        BY <1>1, <3>1 DEF main, deploySmartAccount, deploy
      <4> QED BY <3>1, <4>1, Stores DEF Effect
    <3>2. CASE at = 4
      <4>1. /\ Operation.call.fn = "add_signer" /\ Operation.call.contract = wallet
            /\ Operation.call.signer = Signer(DELEGATED_SIGNER, Decision!Standard)
            /\ Operation.call.signer.key = DELEGATED_SIGNER
        BY <1>1, <3>2 DEF main, addSigner, add_signer, WithSmartAccountAuth, Signer
      <4>2. accounts[wallet] = Deployed
        BY <1>1, <3>2 DEF WorldInv, OnlyAccount
      <4>3. UNCHANGED access /\ accounts' = [accounts EXCEPT ![wallet] =
                Decision!SetEntry(accounts[wallet], DELEGATED_SIGNER, Operation.call.signer)]
        BY <1>2, <4>1 DEF Effect
      <4> QED BY <3>2, <4>1, <4>2, <4>3, Stores
    <3>3. CASE at = 5
      <4>1. /\ Operation.call.fn = "deploy_account_and_invoke" /\ Operation.call.salt = wallet
            /\ Operation.call.signers = {createAdminSignerFromKeypair(ADMIN_SIGNER)}
            /\ Operation.call.signer = Signer(DELEGATED_SIGNER, Decision!Standard)
            /\ Operation.call.signer.key = DELEGATED_SIGNER
        BY <1>1, <3>3
           DEF main, deployAndInvokeContractWithSmartAccount, deploy_account_and_invoke, Signer
      <4>2. UNCHANGED access /\ accounts' = [accounts EXCEPT ![wallet] =
                Decision!SetEntry(Constructed(Operation.call.signers), DELEGATED_SIGNER,
                                  Operation.call.signer)]
        BY <4>1 DEF Effect
      <4> QED BY <3>3, <4>1, <4>2, Stores
    <3>4. CASE at \in 6 .. 8
      <4>1. Operation.call.fn \in {"upgrade", "hello"}
        <5>1. CASE at = 7
          BY <1>1, <5>1 DEF main, upgradeSmartAccount, upgrade, WithSmartAccountAuth
        <5>2. CASE at \in {6, 8}
          BY <1>1, <5>2 DEF main, sendHelloWorldTransactionWithSmartAccountAuth, hello, WithSmartAccountAuth
        <5> QED BY <3>4, <5>1, <5>2
      <4> QED BY <3>4, <4>1 DEF Effect
    <3> QED BY <1>5, <3>1, <3>2, <3>3, <3>4
  <2>2. AccessTypeOK' /\ admin' = admin /\ holders' = holders
    BY <1>2, <2>1 DEF AccessTypeOK, access
  <2>3. accounts' \in [Salts -> {NoAccount, Deployed, Delegated}]
    BY <1>1, <1>2, <1>5, <2>1
  <2>4. Done' >= 1 /\ Done >= 1 /\ (Done' >= 2 => HasRole(DEPLOYER, Deployer)')
    BY <1>5, <2>2 DEF WorldInv, HasRole
  <2>5. Done' = 3 => OnlyAccount(Deployed)'
    BY <1>1, <1>2, <2>1 DEF WorldInv, OnlyAccount
  <2>6. Done' = 4 => OnlyAccount(Delegated)' /\ at' = 4
    BY <1>1, <1>2, <2>1 DEF WorldInv, OnlyAccount
  <2>7. Done' >= 5 => accounts'[wallet'] = Delegated
    BY <1>1, <1>2, <1>5, <2>1 DEF WorldInv
  <2> QED BY <1>5, <2>2, <2>3, <2>4, <2>5, <2>6, <2>7 DEF WorldInv
<1> QED BY <1>3, <1>4, <1>5

\* A transaction is included as it was prepared, whatever the client does meanwhile.
LEMMA IncludeKeeps == ASSUME WorkInv, Include PROVE WorkInv'
<1>1. /\ status = "pending" /\ closed' = ledger /\ ledger' = ledger /\ sent' = sent
      /\ at' = at /\ pc' = pc /\ exit' = exit /\ wallet' = wallet
      /\ simulation' = simulation /\ entries' = entries /\ signed' = signed
      /\ Operation' = Operation /\ step' = step
  BY DEF Include, client, transaction, Operation, step
<1>2. /\ PhaseInv /\ WorldInv /\ WalletInv /\ PreparedInv /\ HeldTypes /\ SentInv /\ LedgerInv /\ BlameInv
  BY DEF WorkInv
<1>3. /\ at \in 1 .. 8 /\ pc > SignAt[at] /\ sent.call = Operation.call /\ sent.auth = signed
  BY <1>1, <1>2 DEF SentInv
<1>4. Done = at - 1 /\ InFlight
  BY <1>1, <1>2, <1>3, EffectsDone
<1>5. pc \in Nat /\ pc > 1 /\ pc >= BuildAt[at]
  <2>1. {BuildAt[at], SignAt[at], Length[at]} \subseteq Nat /\ BuildAt[at] + 1 < SignAt[at] /\ 1 <= BuildAt[at]
    BY <1>3, Places
  <2>2. pc \in 1 .. Length[at]
    BY <1>2, <1>3 DEF PhaseInv
  <2>3. pc \in Nat /\ BuildAt[at] \in Nat /\ SignAt[at] \in Nat
    BY <2>1, <2>2
  <2> QED BY <1>3, <2>1, <2>3
<1>6. AllSigned(signed) /\ IsEntryMap(signed)
  BY <1>2, <1>3 DEF PreparedInv, HeldTypes
<1>7. PhaseInv'
  BY <1>2, PhaseNetwork
<1>8. CASE Accepted(sent.call, sent.auth, ledger)
  <2>1. /\ Effect(Operation.call) /\ status' = "SUCCESS" /\ trouble' = trouble
        /\ executed' = Append(executed, sent.at)
    BY <1>3, <1>8 DEF Include
  <2>2. Done' = at
    <3>1. executed = FirstOperations(at - 1) /\ sent.at = at
      BY <1>4 DEF InFlight
    <3>2. executed' = FirstOperations(at)
      BY <1>3, <2>1, <3>1, NextOperation
    <3> QED BY <1>3, <3>2 DEF FirstOperations, Done
  <2>3. WorldInv'
    BY <1>1, <1>2, <1>3, <1>4, <1>5, <2>1, <2>2, EffectKeeps
  <2>4. WalletInv' /\ HeldTypes'
    BY <1>1, <1>2 DEF WalletInv, HeldTypes
  <2>5. PreparedInv'
    BY <1>1, <1>2, <2>1 DEF PreparedInv, AllSigned, SignedWell
  <2>6. SentInv' /\ LedgerInv'
    BY <1>1, <1>2, <2>1 DEF SentInv, LedgerInv
  <2>7. BlameInv'
    BY <1>1, <1>2, <2>1 DEF BlameInv, FailureHasCause, InTimeSucceeds
  <2> QED BY <1>7, <2>3, <2>4, <2>5, <2>6, <2>7 DEF WorkInv
<1>9. CASE ~Accepted(sent.call, sent.auth, ledger)
  <2>1. Late(sent.call, sent.auth, ledger)
    BY <1>2, <1>3, <1>4, <1>5, <1>6, <1>9, CallsAccepted
  <2>2. /\ status' = "FAILED" /\ trouble' = trouble \cup {"late"}
        /\ access' = access /\ accounts' = accounts /\ executed' = executed
    BY <1>9, <2>1 DEF Include, Meet
  <2>3. WorldInv'
    <3>1. Done' = Done /\ admin' = admin /\ holders' = holders /\ AccessTypeOK'
      BY <1>2, <2>2 DEF Done, WorldInv, AccessTypeOK, access
    <3>2. \A s : OnlyAccount(s)' <=> OnlyAccount(s)
      BY <1>1, <2>2 DEF OnlyAccount
    <3> QED BY <1>1, <1>2, <2>2, <3>1, <3>2 DEF WorldInv, HasRole
  <2>4. WalletInv' /\ HeldTypes'
    BY <1>1, <1>2 DEF WalletInv, HeldTypes
  <2>5. PreparedInv'
    BY <1>1, <1>2, <2>2 DEF PreparedInv, AllSigned, SignedWell
  <2>6. SentInv' /\ LedgerInv'
    BY <1>1, <1>2, <2>2 DEF SentInv, LedgerInv
  <2>7. InTimeSucceeds'
    <3>1. PICK address \in Required(sent.call) : signed[address].expiration < ledger
      BY <1>3, <2>1 DEF Late, Expired
    <3>2. address \in DOMAIN signed /\ SignedWell(address, signed[address])
      BY <1>3, <1>6, <3>1 DEF AllSigned
    <3>3. signed[address] \in Entry
      BY <1>6, <3>2 DEF IsEntryMap
    <3>4. /\ signed[address].expiration \in Nat /\ signed[address].since \in Nat
          /\ ledger \in Nat /\ MaxLag \in Nat /\ ValidityOf(address) \in Nat
      BY <1>2, <3>3, EntryNumbers, BoundsAssumption DEF LedgerInv, ValidityOf
    <3>5. ledger + MaxLag > signed[address].since + ValidityOf(address)
      BY <3>1, <3>2, <3>4 DEF SignedWell
    <3> QED BY <1>1, <1>3, <3>2, <3>5 DEF InTimeSucceeds
  <2>8. BlameInv'
    BY <1>1, <1>2, <2>2, <2>7 DEF BlameInv, FailureHasCause
  <2> QED BY <1>7, <2>3, <2>4, <2>5, <2>6, <2>8 DEF WorkInv
<1> QED BY <1>8, <1>9

\* Losing a transaction, the passing of time, and standing still.
LEMMA OthersKeep == ASSUME WorkInv, Drop \/ Tick \/ UNCHANGED vars PROVE WorkInv'
<1>1. /\ chain' = chain /\ client' = client /\ sent' = sent
      /\ trouble \subseteq trouble'
      /\ \/ status' = status
         \/ status' = "lost"
      /\ ledger' = ledger \/ (ledger < MaxLedger /\ ledger' = ledger + 1)
  BY DEF Drop, Tick, vars, network, Meet
<1>2. /\ access' = access /\ accounts' = accounts /\ executed' = executed /\ closed' = closed
      /\ at' = at /\ pc' = pc /\ exit' = exit /\ wallet' = wallet
      /\ simulation' = simulation /\ entries' = entries /\ signed' = signed
      /\ Operation' = Operation /\ step' = step
  BY <1>1 DEF chain, client, transaction, Operation, step
<1>3. /\ PhaseInv /\ WorldInv /\ WalletInv /\ PreparedInv /\ HeldTypes /\ SentInv /\ LedgerInv /\ BlameInv
  BY DEF WorkInv
<1>4. PhaseInv'
  <2>1. [Next]_vars
    BY DEF Next
  <2> QED BY <1>3, <2>1, PhaseNext
<1>5. WorldInv'
  <2>1. Done' = Done /\ admin' = admin /\ holders' = holders /\ AccessTypeOK'
    BY <1>2, <1>3 DEF Done, WorldInv, AccessTypeOK, access
  <2>2. \A s : OnlyAccount(s)' <=> OnlyAccount(s)
    BY <1>2 DEF OnlyAccount
  <2> QED BY <1>2, <1>3, <2>1, <2>2 DEF WorldInv, HasRole
<1>6. WalletInv' /\ HeldTypes' /\ SentInv'
  BY <1>1, <1>2, <1>3 DEF WalletInv, HeldTypes, SentInv
<1>7. PreparedInv'
  <2>1. trouble # {} => trouble' # {}
    BY <1>1
  <2> QED BY <1>2, <1>3, <2>1 DEF PreparedInv, AllSigned, SignedWell
<1>8. LedgerInv'
  BY <1>1, <1>2, <1>3, BoundsAssumption DEF LedgerInv
<1>9. BlameInv'
  BY <1>1, <1>2, <1>3 DEF BlameInv, FailureHasCause, InTimeSucceeds
<1> QED BY <1>4, <1>5, <1>6, <1>7, <1>8, <1>9 DEF WorkInv

\* The invariant of main holds before the first operation ...
LEMMA WorkInit == Init => WorkInv
<1> SUFFICES ASSUME Init PROVE WorkInv
  OBVIOUS
<1>1. PhaseInv
  BY PhaseInit
<1>2. at = 1 /\ pc = 1 /\ exit = "running" /\ status = "none" /\ trouble = {} /\ Done = 0
  BY DEF Init, Done
<1>3. WorldInv
  BY <1>2 DEF Init, WorldInv, AccessTypeOK
<1>4. WalletInv /\ SentInv /\ LedgerInv
  BY <1>2, BoundsAssumption DEF Init, WalletInv, SentInv, LedgerInv
<1>5. PreparedInv
  BY <1>2 DEF PreparedInv, BuildAt, SignAt
<1>6. HeldTypes
  BY DEF Init, HeldTypes, NoEntries, IsEntryMap
<1>7. BlameInv
  BY <1>2 DEF BlameInv, FailureHasCause, InTimeSucceeds
<1> QED BY <1>1, <1>3, <1>4, <1>5, <1>6, <1>7 DEF WorkInv

\* ... is kept by every step of the client, the node and the network ...
LEMMA WorkNext == WorkInv /\ [Next]_vars => WorkInv'
BY BuildKeeps, ReadKeeps, SignEntriesKeep, SimulateKeeps, SignKeeps, GetDeployedAddressKeeps, SendKeeps,
   IncludeKeeps, OthersKeep
   DEF Next, Client

\* ... and so always holds.
LEMMA WorkInvariant == Spec => []WorkInv
BY WorkInit, WorkNext, PTL DEF Spec

\* Every entry is an entry of an address that the call needs, and no step is
\* beyond the operation's last (main).
THEOREM ClientTypeCorrect == Spec => []TypeOK
<1>1. WorkInv => TypeOK
  <2> SUFFICES ASSUME WorkInv PROVE TypeOK
    OBVIOUS
  <2>1. /\ PhaseInv /\ WorldInv /\ WalletInv /\ HeldTypes /\ SentInv /\ LedgerInv
    BY DEF WorkInv
  <2>2. at \in 1 .. 8 \/ (at = 9 /\ exit = "completed")
    BY <2>1 DEF PhaseInv
  <2>3. at \in 1 .. 8 => pc \in DOMAIN Operation.steps
    <3>1. CASE at \in 1 .. 8
      <4>1. DOMAIN main(wallet)[at].steps = 1 .. Length[at]
        BY <3>1, StepsOfMain
      <4>2. pc \in 1 .. Length[at]
        BY <2>1, <3>1 DEF PhaseInv
      <4> QED BY <4>1, <4>2 DEF Operation
    <3> QED BY <3>1
  <2>4. executed \in Seq(1 .. 8)
    <3>1. \A n \in 0 .. 8 : FirstOperations(n) \in Seq(1 .. 8)
      BY DEF FirstOperations
    <3>2. at \in 1 .. 8 => at \in 0 .. 8 /\ at - 1 \in 0 .. 8
      OBVIOUS
    <3> QED BY <2>1, <3>1, <3>2 DEF PhaseInv, Preparing, InFlight, InEffect
  <2> QED BY <2>1, <2>2, <2>3, <2>4 DEF TypeOK, WorldInv, WalletInv, HeldTypes, SentInv, LedgerInv
<1> QED BY <1>1, WorkInvariant, PTL

\* A transaction fails only if an entry of it expired before it was included: the
\* roles, the accounts and the signers are what every operation needs (the calls
\* and the signers of main, and the validity of authorizeWithSmartAccount).
THEOREM TransactionsInTimeSucceed == Spec => []InTimeSucceeds
<1>1. WorkInv => InTimeSucceeds
  BY DEF WorkInv, BlameInv
<1> QED BY <1>1, WorkInvariant, PTL

\* No operation of main stands in the way of another, however long it takes.
THEOREM FailuresHaveCauses == Spec => []FailureHasCause
<1>1. WorkInv => FailureHasCause
  BY DEF WorkInv, BlameInv
<1> QED BY <1>1, WorkInvariant, PTL

\* Of the operations that read a result after the confirmation, deployFactory can.
THEOREM ConfirmedCallsReturn == Spec => []ConfirmedReturns
<1>1. WorkInv => ConfirmedReturns
  BY DEF WorkInv, BlameInv, ConfirmedReturns
<1> QED BY <1>1, WorkInvariant, PTL
=============================================================================
