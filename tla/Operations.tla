----------------------------- MODULE Operations -----------------------------
(***************************************************************************)
(* The operations of the example client                                    *)
(* (examples/smart-account-operations.ts), without state: an operation is  *)
(* the source of its transaction, the call it makes, and its steps in the  *)
(* order of the code, each an await or a read that may throw.  Workflow    *)
(* runs them.                                                              *)
(*                                                                         *)
(* Left out: the wording of what is printed, the hashes of the builds, and *)
(* the parsing of the greetings that hello returns.                        *)
(***************************************************************************)
EXTENDS Naturals, Sequences

CONSTANTS
    \* the key pairs of consts.ts
    ROOT, DEPLOYER, TREASURY,          \* classical accounts
    ADMIN_SIGNER, DELEGATED_SIGNER,    \* signers of the smart accounts
    Deployer,     \* the role "deployer"
    Hello,        \* HELLO_WORLD_CONTRACT_ID
    TheFactory,   \* the contract deployFactory deploys
    Wallet,       \* the account, as its own decision names it
    Missing       \* what the account's map holds for a key it has no entry for

\* consts.ts derives each key pair from a path of its own.
Keypairs == <<ROOT, DEPLOYER, TREASURY, ADMIN_SIGNER, DELEGATED_SIGNER>>

ASSUME KeypairsAssumption ==
    \A i, j \in DOMAIN Keypairs : Keypairs[i] = Keypairs[j] => i = j

\* The contract that the operations call is not an account.
ASSUME HelloAssumption == Hello # Wallet

SignerKeys == {ADMIN_SIGNER, DELEGATED_SIGNER}

\* The decision of __check_auth, taken by one account about calls of its own
\* functions (contract Wallet) and of other contracts.
Decision == INSTANCE Authorization WITH
    Account <- Wallet, Contracts <- {Wallet, TheFactory, Hello},
    Ed25519Keys <- SignerKeys, Secp256r1Keys <- {}, PublicKeys <- {}, Wasms <- {}

-----------------------------------------------------------------------------
(* The calls, as the generated clients take them (packages).  A salt stands *)
(* for the address the factory gives it.                                   *)

factory_constructor(root) == [fn |-> "__constructor", admin |-> root]

grant_role(caller, account, role) ==
    [fn |-> "grant_role", caller |-> caller, account |-> account, role |-> role]

deploy(caller, salt, signers) ==
    [fn |-> "deploy", caller |-> caller, salt |-> salt, signers |-> signers]

\* The calls that follow are add_signer(signer) on the new account, and hello.
deploy_account_and_invoke(caller, salt, signers, signer) ==
    [fn |-> "deploy_account_and_invoke", caller |-> caller, salt |-> salt,
     signers |-> signers, signer |-> signer]

add_signer(contract, signer) == [fn |-> "add_signer", contract |-> contract, signer |-> signer]
upgrade(contract) == [fn |-> "upgrade", contract |-> contract]
hello(address) == [fn |-> "hello", contract |-> address]

Signer(keypair, role) == [key |-> keypair, pub |-> keypair, role |-> role]

createAdminSignerFromKeypair_Standard(keypair) == Signer(keypair, Decision!Standard)
createAdminSignerFromKeypair(keypair) == Signer(keypair, Decision!Admin)

-----------------------------------------------------------------------------
(* The steps.                                                              *)

Step(name) == [do |-> name]
sign(keypair) == [do |-> "sign", signer |-> keypair]
signAuthEntries(address) == [do |-> "signAuthEntries", address |-> address]
authorizeWithSmartAccount(address, keypair) ==
    [do |-> "authorizeWithSmartAccount", address |-> address, signer |-> keypair]

deployFactory ==
    [source |-> ROOT,
     call |-> factory_constructor(ROOT),
     steps |-> <<Step("build"), Step("simulate"), sign(ROOT),
                 Step("send"), Step("confirmTransaction"), Step("result")>>]

grantDeployerRole ==
    [source |-> TREASURY,
     call |-> grant_role(ROOT, DEPLOYER, Deployer),
     steps |-> <<Step("build"), Step("printAuthEntries"), signAuthEntries(ROOT), sign(TREASURY),
                 Step("send"), Step("confirmTransaction")>>]

\* The transaction is simulated a second time only after it has been signed.
deploySmartAccount(salt) ==
    [source |-> TREASURY,
     call |-> deploy(DEPLOYER, salt, {createAdminSignerFromKeypair(ADMIN_SIGNER)}),
     steps |-> <<Step("get_deployed_address"), Step("build"), Step("printAuthEntries"),
                 signAuthEntries(DEPLOYER), sign(TREASURY), Step("simulate"),
                 Step("send"), Step("confirmTransaction"), Step("result")>>]

\* addSigner, the hello world operation and upgradeSmartAccount differ in their
\* call and in the signer who authorizes it.
WithSmartAccountAuth(call, keypair) ==
    [source |-> TREASURY,
     call |-> call,
     steps |-> <<Step("build"), Step("printAuthEntries"),
                 authorizeWithSmartAccount(call.contract, keypair), Step("simulate"), sign(TREASURY),
                 Step("send"), Step("confirmTransaction")>>]

addSigner(contract) ==
    WithSmartAccountAuth(
        add_signer(contract, Signer(DELEGATED_SIGNER, Decision!Standard)), ADMIN_SIGNER)

deployAndInvokeContractWithSmartAccount_Result(salt) ==
    [source |-> TREASURY,
     call |-> deploy_account_and_invoke(DEPLOYER, salt, {createAdminSignerFromKeypair(ADMIN_SIGNER)},
                                        Signer(DELEGATED_SIGNER, Decision!Standard)),
     steps |-> <<Step("get_deployed_address"), Step("build"), Step("printAuthEntries"),
                 authorizeWithSmartAccount(salt, ADMIN_SIGNER), signAuthEntries(DEPLOYER),
                 sign(TREASURY), Step("simulate"),
                 Step("send"), Step("confirmTransaction"), Step("result")>>]

deployAndInvokeContractWithSmartAccount(salt) ==
    [source |-> TREASURY,
     call |-> deploy_account_and_invoke(DEPLOYER, salt, {createAdminSignerFromKeypair(ADMIN_SIGNER)},
                                        Signer(DELEGATED_SIGNER, Decision!Standard)),
     steps |-> <<Step("get_deployed_address"), Step("build"), Step("printAuthEntries"),
                 authorizeWithSmartAccount(salt, ADMIN_SIGNER), signAuthEntries(DEPLOYER),
                 Step("simulate"), sign(TREASURY),
                 Step("send"), Step("confirmTransaction")>>]

sendHelloWorldTransactionWithSmartAccountAuth(contract) ==
    WithSmartAccountAuth(hello(contract), DELEGATED_SIGNER)

upgradeSmartAccount(contract) == WithSmartAccountAuth(upgrade(contract), ADMIN_SIGNER)

\* Each operation works with the account that was deployed last before it.
main(contract) ==
    <<deployFactory,
      grantDeployerRole,
      deploySmartAccount(contract),
      addSigner(contract),
      deployAndInvokeContractWithSmartAccount(contract),
      sendHelloWorldTransactionWithSmartAccountAuth(contract),
      upgradeSmartAccount(contract),
      sendHelloWorldTransactionWithSmartAccountAuth(contract)>>
=============================================================================
