------------------------------ MODULE CoSigning ------------------------------
(***************************************************************************)
(* How several signers of an account put their proofs into one             *)
(* authorization entry: calls of authorizeWithSmartAccount                 *)
(* (examples/smart-account-operations.ts), one after the other, while      *)
(* ledgers close, and the host that reads the entry in the end.            *)
(*                                                                         *)
(* Keys are Ed25519 keys, as in the example, and sequences of bytes of one *)
(* length; a key has 32 in the code.  MaxLedger bounds the clock and         *)
(* MaxProofs the proofs of the entry: a signer may sign more than once.    *)
(***************************************************************************)
EXTENDS Naturals, Sequences, FiniteSets, SequencesExt

CONSTANTS
    Keys,        \* the signers' public keys, as sequences of bytes
    Validity,    \* ledgers an entry is valid for
    MaxLedger,
    MaxProofs,
    NoCall

ASSUME KeysAssumption ==
    /\ \A k \in Keys : k \in Seq(0 .. 255)
    /\ \A k, j \in Keys : Len(k) = Len(j)
ASSUME BoundsAssumption == {Validity, MaxLedger, MaxProofs} \subseteq Nat

\* The signatureExpirationLedger of an entry, 0 when unset, and the map of proofs
\* that is its signature; a call works on a clone of it.
Proof == [key : Keys, payload : Nat]
Entry == [expiration : Nat, proofs : Seq(Proof)]
Call == [key : Keys, clone : Entry]

ASSUME NoCallAssumption == NoCall \notin Call

VARIABLES
    ledger,      \* the last closed ledger, from 1
    entry,       \* the entry
    call,        \* the call of authorizeWithSmartAccount that is running
    returned,    \* history: the keys whose call has returned
    outcome      \* what the host said of the entry

vars == <<ledger, entry, call, returned, outcome>>

-----------------------------------------------------------------------------
(* Two orders of keys.                                                     *)

\* s is before t in the order of dictionaries.
Before(s, t) ==
    \/ IsStrictPrefix(s, t)
    \/ \E i \in DOMAIN s \cap DOMAIN t :
          s[i] < t[i] /\ \A j \in 1 .. i - 1 : s[j] = t[j]

Digits(byte) ==
    IF byte < 10 THEN <<byte>>
    ELSE IF byte < 100 THEN <<byte \div 10, byte % 10>>
    ELSE <<byte \div 100, (byte \div 10) % 10, byte % 10>>

\* toXDR().join(""): the bytes in decimal, one after the other.  The tag and the
\* XDR header before them are the same for all keys.
Joined(key) == FlattenSeq([i \in DOMAIN key |-> Digits(key[i])])

\* a.localeCompare(b), for strings of digits
LocaleBefore(p, q) == Before(Joined(p.key), Joined(q.key))

\* The host reads a map only from strictly increasing keys, byte by byte.
Readable(proofs) ==
    \A i \in 1 .. Len(proofs) - 1 : Before(proofs[i].key, proofs[i + 1].key)

-----------------------------------------------------------------------------
Init ==
    /\ ledger = 1
    /\ entry = [expiration |-> 0, proofs |-> <<>>]
    /\ call = NoCall
    /\ returned = {}
    /\ outcome = "none"

Tick ==
    /\ ledger < MaxLedger
    /\ ledger' = ledger + 1
    /\ UNCHANGED <<entry, call, returned, outcome>>

\* The callback clones the entry, and its expiration may have to be fetched.
Authorize(key) ==
    /\ outcome = "none"
    /\ call = NoCall
    /\ Len(entry.proofs) < MaxProofs
    /\ call' = [key |-> key, clone |-> entry]
    /\ UNCHANGED <<ledger, entry, returned, outcome>>

\* if (!expiration) { ... sequence + 300 / 5 }
Expiration_Renewed(clone) == ledger + Validity
Expiration(clone) == IF clone.expiration = 0 THEN ledger + Validity ELSE clone.expiration

\* A first proof makes the map; a further one is pushed, and the map sorted.  The
\* sort is stable and the others are sorted already: it moves the pushed proof
\* to its place after those it does not precede.
Insert_Replaced(proofs, proof) == <<proof>>
Insert(proofs, proof) ==
    LET before == {i \in DOMAIN proofs : ~LocaleBefore(proof, proofs[i])}
    IN  InsertAt(proofs, Cardinality(before) + 1, proof)

\* The payload a proof is made for is the entry with its expiration.
Attach ==
    /\ call # NoCall
    /\ LET expiration == Expiration(call.clone)
           proof == [key |-> call.key, payload |-> expiration]
       IN  entry' = [expiration |-> expiration, proofs |-> Insert(call.clone.proofs, proof)]
    /\ returned' = returned \cup {call.key}
    /\ call' = NoCall
    /\ UNCHANGED <<ledger, outcome>>

\* The latest ledger cannot be fetched: the call throws, and the entry stays.
Throw ==
    /\ call # NoCall
    /\ call.clone.expiration = 0
    /\ call' = NoCall
    /\ UNCHANGED <<ledger, entry, returned, outcome>>

\* The transaction is sent with the entry as it is.
Send ==
    /\ outcome = "none"
    /\ call = NoCall
    /\ entry.proofs # <<>>
    /\ outcome' = IF ~Readable(entry.proofs) THEN "unreadable"
                  ELSE IF entry.expiration < ledger THEN "expired"
                  ELSE IF \E i \in DOMAIN entry.proofs :
                              entry.proofs[i].payload # entry.expiration THEN "bad signature"
                  ELSE "verified"
    /\ UNCHANGED <<ledger, entry, call, returned>>

Next ==
    \/ Tick
    \/ \E key \in Keys : Authorize(key)
    \/ Attach \/ Throw \/ Send

Spec == Init /\ [][Next]_vars

-----------------------------------------------------------------------------
ProofKeys == {entry.proofs[i].key : i \in DOMAIN entry.proofs}

\* A signer who signs later than another signs the same expiration, and does not
\* spoil the proofs that are there, however many ledgers closed in between.
ProofsAgree ==
    \A i \in DOMAIN entry.proofs : entry.proofs[i].payload = entry.expiration

\* Whoever's call returned has its proof in the entry, in whatever order the
\* signers came and whichever calls threw between them.
NoProofLost == returned = ProofKeys

\* "Add the new signature to the existing map": an entry signed once by each of
\* several signers is a map the host can read.
CoSignedEntriesReadable ==
    outcome = "unreadable" => Cardinality(ProofKeys) < Len(entry.proofs)
=============================================================================
