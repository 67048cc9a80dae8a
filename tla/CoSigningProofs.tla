--------------------------- MODULE CoSigningProofs ---------------------------
(***************************************************************************)
(* Theorems about an entry that several signers put their proofs into, for *)
(* every set of keys, every number of proofs and every pace of the ledger. *)
(***************************************************************************)
EXTENDS CoSigning, FiniteSetTheorems, TLAPS

-----------------------------------------------------------------------------
\* An element inserted into a sequence joins the others; none is lost.
LEMMA InsertAtElements ==
    ASSUME NEW S, NEW s \in Seq(S), NEW e \in S, NEW i \in 1 .. Len(s) + 1
    PROVE  /\ InsertAt(s, i, e) \in Seq(S)
           /\ Len(InsertAt(s, i, e)) = Len(s) + 1
           /\ InsertAt(s, i, e)[i] = e
           /\ \A j \in 1 .. i - 1 : InsertAt(s, i, e)[j] = s[j]
           /\ \A j \in i + 1 .. Len(s) + 1 : InsertAt(s, i, e)[j] = s[j - 1]
<1> DEFINE a == SubSeq(s, 1, i - 1)
           b == SubSeq(s, i, Len(s))
<1>1. a \in Seq(S) /\ Len(a) = i - 1 /\ \A j \in 1 .. i - 1 : a[j] = s[j]
  OBVIOUS
<1>2. b \in Seq(S) /\ Len(b) = Len(s) - i + 1 /\ \A j \in 1 .. Len(s) - i + 1 : b[j] = s[i + j - 1]
  OBVIOUS
<1>3. InsertAt(s, i, e) = a \o <<e>> \o b /\ Len(s) \in Nat /\ i \in Nat
  BY DEF InsertAt
<1> HIDE DEF a, b
<1>4. <<e>> \in Seq(S) /\ Len(<<e>>) = 1 /\ <<e>>[1] = e
  OBVIOUS
<1>5. /\ a \o <<e>> \in Seq(S) /\ Len(a \o <<e>>) = i /\ (a \o <<e>>)[i] = e
      /\ \A j \in 1 .. i - 1 : (a \o <<e>>)[j] = s[j]
  BY <1>1, <1>3, <1>4
<1> DEFINE c == a \o <<e>>
<1> HIDE DEF c
<1>6. /\ c \in Seq(S) /\ Len(c) = i /\ c[i] = e
      /\ \A j \in 1 .. i - 1 : c[j] = s[j]
  BY <1>5 DEF c
<1>7. /\ c \o b \in Seq(S) /\ Len(c \o b) = Len(s) + 1
      /\ \A j \in 1 .. i : (c \o b)[j] = c[j]
      /\ \A j \in i + 1 .. Len(s) + 1 : (c \o b)[j] = b[j - i]
  BY <1>2, <1>3, <1>6
<1>8. \A j \in i + 1 .. Len(s) + 1 : j - i \in 1 .. Len(s) - i + 1 /\ i + (j - i) - 1 = j - 1
  BY <1>3
<1>9. InsertAt(s, i, e) = c \o b
  BY <1>3 DEF c
<1>10. \A j \in i + 1 .. Len(s) + 1 : b[j - i] = s[j - 1]
  BY <1>2, <1>8
<1>11. i \in 1 .. i /\ \A j \in 1 .. i - 1 : j \in 1 .. i
  BY <1>3
<1> QED BY <1>6, <1>7, <1>9, <1>10, <1>11

\* Wherever its place, a proof that is inserted is there, with all the others.
LEMMA InsertElements ==
    ASSUME NEW proofs \in Seq(Proof), NEW proof \in Proof
    PROVE  /\ Insert(proofs, proof) \in Seq(Proof)
           /\ Insert(proofs, proof) # <<>>
           /\ \A x : (\E i \in DOMAIN Insert(proofs, proof) : Insert(proofs, proof)[i] = x)
                     <=> x = proof \/ \E i \in DOMAIN proofs : proofs[i] = x
<1> DEFINE before == {i \in DOMAIN proofs : ~LocaleBefore(proof, proofs[i])}
           n == Cardinality(before) + 1
           new == InsertAt(proofs, n, proof)
<1>1. n \in 1 .. Len(proofs) + 1
  <2>1. IsFiniteSet(1 .. Len(proofs)) /\ Cardinality(1 .. Len(proofs)) = Len(proofs)
    <3>1. Len(proofs) \in Nat
      OBVIOUS
    <3> QED BY <3>1, FS_Interval
  <2>2. before \subseteq 1 .. Len(proofs)
    OBVIOUS
  <2>3. Cardinality(before) \in Nat /\ Cardinality(before) <= Len(proofs)
    BY <2>1, <2>2, FS_Subset, FS_CardinalityType
  <2> QED BY <2>3
<1>2. Insert(proofs, proof) = new
  BY DEF Insert
<1> HIDE DEF before, n
<1>3. /\ new \in Seq(Proof) /\ Len(new) = Len(proofs) + 1 /\ new[n] = proof
      /\ \A j \in 1 .. n - 1 : new[j] = proofs[j]
      /\ \A j \in n + 1 .. Len(proofs) + 1 : new[j] = proofs[j - 1]
  BY <1>1, InsertAtElements
<1> HIDE DEF new
<1>4. DOMAIN new = 1 .. Len(proofs) + 1 /\ DOMAIN proofs = 1 .. Len(proofs) /\ Len(proofs) \in Nat
  BY <1>3
<1>5. ASSUME NEW i \in DOMAIN new
      PROVE  new[i] = proof \/ \E j \in DOMAIN proofs : proofs[j] = new[i]
  <2>1. i = n \/ i \in 1 .. n - 1 \/ i \in n + 1 .. Len(proofs) + 1
    BY <1>1, <1>4
  <2>2. i \in 1 .. n - 1 => i \in DOMAIN proofs
    BY <1>1, <1>4
  <2>3. i \in n + 1 .. Len(proofs) + 1 => i - 1 \in DOMAIN proofs
    BY <1>1, <1>4
  <2> QED BY <1>3, <2>1, <2>2, <2>3
<1>6. ASSUME NEW j \in DOMAIN proofs
      PROVE  \E i \in DOMAIN new : new[i] = proofs[j]
  <2>1. CASE j < n
    <3>1. j \in 1 .. n - 1 /\ j \in DOMAIN new
      BY <1>1, <1>4, <2>1
    <3> QED BY <1>3, <3>1
  <2>2. CASE ~(j < n)
    <3>1. j + 1 \in n + 1 .. Len(proofs) + 1 /\ j + 1 \in DOMAIN new /\ (j + 1) - 1 = j
      BY <1>1, <1>4, <2>2
    <3> QED BY <1>3, <3>1
  <2> QED BY <2>1, <2>2
<1>7. n \in DOMAIN new
  BY <1>1, <1>4
<1>8. \A x : (\E i \in DOMAIN new : new[i] = x)
             <=> x = proof \/ \E i \in DOMAIN proofs : proofs[i] = x
  BY <1>3, <1>5, <1>6, <1>7
<1>9. new # <<>>
  BY <1>4
<1> QED BY <1>2, <1>3, <1>8, <1>9

-----------------------------------------------------------------------------
\* Nobody else touches an entry while a call works on its clone, and it has an
\* expiration from its first proof on, which all its proofs are over.
CoInv ==
    /\ ledger \in Nat \ {0}
    /\ entry \in Entry
    /\ entry.expiration = 0 <=> entry.proofs = <<>>
    /\ call # NoCall => call \in Call /\ call.clone = entry
    /\ ProofsAgree
    /\ NoProofLost

\* The entry starts without an expiration and without proofs.
LEMMA CoInit == Init => CoInv
<1> SUFFICES ASSUME Init PROVE CoInv
  OBVIOUS
<1>1. entry = [expiration |-> 0, proofs |-> <<>>]
  BY DEF Init
<1>2. <<>> \in Seq(Proof) /\ DOMAIN <<>> = {}
  OBVIOUS
<1>3. entry \in Entry /\ entry.expiration = 0 /\ entry.proofs = <<>>
  BY <1>1, <1>2 DEF Entry
<1>4. ProofKeys = {}
  BY <1>2, <1>3 DEF ProofKeys
<1> QED BY <1>2, <1>3, <1>4 DEF Init, CoInv, ProofsAgree, NoProofLost

\* A proof that is attached is over the expiration the others are over.
LEMMA AttachKeeps == ASSUME CoInv, Attach PROVE CoInv'
<1> DEFINE proof == [key |-> call.key, payload |-> Expiration(entry)]
           new == Insert(entry.proofs, proof)
<1>1. call \in Call /\ call.clone = entry /\ entry \in Entry /\ ledger \in Nat \ {0}
  BY DEF CoInv, Attach
<1>2. call.key \in Keys /\ entry.expiration \in Nat /\ entry.proofs \in Seq(Proof)
  BY <1>1 DEF Call, Entry
<1>3. Expiration(entry) \in Nat \ {0} /\ (entry.expiration # 0 => Expiration(entry) = entry.expiration)
  BY <1>1, <1>2, BoundsAssumption DEF Expiration
<1>4. proof \in Proof /\ proof.key = call.key /\ proof.payload = Expiration(entry)
  BY <1>2, <1>3 DEF Proof
<1>5. entry' = [expiration |-> Expiration(entry), proofs |-> new]
      /\ returned' = returned \cup {call.key} /\ call' = NoCall /\ ledger' = ledger
  BY <1>1 DEF Attach
<1> HIDE DEF proof, new
<1>6. /\ new \in Seq(Proof) /\ new # <<>>
      /\ \A x : (\E i \in DOMAIN new : new[i] = x)
                <=> x = proof \/ \E i \in DOMAIN entry.proofs : entry.proofs[i] = x
  BY <1>2, <1>4, InsertElements DEF new
<1>7. entry' \in Entry /\ entry'.expiration = Expiration(entry) /\ entry'.proofs = new
  BY <1>3, <1>5, <1>6 DEF Entry
<1>8. ProofsAgree'
  <2>1. ASSUME NEW i \in DOMAIN new PROVE new[i].payload = Expiration(entry)
    <3>1. CASE new[i] = proof
      BY <1>4, <3>1
    <3>2. CASE new[i] # proof
      <4>1. PICK j \in DOMAIN entry.proofs : entry.proofs[j] = new[i]
        BY <1>6, <3>2
      <4>2. entry.proofs # <<>> /\ entry.proofs[j].payload = entry.expiration
        BY <1>2, <4>1 DEF CoInv, ProofsAgree
      <4>3. entry.expiration # 0
        BY <4>2 DEF CoInv
      <4> QED BY <1>3, <4>1, <4>2, <4>3
    <3> QED BY <3>1, <3>2
  <2> QED BY <1>7, <2>1 DEF ProofsAgree
<1>9. ProofKeys' = ProofKeys \cup {call.key}
  <2>1. ProofKeys' = {new[i].key : i \in DOMAIN new}
    BY <1>7 DEF ProofKeys
  <2>2. ASSUME NEW i \in DOMAIN new PROVE new[i].key \in ProofKeys \cup {call.key}
    BY <1>4, <1>6 DEF ProofKeys
  <2>3. ASSUME NEW j \in DOMAIN entry.proofs PROVE \E i \in DOMAIN new : new[i].key = entry.proofs[j].key
    BY <1>6
  <2>4. \E i \in DOMAIN new : new[i].key = call.key
    BY <1>4, <1>6
  <2>5. ASSUME NEW k \in ProofKeys \cup {call.key} PROVE k \in {new[i].key : i \in DOMAIN new}
    BY <2>3, <2>4 DEF ProofKeys
  <2>6. {new[i].key : i \in DOMAIN new} = ProofKeys \cup {call.key}
    BY <2>2, <2>5
  <2> QED BY <2>1, <2>6
<1>10. NoProofLost'
  BY <1>5, <1>9 DEF CoInv, NoProofLost
<1> QED BY <1>1, <1>3, <1>5, <1>6, <1>7, <1>8, <1>10 DEF CoInv

\* No other step changes the entry.
LEMMA CoNext == ASSUME CoInv, [Next]_vars PROVE CoInv'
<1>1. CASE UNCHANGED vars
  BY <1>1 DEF CoInv, ProofsAgree, NoProofLost, ProofKeys, vars
<1>2. CASE Tick
  BY <1>2 DEF Tick, CoInv, ProofsAgree, NoProofLost, ProofKeys
<1>3. ASSUME NEW key \in Keys, Authorize(key) PROVE CoInv'
  <2>1. [key |-> key, clone |-> entry] \in Call /\ [key |-> key, clone |-> entry].clone = entry
    BY DEF CoInv, Call
  <2> QED BY <1>3, <2>1 DEF Authorize, CoInv, ProofsAgree, NoProofLost, ProofKeys
<1>4. CASE Attach
  BY <1>4, AttachKeeps
<1>5. CASE Throw \/ Send
  BY <1>5 DEF Throw, Send, CoInv, ProofsAgree, NoProofLost, ProofKeys
<1> QED BY <1>1, <1>2, <1>3, <1>4, <1>5 DEF Next

\* So the entry is always as the invariant says.
LEMMA CoInvariant == Spec => []CoInv
BY CoInit, CoNext, PTL DEF Spec

\* However many ledgers close between the signers of an entry, all its proofs are
\* over the one expiration it is submitted with.
THEOREM CoSignersAgree == Spec => []ProofsAgree
<1>1. CoInv => ProofsAgree
  BY DEF CoInv
<1> QED BY <1>1, CoInvariant, PTL

\* In whatever order signers come, twice or more, and whichever calls throw: the
\* proof of everyone whose call has returned is in the entry.
THEOREM EveryProofKept == Spec => []NoProofLost
<1>1. CoInv => NoProofLost
  BY DEF CoInv
<1> QED BY <1>1, CoInvariant, PTL
=============================================================================
