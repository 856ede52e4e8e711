--------------------------- MODULE CAStoreProofs ---------------------------
(***************************************************************************)
(* Proofs about CAStore, for every set of names, CSRs and threads, with or  *)
(* without a policy.                                                        *)
(***************************************************************************)
EXTENDS CAStore, TLAPS

\* What signing a pending request does to the types of the store.
LEMMA SignLockedType ==
  ASSUME TypeOK,
         NEW n \in Names, NEW via \in Via,
         NEW pending \in [Names -> CSRs \cup {None}],
         SignLocked(n, pending, via)
  PROVE  /\ requests' \in [Names -> CSRs \cup {None}]
         /\ signed' \in [Names -> Cert \cup {None}]
         /\ serial' \in Nat
         /\ inventory' \subseteq Cert
<1> DEFINE leaf == [serial |-> serial, csr |-> pending[n], via |-> via]
<1>1. leaf \in Cert
  BY DEF TypeOK, Cert
<1>2. serial' \in Nat
  BY DEF TypeOK, SignLocked
<1> HIDE DEF leaf
<1>3. CASE pending[n] \in Signable
  <2>1. /\ signed' = [signed EXCEPT ![n] = leaf]
        /\ inventory' = inventory \cup {leaf}
        /\ requests' = [pending EXCEPT ![n] = None]
    BY <1>3 DEF SignLocked, leaf
  <2> QED
    BY <1>1, <1>2, <2>1 DEF TypeOK
<1>4. CASE pending[n] \notin Signable
  BY <1>2, <1>4 DEF TypeOK, SignLocked
<1> QED
  BY <1>3, <1>4

\* Every step keeps the variables' types.
LEMMA TypeStep == TypeOK /\ ThreadsOK /\ [Next]_vars => TypeOK'
<1> SUFFICES ASSUME TypeOK, ThreadsOK, [Next]_vars PROVE TypeOK'
  OBVIOUS
<1>0. Idle \in Thread
  BY DEF Idle, Job, Thread, PC
<1>1. CASE \E t \in Threads, n \in Names, c \in CSRs : PutCSR(t, n, c)
  <2> PICK t \in Threads, n \in Names, c \in CSRs : PutCSR(t, n, c)
    BY <1>1
  <2>1. Job("store", n, c, autosignAll, 0) \in Thread
    BY DEF TypeOK, Thread, PC, Job
  <2> QED
    BY <2>1 DEF PutCSR, TypeOK
<1>2. CASE \E t \in Threads, n \in Names : DelStatusRevoke(t, n)
  <2> PICK t \in Threads, n \in Names : DelStatusRevoke(t, n)
    BY <1>2
  <2>1. Job("clean", n, None, FALSE, serial) \in Thread
    BY DEF TypeOK, Thread, PC, Job
  <2>2. crl' \subseteq Nat
    BY DEF DelStatusRevoke, RevokeLocked, TypeOK, Cert
  <2> QED
    BY <2>1, <2>2 DEF DelStatusRevoke, TypeOK
<1>3. CASE \E t \in Threads : Advance(t)
  <2> PICK t \in Threads : Advance(t)
    BY <1>3
  <2>0. th[t] \in Thread
    BY DEF TypeOK
  <2>1. CASE RejectCSR(t) \/ PolicyRefuses(t) \/ DropApproval(t)
    BY <1>0, <2>1 DEF RejectCSR, PolicyRefuses, DropApproval, Return, TypeOK
  <2>2. CASE StoreCSR(t)
    BY <1>0, <2>0, <2>2 DEF StoreCSR, WithRequest, Return, TypeOK, Thread
  <2>3. CASE AutosignCSR(t)
    <3>1. th[t].name \in Names
      BY <2>3, ConstantsAssumption DEF AutosignCSR, ThreadsOK
    <3>2. WithRequest(t) \in [Names -> CSRs \cup {None}]
      BY <2>0 DEF WithRequest, TypeOK, Thread
    <3> QED
      BY <1>0, <2>3, <3>1, <3>2, SignLockedType DEF AutosignCSR, Return, TypeOK, Via
  <2>4. CASE AskPolicy(t)
    <3>1. Job("policy", th[t].name, th[t].csr, TRUE, 0) \in Thread
      BY <2>0 DEF Thread, PC, Job
    <3> QED
      BY <2>0, <2>4, <3>1 DEF AskPolicy, WithRequest, TypeOK, Thread
  <2>5. CASE PolicyApproves(t)
    <3>1. Job("approved", th[t].name, th[t].csr, TRUE, 0) \in Thread
      BY <2>0 DEF Thread, PC, Job
    <3>2. th[t].csr \in CSRs
      BY <2>5, ConstantsAssumption DEF PolicyApproves, ThreadsOK
    <3> QED
      BY <2>5, <3>1, <3>2 DEF PolicyApproves, TypeOK
  <2>6. CASE SignApproved(t)
    <3>1. th[t].name \in Names
      BY <2>6, ConstantsAssumption DEF SignApproved, ThreadsOK
    <3>2. requests \in [Names -> CSRs \cup {None}] /\ "policy" \in Via
      BY DEF TypeOK, Via
    <3> QED
      BY <1>0, <2>6, <3>1, <3>2, SignLockedType DEF SignApproved, Return, TypeOK
  <2>7. CASE DelStatusClean(t)
    BY <1>0, <2>7 DEF DelStatusClean, CleanLocked, Return, TypeOK
  <2>8. CASE PolicyLeavesChild(t)
    <3>1. Job("stderr", th[t].name, th[t].csr, TRUE, 0) \in Thread
      BY <2>0 DEF Thread, PC, Job
    <3> QED
      BY <2>8, <3>1 DEF PolicyLeavesChild, TypeOK
  <2> QED
    BY <2>1, <2>2, <2>3, <2>4, <2>5, <2>6, <2>7, <2>8
       DEF Advance, Section, PolicyReturns
<1>4. CASE \E n \in Names : Sign(n) \/ Revoke(n) \/ Clean(n) \/ DeleteCSR(n)
  <2> PICK n \in Names : Sign(n) \/ Revoke(n) \/ Clean(n) \/ DeleteCSR(n)
    BY <1>4
  <2>1. CASE Sign(n)
    BY <2>1, SignLockedType DEF Sign, TypeOK, Via
  <2>2. CASE Revoke(n)
    BY <2>2 DEF Revoke, RevokeLocked, TypeOK, Cert
  <2>3. CASE Clean(n)
    BY <2>3 DEF Clean, CleanLocked, TypeOK
  <2>4. CASE DeleteCSR(n)
    BY <2>4 DEF DeleteCSR, TypeOK
  <2> QED
    BY <2>1, <2>2, <2>3, <2>4
<1>5. CASE ServerTLSCert
  <2>1. server' \in Cert
    BY <1>5 DEF ServerTLSCert, TypeOK, Cert, Via
  <2> QED
    BY <1>5, <2>1 DEF ServerTLSCert, TypeOK
<1>6. CASE \E v \in BOOLEAN : SetAutosignAll(v)
  BY <1>6 DEF SetAutosignAll, TypeOK
<1>7. CASE Restart
  BY <1>0, <1>7 DEF Restart, TypeOK
<1>8. CASE UNCHANGED vars
  BY <1>8 DEF vars, TypeOK
<1> QED
  BY <1>1, <1>2, <1>3, <1>4, <1>5, <1>6, <1>7, <1>8 DEF Next

----------------------------------------------------------------------------
(* The part of the invariant that is about the files alone. *)
StoreInv == SerialsBelow /\ SerialsUnique /\ NeverBoth /\ CertIsForItsName

store == <<requests, signed, serial, crl, inventory>>

\* What goroutine t is about to sign or store is a verified CSR for its name.
LEMMA ThreadRequest ==
  ASSUME TypeOK, ThreadsOK, NEW t \in Threads,
         th[t].pc \in {"store", "policy", "stderr", "approved"}
  PROVE  /\ th[t].csr \in WellFormed
         /\ th[t].csr \in CSRs
         /\ th[t].name \in Names
         /\ CN[th[t].csr] = th[t].name
         /\ WithRequest(t) \in [Names -> CSRs \cup {None}]
         /\ WithRequest(t)[th[t].name] = th[t].csr
         /\ \A m \in Names \ {th[t].name} : WithRequest(t)[m] = requests[m]
<1>1. th[t].csr \in WellFormed /\ CN[th[t].csr] = th[t].name
  BY DEF ThreadsOK
<1>2. th[t].csr \in CSRs /\ th[t].name \in Names
  BY <1>1, ConstantsAssumption
<1> QED
  BY <1>1, <1>2 DEF WithRequest, TypeOK

----------------------------------------------------------------------------
(* What a step can do to the files, whichever request takes it. *)

\* A verified CSR is stored, next to nothing or over itself.
Stored(n, c) ==
    /\ c \in WellFormed /\ CN[c] = n
    /\ signed[n] = None
    /\ requests[n] \in {None, c}
    /\ requests' = [requests EXCEPT ![n] = c]
    /\ serial' \in {serial, serial + 1}
    /\ UNCHANGED <<signed, crl, inventory>>

\* A certificate is issued for c, which was pending or has just been submitted.
Issued(n, c, leaf) ==
    /\ c \in WellFormed /\ CN[c] = n
    /\ signed[n] = None
    /\ requests[n] \in {None, c}
    /\ leaf \in Cert /\ leaf.serial = serial /\ leaf.csr = c
    /\ serial' = serial + 1
    /\ signed' = [signed EXCEPT ![n] = leaf]
    /\ inventory' = inventory \cup {leaf}
    /\ requests' = [requests EXCEPT ![n] = None]
    /\ UNCHANGED crl

Revoked(n) == crl' = RevokeLocked(n) /\ UNCHANGED <<requests, signed, serial, inventory>>

Removed(n) ==
    /\ requests' = [requests EXCEPT ![n] = None]
    /\ signed' = [signed EXCEPT ![n] = None] \/ UNCHANGED signed
    /\ UNCHANGED <<serial, crl, inventory>>

Minted ==
    /\ serial' = serial + 1
    /\ server' \in Cert /\ server'.serial = serial
    /\ inventory' = inventory \cup {server'}
    /\ UNCHANGED <<requests, signed, crl>>

Effect ==
    \/ UNCHANGED store
    \/ \E n \in Names, c \in CSRs : Stored(n, c)
    \/ \E n \in Names, c \in CSRs, leaf \in Cert : Issued(n, c, leaf)
    \/ \E n \in Names : Revoked(n) \/ Removed(n)
    \/ Minted

\* signLocked issues a certificate, or leaves the request pending and burns a serial.
LEMMA SignLockedEffect ==
  ASSUME TypeOK, NEW n \in Names, NEW via \in Via, NEW c \in CSRs,
         NEW pending \in [Names -> CSRs \cup {None}],
         pending = [requests EXCEPT ![n] = c],
         c \in WellFormed, CN[c] = n,
         signed[n] = None, requests[n] \in {None, c},
         SignLocked(n, pending, via), UNCHANGED crl
  PROVE  Effect
<1> DEFINE leaf == [serial |-> serial, csr |-> c, via |-> via]
<1>1. leaf \in Cert /\ leaf.serial = serial /\ leaf.csr = c
  BY DEF TypeOK, Cert
<1>2. pending[n] = c /\ [pending EXCEPT ![n] = None] = [requests EXCEPT ![n] = None]
  BY DEF TypeOK
<1>3. CASE c \in Signable
  <2>1. /\ signed' = [signed EXCEPT ![n] = leaf]
        /\ inventory' = inventory \cup {leaf}
        /\ requests' = [pending EXCEPT ![n] = None]
        /\ serial' = serial + 1
    BY <1>2, <1>3 DEF SignLocked
  <2> HIDE DEF leaf
  <2>2. Issued(n, c, leaf)
    BY <1>1, <1>2, <2>1 DEF Issued
  <2> QED
    BY <1>1, <2>2 DEF Effect
<1>4. CASE c \notin Signable
  <2>1. Stored(n, c)
    BY <1>2, <1>4 DEF SignLocked, Stored
  <2> QED
    BY <2>1 DEF Effect
<1> QED
  BY <1>3, <1>4

\* Every step of the store, whichever request takes it, has one of these effects.
LEMMA StepEffect == TypeOK /\ ThreadsOK /\ StoreInv /\ [Next]_vars => Effect
<1> SUFFICES ASSUME TypeOK, ThreadsOK, StoreInv, [Next]_vars PROVE Effect
  OBVIOUS
<1>1. CASE \E t \in Threads, n \in Names, c \in CSRs : PutCSR(t, n, c)
  BY <1>1 DEF PutCSR, Effect, store
<1>2. CASE \E t \in Threads, n \in Names : DelStatusRevoke(t, n)
  BY <1>2 DEF DelStatusRevoke, Effect, Revoked
<1>3. CASE \E t \in Threads : Advance(t)
  <2> PICK t \in Threads : Advance(t)
    BY <1>3
  <2>1. CASE \/ RejectCSR(t) \/ PolicyLeavesChild(t) \/ PolicyApproves(t)
             \/ PolicyRefuses(t) \/ DropApproval(t)
    BY <2>1 DEF RejectCSR, PolicyLeavesChild, PolicyApproves, PolicyRefuses, DropApproval, Effect, store
  <2>2. CASE StoreCSR(t) \/ AskPolicy(t)
    <3>1. th[t].pc = "store"
      BY <2>2 DEF StoreCSR, AskPolicy
    <3>2. Stored(th[t].name, th[t].csr)
      BY <2>2, <3>1, ThreadRequest DEF StoreCSR, AskPolicy, Admissible, WithRequest, Stored
    <3> QED
      BY <3>1, <3>2, ThreadRequest DEF Effect
  <2>3. CASE AutosignCSR(t)
    <3>1. th[t].pc = "store" /\ Admissible(t)
      BY <2>3 DEF AutosignCSR
    <3>2. SignLocked(th[t].name, WithRequest(t), "auto") /\ UNCHANGED crl
      BY <2>3 DEF AutosignCSR
    <3>3. WithRequest(t) = [requests EXCEPT ![th[t].name] = th[t].csr]
      BY DEF WithRequest
    <3> QED
      BY <3>1, <3>2, <3>3, ThreadRequest, SignLockedEffect DEF Admissible, Via
  <2>4. CASE SignApproved(t)
    <3>1. th[t].pc = "approved" /\ StillPending(t)
      BY <2>4 DEF SignApproved
    <3>2. SignLocked(th[t].name, requests, "policy") /\ UNCHANGED crl
      BY <2>4 DEF SignApproved
    <3>3. requests = [requests EXCEPT ![th[t].name] = th[t].csr]
      BY <3>1 DEF StillPending, TypeOK
    <3>4. requests \in [Names -> CSRs \cup {None}]
      BY DEF TypeOK
    <3> QED
      BY <3>1, <3>2, <3>3, <3>4, ThreadRequest, SignLockedEffect DEF StillPending, Via
  <2>5. CASE DelStatusClean(t)
    BY <2>5 DEF DelStatusClean, CleanLocked, ThreadsOK, Effect, Removed
  <2> QED
    BY <2>1, <2>2, <2>3, <2>4, <2>5 DEF Advance, Section, PolicyReturns
<1>4. CASE \E n \in Names : Sign(n) \/ Revoke(n) \/ Clean(n) \/ DeleteCSR(n)
  <2> PICK n \in Names : Sign(n) \/ Revoke(n) \/ Clean(n) \/ DeleteCSR(n)
    BY <1>4
  <2>1. CASE Sign(n)
    <3>1. SignLocked(n, requests, "admin") /\ UNCHANGED crl
      BY <2>1 DEF Sign
    <3>2. requests[n] # None
      BY <3>1 DEF SignLocked
    <3>3. requests[n] \in WellFormed /\ CN[requests[n]] = n /\ signed[n] = None
      BY <3>2 DEF StoreInv, CertIsForItsName, NeverBoth
    <3>4. /\ requests \in [Names -> CSRs \cup {None}]
          /\ requests[n] \in CSRs
          /\ requests = [requests EXCEPT ![n] = requests[n]]
      BY <3>2 DEF TypeOK
    <3> QED
      BY <3>1, <3>3, <3>4, SignLockedEffect DEF Via
  <2>2. CASE Revoke(n)
    BY <2>2 DEF Revoke, Effect, Revoked
  <2>3. CASE Clean(n) \/ DeleteCSR(n)
    BY <2>3 DEF Clean, CleanLocked, DeleteCSR, Effect, Removed
  <2> QED
    BY <2>1, <2>2, <2>3
<1>5. CASE ServerTLSCert
  <2>1. server' \in Cert /\ server'.serial = serial
    BY <1>5 DEF ServerTLSCert, TypeOK, Cert, Via
  <2> QED
    BY <1>5, <2>1 DEF ServerTLSCert, Effect, Minted
<1>6. CASE (\E v \in BOOLEAN : SetAutosignAll(v)) \/ Restart \/ UNCHANGED vars
  BY <1>6 DEF SetAutosignAll, Restart, vars, Effect, store
<1> QED
  BY <1>1, <1>2, <1>3, <1>4, <1>5, <1>6 DEF Next

\* Every step keeps the files consistent: a serial handed out is above every
\* serial in use, and a request and a certificate of one name never meet.
LEMMA StoreStep == TypeOK /\ StoreInv /\ Effect => StoreInv'
<1> SUFFICES ASSUME TypeOK, StoreInv, Effect PROVE StoreInv'
  OBVIOUS
<1>0. /\ serial \in Nat /\ crl \subseteq Nat
      /\ \A c \in inventory : c.serial \in Nat /\ c.serial < serial
      /\ \A x \in crl : x < serial
  BY DEF TypeOK, Cert, StoreInv, SerialsBelow
<1>1. CASE UNCHANGED store
  BY <1>1 DEF store, StoreInv, SerialsBelow, SerialsUnique, NeverBoth, CertIsForItsName
<1>2. ASSUME NEW n \in Names, NEW c \in CSRs, Stored(n, c) PROVE StoreInv'
  <2>1. SerialsBelow'
    BY <1>0, <1>2 DEF Stored, SerialsBelow
  <2>2. NeverBoth' /\ CertIsForItsName'
    BY <1>2 DEF Stored, StoreInv, NeverBoth, CertIsForItsName, TypeOK
  <2> QED
    BY <1>2, <2>1, <2>2 DEF Stored, StoreInv, SerialsUnique
<1>3. ASSUME NEW n \in Names, NEW c \in CSRs, NEW leaf \in Cert, Issued(n, c, leaf)
      PROVE  StoreInv'
  <2>1. SerialsBelow'
    <3>1. \A d \in inventory' : d.serial < serial'
      BY <1>0, <1>3 DEF Issued
    <3>2. \A x \in crl' : x < serial'
      BY <1>0, <1>3 DEF Issued
    <3> QED
      BY <3>1, <3>2 DEF SerialsBelow
  <2>2. SerialsUnique'
    <3>1. \A d \in inventory : d.serial # leaf.serial
      BY <1>0, <1>3 DEF Issued
    <3> QED
      BY <1>3, <3>1 DEF Issued, StoreInv, SerialsUnique
  <2>3. NeverBoth'
    BY <1>3 DEF Issued, StoreInv, NeverBoth, TypeOK
  <2>4. CertIsForItsName'
    BY <1>3 DEF Issued, StoreInv, CertIsForItsName, TypeOK
  <2> QED
    BY <2>1, <2>2, <2>3, <2>4 DEF StoreInv
<1>4. ASSUME NEW n \in Names, Revoked(n) PROVE StoreInv'
  <2>1. SerialsBelow'
    BY <1>0, <1>4 DEF Revoked, RevokeLocked, StoreInv, SerialsBelow, CertIsForItsName
  <2> QED
    BY <1>4, <2>1 DEF Revoked, StoreInv, SerialsUnique, NeverBoth, CertIsForItsName
<1>5. ASSUME NEW n \in Names, Removed(n) PROVE StoreInv'
  BY <1>5 DEF Removed, StoreInv, SerialsBelow, SerialsUnique, NeverBoth, CertIsForItsName, TypeOK
<1>6. CASE Minted
  <2>1. SerialsBelow'
    <3>1. \A d \in inventory' : d.serial < serial'
      BY <1>0, <1>6 DEF Minted
    <3>2. \A x \in crl' : x < serial'
      BY <1>0, <1>6 DEF Minted
    <3> QED
      BY <3>1, <3>2 DEF SerialsBelow
  <2>2. SerialsUnique'
    <3>1. \A d \in inventory : d.serial # server'.serial
      BY <1>0, <1>6 DEF Minted
    <3> QED
      BY <1>6, <3>1 DEF Minted, StoreInv, SerialsUnique
  <2> QED
    BY <1>6, <2>1, <2>2 DEF Minted, StoreInv, NeverBoth, CertIsForItsName
<1> QED
  BY <1>1, <1>2, <1>3, <1>4, <1>5, <1>6 DEF Effect

----------------------------------------------------------------------------
(* Requests in flight, the policy and delStatus. *)

\* Serving one request keeps what every other one has established, and the facts
\* a request checked before it let go of the lock are the ones it signs on.
LEMMA ThreadsStep == IInv /\ Effect /\ [Next]_vars => ThreadsOK'
<1> SUFFICES ASSUME IInv, Effect, [Next]_vars PROVE ThreadsOK'
  OBVIOUS
<1> USE DEF IInv
<1>0. serial \in Nat /\ serial' \in Nat /\ serial <= serial'
  BY DEF TypeOK, Effect, store, Stored, Issued, Revoked, Removed, Minted
<1>a. th \in [Threads -> Thread] /\ \A u \in Threads : th[u] \in Thread
  BY DEF TypeOK
<1>b. \A u \in Threads : th[u].mark \in Nat
  BY <1>a DEF Thread
<1>1. ASSUME UNCHANGED th, approved \subseteq approved' PROVE ThreadsOK'
  BY <1>0, <1>b, <1>1 DEF ThreadsOK
<1>2. ASSUME NEW t \in Threads, Return(t), UNCHANGED approved PROVE ThreadsOK'
  BY <1>0, <1>a, <1>b, <1>2 DEF ThreadsOK, Return, Idle, Job
<1>3. CASE \E t \in Threads, n \in Names, c \in CSRs : PutCSR(t, n, c)
  BY <1>0, <1>a, <1>b, <1>3 DEF PutCSR, ThreadsOK, Job
<1>4. CASE \E t \in Threads, n \in Names : DelStatusRevoke(t, n)
  BY <1>0, <1>a, <1>b, <1>4 DEF DelStatusRevoke, ThreadsOK, Job
<1>5. CASE \E t \in Threads : Advance(t)
  <2> PICK t \in Threads : Advance(t)
    BY <1>5
  <2>1. CASE AskPolicy(t)
    BY <1>0, <1>a, <1>b, <2>1 DEF AskPolicy, ThreadsOK, Job
  <2>2. CASE PolicyApproves(t)
    BY <1>0, <1>a, <1>b, <2>2 DEF PolicyApproves, ThreadsOK, Job
  <2>3. CASE PolicyLeavesChild(t)
    BY <1>0, <1>a, <1>b, <2>3 DEF PolicyLeavesChild, ThreadsOK, Job
  <2> QED
    BY <1>2, <2>1, <2>2, <2>3
       DEF Advance, Section, PolicyReturns, RejectCSR, StoreCSR, AutosignCSR, PolicyRefuses,
           SignApproved, DropApproval, DelStatusClean
<1>6. CASE Restart
  BY <1>6 DEF Restart, ThreadsOK, Idle, Job
<1>7. CASE UNCHANGED vars
  BY <1>1, <1>7 DEF vars
<1> QED
  BY <1>1, <1>3, <1>4, <1>5, <1>6, <1>7
     DEF Next, Sign, Revoke, Clean, DeleteCSR, ServerTLSCert, SetAutosignAll

\* A certificate is issued without an operator only for a CSR the policy approved.
LEMMA PolicyStep == IInv /\ [Next]_vars => PolicyGoverns'
<1> SUFFICES ASSUME IInv, [Next]_vars, HasPolicy PROVE PolicyGoverns'
  BY DEF PolicyGoverns
<1> USE DEF IInv
<1>1. ASSUME approved \subseteq approved',
             \A d \in inventory' \ inventory :
                d.via \in {"auto", "policy"} => d.csr \in approved \cap Normal
      PROVE  PolicyGoverns'
  BY <1>1 DEF PolicyGoverns
<1>2. ASSUME NEW n, NEW pending, NEW via, SignLocked(n, pending, via)
      PROVE  \A d \in inventory' \ inventory : d.via = via /\ d.csr = pending[n]
  BY <1>2 DEF SignLocked
<1>3. CASE \E t \in Threads : Advance(t)
  <2> PICK t \in Threads : Advance(t)
    BY <1>3
  <2>1. CASE SignApproved(t)
    <3>1. \A d \in inventory' \ inventory : d.csr = th[t].csr
      BY <1>2, <2>1 DEF SignApproved, StillPending
    <3>2. th[t].csr \in approved \cap Normal
      BY <2>1 DEF SignApproved, ThreadsOK
    <3> QED
      BY <1>1, <2>1, <3>1, <3>2 DEF SignApproved
  <2> QED
    BY <1>1, <2>1
       DEF Advance, Section, PolicyReturns, RejectCSR, StoreCSR, AutosignCSR, AskPolicy,
           PolicyLeavesChild, PolicyApproves, PolicyRefuses, DropApproval, DelStatusClean
<1>4. CASE \E n \in Names : Sign(n)
  BY <1>1, <1>2, <1>4 DEF Sign
<1>5. CASE ServerTLSCert
  BY <1>1, <1>5 DEF ServerTLSCert
<1> QED
  BY <1>1, <1>3, <1>4, <1>5
     DEF Next, PutCSR, DelStatusRevoke, Revoke, Clean, DeleteCSR, SetAutosignAll, Restart, vars

\* Between the two sections of delStatus the certificate found by the first stays
\* revoked, and one that replaces it has a later serial.
LEMMA CleanedStep == IInv /\ Effect /\ [Next]_vars => CleanedCertsAreRevoked'
<1> SUFFICES ASSUME IInv, Effect, [Next]_vars,
                    NEW t \in Threads, th'[t].pc = "clean", signed'[th'[t].name] # None
             PROVE  signed'[th'[t].name].serial \in crl'
                       \/ signed'[th'[t].name].serial >= th'[t].mark
  BY DEF CleanedCertsAreRevoked
<1> USE DEF IInv
<1>0. th \in [Threads -> Thread] /\ th[t] \in Thread
  BY DEF TypeOK
<1>1. CASE \E n \in Names : DelStatusRevoke(t, n)
  BY <1>0, <1>1 DEF DelStatusRevoke, RevokeLocked, Job
<1>2. CASE ~ \E n \in Names : DelStatusRevoke(t, n)
  <2>1. th'[t] = th[t]
    BY <1>0, <1>2
       DEF Next, Advance, Section, PolicyReturns, PutCSR, DelStatusRevoke, RejectCSR,
         StoreCSR, AutosignCSR, AskPolicy, PolicyLeavesChild, PolicyApproves, PolicyRefuses, SignApproved, DropApproval, DelStatusClean,
         Sign, Revoke, Clean, DeleteCSR, ServerTLSCert, SetAutosignAll, Restart, vars,
         Return, Idle, Job
  <2>2. th[t].name \in Names /\ th[t].mark <= serial /\ th[t].mark \in Nat
    BY <1>0, <2>1 DEF ThreadsOK, Thread
  <2>3. CASE signed'[th[t].name] = signed[th[t].name]
    <3>1. crl \subseteq crl'
      BY DEF Effect, store, Stored, Issued, Revoked, RevokeLocked, Removed, Minted
    <3> QED
      BY <2>1, <2>3, <3>1 DEF CleanedCertsAreRevoked
  <2>4. CASE signed'[th[t].name] # signed[th[t].name]
    <3>1. \E n \in Names, c \in CSRs, leaf \in Cert :
             Issued(n, c, leaf) /\ signed'[th[t].name] = leaf
      BY <2>1, <2>2, <2>4 DEF Effect, store, Stored, Issued, Revoked, Removed, Minted, TypeOK
    <3> QED
      BY <2>1, <2>2, <3>1 DEF Issued, TypeOK
  <2> QED
    BY <2>3, <2>4
<1> QED
  BY <1>1, <1>2

----------------------------------------------------------------------------
\* The store a fresh castore.Init leaves satisfies the invariant.
LEMMA InitIInv == Init => IInv
<1> SUFFICES ASSUME Init PROVE IInv
  OBVIOUS
<1>1. Idle \in Thread /\ RootCert \in Cert
  BY DEF Idle, Job, Thread, PC, RootCert, Cert, Via
<1>2. TypeOK
  BY <1>1, ConstantsAssumption DEF Init, TypeOK
<1>3. SerialsBelow /\ SerialsUnique /\ PolicyGoverns
  BY DEF Init, RootCert, SerialsBelow, SerialsUnique, PolicyGoverns
<1>4. NeverBoth /\ CertIsForItsName
  BY DEF Init, NeverBoth, CertIsForItsName
<1>5. ThreadsOK /\ CleanedCertsAreRevoked
  BY DEF Init, ThreadsOK, CleanedCertsAreRevoked, Idle, Job
<1> QED
  BY <1>2, <1>3, <1>4, <1>5 DEF IInv

\* Every step of every request keeps the invariant, and has one of the effects.
LEMMA IInvStep == IInv /\ [Next]_vars => IInv' /\ Effect
<1> SUFFICES ASSUME IInv, [Next]_vars PROVE IInv' /\ Effect
  OBVIOUS
<1>1. TypeOK /\ ThreadsOK /\ StoreInv
  BY DEF IInv, StoreInv
<1>2. Effect
  BY <1>1, StepEffect
<1>3. StoreInv'
  BY <1>1, <1>2, StoreStep
<1> QED
  BY <1>1, <1>2, <1>3, TypeStep, ThreadsStep, PolicyStep, CleanedStep DEF IInv, StoreInv

\* The store's invariant, of which the next theorems name the parts.
THEOREM Invariant == Spec => []IInv
  BY InitIInv, IInvStep, PTL DEF Spec

\* The variables keep their types, whatever requests interleave.
THEOREM TypeCorrect == Spec => []TypeOK
<1>1. IInv => TypeOK
  BY DEF IInv
<1> QED
  BY <1>1, Invariant, PTL

\* No serial is ever issued twice.
THEOREM UniqueSerials == Spec => []SerialsUnique
<1>1. IInv => SerialsUnique
  BY DEF IInv
<1> QED
  BY <1>1, Invariant, PTL

\* No name has a request and a certificate at once.
THEOREM RequestOrCert == Spec => []NeverBoth
<1>1. IInv => NeverBoth
  BY DEF IInv
<1> QED
  BY <1>1, Invariant, PTL

\* Files are only ever about the name they are stored under.
THEOREM NamesKept == Spec => []CertIsForItsName
<1>1. IInv => CertIsForItsName
  BY DEF IInv
<1> QED
  BY <1>1, Invariant, PTL

\* The policy has the last word on every certificate issued without an operator.
THEOREM PolicyObeyed == Spec => []PolicyGoverns
<1>1. IInv => PolicyGoverns
  BY DEF IInv
<1> QED
  BY <1>1, Invariant, PTL

\* delStatus removes no certificate it found without having revoked it.
THEOREM CleanRevokes == Spec => []CleanedCertsAreRevoked
<1>1. IInv => CleanedCertsAreRevoked
  BY DEF IInv
<1> QED
  BY <1>1, Invariant, PTL

----------------------------------------------------------------------------
(* Action properties and the refinement, from the effects of a step. *)

\* A pending request stays until it is deleted or becomes the certificate of that
\* very CSR.
THEOREM RequestsKept == Spec => PendingRequestIsKept
<1>1. IInv /\ [Next]_vars => RequestStep
  <2> SUFFICES ASSUME IInv, [Next]_vars, NEW n \in Names, requests[n] # None
               PROVE  \/ requests'[n] = requests[n] /\ signed'[n] = signed[n]
                      \/ requests'[n] = None /\ (signed'[n] = None \/ signed'[n].csr = requests[n])
    BY DEF RequestStep
  <2>1. Effect /\ TypeOK /\ signed[n] = None
    BY IInvStep DEF IInv, NeverBoth
  <2> QED
    BY <2>1 DEF Effect, store, Stored, Issued, Revoked, Removed, Minted, TypeOK
<1> QED
  BY <1>1, Invariant, PTL DEF Spec, PendingRequestIsKept

\* The state reported for a name only moves along the lifecycle.
THEOREM LifecycleKept == Spec => StatusLifecycle
<1>1. IInv /\ [Next]_vars => StatusStep
  <2> SUFFICES ASSUME IInv, [Next]_vars, NEW n \in Names, Status(n)' # Status(n)
               PROVE  <<Status(n), Status(n)'>> \in Lifecycle
    BY DEF StatusStep
  <2>1. Effect /\ TypeOK /\ NeverBoth /\ SerialsBelow
    BY IInvStep DEF IInv
  <2>2. crl \subseteq crl'
    BY <2>1 DEF Effect, store, Stored, Issued, Revoked, RevokeLocked, Removed, Minted
  <2>3. CASE signed'[n] = signed[n] /\ signed[n] # None
    BY <2>2, <2>3 DEF Status, Lifecycle
  <2>4. CASE signed'[n] = None /\ signed[n] = None
    BY <2>4 DEF Status, Lifecycle
  <2>5. CASE signed'[n] = None /\ signed[n] # None
    <3>1. requests'[n] = None
      BY <2>1, <2>5 DEF Effect, store, Stored, Issued, Revoked, Removed, Minted, TypeOK
    <3> QED
      BY <2>5, <3>1 DEF Status, Lifecycle
  <2>6. CASE signed'[n] # None /\ signed'[n] # signed[n]
    <3>1. \E m \in Names, c \in CSRs, leaf \in Cert : Issued(m, c, leaf) /\ m = n
      BY <2>1, <2>6 DEF Effect, store, Stored, Issued, Revoked, Removed, Minted, TypeOK
    <3>2. signed[n] = None /\ signed'[n].serial = serial /\ crl' = crl
      BY <2>1, <3>1 DEF Issued, TypeOK
    <3>3. serial \notin crl
      BY <2>1 DEF SerialsBelow, TypeOK
    <3>4. Status(n)' = "signed"
      BY <2>6, <3>2, <3>3 DEF Status
    <3>5. Status(n) \in {"none", "requested"}
      BY <3>2 DEF Status
    <3> QED
      BY <3>4, <3>5 DEF Lifecycle
  <2> QED
    BY <2>3, <2>4, <2>5, <2>6
<1> QED
  BY <1>1, Invariant, PTL DEF Spec, StatusLifecycle

\* The store implements the certificate registry.
THEOREM Refinement == Spec => ImplementsRegistry
<1>1. Init => Registry!Init
  BY DEF Init, Registry!Init
<1>2. IInv /\ [Next]_vars => [Registry!Next]_(Registry!vars)
  <2> SUFFICES ASSUME IInv, [Next]_vars PROVE [Registry!Next]_(Registry!vars)
    OBVIOUS
  <2>0. Effect /\ TypeOK /\ SerialsBelow
    BY IInvStep DEF IInv
  <2>1. CASE UNCHANGED store \/ \E n \in Names, c \in CSRs : Stored(n, c)
    BY <2>1 DEF store, Stored, Registry!vars
  <2>2. ASSUME NEW n \in Names, NEW c \in CSRs, NEW leaf \in Cert, Issued(n, c, leaf)
        PROVE  Registry!Next
    <3>1. leaf \notin inventory /\ Registry!Fresh(leaf) /\ leaf.serial \notin crl
      BY <2>0, <2>2 DEF Issued, SerialsBelow, TypeOK, Cert, Registry!Fresh, SerialNumber
    <3>2. leaf \in inventory' \ inventory
      BY <2>2, <3>1 DEF Issued
    <3>3. Registry!Issue(n, leaf)
      BY <2>2, <3>1 DEF Issued, Registry!Issue, SerialNumber
    <3> QED
      BY <3>2, <3>3 DEF Registry!Next
  <2>3. ASSUME NEW n \in Names, Revoked(n) PROVE [Registry!Next]_(Registry!vars)
    BY <2>3 DEF Revoked, RevokeLocked, Registry!Next, Registry!Revoke, Registry!vars, SerialNumber
  <2>4. ASSUME NEW n \in Names, Removed(n) PROVE [Registry!Next]_(Registry!vars)
    <3>1. CASE signed' = signed
      BY <2>4, <3>1 DEF Removed, Registry!vars
    <3>2. CASE signed' # signed
      <4>1. Registry!Forget(n)
        BY <2>0, <2>4, <3>2 DEF Removed, Registry!Forget, TypeOK
      <4> QED
        BY <4>1 DEF Registry!Next
    <3> QED
      BY <3>1, <3>2
  <2>5. CASE Minted
    <3>1. server' \notin inventory /\ Registry!Fresh(server') /\ server'.serial \notin crl
      BY <2>0, <2>5 DEF Minted, SerialsBelow, TypeOK, Cert, Registry!Fresh, SerialNumber
    <3>2. server' \in inventory' \ inventory /\ Registry!IssueUnbound(server')
      BY <2>5, <3>1 DEF Minted, Registry!IssueUnbound, SerialNumber
    <3> QED
      BY <3>2 DEF Registry!Next
  <2> QED
    BY <2>0, <2>1, <2>2, <2>3, <2>4, <2>5 DEF Effect
<1> QED
  BY <1>1, <1>2, Invariant, PTL DEF Spec, ImplementsRegistry, Registry!Spec
============================================================================
