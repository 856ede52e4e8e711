------------------------------ MODULE CAStore ------------------------------
(***************************************************************************)
(* The certificate authority of internal/castore and the HTTP handlers of   *)
(* ca/handler.go that drive it, seen by concurrent requests.                *)
(*                                                                         *)
(* Every section of the code that holds CA.mu is one atomic step.  What     *)
(* happens between two sections of the same request (validating the CSR,    *)
(* running the autosign policy executable, the gap between Revoke and Clean *)
(* in delStatus) is where other requests interleave, so a request in flight *)
(* is a thread with a program counter.  Requests that do all their work in  *)
(* one section (putStatus, delCSR, the ca.CA methods an embedding program    *)
(* calls) are single actions.  A path that returns without changing any     *)
(* state is a disabled action, unless it ends a thread.                     *)
(*                                                                         *)
(* File operations succeed here and a file is read or written as a whole;   *)
(* CADir opens the sections up, with crashes, failing writes and the reads   *)
(* and stats whose failure the code takes for a missing file.               *)
(***************************************************************************)
EXTENDS Naturals, FiniteSets

CONSTANTS Names,       \* the certnames ValidName accepts; any other is refused up front
          CSRs,        \* the request bodies clients can send
          CN,          \* CN[c]: the subject common name of c
          WellFormed,  \* the CSRs that decode and whose signature verifies
          Normal,      \* the CSRs buildPolicyInput can describe to the policy
          Signable,    \* the CSRs pki.SignCSR accepts (an RSA key)
          Threads,     \* the goroutines net/http runs handlers on
          HasPolicy,   \* an autosign policy executable is configured
          MaxSerial,   \* bound on the serial numbers of a run
          None

(* How a certificate came to be issued; a history label, not in the code. *)
Via == {"ca", "server", "admin", "auto", "policy"}

Cert == [serial : Nat, csr : CSRs \cup {None}, via : Via]

ASSUME ConstantsAssumption ==
    /\ CN \in [CSRs -> Names]
    /\ WellFormed \subseteq CSRs
    /\ Normal \subseteq CSRs
    /\ Signable \subseteq CSRs
    /\ HasPolicy \in BOOLEAN
    /\ MaxSerial \in Nat
    /\ None \notin Names
    /\ None \notin CSRs
    /\ None \notin Cert

VARIABLES autosignAll, \* CA.autosignAll
          requests,    \* requests/<name>.pem: the pending CSR or None
          signed,      \* signed/<name>.pem: the issued certificate or None
          serial,      \* the number in the serial file: the next one to hand out
          crl,         \* the serials listed in ca_crl.pem
          inventory,   \* inventory.txt: every certificate ever issued
          server,      \* server_crt.pem and server_key.pem
          th,          \* th[t]: the request goroutine t is serving
          approved     \* history: the CSRs the policy executable has approved

vars == <<autosignAll, requests, signed, serial, crl, inventory, server, th, approved>>

PC == {"idle", "store", "policy", "stderr", "approved", "clean"}

(* mark is a history field: the serial counter when delStatus revoked. *)
Thread == [pc : PC, name : Names \cup {None}, csr : CSRs \cup {None},
           auto : BOOLEAN, mark : Nat]

Job(pc, n, c, auto, mark) == [pc |-> pc, name |-> n, csr |-> c, auto |-> auto, mark |-> mark]

Idle == Job("idle", None, None, FALSE, 0)

\* Every file of the store and every request in flight holds what the code reads
\* back from it: a CSR under requests/, a certificate under signed/.
TypeOK ==
    /\ autosignAll \in BOOLEAN
    /\ requests \in [Names -> CSRs \cup {None}]
    /\ signed \in [Names -> Cert \cup {None}]
    /\ serial \in Nat
    /\ crl \subseteq Nat
    /\ inventory \subseteq Cert
    /\ server \in Cert \cup {None}
    /\ th \in [Threads -> Thread]
    /\ approved \subseteq CSRs

----------------------------------------------------------------------------
(* The store a successful castore.Init leaves, as Open finds it. *)

RootCert == [serial |-> 1, csr |-> None, via |-> "ca"]

\* validateOptions: a policy executable requires AutosignAll.
OptionsOK(auto) == HasPolicy => auto

Init ==
    /\ autosignAll \in BOOLEAN /\ OptionsOK(autosignAll)
    /\ requests = [n \in Names |-> None]
    /\ signed = [n \in Names |-> None]
    /\ serial = 2
    /\ crl = {}
    /\ inventory = {RootCert}
    /\ server = None
    /\ th = [t \in Threads |-> Idle]
    /\ approved = {}

\* The bound: a request is only admitted while every admitted one can still
\* burn a serial below MaxSerial, so no request blocks on the bound half-way.
Room == serial + Cardinality({t \in Threads : th[t].pc # "idle"}) < MaxSerial

Return(t) == th' = [th EXCEPT ![t] = Idle]

----------------------------------------------------------------------------
(* signLocked, with the pending requests as they stand in its section.  The *)
(* serial is taken before SignCSR runs, so a CSR it refuses burns a serial. *)

\* Mutant: the request outlives the certificate made from it.
SignLocked_KeepsRequest(n, pending, via) ==
    /\ pending[n] # None
    /\ serial' = serial + 1
    /\ requests' = pending
    /\ LET leaf == [serial |-> serial, csr |-> pending[n], via |-> via] IN
       /\ signed' = [signed EXCEPT ![n] = leaf]
       /\ inventory' = inventory \cup {leaf}

\* Mutant: the CSR is written where the certificate belongs.
SignLocked_WritesCSR(n, pending, via) ==
    /\ pending[n] # None
    /\ serial' = serial + 1
    /\ signed' = [signed EXCEPT ![n] = pending[n]]
    /\ requests' = [pending EXCEPT ![n] = None]
    /\ UNCHANGED inventory

SignLocked(n, pending, via) ==
    /\ pending[n] # None
    /\ serial' = serial + 1
    /\ LET leaf == [serial |-> serial, csr |-> pending[n], via |-> via] IN
       IF pending[n] \in Signable
       THEN /\ signed' = [signed EXCEPT ![n] = leaf]
            /\ inventory' = inventory \cup {leaf}
            /\ requests' = [pending EXCEPT ![n] = None]
       ELSE /\ requests' = pending
            /\ UNCHANGED <<signed, inventory>>

(* CSR intake: putCSR and submitCSR. *)

\* Mutant: the CSR's common name is not compared with the certname of the URL.
PutCSR_AnyCN(t, n, c) ==
    /\ th[t].pc = "idle"
    /\ Room
    /\ c \in WellFormed
    /\ autosignAll /\ HasPolicy => c \in Normal
    /\ th' = [th EXCEPT ![t] = Job("store", n, c, autosignAll, 0)]
    /\ UNCHANGED <<autosignAll, requests, signed, serial, crl, inventory, server, approved>>

\* The first section takes the autosign snapshot; then the CSR is validated and,
\* with a policy to ask, described.  Only a CSR that passes goes on.
PutCSR(t, n, c) ==
    /\ th[t].pc = "idle"
    /\ Room
    /\ c \in WellFormed
    /\ CN[c] = n
    /\ autosignAll /\ HasPolicy => c \in Normal
    /\ th' = [th EXCEPT ![t] = Job("store", n, c, autosignAll, 0)]
    /\ UNCHANGED <<autosignAll, requests, signed, serial, crl, inventory, server, approved>>

\* Mutant: a different pending CSR is overwritten.
Admissible_Replaces(t) == signed[th[t].name] = None

\* Mutant: an existing certificate is not looked for.
Admissible_IgnoresSigned(t) == requests[th[t].name] \in {None, th[t].csr}

\* The second section's checks: no certificate for the name, and no other CSR.
Admissible(t) ==
    /\ signed[th[t].name] = None
    /\ requests[th[t].name] \in {None, th[t].csr}

WithRequest(t) == [requests EXCEPT ![th[t].name] = th[t].csr]

RejectCSR(t) ==
    /\ th[t].pc = "store"
    /\ ~ Admissible(t)
    /\ Return(t)
    /\ UNCHANGED <<autosignAll, requests, signed, serial, crl, inventory, server, approved>>

\* Autosigning was off at the snapshot: the CSR waits for an operator.
StoreCSR(t) ==
    /\ th[t].pc = "store"
    /\ Admissible(t)
    /\ ~ th[t].auto
    /\ requests' = WithRequest(t)
    /\ Return(t)
    /\ UNCHANGED <<autosignAll, signed, serial, crl, inventory, server, approved>>

\* Blanket autosigning: stored and signed in one section.
AutosignCSR(t) ==
    /\ th[t].pc = "store"
    /\ Admissible(t)
    /\ th[t].auto
    /\ ~ HasPolicy
    /\ SignLocked(th[t].name, WithRequest(t), "auto")
    /\ Return(t)
    /\ UNCHANGED <<autosignAll, crl, server, approved>>

\* Stored, and the lock released while the policy executable runs.
AskPolicy(t) ==
    /\ th[t].pc = "store"
    /\ Admissible(t)
    /\ th[t].auto
    /\ HasPolicy
    /\ requests' = WithRequest(t)
    /\ th' = [th EXCEPT ![t] = Job("policy", th[t].name, th[t].csr, TRUE, 0)]
    /\ UNCHANGED <<autosignAll, signed, serial, crl, inventory, server, approved>>

\* runAutosignPolicy: the executable has exited, or was killed at its timeout, and
\* a child it started still holds its stderr.  cmd.Run (no WaitDelay) reads on.
PolicyLeavesChild(t) ==
    /\ th[t].pc = "policy"
    /\ th' = [th EXCEPT ![t] = Job("stderr", th[t].name, th[t].csr, TRUE, 0)]
    /\ UNCHANGED <<autosignAll, requests, signed, serial, crl, inventory, server, approved>>

\* cmd.Run returns within the timeout, and the executable exited 0.
PolicyApproves(t) ==
    /\ th[t].pc \in {"policy", "stderr"}
    /\ th' = [th EXCEPT ![t] = Job("approved", th[t].name, th[t].csr, TRUE, 0)]
    /\ approved' = approved \cup {th[t].csr}
    /\ UNCHANGED <<autosignAll, requests, signed, serial, crl, inventory, server>>

\* Exit status 1, a timeout or any other failure.
PolicyRefuses(t) ==
    /\ th[t].pc \in {"policy", "stderr"}
    /\ Return(t)
    /\ UNCHANGED <<autosignAll, requests, signed, serial, crl, inventory, server, approved>>

\* Mutant: any pending request is taken for the approved one.
StillPending_AnyRequest(t) ==
    /\ requests[th[t].name] # None
    /\ signed[th[t].name] = None

\* The third section: is what was approved still what is pending?
StillPending(t) ==
    /\ requests[th[t].name] = th[t].csr
    /\ signed[th[t].name] = None

SignApproved(t) ==
    /\ th[t].pc = "approved"
    /\ StillPending(t)
    /\ SignLocked(th[t].name, requests, "policy")
    /\ Return(t)
    /\ UNCHANGED <<autosignAll, crl, server, approved>>

\* Mutant: only a request that is gone ends the wait, not one that was replaced.
DropApproval_OnlyIfGone(t) ==
    /\ th[t].pc = "approved"
    /\ requests[th[t].name] = None
    /\ Return(t)
    /\ UNCHANGED <<autosignAll, requests, signed, serial, crl, inventory, server, approved>>

DropApproval(t) ==
    /\ th[t].pc = "approved"
    /\ ~ StillPending(t)
    /\ Return(t)
    /\ UNCHANGED <<autosignAll, requests, signed, serial, crl, inventory, server, approved>>

----------------------------------------------------------------------------
(* Administration: putStatus, delStatus, delCSR and the ca.CA methods. *)

Sign(n) ==
    /\ Room
    /\ SignLocked(n, requests, "admin")
    /\ UNCHANGED <<autosignAll, crl, server, th, approved>>

\* Mutant: the CRL is rebuilt from the new entry alone.
RevokeLocked_Overwrites(n) == IF signed[n] = None THEN crl ELSE {signed[n].serial}

\* CA.Revoke: what the CRL holds when its section ends.
RevokeLocked(n) == IF signed[n] = None THEN crl ELSE crl \cup {signed[n].serial}

Revoke(n) ==
    /\ crl' = RevokeLocked(n)
    /\ crl' # crl
    /\ UNCHANGED <<autosignAll, requests, signed, serial, inventory, server, th, approved>>

\* CA.Clean: both files go, and the CRL is left as it is.
CleanLocked(n) ==
    /\ signed' = [signed EXCEPT ![n] = None]
    /\ requests' = [requests EXCEPT ![n] = None]

Clean(n) ==
    /\ signed[n] # None \/ requests[n] # None
    /\ CleanLocked(n)
    /\ UNCHANGED <<autosignAll, serial, crl, inventory, server, th, approved>>

\* Mutant: the certificate is left for a later Revoke.
DelStatusRevoke_Skips(t, n) ==
    /\ th[t].pc = "idle"
    /\ Room
    /\ th' = [th EXCEPT ![t] = Job("clean", n, None, FALSE, serial)]
    /\ UNCHANGED <<autosignAll, requests, signed, serial, crl, inventory, server, approved>>

\* delStatus revokes in one section, whatever comes of it ...
DelStatusRevoke(t, n) ==
    /\ th[t].pc = "idle"
    /\ Room
    /\ crl' = RevokeLocked(n)
    /\ th' = [th EXCEPT ![t] = Job("clean", n, None, FALSE, serial)]
    /\ UNCHANGED <<autosignAll, requests, signed, serial, inventory, server, approved>>

\* ... and cleans in the next.
DelStatusClean(t) ==
    /\ th[t].pc = "clean"
    /\ CleanLocked(th[t].name)
    /\ Return(t)
    /\ UNCHANGED <<autosignAll, serial, crl, inventory, server, approved>>

DeleteCSR(n) ==
    /\ requests[n] # None
    /\ requests' = [requests EXCEPT ![n] = None]
    /\ UNCHANGED <<autosignAll, signed, serial, crl, inventory, server, th, approved>>

\* Mutant: the leaf takes the current serial without advancing the file.
ServerTLSCert_SameSerial ==
    /\ Room
    /\ server = None
    /\ server' = [serial |-> serial, csr |-> None, via |-> "server"]
    /\ inventory' = inventory \cup {server'}
    /\ UNCHANGED <<autosignAll, requests, signed, serial, crl, th, approved>>

\* Minted once; later calls load the pair they find.
ServerTLSCert ==
    /\ Room
    /\ server = None
    /\ serial' = serial + 1
    /\ server' = [serial |-> serial, csr |-> None, via |-> "server"]
    /\ inventory' = inventory \cup {server'}
    /\ UNCHANGED <<autosignAll, requests, signed, crl, th, approved>>

SetAutosignAll(v) ==
    /\ autosignAll' = v
    /\ v # autosignAll
    /\ UNCHANGED <<requests, signed, serial, crl, inventory, server, th, approved>>

\* The process ends between sections and another one Opens the cadir.
Restart ==
    /\ th' = [t \in Threads |-> Idle]
    /\ autosignAll' \in BOOLEAN /\ OptionsOK(autosignAll')
    /\ UNCHANGED <<requests, signed, serial, crl, inventory, server, approved>>

----------------------------------------------------------------------------
\* What goroutine t does next on its own, without a new request arriving: its next
\* section under the lock, or the end of the policy executable.
Section(t) ==
    \/ RejectCSR(t) \/ StoreCSR(t) \/ AutosignCSR(t) \/ AskPolicy(t)
    \/ SignApproved(t) \/ DropApproval(t)
    \/ DelStatusClean(t)

PolicyReturns(t) == PolicyApproves(t) \/ PolicyRefuses(t)

Advance(t) == Section(t) \/ PolicyReturns(t) \/ PolicyLeavesChild(t)

Next ==
    \/ \E t \in Threads, n \in Names, c \in CSRs : PutCSR(t, n, c)
    \/ \E t \in Threads, n \in Names : DelStatusRevoke(t, n)
    \/ \E t \in Threads : Advance(t)
    \/ \E n \in Names : Sign(n) \/ Revoke(n) \/ Clean(n) \/ DeleteCSR(n)
    \/ ServerTLSCert
    \/ \E v \in BOOLEAN : SetAutosignAll(v)
    \/ Restart

Spec == Init /\ [][Next]_vars

\* CA.mu is handed out fairly, so a goroutine gets to its next section, and the
\* policy executable exits or is killed at its timeout.
PolicyEnds(t) == th[t].pc = "policy" /\ (PolicyReturns(t) \/ PolicyLeavesChild(t))

FairServer ==
    Spec /\ \A t \in Threads : WF_vars(Section(t)) /\ WF_vars(PolicyEnds(t))

\* And whatever the executable started lets go of stderr in the end.
FairSpec == FairServer /\ \A t \in Threads : WF_vars(PolicyReturns(t))
----------------------------------------------------------------------------
(* Properties. *)

\* No two certificates the CA ever issued, its own and the server's included,
\* carry the same serial, whatever order requests interleave in: nextSerialLocked
\* hands each number out once.
SerialsUnique == \A c, d \in inventory : c.serial = d.serial => c = d

\* No name has a pending request and a certificate at once, so a certificate is
\* never overwritten by signing (signLocked itself does not look for one).
NeverBoth == \A n \in Names : requests[n] = None \/ signed[n] = None

\* With a policy configured, a certificate issued without an operator is for a CSR
\* the policy executable saw and approved: not for one that took the place of the
\* approved CSR while the executable ran with the lock released.
PolicyGoverns ==
    HasPolicy => \A c \in inventory :
        c.via \in {"auto", "policy"} => c.csr \in approved \cap Normal

\* What is stored under a name was requested for that name by a verified CSR, and
\* is one of the certificates in the inventory.
CertIsForItsName ==
    \A n \in Names :
        /\ requests[n] # None => requests[n] \in WellFormed /\ CN[requests[n]] = n
        /\ signed[n] # None => /\ signed[n] \in inventory
                               /\ signed[n].csr \in WellFormed
                               /\ CN[signed[n].csr] = n

\* When delStatus comes to remove a certificate, it is on the CRL unless it was
\* issued after delStatus revoked (the two sections of delStatus do not exclude a
\* signature in between).
CleanedCertsAreRevoked ==
    \A t \in Threads :
        LET c == signed[th[t].name] IN
        th[t].pc = "clean" /\ c # None => c.serial \in crl \/ c.serial >= th[t].mark

\* The state the certificate_status API reports for a name.
Status(n) ==
    IF signed[n] # None
    THEN IF signed[n].serial \in crl THEN "revoked" ELSE "signed"
    ELSE IF requests[n] # None THEN "requested" ELSE "none"

Lifecycle == {<<"none", "requested">>, <<"none", "signed">>,
              <<"requested", "signed">>, <<"requested", "none">>,
              <<"signed", "revoked">>, <<"signed", "none">>, <<"revoked", "none">>}

StatusStep ==
    \A n \in Names : Status(n)' # Status(n) => <<Status(n), Status(n)'>> \in Lifecycle

\* A certificate's reported state only moves along the lifecycle: a revoked one is
\* never reported signed again, whatever else is revoked or signed, and a new one
\* is never born revoked.
StatusLifecycle == [][StatusStep]_vars

RequestStep ==
    \A n \in Names : requests[n] # None =>
        \/ requests'[n] = requests[n] /\ signed'[n] = signed[n]
        \/ requests'[n] = None /\ (signed'[n] = None \/ signed'[n].csr = requests[n])

\* "We never silently replace an operator-reviewed request": a pending CSR stays
\* until it is removed, and it is either deleted or becomes the certificate of
\* that very CSR.
PendingRequestIsKept == [][RequestStep]_vars

SerialNumber(c) == c.serial

Registry == INSTANCE CertRegistry WITH
    SerialOf <- SerialNumber, certs <- inventory, current <- signed, revoked <- crl

\* The store with its requests, threads and policy implements the registry: fresh
\* serials, one certificate per name at a time, revocation for good.
ImplementsRegistry == Registry!Spec

\* Every request in flight ends: neither the policy executable nor another request
\* that changes what it works on can leave it stuck.
EveryRequestReturns == \A t \in Threads : th[t].pc # "idle" ~> th[t].pc = "idle"

----------------------------------------------------------------------------
(* The inductive invariant of the proofs in CAStoreProofs. *)

\* Every serial in use is below the counter, so the next one is fresh.
SerialsBelow ==
    /\ \A c \in inventory : c.serial < serial
    /\ \A s \in crl : s < serial

\* What a request in flight has already established about its arguments.
ThreadsOK ==
    \A t \in Threads :
        /\ th[t].pc \in {"store", "policy", "stderr", "approved"} =>
              th[t].csr \in WellFormed /\ CN[th[t].csr] = th[t].name
        /\ HasPolicy /\ th[t].auto => th[t].csr \in Normal
        /\ th[t].pc \in {"policy", "stderr", "approved"} => HasPolicy /\ th[t].auto
        /\ th[t].pc = "approved" => th[t].csr \in approved
        /\ th[t].pc = "clean" => th[t].name \in Names /\ th[t].mark <= serial

IInv ==
    /\ TypeOK
    /\ SerialsBelow
    /\ SerialsUnique
    /\ NeverBoth
    /\ CertIsForItsName
    /\ ThreadsOK
    /\ PolicyGoverns
    /\ CleanedCertsAreRevoked
============================================================================
