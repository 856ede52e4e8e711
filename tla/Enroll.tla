------------------------------ MODULE Enroll -------------------------------
(***************************************************************************)
(* One node enrolling: agent.Enroll run again and again against the CA, with *)
(* an ssldir (Disk) or without one.  Runs are cut short by crashes, failed   *)
(* reads and writes, timeouts and lost answers; a PUT that the agent has     *)
(* given up on may still reach the CA.                                       *)
(*                                                                         *)
(* A CSR is a function of the key it is made with (the configuration of the  *)
(* node does not change and RSA PKCS #1 signatures are deterministic), so a   *)
(* key stands for its CSR and for a certificate issued for it.  The CA is    *)
(* what CAStore says of one name, with an operator who signs; autosigning is *)
(* an operator who signs at once.  GetCert reads the certificate file        *)
(* without the lock, so it can read one that is being written.               *)
(***************************************************************************)
EXTENDS Naturals

CONSTANTS MaxKeys,    \* bound on the keys generated in a run
          MaxFaults,  \* bound on crashes, errors and timeouts
          MaxOps,     \* bound on certificates and requests the operator removes
          Missing,    \* the file does not exist
          Torn,       \* the file is there and empty
          None

Files == {"ca", "crl", "key", "pub", "csr", "cert"}

Contents == {Missing, Torn, "pem"} \cup Nat

ASSUME EnrollAssumption ==
    /\ MaxKeys \in Nat /\ MaxFaults \in Nat /\ MaxOps \in Nat
    /\ Missing # Torn /\ {Missing, Torn} \cap Nat = {}
    /\ None \notin [Files -> Contents] \cup {"different"}

VARIABLES
    ssl,     \* the ssldir: ssl[f] is Missing, Torn or the content of f; None without one
    pc,      \* where the agent is in enroller.run; "idle" between runs, "done" with an Identity
    key,     \* the private key it holds, or None
    got,     \* the body of a 200 answer to GET certificate
    wr,      \* the file write in progress: [file, val, then], or None
    outcome, \* how the last run ended
    flight,  \* the PUT certificate_request under way, or None
    reply,   \* the answer to it that the agent has not read yet, or None
    stale,   \* PUTs of abandoned runs that may still arrive
    pend,    \* CA: requests/<name>.pem
    cert,    \* CA: signed/<name>.pem; Torn while it is being written
    writing, \* CA: the certificate signLocked is writing, or None
    signedFor, \* history: the keys the CA has issued a certificate for
    keys, faults, ops,  \* how much of MaxKeys, MaxFaults and MaxOps is used
    rekeyed  \* history: a key file that was there and could not be read was replaced

agent == <<ssl, pc, key, got, wr, outcome>>
net == <<flight, reply, stale>>
ca == <<pend, cert, writing, signedFor>>
budget == <<keys, faults, ops, rekeyed>>
vars == <<agent, net, ca, budget>>

\* Config.Dir is set.
Disk == ssl # None

Whole(f) == Disk /\ ssl[f] \notin {Missing, Torn}

Init ==
    /\ ssl \in {None, [f \in Files |-> Missing]}
    /\ pc = "idle" /\ key = None /\ got = None /\ wr = None /\ outcome = "none"
    /\ flight = None /\ reply = None /\ stale = {}
    /\ pend = None /\ cert = None /\ writing = None /\ signedFor = {}
    /\ keys = 0 /\ faults = 0 /\ ops = 0 /\ rekeyed = FALSE

----------------------------------------------------------------------------
(* The agent. *)

\* The run ends with an error and its memory is gone.
Return(o) ==
    /\ pc' = "idle" /\ key' = None /\ got' = None /\ wr' = None
    /\ outcome' = o

\* A stat or a read of a file that is there fails, and the code goes on without the file.
Overlooks(failed) ==
    /\ failed => faults < MaxFaults
    /\ faults' = IF failed THEN faults + 1 ELSE faults

Goto(p) == pc' = p /\ UNCHANGED <<ssl, got, wr, outcome>>

\* os.WriteFile of v to f and on to p: first the truncation.  Ephemeral: just on to p.
WriteThen(f, v, p) ==
    IF Disk
    THEN /\ ssl' = [ssl EXCEPT ![f] = Torn]
         /\ wr' = [file |-> f, val |-> v, then |-> p]
         /\ pc' = "write"
         /\ UNCHANGED <<got, outcome>>
    ELSE Goto(p)

FinishWrite ==
    /\ pc = "write"
    /\ ssl' = [ssl EXCEPT ![wr.file] = wr.val]
    /\ pc' = wr.then
    /\ wr' = None
    /\ UNCHANGED <<key, got, outcome, net, ca, budget>>

\* loadFromDisk: a CA certificate, a certificate and a key are all there.
Provisioned == Whole("ca") /\ ssl["cert"] # Missing /\ ssl["key"] # Missing
\* Mutant: the stored certificate is not checked.
StoreValid_AnyCert == Whole("key")

StoreValid == Whole("key") /\ ssl["cert"] = ssl["key"]

LoadIdentity ==
    /\ pc = "idle"
    /\ Provisioned /\ StoreValid
    /\ key' = ssl["key"]
    /\ Goto("done")
    /\ UNCHANGED <<net, ca, budget>>

\* "A corrupt/mismatched store is an error, not a silent re-enroll."
RejectStore ==
    /\ pc = "idle"
    /\ Provisioned /\ ~ StoreValid
    /\ Return("corrupt")
    /\ UNCHANGED <<ssl, net, ca, budget>>

\* HasCert and HasKey take every error of the stat for a missing file.
BeginEnroll(failed) ==
    /\ pc = "idle"
    /\ Provisioned <=> failed
    /\ Overlooks(failed)
    /\ Goto("ca")
    /\ UNCHANGED <<key, net, ca, keys, ops, rekeyed>>

\* obtainCA: the stored certificate unless the file is missing or empty, or its read fails.
ObtainCA(failed) ==
    /\ pc = "ca"
    /\ failed => Whole("ca")
    /\ Overlooks(failed)
    /\ IF Whole("ca") /\ ~ failed THEN Goto("crl") ELSE WriteThen("ca", "pem", "crl")
    /\ UNCHANGED <<key, net, ca, keys, ops, rekeyed>>

FetchCRL ==
    /\ pc = "crl"
    /\ WriteThen("crl", "pem", "key")
    /\ UNCHANGED <<key, net, ca, budget>>

\* The CRL is best effort: no answer, or a write that fails after truncating.
SkipCRL ==
    /\ Disk /\ faults < MaxFaults
    /\ \/ pc = "crl" /\ UNCHANGED wr
       \/ pc = "write" /\ wr.file = "crl" /\ wr' = None
    /\ pc' = "key"
    /\ faults' = faults + 1
    /\ UNCHANGED <<ssl, key, got, outcome, net, ca, keys, ops, rekeyed>>

\* Mutant: whatever the key file holds is used.
LoadKey_AnyFile ==
    /\ pc = "key"
    /\ Disk /\ ssl["key"] # Missing
    /\ key' = ssl["key"]
    /\ Goto("get")
    /\ UNCHANGED <<net, ca, budget>>

\* LoadOrCreateKey, private key first; the public key only with a new one.
LoadKey ==
    /\ pc = "key"
    /\ Whole("key")
    /\ key' = ssl["key"]
    /\ Goto("get")
    /\ UNCHANGED <<net, ca, budget>>

\* A new key, stored before it is used.
GenerateKey ==
    /\ keys < MaxKeys
    /\ keys' = keys + 1
    /\ key' = keys'
    /\ WriteThen("key", key', "pub")
    /\ UNCHANGED <<net, ca, ops>>

\* Mutant: a run that is not provisioned starts from a new key.
CreateKey_Always(failed) ==
    /\ pc = "key"
    /\ Overlooks(failed)
    /\ rekeyed' = (rekeyed \/ failed)
    /\ GenerateKey

\* LoadOrCreateKey goes on to create one whatever error the read of the file gives.
CreateKey(failed) ==
    /\ pc = "key"
    /\ IF failed THEN Disk /\ ssl["key"] # Missing ELSE Disk => ssl["key"] = Missing
    /\ Overlooks(failed)
    /\ rekeyed' = (rekeyed \/ failed)
    /\ GenerateKey

WritePub ==
    /\ pc = "pub"
    /\ WriteThen("pub", key, "get")
    /\ UNCHANGED <<key, net, ca, budget>>

RejectKey ==
    /\ pc = "key"
    /\ Disk /\ ssl["key"] = Torn
    /\ Return("corrupt")
    /\ UNCHANGED <<ssl, net, ca, budget>>

\* Mutant: the CSR is always sent.
GetCert_AlwaysCSR ==
    /\ pc = "get"
    /\ Goto("csr")
    /\ UNCHANGED <<key, net, ca, budget>>

\* "Already signed?" -- then no CSR is sent.
GetCert ==
    /\ pc = "get"
    /\ IF cert # None
       THEN pc' = "adopt" /\ got' = cert
       ELSE pc' = "csr" /\ UNCHANGED got
    /\ UNCHANGED <<ssl, key, wr, outcome, net, ca, budget>>

\* No usable answer to that GET: the run goes on as if there was no certificate.
MissCert ==
    /\ pc = "get"
    /\ faults < MaxFaults
    /\ faults' = faults + 1
    /\ Goto("csr")
    /\ UNCHANGED <<key, net, ca, keys, ops, rekeyed>>

WriteCSR ==
    /\ pc = "csr"
    /\ WriteThen("csr", key, "put")
    /\ UNCHANGED <<key, net, ca, budget>>

PutCSR ==
    /\ pc = "put"
    /\ flight' = key /\ reply' = None
    /\ Goto("wait")
    /\ UNCHANGED <<key, stale, ca, budget>>

ReadReply ==
    /\ pc = "wait"
    /\ reply # None
    /\ reply' = None
    /\ IF reply = "ok" THEN Goto("poll") /\ UNCHANGED key ELSE Return(reply) /\ UNCHANGED ssl
    /\ UNCHANGED <<flight, stale, ca, budget>>

\* pollForCert: any 200 is the certificate; giving up is the end of WaitForCert.
PollForCert ==
    /\ pc = "poll"
    /\ cert # None
    /\ got' = cert
    /\ pc' = "adopt"
    /\ UNCHANGED <<ssl, key, wr, outcome, net, ca, budget>>

GiveUp ==
    /\ pc = "poll"
    /\ cert = None
    /\ Return("unsigned")
    /\ UNCHANGED <<ssl, net, ca, budget>>

\* adopt: the body decodes and is for the key at hand.
Adopt ==
    /\ pc = "adopt"
    /\ got = key
    /\ WriteThen("cert", got, "done")
    /\ UNCHANGED <<key, net, ca, budget>>

RejectCert ==
    /\ pc = "adopt"
    /\ got # key
    /\ Return(IF got = Torn THEN "garbled" ELSE "mismatch")
    /\ UNCHANGED <<ssl, net, ca, budget>>

\* A crash, a failed write, a lost answer, a timeout or a cancelled context ends the
\* run (or the process that holds the Identity); a PUT under way is abandoned.
Interrupt ==
    /\ pc # "idle"
    /\ faults < MaxFaults
    /\ faults' = faults + 1
    /\ Return("interrupted")
    /\ stale' = IF flight = None THEN stale ELSE stale \cup {flight}
    /\ flight' = None /\ reply' = None
    /\ UNCHANGED <<ssl, ca, keys, ops, rekeyed>>

----------------------------------------------------------------------------
(* The CA: submitCSR, signLocked, Clean and DeleteCSR for the one name. *)

\* The answer to a CSR and the pending request it leaves.  The stat of the certificate
\* file can fail, which submitCSR takes for "no certificate".
Answer(c, failed) == IF cert # None /\ ~ failed THEN "signed"
                     ELSE IF pend \notin {None, c} THEN "different" ELSE "ok"

Submit(c, failed) ==
    /\ writing = None
    /\ failed => cert # None
    /\ Overlooks(failed)
    /\ pend' = IF Answer(c, failed) = "ok" THEN c ELSE pend
    /\ UNCHANGED <<agent, cert, writing, signedFor, keys, ops, rekeyed>>

ServePut(failed) ==
    /\ flight # None
    /\ Submit(flight, failed)
    /\ reply' = Answer(flight, failed)
    /\ flight' = None
    /\ UNCHANGED stale

ServeStalePut(c, failed) ==
    /\ c \in stale
    /\ Submit(c, failed)
    /\ stale' = stale \ {c}
    /\ UNCHANGED <<flight, reply>>

LoseStalePut(c) ==
    /\ c \in stale
    /\ stale' = stale \ {c}
    /\ UNCHANGED <<agent, flight, reply, ca, budget>>

Sign ==
    /\ pend # None
    /\ writing = None
    /\ cert' = Torn
    /\ writing' = pend
    /\ UNCHANGED <<agent, net, pend, signedFor, budget>>

FinishSign ==
    /\ writing # None
    /\ cert' = writing
    /\ signedFor' = signedFor \cup {writing}
    /\ pend' = None
    /\ writing' = None
    /\ UNCHANGED <<agent, net, budget>>

\* Clean removes both files, DeleteCSR the request.
Remove ==
    /\ ops < MaxOps
    /\ writing = None
    /\ cert # None \/ pend # None
    /\ pend' = None
    /\ cert' \in {None, cert}
    /\ ops' = ops + 1
    /\ UNCHANGED <<agent, net, writing, signedFor, keys, faults, rekeyed>>

----------------------------------------------------------------------------
Run ==
    \/ LoadIdentity \/ RejectStore \/ BeginEnroll(FALSE) \/ ObtainCA(FALSE) \/ FetchCRL
    \/ LoadKey \/ CreateKey(FALSE) \/ WritePub \/ RejectKey
    \/ GetCert \/ WriteCSR \/ PutCSR \/ ReadReply
    \/ PollForCert \/ GiveUp \/ Adopt \/ RejectCert \/ FinishWrite

\* A file is overlooked.
Overlook == BeginEnroll(TRUE) \/ ObtainCA(TRUE) \/ CreateKey(TRUE) \/ ServePut(TRUE)

Next ==
    \/ Run
    \/ SkipCRL \/ MissCert \/ Interrupt \/ Overlook
    \/ ServePut(FALSE) \/ Sign \/ FinishSign \/ Remove
    \/ \E c \in stale : LoseStalePut(c) \/ \E failed \in BOOLEAN : ServeStalePut(c, failed)

Spec == Init /\ [][Next]_vars

\* The agent is run again when a run fails (facts-ca-cli under a supervisor), the
\* server answers, and the operator signs what stays pending.
FairSpec ==
    /\ Spec
    /\ WF_vars(Run) /\ WF_vars(ServePut(FALSE)) /\ WF_vars(Sign) /\ WF_vars(FinishSign)

----------------------------------------------------------------------------
(* Properties. *)

\* Every file holds its own kind of content, and the agent and the CA only handle
\* keys that were generated (LoadOrCreateKey decodes what it reads).
TypeOK ==
    /\ Disk => \A f \in Files : ssl[f] \in {Missing, Torn} \cup
                                (IF f \in {"ca", "crl"} THEN {"pem"} ELSE 1 .. keys)
    /\ pc \in {"idle", "ca", "crl", "key", "pub", "get", "csr", "put", "wait",
               "poll", "adopt", "write", "done"}
    /\ \A k \in {key, flight, pend, writing} : k = None \/ k \in 1 .. keys
    /\ got \in {None, Torn} \cup 1 .. keys
    /\ cert \in {None, Torn} \cup 1 .. keys
    /\ stale \subseteq 1 .. keys

\* An Identity always holds a certificate the CA issued for the very key it holds,
\* and with an ssldir the files hold that same pair, whatever runs were cut short.
IdentityIsUsable ==
    pc = "done" => /\ key \in signedFor
                   /\ Disk => ssl["key"] = key /\ ssl["cert"] = key

\* With an ssldir no run is refused because of what an earlier run of the same node
\* sent: neither "a different certificate request already exists" nor a certificate
\* for another key.  The one way into such a conflict is a read of the key file that
\* fails, upon which LoadOrCreateKey replaces the key.
NoSelfConflict == Disk /\ ~ rekeyed => outcome \notin {"different", "mismatch"}

\* The same of a node without an ssldir, which is to enroll afresh on each start.
FreshStartsWork == ~ Disk => outcome \notin {"different", "mismatch"}

\* The ssldir holds a file that no later run can use or replace.
Bricked == Disk /\ Torn \in {ssl["key"], ssl["cert"]}

\* Once faults stop, running again is enough: a node with an ssldir ends up with its
\* Identity after any lost answer, late PUT, crash or removal by the operator, unless
\* a crash cut the key or the certificate file short or a failed read replaced the key.
EventuallyEnrolled == Disk => []<>(pc = "done" \/ Bricked \/ rekeyed)
============================================================================
