# TLA+ verification of facts-ca

facts-ca is a Puppet-compatible certificate authority in Go (a library, a
server, `facts-ca-server`) and the agent side that enrolls with one (a library,
`facts-ca-cli`). This directory holds TLA+ models of its stateful parts, TLC
runs that check them on small instances, and proofs, checked by TLAPS, that the
safety properties hold for every number of names, requests, goroutines, keys, CAs,
failures and crashes.

    tlc -workers 2 -config store_policy.cfg MCCAStore      # a run
    tlapm CAStoreProofs.tla                                # the proofs

## 1. The system

| Part | State it keeps | Operations | Talks to |
|---|---|---|---|
| CA store, `internal/castore/castore.go` | the *cadir*: `ca_crt.pem`, `ca_key.pem`, `ca_pub.pem`, `serial`, `inventory.txt`, `ca_crl.pem`, `server_crt.pem`, `server_key.pem`, `requests/<name>.pem`, `signed/<name>.pem`; in memory `autosignAll` and the mutex `mu` | Init, Open, SubmitCSR, Sign, Revoke, Clean, DeleteCSR, ServerTLSCert, SetAutosignAll; readers GetCert, GetCSR, CRL (no lock), Status, Statuses | the file system, the policy executable |
| Autosign policy, `internal/castore/policy.go` | none | runs an executable with a JSON view of the CSR, under a timeout and *without* the store lock | called by SubmitCSR |
| HTTP API and facade, `ca/` | none of its own | PUT/GET/DELETE certificate_request, GET certificate, GET CRL, PUT/GET/DELETE certificate_status, GET statuses | one goroutine per request, all on one store |
| Agent, `agent/agent.go` | none between runs but the ssldir | Enroll: load, obtain the CA, fetch the CRL, key, GET certificate, PUT request, poll, adopt | the HTTP API, over a network |
| ssldir, `internal/ssldir` | the agent's CA, CRL, key, public key, CSR and certificate files | LoadOrCreateKey, Write* | the agent |
| Identity, `agent/identity.go` | one certificate and key | TLS configurations | the embedding program |
| pki, ppext, capi | none | pure: create, sign, encode, decode, compare | everything above |
| Commands, `cmd/` | none | parse flags, call the above; `facts-ca-server sign/revoke/clean/list` open the cadir in a second process | |

What is hard about it, and where the properties come from:

* **Requests interleave.** SubmitCSR takes the lock three times: for a snapshot
  of the autosign setting, to store the CSR, and, after the policy executable ran
  with the lock released, to sign. In between the CSR can be deleted, signed,
  cleaned or replaced. `delStatus` revokes in one section and cleans in another.
  `signLocked` itself never looks whether a certificate is there already.
* **A section is several file operations.** Each `os.WriteFile` truncates
  first. A crash or a full disk can stop a section anywhere, there is no temporary
  file or rename, and the readers without a lock see the middle.
* **A read or stat that fails is often taken for a missing file.** In seven places the code
  goes on without the file, whatever the error was: castore.go:100 and :227 (stat),
  :559 and :623 (read), ssldir.go:51 and :59, agent.go:256. The models have each of these
  failures, and the properties name them where they matter.
* **The lock is one process's.** `facts-ca-server revoke`, `clean` and `sign` open the
  cadir beside a running server, each process with a mutex of its own.
* **Everything derives from two counters on disk**, the serial file and the CRL,
  both rewritten whole from what was read back.
* **Enrollment is retried** across lost answers, late requests, crashes of the
  node and an operator who signs or removes at any moment.
* **Trust is decided once and used for long.** Pins, a fingerprint, first use and what
  an earlier run stored meet in `obtainCA` and `loadFromDisk`; in the meantime
  certificates expire, the server is started with other names, and the CA may have been
  built anew.

`PROJECT.json` lists the components with what is left out of each, the hazards
at their lines with the properties aimed at them, and the line map from
definitions to code.

## 2. The modules

    CertRegistry   abstract: what the CA promises
        ^  implemented by (proved)
    CAStore        locked sections as atomic steps, requests in flight as threads
        .  each section opened up
    CADir          the same store file step by file step, with failing file operations,
                   crashes and a second process
    Enroll         one node's enrollment runs against what CAStore says of its name
    Trust          which CA those runs trust, and for how long anything is valid
    Issuing        what goes into a CSR, a policy's view and a certificate

    CAStoreProofs, CADirProofs, EnrollProofs, TrustProofs, IssuingProofs
                   theorems about each of them, with their inductive invariants
    MCCAStore, MCCADir, MCTrust, MCIssuing  instances for TLC

### CertRegistry

Certificates issued, the certificate bound to each name, and the revoked serials.
Issue binds a certificate with a fresh serial to a name that has none; IssueUnbound
is the server's own leaf; Revoke is for good; Forget ends a binding. No requests,
no threads, no policy.

### CAStore

| Variable | Code |
|---|---|
| `requests`, `signed` | the files of `requests/` and `signed/`; `None` when absent |
| `serial`, `crl`, `inventory` | the serial file (next number), the serials in `ca_crl.pem`, the lines of `inventory.txt` |
| `server` | `server_crt.pem` with `server_key.pem` |
| `autosignAll` | the field of `CA` |
| `th[t]` | a goroutine serving a PUT certificate_request or a DELETE certificate_status: where it is, its name and CSR, the autosign snapshot |
| `approved`, the fields `via` and `mark` | history, for the properties only |

A CSR is a model value with the facts the code asks of it: its common name,
whether it decodes and verifies (`WellFormed`), whether `buildPolicyInput` can
describe it (`Normal`), whether `pki.SignCSR` accepts its key (`Signable`; it is
asked after the serial is taken, so a refused CSR burns one).

| Action | Code |
|---|---|
| PutCSR | `putCSR`, first section of `submitCSR` and the validation after it |
| RejectCSR, StoreCSR, AutosignCSR, AskPolicy | the second section, by its outcomes |
| PolicyLeavesChild, PolicyApproves, PolicyRefuses | `runAutosignPolicy` |
| SignApproved, DropApproval | the third section |
| Sign, Revoke, Clean, DeleteCSR | `putStatus`, `delCSR`, the methods of `ca.CA` |
| DelStatusRevoke, DelStatusClean | the two sections of `delStatus` |
| ServerTLSCert, SetAutosignAll | the methods of that name |
| Restart | the process ends between sections and `Open`s the cadir again with any valid options |

A call that returns without changing anything is a disabled action. Names that
`ValidName` refuses are refused before any state is touched and do not appear.

### CADir

`disk` maps every file of the cadir to its content, `Missing` or `Torn` (there, but
truncated: it does not decode). A certificate stands for its serial, a key for
the serial of the certificate made with it. CSRs here are verified and signable, and
the checks CAStore is about (the policy, the common name) are left there. Nothing reads the
lines of `inventory.txt` back, so it is a file without content. The history variables record
which serials were issued and revoked, and the failures the properties make an exception
for: `crlHurt`, `cut` (names with a signing cut between its two files, or a certificate
`submitCSR` failed to see) and `split` (minting over a pair that could not be read, ended
between its two files).

Two processes work on it: the server, and an administrator's command. Each has a
`CA.mu` of its own, so each has at most one section open; `todo[p]` is the list of
file steps that section still has to perform, and nothing orders the two lists.

| Action | Code |
|---|---|
| Open, InitCA | `serveMain`: Open, and Init when Open says there is no CA and Init's stat of `ca_crt.pem` finds none (or fails) |
| SubmitCSR, Sign, Revoke, Clean, DeleteCSR, ServerTLSCert | the server takes its lock for that operation |
| AdminSign, AdminRevoke, AdminClean | `adminMain`: Open, then the same sections |
| ReadToSign, ReadToRevoke | `signLocked` reads the request and the serial, `Revoke` reads the CRL back; what was read decides the steps that follow |
| Step | the next file operation: a truncation, the write that fills the file, an append, a removal |
| Fail | a write, an append, a removal or the reads of `signLocked` fail: best-effort steps are skipped, another ends the section (`clean` goes on to its second part) |
| Crash | the process ends |

A read or stat that fails with an error the code returns changes nothing and is not a step of
its own. Where the code goes on without the file, the failure is the parameter `ok = FALSE` of
the action: InitCA, SubmitCSR, ServerTLSCert, AdminClean, ReadToRevoke.

The reads before a write are steps of their own because the other process may write in
between. A write to a file that was removed after it was opened is lost; of two
processes that rewrite the CRL at once, the last one wins. AdminSign needs the
server stopped: README.md:177 says so, because the serial file is not locked across
processes; `server` is then `"offline"` until the command ends. AdminRevoke and
AdminClean have no such restriction in the docs and run at any time.

### Enroll

One node and the CA's files for its name. A run goes through the steps of
`enroller.run`; with an ssldir every file write has a moment where the file is
truncated. A run ends by returning an error, or by Interrupt, which stands for a
crash, a failed write, a lost answer, a timeout or a cancelled context; the next run
starts from what is on disk. A stat or read of a file that is there may fail where the code
then goes on as if it was missing (`Overlooks`): HasCert and HasKey send a provisioned node
enrolling, `obtainCA` fetches the CA again, LoadOrCreateKey replaces the key (the history
variable `rekeyed`), and `submitCSR` admits a CSR for a name with a certificate. Each such
failure is one of the bounded faults. Without an ssldir `ssl` is `None`, nothing is written
and each run generates a key. A PUT that was under way when the run ended may still
arrive, in any later state, or get lost. A CSR is determined by its key (the
extensions are sorted, PKCS #1 signatures are deterministic, and the node's
configuration does not change), so a key stands for its CSR and its certificate.
The certificate file is readable while `signLocked` writes it. An empty file is
the only kind of torn file here: a short write that leaves a prefix is not
modelled.

### Trust

One node with an ssldir, one CA server, an operator and a clock. A CA stands for its
certificate, its key and its fingerprint; `cas` lists the CAs built one after the other
with their ends, and the last one is in the cadir.

| Variable | Code |
|---|---|
| `now` | the clock of `x509.Certificate.Verify` and of `SignCSR` |
| `leaf`, `up` | `server_crt.pem` with its key; the host names the running server was started with |
| `pend`, `crt` | the node's request and certificate at the CA |
| `ssl` | `ca.pem`, the private key and the certificate of the ssldir |
| `run` | the run of `enroller.run`: its step, its Config, the CA it trusts, its connection, the certificate; at `"done"`, an Identity |
| `declared` | history: the CAs some run pinned, or fetched with leave to |
| `unseen` | history: which of the three files was whole and yet passed over by a run, because its read or stat failed |

| Action | Code |
|---|---|
| Start, Stop | `ListenAndServe` with one of the sets of host names in `NameSets`, where `ServerTLSCert` loads the stored pair or, if there is none or it cannot be read, mints one |
| Rebuild | the operator removes the cadir and Init builds a new CA |
| Sign, Clean | with a lifetime asked for or by default, clamped as in `SignCSR` |
| LoadIdentity, RejectStore, BeginEnroll | `Enroll` and its fast path `loadFromDisk` |
| Bootstrap, Load | `facts-ca-cli bootstrap`; `agent.Load`, for `mtls` and `ca` |
| StoredCA, PinnedCA, FetchCA | the cases of `obtainCA`; the last two also beside a whole `ca.pem` whose read failed (`Without`) |
| FetchCRL, LoadKey, CreateKey, Adopt, MissCert, PutCSR, FinishWrite | the rest of the run |
| Interrupt | an error, a cancelled context, the end of the process |

The configuration of a run is any combination of a pinned CA, a fingerprint and
`TrustOnFirstUse`, for any host name, and may change from run to run. A pinned CA is a
single certificate. A handshake needs the server's leaf to chain to the trusted CA, to
be valid now and to carry the host name; a connection is kept for the requests that
follow, so these may succeed after the leaf has expired. The CRL and CSR files, keys,
lost answers and conflicts are Enroll's and do not appear. Certificates are not told apart by
key, so once a key was passed over and replaced, a stored certificate may be found to match
it or not.

### Issuing

The pure functions between a configuration and a certificate, put one after the other:
`collectExtensions`, `BuildExtensions` and `CreateCSR` at the agent, `buildPolicyInput`, `AllowedFromCSR`
and `SignCSR` at the CA, `ServerTLSCert` for the server's own leaf. A behaviour is
one request; Init is any agent configuration, or any CSR another client may send (names
with blanks, addresses given as DNS names, values that are not strings, critical
extensions). The texts are model values with what the code asks of them (`Trim`,
`IPText`), the extension keys and OIDs likewise (`OidOf` is `ResolveOID`; `NameFor`; the
two arcs). The subjectAltName extension itself is the `dns` and `ips` of a request. A value is
a string of bytes; `Json[v]` is what a reader of `json.Marshal` gets of it, the same value if it is
UTF-8 and one with U+FFFD in place of the other bytes if not. The certificate gets the
bytes, the executable the JSON.

## 3. What the runs check

| Run | Specification, bounds | Checks |
|---|---|---|
| `store_policy` | FairSpec; 2 names, two CSRs for alpha of which one cannot be described to the policy, one for beta with a key SignCSR refuses, a body that does not decode; 2 goroutines; serials up to 5 | TypeOK, NeverBoth, PolicyGoverns, CertIsForItsName, CleanedCertsAreRevoked, PendingRequestIsKept, EveryRequestReturns |
| `store_blanket` | Spec; no policy, autosigning on or off; 2 names, 3 CSRs, 2 goroutines; serials up to 6 | SerialsUnique, StatusLifecycle, ImplementsRegistry |
| `dir_crash` | Spec; server and administrator, 2 names (interchangeable: symmetry), one CSR each, serials up to 4 | TypeOK, SerialNeverReused, ServerPairMatches, RevocationsKept, RequestOrCertUnlessCut |
| `enroll` | FairSpec; with and without an ssldir; 3 keys, 4 faults, 2 removals by the operator | TypeOK, IdentityIsUsable, NoSelfConflict, EventuallyEnrolled |
| `trust` | Spec; 2 host names, of which the server has one, 2 CAs that live 2 ticks, leaves that live 1, clock up to 3 | TypeOK, TrustIsDeclared, StoreConsistent, LeafWithinIssuer, IdentityWorks, FirstUseIsForGood, NoSilentReenroll |
| `issuing` | Spec; 5 texts (certname, a name with and without blanks, an address, a blank text), 3 OIDs (registered, authorization, foreign) with 5 keys, 2 values that are the same in JSON; at most one `--ext` flag | TypeOK, PolicySawWhatIsIssued, OperatorSawWhatIsIssued, FactsArrive, SANsAreGranted, ServerLeafCoversHosts |

What they show:

* **PolicyGoverns**: with a policy configured, whatever is signed without an operator
  was approved by the executable in that very form. The re-check of the third
  section is what carries it: without the byte comparison, a CSR that replaced the
  approved one would be signed.
* **NeverBoth**: no name has a request and a certificate, which is why `signLocked`
  need not look before it writes `signed/<name>.pem`. It is a fact about all the
  callers together, and it holds only between sections; RequestOrCertUnlessCut
  says what is left of it file by file.
* **CleanedCertsAreRevoked**: when `delStatus` removes a certificate, it is on the
  CRL unless it was issued after the revoking section. The exception is real:
  a CSR resubmitted and signed between the two sections is removed unrevoked.
* **PendingRequestIsKept, CertIsForItsName**: a pending CSR is only deleted or
  turned into the certificate of that CSR, under the name it asks for.
* **StatusLifecycle, SerialsUnique, ImplementsRegistry**: the reported state only
  moves forward, serials are handed out once, and the store implements CertRegistry.
* **EveryRequestReturns**: no request waits for ever, given the fairness below.
* **SerialNeverReused**: with writes and removals that fail or are cut at any step, and with
  every failed read the code goes on from, no serial is used twice, because the serial file
  advances first. An administrator who revokes and cleans beside the server does not change
  this, and one who signs offline does not either.
* **ServerPairMatches**: the server's certificate and key belong together, also after a crash
  between the two, with one exception: when a read of a pair that is there fails,
  ServerTLSCert mints over it, and if it is stopped between the two files the new
  certificate stays beside the old key until the next failed read or a repair by hand.
* **RevocationsKept**: a revocation can be lost only if a write of the CRL was cut
  short, the CRL could not be read back, or the two processes rewrote it at once.
* **RequestOrCertUnlessCut**: a name has a certificate file and a request at once only
  while it is being signed, after a signing was cut short between the two files, or when the
  stat of the certificate failed as the request came. In the last two cases a later Sign
  replaces the certificate, and the first one can no longer be revoked by name.
* **TrustIsDeclared, FirstUseIsForGood**: on any sequence of differently configured runs,
  an Identity trusts a CA that satisfies the pins of its own run, and what is stored was
  pinned or fetched with leave to at some point; the first CA stored stays, unless the read of
  it fails in `obtainCA`, which then stores the configured or fetched one over it. A `bootstrap`
  after a pinned run therefore keeps to the pinned CA, and a pinned run after a
  `bootstrap` with another CA fails.
* **NoSilentReenroll, StoreConsistent**: a certificate once stored is never replaced, unless
  a failing stat makes a provisioned node look unprovisioned, and it is the stored CA's,
  even when the CA was rebuilt between two requests of one run; only passing over the
  certificate and the CA or the key as well undoes that. The price is that an expired certificate ends every later run with an error until
  it is removed by hand.
* **LeafWithinIssuer, IdentityWorks**: no leaf outlives its issuer; so an Identity of the
  present CA is admitted until its own or the server's certificate runs out.
* **IdentityIsUsable, NoSelfConflict, EventuallyEnrolled**: no node takes a certificate
  of another key for its own, not even one with a new key on every run. With an ssldir it
  never gets in its own way and, once the faults stop, enrolls, unless the key
  or the certificate file was cut short (then every run fails until it is removed). The last
  two rest on the key being the same in every run, and so exclude a node whose key file was
  there but could not be read: LoadOrCreateKey gives it a new key, and it then conflicts with
  its own earlier request or certificate.
* **PolicySawWhatIsIssued, OperatorSawWhatIsIssued**: two pieces of code read the CSR, one
  to describe it and one to copy it; they agree on which extensions there are and on each
  value as JSON writes it: exactly for a value in UTF-8, and otherwise not
  (`policy_view_altered`). A value that is not a string is refused. Names agree up to normalisation: a DNS name with blanks around it, or one that reads as an
  address, is shown as written and issued trimmed, or as an address.
* **FactsArrive**: a trusted fact reaches the certificate with its value, whichever of
  its names it is configured under, because two keys for one OID are refused. A
  `--ext` flag overrides the same key of `csr_attributes.yaml`; under another key for the
  same OID the two collide and nothing is requested.
* **SANsAreGranted, ServerLeafCoversHosts**: agents get alternative names only from an
  operator or, with `AllowAltSAN`, from their CSR, and the certname comes with them;
  the server's leaf has exactly its host names under any options.

### Disagreements between the code and its comments or docs

Each is a run that TLC is expected to refute.

| Run | Text | What the code does |
|---|---|---|
| `policy_hangs` | ADR 0010:65 "A slow or broken policy ... cannot make the enrolling agent's CSR submission fail" | `cmd.Run` waits for whoever holds stderr, past the timeout (no `WaitDelay`) |
| `revocations_lost` | castore.go:556 "without losing prior revocations" | a CRL that cannot be read or parsed counts as empty, and the next Revoke makes that permanent |
| `init_half_done` | ca.go:103 "there is no CA at the dir yet, so a caller can decide whether to Init" | after a crash between `ca_crt.pem` and `ca_key.pem`, Open says it does not exist and Init says it does |
| `policy_view_altered` | ADR 0010:35 "If the CA cannot decode recognized extensions into that normalized JSON view, the CSR is invalid for policy autosign and is not stored" | a value that is not UTF-8 passes `decodePuppetPolicyValue`, is shown with U+FFFD in it, and is issued as it came |
| `server_leaf_stale` | ca.go:158 "the CA-signed leaf (CN/SANs = Options.Hostnames)" | `ServerTLSCert` returns the stored pair whatever names the server is now started with |
| `ephemeral_rerun` | ADR 0006:19 "enroll fresh in memory on each start" | a new key on each start collides with the last start's request or certificate |

Not modelled, but seen while reading: an agent that GETs the CRL while Revoke rewrites it saves
a truncated one (`CRL` reads without the lock); no code of the repository reads the agent's
CRL. ADR 0010 says policy errors and denials are
logged; `submitCSR` drops the result. `ca.IsNotExist` is also true when the policy
executable is missing, since `validateOptions` wraps the same error. `Statuses` "lists
every known certname" (castore.go:417) but skips a name whose file does not decode. "A
re-submission of the same CSR is idempotent" (castore.go:233), yet it rewrites the file,
and a failure there loses the request. The README says "`--certname` defaults to the host
FQDN on bootstrap"; `resolveCommon` takes an identity it finds in the ssldir first. An
"ambiguous" ssldir is said to "require explicit --certname" (facts-ca-cli/main.go:136);
the caller falls back to the FQDN.

### Bounds

Two goroutines are enough for each pair of sections to interleave, and the proofs
remove every bound below for the safety properties; for liveness they stay. In `CAStore` a request is only
admitted while every admitted one can still take a serial (`Room`), so no request
stops half-way at the bound and the liveness property is not an artefact of it.
`MaxSerial = 4` in `CADir` gives two signatures or mints after Init, enough for a
reuse, a re-mint, two revocations and a race of two CRL writers; the names differ in
nothing, so exchanging them is a symmetry. In `Trust` a CA of 2 ticks outlives a leaf
signed at once and would not one signed at its end; the clock runs past
the end of the first CA and of every leaf it signed, while a second CA built meanwhile
is still good. Two CAs are the pinned, stored or fetched one and another; the second host name is
an address of the agent's that the server's leaf does not have. Servers that change their names
are the run `server_leaf_stale`, and other lifetimes are left to the proofs. In `Enroll`, four faults give a run cut
short at any point, followed by one that is cut short again, with a stale PUT from
each. Three keys are three starts without an ssldir; with one, they are the first key and two
replacements after failed reads.

Deadlock is checked in the CAStore runs. The others switch it off: an Init that was cut
short leaves a cadir nothing can open (`init_half_done`), a node that is enrolled stops,
the clock of `Trust` ends, and `issuing` ends with the certificate.

In `issuing` there is at least one text of each kind the code distinguishes and two texts
that become the same name, a pair of keys for one OID, and a key that resolves to none.

### Fairness

* `FairServer`: weak fairness of each goroutine's next section (Go's mutex prevents
  starvation) and of the end of the policy executable (it is killed at its timeout).
* `FairSpec` of CAStore adds that whatever the executable started closes stderr in
  the end. The code does not enforce this; `policy_hangs` is the run without it.
* `FairSpec` of Enroll: the agent is run again after a failure, the server answers,
  and the operator signs what stays pending. Faults are bounded, so this says what
  happens once they stop.

## 4. What is proved

Every invariant and every action property a passing run checks, and the refinement, is
also a theorem, for every value of the constants, with the same exceptions. The bounds of the models (`MaxSerial`,
`MaxKeys`, `MaxFaults`, `MaxCAs`, `MaxTime`, ...) are constants like any other, so the
theorems hold for each of them.

| Module | Theorems (the property each states) |
|---|---|
| CAStoreProofs | Invariant (`IInv`), TypeCorrect, UniqueSerials (SerialsUnique), RequestOrCert (NeverBoth), NamesKept (CertIsForItsName), PolicyObeyed (PolicyGoverns), CleanRevokes (CleanedCertsAreRevoked), RequestsKept (PendingRequestIsKept), LifecycleKept (StatusLifecycle), Refinement (ImplementsRegistry) |
| CADirProofs | DirInvariant (`IInv`), TypeCorrect, SerialsAreNew (SerialNeverReused), PairsMatch (ServerPairMatches), RevocationsStay (RevocationsKept), RequestsAndCerts (RequestOrCertUnlessCut) |
| EnrollProofs | EnrollInvariant (`IInv`), TypeCorrect, IdentitiesAreUsable (IdentityIsUsable), NodesDoNotConflict (NoSelfConflict) |
| TrustProofs | TrustInvariant (`IInv`), TypeCorrect, NoSilentTrust (TrustIsDeclared), StoreIsConsistent (StoreConsistent), LeavesAreClamped (LeafWithinIssuer), IdentitiesWork (IdentityWorks), FirstUseStays (FirstUseIsForGood), NoReenrollment (NoSilentReenroll) |
| IssuingProofs | IssuingInvariant (`IInv`), TypeCorrect, PolicyInformed (PolicySawWhatIsIssued), OperatorInformed (OperatorSawWhatIsIssued), FactsAreIssued (FactsArrive), NamesAreGranted (SANsAreGranted), HostsAreCovered (ServerLeafCoversHosts) |

In each module `IInv` is the inductive invariant, and every property follows from it. TLC
also finds each `IInv` to hold on the instance of the module's run (for CADir on smaller
ones: two names with three serials, one name with five), leaving out only the
conjuncts that type a function over sets mixing strings, numbers and records, which TLC
cannot compare.

### Assumptions

They are the `ASSUME`s of the modules, and TLC evaluates them on every run. They type the
constants; say that the markers `None`, `Missing` and `Torn` are none of the values they
stand beside (a file that does not exist is not a file with content); and, in `CADir`,
that there are serials to give out after the CA's own (`MaxSerial > 1`: Init writes 2
into the serial file). `IssuingAssumption` says of `Trim`, `IPText`, `OidOf` and `NameFor` what
`strings.TrimSpace`, `net.ParseIP` and the table of ppext give: trimming twice is trimming
once, an address has no blanks, the name of an OID resolves to it.

### CAStore

The invariants are not inductive by themselves. `IInv` adds

* `SerialsBelow`: every serial issued or revoked is below the counter. Without it the
  next serial need not be fresh (SerialsUnique) and a new certificate could be born
  revoked (StatusLifecycle, Refinement);
* `ThreadsOK`: what a request in flight established before it let go of the lock: the
  CSR is verified and for its name, a policy is configured if it is being asked, and
  an approved CSR was approved. It links what the first section checked to what
  the third one signs.

The argument goes in two halves. `StepEffect` shows that every step of any request
has one of six effects on the files (nothing, a request stored, a certificate issued
with the next serial to a name without one, a revocation, a removal, the server's
leaf). `StoreStep`, `ThreadsStep`, `PolicyStep` and `CleanedStep` then
preserve the parts of `IInv` from the effect; the action properties and the refinement
follow from the same effects.

### CADir

A property of the disk holds after a crash because of the order in which an open section
writes, so `IInv` has to say what the lists in `todo` can be. Three layers:

* `Shape` is about a list alone. A file is filled right after it is created, removals come
  last (`Ordered`); a section writes at most one certificate, with a serial below the one
  it writes into the serial file, the server's certificate before its key and with the
  same serial, and a section that begins `signed/<name>.pem` will remove the request
  (`Coupled`). The lemmas `SignIs`, `MintIs`, `InitIs`, `SubmitIs`, `LightSections` and
  `RevokeIs` show that every section has this shape, and `TailShape` and
  `OnlyRemovesShape` that what a step or a failure leaves of it has, too.
* `SectionOK` relates a section to the disk it was decided on: its serial was never
  issued and either the serial file is past it already or a write of the serial file comes
  first (`SerialAhead`); the server's key is made right after its certificate and filled with
  its match (`PairAhead`); a request is written for a name without a certificate or with one
  that was not seen (`RequestAhead`).
* What two processes may do to each other: only one of them can be signing (`PhaseOK`:
  beside a server the administrator's section is `Quiet`), so that nothing the other one
  promised about serials changes under it. The CRL has no such protection, and `CrlKept`
  says what saves it when nothing raced: there is at most one writer, and what it will
  write lists all that was ever revoked. `FreshOK` says that before `ca_key.pem` there is nothing but
  perhaps `ca_crt.pem`, so that an Init whose stat failed goes over no certificate. `PairOK`
  says that the server's pair matches, or is `split`, or that some section makes the key
  next.

Steps that change no file (an operation takes its lock, a section reads, fails or dies)
are covered by `SectionStays`, `SameDisk`, `SameDiskInv`, `LockStep` and `StopStep`; steps that
change one are reduced to `Effect`, and `StepSerial`, `StepPair`, `StepOwn`, `StepOther`,
`StepCrl`, `StepRequest` and `StepFresh` preserve one part of the invariant each. `StepOther` is where the interleaving
of the two processes is settled.

### Enroll

`IInv` says of each step of `enroller.run` what the run has established when it gets there
(`RunOK`, `WriteOK`): the key it holds is the one on disk before the CSR is sent, and what
it adopts was issued for that key. `StoreOK` carries this across runs: with an ssldir at most
one key is ever generated as long as no read of the key file fails (`~ rekeyed`), because
a file that can be read is used or, torn, an error. So every request of the node, also one
that arrives late, is the same request, which is why NoSelfConflict holds. IdentityIsUsable
needs no such premise: what a run adopts was issued for the key it holds, whichever that is.

### Trust

`RunOK` lists what each step of a run has established about the CA it trusts and what is
stored by then; `CadirOK` that the server's pair is always the present CA's and nothing
outlives its issuer. The CAs only grow (`Grows`), so a stored certificate keeps its issuer
while CAs are rebuilt. The two action properties follow from the invariant and from
what each step may write (`SeenFilesStay`): as long as a run is enrolling, a whole certificate
is one that was passed over, and a whole `ca.pem` is only written over by a run that passes it
over.

### Issuing

`IInv` records how the request, the policy's view and the certificate were computed from
one another; each theorem is then one about the functions: trimming and classifying the
names of a CSR commute with describing them (`CleanIsProper` and the lemmas after it), the
view holds each issued value as JSON writes it (`ViewIsShown`, and for one that JSON leaves
alone `TextIsShownExactly`), and two keys for one OID are refused. `Json` is any function on the
values.

### Only model-checked

The liveness properties (EveryRequestReturns and EventuallyEnrolled), which are out of the
prover's reach: fairness and ENABLED. The six disagreements are counterexamples TLC finds.

## 5. Not modelled

* Cryptography, DER and PEM (pki), beyond whether a file decodes, a CSR verifies, SignCSR
  accepts a key and a value is a string; reading `csr_attributes.yaml`.
* The HTTP wire format, status codes, routing, and JSON beyond what it does to a value
  that is not UTF-8. The client-certificate check of
  the admin routes is in Trust (`Admits`).
* The 24-hour validity of a CRL: no code of the repository reads it back.
* Trust without an ssldir: every run then decides anew, with the same `obtainCA`.
* Two runs of the agent on one ssldir at a time (hazard at ssldir.go:58).
* An online `facts-ca-server sign`: the README rules it out, and the serial it would
  reuse is the reason given there.
* Which certname a command of facts-ca-cli takes when none is given.
* `Identity`'s listener side: assembly of a `tls.Config`. `setCert` is called by tests only, so
  the lock around the leaf guards a constant.
* Flags, logging, version.

## 6. Plan

Done, in this order: CertRegistry, CAStore with its runs, CAStoreProofs, CADir, Enroll,
Issuing, CADir with a second process, Trust, and the proofs about Issuing, Trust, Enroll and
CADir.

Next:

1. **CADir implements CAStore** as long as no section is cut short: the sections of CADir,
   taken as one step each at the write that makes them visible, against CAStore's. The
   invariant of CADirProofs has what this needs about serials and pairs.
2. **The cadir after a crash**: which sections a later run of the same operation completes,
   as action properties of CADir with proofs from `IInv`.
3. **Several agents** composed with CAStore.
