------------------------------- MODULE CADir -------------------------------
(***************************************************************************)
(* The cadir of internal/castore, file by file: the sections CAStore takes   *)
(* as atomic, opened up.  Every os.WriteFile is two steps, a truncation     *)
(* (the file is there but does not decode) and the write that fills it; a    *)
(* step that writes or removes can fail with an I/O error, and a process can *)
(* die between any two.  A read or stat that fails is an error that changes   *)
(* nothing, except where the code goes on without the file: there it is a    *)
(* parameter of the action, ok.                                             *)
(*                                                                         *)
(* Two processes work on the directory: the server, and an administrator's   *)
(* `facts-ca-server sign`, `revoke` or `clean`.  Each has a CA.mu of its own, *)
(* so each has at most one section open and nothing keeps the two apart.     *)
(* An open section is the list of file steps it has still to do.            *)
(***************************************************************************)
EXTENDS Naturals, Sequences, FiniteSets

CONSTANTS Names,      \* certnames
          CSRs,       \* verified CSRs with an RSA key; CN[c] is the name of c
          CN,
          MaxSerial,  \* bound on the serial numbers of a run
          Missing,    \* the file does not exist
          Torn        \* the file exists and does not decode (truncated)

ASSUME DirAssumption ==
    /\ CN \in [CSRs -> Names]
    /\ MaxSerial \in Nat /\ MaxSerial > 1
    /\ Missing # Torn /\ {Missing, Torn} \cap Nat = {}
    /\ \A s \in SUBSET (1 .. MaxSerial) : s \notin {Missing, Torn}

Procs == {"server", "admin"}

CaCrt == <<"ca_crt.pem">>
CaKey == <<"ca_key.pem">>
CaPub == <<"ca_pub.pem">>
Serial == <<"serial">>
Inventory == <<"inventory.txt">>
Crl == <<"ca_crl.pem">>
ServerCrt == <<"server_crt.pem">>
ServerKey == <<"server_key.pem">>
Request(n) == <<"requests", n>>
Signed(n) == <<"signed", n>>

CertFiles == {CaCrt, ServerCrt} \cup {Signed(n) : n \in Names}
Files == {CaCrt, CaKey, CaPub, Serial, Inventory, Crl, ServerCrt, ServerKey}
            \cup {Request(n) : n \in Names} \cup {Signed(n) : n \in Names}

(* Contents: a CSR in requests/; a certificate stands for its serial number, a key *)
(* for the serial of the certificate made with it; the CRL is the serials it lists, *)
(* and the inventory nothing.                                                      *)

VARIABLES disk,       \* disk[f]: the content of file f, Missing or Torn
          server,     \* the server: "down", "init" (in castore.Init), "up", or "offline":
                      \* kept down while the administrator signs
          todo,       \* todo[p]: the file steps left of the section process p is in
          issued,     \* history: the serials of every certificate ever written
          revokedEver,\* history: the serials of every CRL ever written
          crlHurt,    \* history: a CRL write was cut short, or made from a CRL that could
                      \* not be read or that the other process was rewriting
          cut,        \* history: names whose signing ended after the certificate file was
                      \* begun and before the request was removed, or whose certificate
                      \* submitCSR failed to see
          split       \* history: minting over a pair that could not be read ended between
                      \* the certificate and the key

history == <<issued, revokedEver, crlHurt, cut, split>>
vars == <<disk, server, todo, history>>

Exists(f) == disk[f] # Missing
Whole(f) == disk[f] \notin {Missing, Torn}

\* CA.mu of process p is free.
LockFree(p) == todo[p] = <<>>

----------------------------------------------------------------------------
(* Steps of a section.  "sign" and "revoke" read files and decide what follows; *)
(* "clean" is the first removal of a Clean.                                     *)

FileStep(op, f, v) == [op |-> op, file |-> f, val |-> v]
Do(op, f, v) == <<FileStep(op, f, v)>>
WriteFile(f, v) == <<FileStep("create", f, Torn), FileStep("fill", f, v)>>
RemoveFile(f) == Do("remove", f, Missing)

\* appendInventory creates the file and is best effort.  Nothing reads the lines back:
\* they are left out.
AppendInventory == Do("append", Inventory, {})

\* nextSerialLocked: a serial file that is missing or does not parse is an error.
TakeSerial == WriteFile(Serial, disk[Serial] + 1)

\* Mutant: the certificate is written before the serial file is advanced.
SignSteps_CertFirst(n) ==
    WriteFile(Signed(n), disk[Serial]) \o TakeSerial
               \o AppendInventory \o RemoveFile(Request(n))

\* signLocked after it has read the request and the serial.
SignSteps(n) ==
    TakeSerial \o WriteFile(Signed(n), disk[Serial])
               \o AppendInventory \o RemoveFile(Request(n))

\* Mutant: a private key that is there is not overwritten.
MintSteps_KeepsKey ==
    TakeSerial \o WriteFile(ServerCrt, disk[Serial])
               \o (IF Exists(ServerKey) THEN <<>> ELSE WriteFile(ServerKey, disk[Serial]))
               \o AppendInventory

MintSteps ==
    TakeSerial \o WriteFile(ServerCrt, disk[Serial]) \o WriteFile(ServerKey, disk[Serial])
               \o AppendInventory

\* readRevokedLocked: a CRL that is missing or does not parse lists nothing.
ReadRevoked == IF Whole(Crl) THEN disk[Crl] ELSE {}

\* Mutant: the CRL is rebuilt from the new entry alone.
RevokeSteps_Overwrites(s, revoked) ==
    IF s \in revoked THEN <<>> ELSE WriteFile(Crl, {s})

\* Revoke of the certificate with serial s after the CRL was read back.
RevokeSteps(s, revoked) ==
    IF s \in revoked THEN <<>> ELSE WriteFile(Crl, revoked \cup {s})

RevokeSection(n) == IF Whole(Signed(n)) THEN Do("revoke", Crl, disk[Signed(n)]) ELSE <<>>

\* Clean tries both removals, whatever the first one gives.
CleanSection(n) == Do("clean", Signed(n), Missing) \o RemoveFile(Request(n))

\* Mutant: the serial file starts at the CA's own serial.
InitSteps_FromOne ==
    WriteFile(CaCrt, 1) \o WriteFile(CaKey, 1) \o WriteFile(CaPub, 1)
        \o WriteFile(Serial, 1) \o WriteFile(Inventory, {}) \o WriteFile(Crl, {})
        \o AppendInventory

InitSteps ==
    WriteFile(CaCrt, 1) \o WriteFile(CaKey, 1) \o WriteFile(CaPub, 1)
        \o WriteFile(Serial, 2) \o WriteFile(Inventory, {}) \o WriteFile(Crl, {})
        \o AppendInventory

----------------------------------------------------------------------------
(* The server. *)

Init ==
    /\ disk = [f \in Files |-> Missing]
    /\ server = "down"
    /\ todo = [p \in Procs |-> <<>>]
    /\ issued = {}
    /\ revokedEver = {}
    /\ crlHurt = FALSE
    /\ cut = {}
    /\ split = FALSE

\* castore.Open succeeds: both files are there and decode.
CanOpen == Whole(CaCrt) /\ Whole(CaKey)

Open ==
    /\ server = "down"
    /\ CanOpen
    /\ server' = "up"
    /\ UNCHANGED <<disk, todo, history>>

\* ca.IsNotExist of the error Open returns: the first file it misses.
OpenNotExist == ~ Exists(CaCrt) \/ ~ Exists(CaKey)

\* serveMain with -init: Open says there is no CA, and castore.Init does not see one.
\* The serials are a new CA's.
InitCA(ok) ==
    /\ server = "down"
    /\ OpenNotExist
    /\ ok => ~ Exists(CaCrt)
    /\ server' = "init"
    /\ todo' = [todo EXCEPT !["server"] = InitSteps]
    /\ issued' = {}
    /\ UNCHANGED <<disk, revokedEver, crlHurt, cut, split>>

\* The bound on serials: a section that may take one starts only below it.
Room == Whole(Serial) => disk[Serial] < MaxSerial

\* Process p takes its lock with these steps ahead of it.
Lock(p, steps) ==
    /\ LockFree(p)
    /\ steps # <<>>
    /\ todo' = [todo EXCEPT ![p] = steps]
    /\ UNCHANGED disk

Enter(p, steps) == Lock(p, steps) /\ UNCHANGED history

\* A goroutine of the server does.
Serve(steps) == server = "up" /\ Enter("server", steps) /\ UNCHANGED server

\* The section of submitCSR that stores the request, and with blanket autosign signs it.
StoreCSR(c, autosign, ok) ==
    LET n == CN[c] IN
    /\ server = "up" /\ UNCHANGED server
    /\ disk[Request(n)] \in {Missing, c}
    /\ autosign => Room
    /\ Lock("server",
            WriteFile(Request(n), c) \o (IF autosign THEN Do("sign", Request(n), n) ELSE <<>>))
    /\ cut' = IF Exists(Signed(n)) /\ ~ ok THEN cut \cup {n} ELSE cut
    /\ UNCHANGED <<issued, revokedEver, crlHurt, split>>

\* Mutant: a name that has a certificate can submit again.
SubmitCSR_IgnoresSigned(c, autosign, ok) == StoreCSR(c, autosign, ok)

\* submitCSR: a torn request is a different one, a torn certificate is a certificate; a
\* stat that fails (~ ok) says there is none.
SubmitCSR(c, autosign, ok) ==
    /\ ok => ~ Exists(Signed(CN[c]))
    /\ StoreCSR(c, autosign, ok)

\* Sign, and the section of submitCSR that follows the policy's approval.
Sign(n) ==
    /\ Whole(Request(n))
    /\ Room
    /\ Serve(Do("sign", Request(n), n))

Revoke(n) == Serve(RevokeSection(n))

Clean(n) ==
    /\ Exists(Signed(n)) \/ Exists(Request(n))
    /\ Serve(CleanSection(n))

DeleteCSR(n) ==
    /\ Exists(Request(n))
    /\ Serve(RemoveFile(Request(n)))

\* ServerTLSCert mints unless it reads both files, decodable or not.
ServerTLSCert(ok) ==
    /\ ok => ~ (Exists(ServerCrt) /\ Exists(ServerKey))
    /\ Whole(Serial) /\ Room
    /\ Serve(MintSteps)

----------------------------------------------------------------------------
(* The administrator's command, a process of its own for each.  ca.Open belongs to *)
(* its first section: once the two files decode they always do.                    *)

\* `sign`: the README asks for the server to be stopped, because of the serial file.
AdminSign(n) ==
    /\ server = "down"
    /\ CanOpen
    /\ Whole(Request(n))
    /\ Room
    /\ Enter("admin", Do("sign", Request(n), n))
    /\ server' = "offline"

AdminRevoke(n) ==
    /\ CanOpen
    /\ Enter("admin", RevokeSection(n))
    /\ UNCHANGED server

\* `clean` revokes and cleans, and ignores how the revocation ended: when the certificate
\* cannot be read there is none.
AdminClean(n, ok) ==
    /\ CanOpen
    /\ Enter("admin", (IF ok THEN RevokeSection(n) ELSE <<>>) \o CleanSection(n))
    /\ UNCHANGED server

----------------------------------------------------------------------------
(* What happens to the next step of a section. *)

\* What is left of the section of process p; when that is nothing, Init has led to a
\* running server, and an offline `sign` is over.
GoesOn(p, steps) ==
    /\ todo' = [todo EXCEPT ![p] = steps]
    /\ server' = CASE steps = <<>> /\ p = "server" /\ server = "init" -> "up"
                   [] steps = <<>> /\ p = "admin" /\ server = "offline" -> "down"
                   [] OTHER -> server

\* Process p has this step on file f ahead of it.
Ahead(p, op, f) == \E i \in DOMAIN todo[p] : todo[p][i].op = op /\ todo[p][i].file = f

\* An error ends the section; a `clean` goes on with its second part.
AfterError(steps) ==
    LET rest == {i \in DOMAIN steps : steps[i].op = "clean"} IN
    IF rest = {} THEN <<>> ELSE SubSeq(steps, CHOOSE i \in rest : TRUE, Len(steps))

\* It reads the request and the serial: not found or not decodable is an error.
ReadToSign(p) ==
    /\ ~ LockFree(p)
    /\ LET s == Head(todo[p]) IN
       /\ s.op = "sign"
       /\ GoesOn(p, IF Whole(s.file) /\ Whole(Serial) THEN SignSteps(s.val) ELSE <<>>)
    /\ UNCHANGED <<disk, history>>

\* It reads the CRL back; readRevokedLocked takes an error for an empty list.
ReadToRevoke(p, ok) ==
    /\ ~ LockFree(p)
    /\ LET s == Head(todo[p])
           revoked == IF ok THEN ReadRevoked ELSE {}
       IN  /\ s.op = "revoke"
           /\ GoesOn(p, RevokeSteps(s.val, revoked) \o Tail(todo[p]))
    /\ crlHurt' = (crlHurt \/ ~ ok \/ \E q \in Procs \ {p} : Ahead(q, "fill", Crl))
    /\ UNCHANGED <<disk, issued, revokedEver, cut, split>>

\* It changes its file.  A write to a file removed since it was opened is lost.
Step(p) ==
    /\ ~ LockFree(p)
    /\ LET s == Head(todo[p])
           lost == s.op = "fill" /\ ~ Exists(s.file)
       IN  /\ s.op \notin {"sign", "revoke"}
           /\ disk' = IF lost THEN disk ELSE [disk EXCEPT ![s.file] = s.val]
           /\ issued' = IF s.op = "fill" /\ s.file \in CertFiles
                        THEN issued \cup {s.val} ELSE issued
           /\ revokedEver' = IF s.op = "fill" /\ s.file = Crl
                             THEN revokedEver \cup s.val ELSE revokedEver
           /\ cut' = {n \in cut : \/ s.val # Missing \/ s.file \notin {Request(n), Signed(n)}
                                  \/ \E q \in Procs : Ahead(q, "create", Request(n))}
           /\ split' = (split /\ s.file # ServerKey)
    /\ GoesOn(p, Tail(todo[p]))
    /\ UNCHANGED crlHurt

\* What it leaves behind when process p stops before the steps are done.
Hurt(p) ==
    /\ crlHurt' = (crlHurt \/ (Head(todo[p]).op = "fill" /\ Head(todo[p]).file = Crl))
    /\ cut' = cut \cup {n \in Names : /\ Exists(Signed(n)) /\ Exists(Request(n))
                                      /\ Ahead(p, "remove", Request(n))}
    /\ split' = (split \/ /\ Head(todo[p]).op = "create" /\ Head(todo[p]).file = ServerKey
                          /\ Whole(ServerKey))
    /\ UNCHANGED <<disk, issued, revokedEver>>

\* It fails: inventory and removals are best effort, anything else is an error, which
\* serveMain turns into an exit when it comes from Init.
Fail(p) ==
    /\ ~ LockFree(p)
    /\ LET s == Head(todo[p]) IN
       \/ /\ s.op \in {"append", "clean", "remove"}
          /\ GoesOn(p, Tail(todo[p]))
       \/ /\ s.op \in {"create", "fill", "sign"}
          /\ IF server = "init" /\ p = "server"
             THEN server' = "down" /\ todo' = [todo EXCEPT ![p] = <<>>]
             ELSE GoesOn(p, AfterError(todo[p]))
    /\ Hurt(p)

\* Process p dies; what is on disk is all that is left of it.
Crash(p) ==
    /\ p = "server" => server \in {"init", "up"}
    /\ p = "admin" => ~ LockFree(p)
    /\ todo' = [todo EXCEPT ![p] = <<>>]
    /\ server' = IF p = "server" \/ server = "offline" THEN "down" ELSE server
    /\ IF LockFree(p) THEN UNCHANGED <<disk, history>> ELSE Hurt(p)

Next ==
    \/ Open
    \/ \E ok \in BOOLEAN : InitCA(ok) \/ ServerTLSCert(ok)
    \/ \E c \in CSRs, a, ok \in BOOLEAN : SubmitCSR(c, a, ok)
    \/ \E n \in Names : Sign(n) \/ Revoke(n) \/ Clean(n) \/ DeleteCSR(n)
    \/ \E n \in Names : AdminSign(n) \/ AdminRevoke(n) \/ \E ok \in BOOLEAN : AdminClean(n, ok)
    \/ \E p \in Procs : Step(p) \/ ReadToSign(p) \/ Fail(p) \/ Crash(p)
                         \/ \E ok \in BOOLEAN : ReadToRevoke(p, ok)

Spec == Init /\ [][Next]_vars

----------------------------------------------------------------------------
(* Properties. *)

\* Every file is missing, cut short or holds its own kind of content, a pending
\* request is for its name, and no certificate but the CA's own has serial 1 (Init
\* starts the serial file at 2).
TypeOK ==
    /\ \A f \in Files :
          \/ disk[f] \in {Missing, Torn}
          \/ f \in {CaCrt, CaKey, CaPub} /\ disk[f] = 1
          \/ /\ f \in {Serial, ServerKey, ServerCrt} \cup {Signed(n) : n \in Names}
             /\ disk[f] \in 2 .. MaxSerial
          \/ f \in {Inventory, Crl} /\ disk[f] \subseteq 1 .. MaxSerial
          \/ \E n \in Names : f = Request(n) /\ disk[f] \in {c \in CSRs : CN[c] = n}
    /\ server \in {"down", "init", "up", "offline"}
    /\ \A p \in Procs : \A i \in DOMAIN todo[p] : todo[p][i].file \in Files

\* No certificate about to be written carries the serial of one that was written before,
\* whatever crashes and failed writes came between and whatever the administrator
\* does, as long as `sign` is used offline: the serial file is advanced first, and a
\* serial file that is cut short stops signing for good.
SerialNeverReused ==
    \A p \in Procs : \A i \in DOMAIN todo[p] :
        LET s == todo[p][i] IN s.op = "fill" /\ s.file \in CertFiles => s.val \notin issued

\* When both halves of the server's TLS identity decode, they belong together, also
\* between the writes of the one and the other and if the process died there.  Where they
\* do not, the pair was there, a read of it failed and ServerTLSCert minted over it: it
\* is between the two files, or ended there.
ServerPairMatches ==
    Whole(ServerCrt) /\ Whole(ServerKey) =>
        \/ disk[ServerCrt] = disk[ServerKey]
        \/ split \/ \E p \in Procs : Ahead(p, "create", ServerKey)

\* A revocation that reached the CRL is still on it, unless a write of the CRL was
\* once cut short, made from one that could not be read, or raced with the other
\* process's: no other crash, failure or interleaving of the two processes loses it.
RevocationsKept ==
    ~ crlHurt /\ Whole(Crl) => revokedEver \subseteq disk[Crl]

\* A name has a certificate file and a request at once only while it is being signed,
\* because a signing was cut short between the two files, or because the stat of the
\* certificate failed when the request came: signLocked, which does not look for a
\* certificate, never replaces one otherwise.
RequestOrCertUnlessCut ==
    \A n \in Names \ cut :
        Exists(Signed(n)) /\ Exists(Request(n)) =>
            \E p \in Procs : Ahead(p, "remove", Request(n))

(* Properties the comments of the code state and the code does not keep. *)

\* readRevokedLocked reads the CRL back "so we can append without losing prior
\* revocations": every CRL written lists every serial an earlier one listed.
NoRevocationLost == Whole(Crl) => revokedEver \subseteq disk[Crl]

\* ca.IsNotExist of Open's error "means there is no CA at the dir yet, so a caller
\* can decide whether to Init": then Init does not find one.
NotExistMeansInit == server = "down" /\ OpenNotExist => ~ Exists(CaCrt)
============================================================================
