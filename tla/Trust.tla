------------------------------- MODULE Trust -------------------------------
(***************************************************************************)
(* Which CA a node trusts, and for how long anything is valid.  A node with  *)
(* an ssldir runs agent.Enroll again and again, each time with a pinned CA,  *)
(* a fingerprint, trust on first use, or none of them, and agent.Load for the *)
(* commands that only need a stored identity.  Meanwhile the clock runs, the *)
(* server is stopped and started with other host names and lifetimes, and    *)
(* the operator signs, cleans, and may build a new CA in place of the old.   *)
(*                                                                         *)
(* A CA stands for its certificate, key and fingerprint.  Enroll is about     *)
(* keys and CSRs: here the node's certificates are not told apart by key, so  *)
(* after a key was replaced a run may both accept and refuse one.            *)
(***************************************************************************)
EXTENDS Naturals, Sequences

CONSTANTS Hosts,      \* host names, of the server and of the address an agent is given
          NameSets,   \* the sets of host names a server is started with
          MaxTime,    \* bound on the clock
          MaxCAs,     \* bound on the CAs built one after the other
          CaLife,     \* lifetime of a CA
          TTLs,       \* lifetimes asked for; 0 is "not given"
          DefaultTTL, \* pki.DefaultCATTL
          Missing,    \* the file does not exist
          Torn,       \* the file is there and empty
          None

ASSUME TrustAssumption ==
    /\ MaxTime \in Nat /\ MaxCAs \in Nat \ {0} /\ CaLife \in Nat
    /\ NameSets \subseteq (SUBSET Hosts) \ {{}}
    /\ TTLs \subseteq Nat /\ DefaultTTL \in Nat \ {0}
    /\ Missing # Torn
    /\ {Missing, Torn} \cap (Nat \cup {"key"}) = {}
    /\ None \notin [ca : Nat, names : SUBSET Hosts, notAfter : Nat]

VARIABLES
    now,
    cas,      \* cas[i]: when the i-th CA expires; the last one is in the cadir
    leaf,     \* server_crt.pem and server_key.pem: [ca, names, notAfter], or None
    up,       \* the host names the running server was started with, or None
    pend,     \* the node's CSR is in requests/
    crt,      \* the node's certificate in signed/: [ca, notAfter], or None
    ssl,      \* the ssldir: ssl[f] is Missing, Torn or the content of f
    run,      \* the run of the agent: where it is, its Config, the CA it trusts, whether it
              \* has a connection, and the certificate it got; "done" holds an Identity
    declared, \* history: the CAs that some run pinned, or fetched on first use
    unseen    \* history: the whole files a run went on without, a read or stat having failed

server == <<cas, leaf, up>>
history == <<declared, unseen>>
vars == <<now, server, pend, crt, ssl, run, history>>

CAs == 1 .. Len(cas)
Current == Len(cas)

Configs == [cacert : CAs \cup {None}, fp : CAs \cup {None}, tofu : BOOLEAN, host : Hosts]

Running(pc, cfg, ca, got) == [pc |-> pc, cfg |-> cfg, ca |-> ca, conn |-> FALSE, got |-> got]
Idle == Running("idle", None, None, None)
Whole(f) == ssl[f] \notin {Missing, Torn}

----------------------------------------------------------------------------
(* X.509 *)

Least(a, b) == IF a < b THEN a ELSE b

\* Mutant: the lifetime asked for, whatever the CA has left.
NotAfter_Unclamped(ttl) == now + (IF ttl = 0 THEN DefaultTTL ELSE ttl)

\* SignCSR: a lifetime that is not given is the default, and the CA's end is the leaf's.
NotAfter(ttl) == Least(now + (IF ttl = 0 THEN DefaultTTL ELSE ttl), cas[Current])

\* Mutant: the roots are left out.
Verify_AnyIssuer(c, ca) == now <= c.notAfter

\* x509.Certificate.Verify with ca as the only root.
Verify(c, ca) == c.ca = ca /\ now <= c.notAfter /\ now <= cas[ca]

----------------------------------------------------------------------------
(* The CA. *)

Init ==
    /\ now = 0
    /\ cas = <<CaLife>>
    /\ leaf = None /\ up = None
    /\ pend = FALSE /\ crt = None
    /\ ssl = [f \in {"ca", "key", "cert"} |-> Missing]
    /\ run = Idle
    /\ declared = {} /\ unseen = {}

Tick ==
    /\ now < MaxTime
    /\ now' = now + 1
    /\ UNCHANGED <<server, pend, crt, ssl, run, history>>

\* Mutant: the pair is left to the first handshake.
Start_Lazily(names, ttl) ==
    /\ up = None
    /\ up' = names
    /\ UNCHANGED <<now, cas, leaf, pend, crt, ssl, run, history>>

\* ListenAndServe: ServerTLSCert loads the stored pair, whatever names and lifetime the
\* server is started with, or mints one where there is none or its reads fail.
Start(names, ttl) ==
    /\ up = None
    /\ up' = names
    /\ \/ leaf # None /\ leaf' = leaf
       \/ leaf' = [ca |-> Current, names |-> names, notAfter |-> NotAfter(ttl)]
    /\ UNCHANGED <<now, cas, pend, crt, ssl, run, history>>

Stop ==
    /\ up # None
    /\ up' = None
    /\ run' = [run EXCEPT !.conn = FALSE]
    /\ UNCHANGED <<now, cas, leaf, pend, crt, ssl, history>>

\* The operator starts over: the cadir is removed and Init makes a new CA in it.
Rebuild ==
    /\ up = None
    /\ Len(cas) < MaxCAs
    /\ cas' = Append(cas, now + CaLife)
    /\ leaf' = None
    /\ pend' = FALSE /\ crt' = None
    /\ UNCHANGED <<now, up, ssl, run, history>>

\* Sign, with the lifetime of cert_ttl, of -ttl or by default.
Sign(ttl) ==
    /\ pend
    /\ pend' = FALSE
    /\ crt' = [ca |-> Current, notAfter |-> NotAfter(ttl)]
    /\ UNCHANGED <<now, server, ssl, run, history>>

Clean ==
    /\ pend \/ crt # None
    /\ pend' = FALSE /\ crt' = None
    /\ UNCHANGED <<now, server, ssl, run, history>>

----------------------------------------------------------------------------
(* The agent: trust. *)

\* validatePinnedCA
Satisfies(ca, cfg) == (cfg.cacert # None => ca = cfg.cacert) /\ (cfg.fp # None => ca = cfg.fp)

\* loadFromDisk has all three files to look at; an empty ca.pem counts as absent.
Provisioned == Whole("ca") /\ ssl["cert"] # Missing /\ ssl["key"] # Missing

\* Mutant: the pins are only looked at when a CA is fetched.
StoreValid_NoPins(cfg) == Whole("cert") /\ Whole("key") /\ Verify(ssl["cert"], ssl["ca"])

\* loadFromDisk accepts them.
StoreValid(cfg) ==
    /\ Satisfies(ssl["ca"], cfg)
    /\ Whole("cert") /\ Whole("key")
    /\ Verify(ssl["cert"], ssl["ca"])

Starts(cfg) ==
    /\ run.pc \in {"idle", "done"}
    /\ declared' = declared \cup ({cfg.cacert, cfg.fp} \ {None})
    /\ UNCHANGED <<now, server, pend, crt, ssl>>

\* The run goes on as if f was not there: if it is, the stat or the read of it failed.
Without(f) == unseen' = unseen \cup {g \in {f} : Whole(g)}

\* The fast path of Enroll.
LoadIdentity(cfg) ==
    /\ Starts(cfg)
    /\ Provisioned /\ StoreValid(cfg)
    /\ run' = Running("done", cfg, ssl["ca"], ssl["cert"])
    /\ UNCHANGED unseen

\* A stored pair that does not validate is an error, expired or not; the certificate may
\* be for a key that was replaced.
RejectStore(cfg) ==
    /\ Starts(cfg)
    /\ Provisioned /\ (StoreValid(cfg) => "key" \in unseen)
    /\ run' = Idle
    /\ UNCHANGED unseen

\* Mutant: a stored pair that does not validate is enrolled again.
BeginEnroll_Again(cfg) ==
    /\ Starts(cfg)
    /\ ~ (Provisioned /\ StoreValid(cfg))
    /\ run' = Running("ca", cfg, None, None)
    /\ UNCHANGED unseen

\* Something is missing, or HasCert or HasKey takes the error of a stat for that.
BeginEnroll(cfg) ==
    /\ Starts(cfg)
    /\ IF Provisioned THEN Without("cert") ELSE UNCHANGED unseen
    /\ run' = Running("ca", cfg, None, None)

Enroll(cfg) == LoadIdentity(cfg) \/ RejectStore(cfg) \/ BeginEnroll(cfg)

CommandConfig(host, tofu) == [cacert |-> None, fp |-> None, tofu |-> tofu, host |-> host]

\* `facts-ca-cli bootstrap`: Enroll with no pin, trusting on first use.
Bootstrap(host) == Enroll(CommandConfig(host, TRUE))

\* agent.Load, for `facts-ca-cli mtls` and `ca`: what is stored, or an error.
Load(host) == LoadIdentity(CommandConfig(host, FALSE))

----------------------------------------------------------------------------
(* The agent: the rest of a run. *)

OfAgent == UNCHANGED <<now, server, pend, crt>>

\* os.WriteFile of v to f ends with f whole; it began with a truncation.
Finish(f, v, pc) ==
    /\ ssl' = [ssl EXCEPT ![f] = v]
    /\ run' = [run EXCEPT !.pc = pc, !.conn = @ /\ pc # "done"]
    /\ OfAgent /\ UNCHANGED history

FinishWrite ==
    \/ run.pc = "writeCA" /\ Finish("ca", run.ca, "crl")
    \/ run.pc = "writeKey" /\ Finish("key", "key", "get")
    \/ run.pc = "writeCert" /\ Finish("cert", run.got, "done")

\* obtainCA: the stored CA, if it satisfies the pins.
StoredCA ==
    /\ run.pc = "ca"
    /\ Whole("ca") /\ Satisfies(ssl["ca"], run.cfg)
    /\ run' = [run EXCEPT !.pc = "crl", !.ca = ssl["ca"]]
    /\ OfAgent /\ UNCHANGED <<ssl, history>>

\* The CA is trusted, and being written to ca.pem.
Accept(ca) ==
    /\ ssl' = [ssl EXCEPT !["ca"] = Torn]
    /\ run' = [run EXCEPT !.pc = "writeCA", !.ca = ca]

\* Mutant: a configured CA comes before the stored one.
PinnedCA_First ==
    /\ run.pc = "ca"
    /\ run.cfg.cacert # None /\ Satisfies(run.cfg.cacert, run.cfg)
    /\ Accept(run.cfg.cacert)
    /\ OfAgent /\ UNCHANGED history

\* obtainCA: the configured CA when no stored one could be read; with a fingerprint as
\* well, they must agree.
PinnedCA ==
    /\ run.pc = "ca"
    /\ Without("ca")
    /\ run.cfg.cacert # None /\ Satisfies(run.cfg.cacert, run.cfg)
    /\ Accept(run.cfg.cacert)
    /\ OfAgent /\ UNCHANGED declared

\* Mutant: a CA is fetched whether or not anything in the configuration allows it.
FetchCA_Silently ==
    /\ run.pc = "ca"
    /\ Without("ca") /\ run.cfg.cacert = None
    /\ up # None
    /\ Satisfies(Current, run.cfg)
    /\ Accept(Current)
    /\ declared' = declared \cup {ca \in {Current} : run.cfg.tofu}
    /\ OfAgent

\* obtainCA: what GET certificate/ca returns, over a connection that verifies nothing,
\* if it has the fingerprint or the configuration trusts on first use.
FetchCA ==
    /\ run.pc = "ca"
    /\ Without("ca") /\ run.cfg.cacert = None
    /\ run.cfg.fp # None \/ run.cfg.tofu
    /\ up # None
    /\ Satisfies(Current, run.cfg)
    /\ Accept(Current)
    /\ declared' = declared \cup {ca \in {Current} : run.cfg.tofu}
    /\ OfAgent

\* A handshake of verifiedClient, or of an Identity's client, with the server.
CanConnect == up # None /\ Verify(leaf, run.ca) /\ run.cfg.host \in leaf.names

\* A connection is kept for the requests that follow.
Reachable == run.conn \/ CanConnect

\* Best effort; the first request of verifiedClient.
FetchCRL ==
    /\ run.pc = "crl"
    /\ \E conn \in BOOLEAN :
          (conn => CanConnect) /\ run' = [run EXCEPT !.pc = "key", !.conn = conn]
    /\ OfAgent /\ UNCHANGED <<ssl, history>>

LoadKey ==
    /\ run.pc = "key"
    /\ Whole("key")
    /\ run' = [run EXCEPT !.pc = "get"]
    /\ OfAgent /\ UNCHANGED <<ssl, history>>

\* LoadOrCreateKey goes on to create one whatever error the read of the file gives.
CreateKey ==
    /\ run.pc = "key"
    /\ Without("key")
    /\ ssl' = [ssl EXCEPT !["key"] = Torn]
    /\ run' = [run EXCEPT !.pc = "writeKey"]
    /\ OfAgent /\ UNCHANGED declared

\* GET certificate finds one, in the first try or while waiting, and adopt validates it.
Adopt ==
    /\ run.pc \in {"get", "poll"}
    /\ Reachable
    /\ crt # None /\ Verify(crt, run.ca)
    /\ ssl' = [ssl EXCEPT !["cert"] = Torn]
    /\ run' = [run EXCEPT !.pc = "writeCert", !.got = crt, !.conn = TRUE]
    /\ OfAgent /\ UNCHANGED history

\* The first GET finds none, or fails.
MissCert ==
    /\ run.pc = "get"
    /\ run' = [run EXCEPT !.pc = "put"]
    /\ OfAgent /\ UNCHANGED <<ssl, history>>

\* PUT certificate_request.  The CA refuses it for a name that has a certificate
\* (Interrupt), unless its stat of that certificate fails.
PutCSR ==
    /\ run.pc = "put"
    /\ Reachable
    /\ pend' = TRUE
    /\ run' = [run EXCEPT !.pc = "poll", !.conn = TRUE]
    /\ UNCHANGED <<now, server, crt, ssl, history>>

\* The run returns an error, is cancelled or dies.
Interrupt ==
    /\ run.pc \notin {"idle", "done"}
    /\ run' = Idle
    /\ OfAgent /\ UNCHANGED <<ssl, history>>

Next ==
    \/ Tick \/ Stop \/ Rebuild \/ Clean
    \/ \E ttl \in TTLs : Sign(ttl) \/ \E names \in NameSets : Start(names, ttl)
    \/ \E cfg \in Configs : Enroll(cfg)
    \/ \E host \in Hosts : Bootstrap(host) \/ Load(host)
    \/ FinishWrite \/ StoredCA \/ PinnedCA \/ FetchCA \/ FetchCRL \/ LoadKey \/ CreateKey
    \/ Adopt \/ MissCert \/ PutCSR \/ Interrupt

Spec == Init /\ [][Next]_vars

\* The admin routes are open to a certificate that verifies against the server's own CA.
Admits(c) == Verify(c, Current)

\* A request `facts-ca-cli ca` makes with the Identity it holds reaches its route.
MayAdminister == run.pc = "done" /\ CanConnect /\ Admits(run.got)

----------------------------------------------------------------------------
(* Properties. *)

Certs == [ca : 1 .. MaxCAs, notAfter : Nat]

\* Files, runs and certificates have their types, a running server has a pair, and it
\* is one of the CA in the cadir.
TypeOK ==
    /\ now \in 0 .. MaxTime
    /\ cas \in Seq(Nat) /\ Len(cas) \in 1 .. MaxCAs
    /\ leaf = None \/ leaf \in [ca : {Current}, names : NameSets, notAfter : Nat]
    /\ up = None \/ up \in NameSets
    /\ up # None => leaf # None
    /\ pend \in BOOLEAN
    /\ crt \in Certs \cup {None}
    /\ ssl["ca"] \in {Missing, Torn} \cup CAs
    /\ ssl["key"] \in {Missing, Torn, "key"}
    /\ ssl["cert"] \in {Missing, Torn} \cup Certs
    /\ run.pc \in {"idle", "ca", "writeCA", "crl", "key", "writeKey", "get", "put", "poll", "writeCert", "done"}
    /\ run.cfg \in Configs \cup {None}
    /\ run.ca \in CAs \cup {None}
    /\ run.conn \in BOOLEAN
    /\ run.got \in Certs \cup {None}
    /\ declared \subseteq CAs
    /\ unseen \subseteq {"ca", "key", "cert"}

\* An Identity trusts a CA that satisfies the pins of the run that returned it, and a
\* CA is stored only after some run pinned it or fetched it with leave to: "Enroll never
\* trusts a fetched CA silently".
TrustIsDeclared ==
    /\ run.pc = "done" => Satisfies(run.ca, run.cfg)
    /\ Whole("ca") => ssl["ca"] \in declared

\* A CA once stored is the node's CA for good: no later run, whatever it is configured
\* with and whatever the server has become, replaces ca.pem, unless obtainCA failed to
\* read it and went on to the pin or the server.
FirstUseIsForGood ==
    [][Whole("ca") /\ "ca" \notin unseen' => ssl'["ca"] = ssl["ca"]]_vars

\* A stored certificate is never replaced, not even when it has expired or the CA was
\* rebuilt: "a corrupt/mismatched store is an error, not a silent re-enroll".  The one
\* way past that check is a stat of the certificate or the key that fails.
NoSilentReenroll ==
    [][Whole("cert") /\ "cert" \notin unseen => ssl'["cert"] = ssl["cert"]]_vars

\* A complete ssldir is consistent: the certificate is one of the stored CA's, with
\* the key beside it, whatever was rebuilt between the requests of the runs that wrote
\* it.  It takes two overlooked files to undo that: the certificate, so that a run
\* enrolls again, and the CA or the key, so that the run replaces it.
StoreConsistent ==
    Whole("cert") /\ ("cert" \in unseen => unseen = {"cert"})
    => Whole("ca") /\ Whole("key") /\ ssl["cert"].ca = ssl["ca"]

\* "A leaf must never outlive its issuer", the server's and the node's, with any lifetimes
\* asked for and however late in the life of the CA.
LeafWithinIssuer ==
    /\ leaf # None => leaf.notAfter <= cas[leaf.ca]
    /\ crt # None => crt.notAfter <= cas[crt.ca]

\* An Identity of the present CA works until its own or the server's certificate runs
\* out, if the server's has the name it is called by: nothing else stands in its way.
IdentityWorks ==
    /\ run.pc = "done" /\ run.ca = Current /\ now <= run.got.notAfter
    /\ up # None /\ run.cfg.host \in leaf.names /\ now <= leaf.notAfter
    => MayAdminister

\* The comment on ServerTLSConfig: it serves "the CA-signed leaf (CN/SANs = Options.Hostnames)".
ServerLeafIsNamed == up # None => leaf.names = up
============================================================================
