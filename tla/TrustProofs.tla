---------------------------- MODULE TrustProofs ----------------------------
(***************************************************************************)
(* Proofs about Trust, for every set of host names, every lifetime and any   *)
(* number of CAs.                                                           *)
(***************************************************************************)
EXTENDS Trust, TLAPS

PCs == {"idle", "ca", "writeCA", "crl", "key", "writeKey", "get", "put", "poll", "writeCert", "done"}

Record == [pc : PCs, cfg : Configs \cup {None}, ca : CAs \cup {None},
           conn : BOOLEAN, got : Certs \cup {None}]

\* The cadir: the pair is one of the present CA's, and nothing outlives its issuer.
CadirOK ==
    /\ now \in 0 .. MaxTime
    /\ cas \in Seq(Nat) /\ Len(cas) \in 1 .. MaxCAs
    /\ leaf = None \/ leaf \in [ca : {Current}, names : NameSets, notAfter : Nat]
    /\ up = None \/ up \in NameSets
    /\ up # None => leaf # None
    /\ crt = None \/ crt \in [ca : CAs, notAfter : Nat]
    /\ LeafWithinIssuer

\* The variables of the agent.
AgentType ==
    /\ ssl \in [{"ca", "key", "cert"} -> {Missing, Torn, "key"} \cup CAs \cup Certs]
    /\ ssl["ca"] \in {Missing, Torn} \cup CAs
    /\ ssl["key"] \in {Missing, Torn, "key"}
    /\ ssl["cert"] \in {Missing, Torn} \cup Certs
    /\ run \in Record
    /\ declared \subseteq CAs
    /\ unseen \subseteq {"ca", "key", "cert"}

\* The steps of a run at which the CA it trusts is in ca.pem, and the key in its file.
HasCA == {"crl", "key", "writeKey", "get", "put", "poll", "writeCert", "done"}
HasKey == {"get", "put", "poll", "writeCert", "done"}

\* What a run has established so far.
RunOK ==
    /\ run.pc # "idle" => /\ run.cfg \in Configs
                          /\ {run.cfg.cacert, run.cfg.fp} \ {None} \subseteq declared
    /\ run.pc \notin {"idle", "ca"} => run.ca \in CAs /\ Satisfies(run.ca, run.cfg)
    /\ run.pc = "writeCA" => ssl["ca"] = Torn /\ run.ca \in declared
    /\ run.pc \in HasCA => ssl["ca"] = run.ca
    /\ run.pc \in HasKey => ssl["key"] = "key"
    /\ run.pc \in {"writeCert", "done"} => run.got \in Certs /\ run.got.ca = run.ca
    /\ run.pc \notin {"idle", "done"} /\ Whole("cert") => "cert" \in unseen

\* What is stored.
StoreOK ==
    /\ Whole("ca") => ssl["ca"] \in declared
    /\ StoreConsistent

\* The inductive invariant.
IInv == pend \in BOOLEAN /\ CadirOK /\ AgentType /\ RunOK /\ StoreOK

----------------------------------------------------------------------------
(* The CA's side. *)

\* SignCSR gives no leaf a life beyond the CA's.
LEMMA NotAfterIsClamped ==
  ASSUME CadirOK, NEW ttl \in TTLs
  PROVE  NotAfter(ttl) \in Nat /\ NotAfter(ttl) <= cas[Current]
<1>1. now \in Nat /\ ttl \in Nat /\ DefaultTTL \in Nat /\ cas[Current] \in Nat
  BY TrustAssumption DEF CadirOK, Current
<1> QED
  BY <1>1 DEF NotAfter, Least

\* CAs are only added, and keep their end.
Grows == Len(cas) <= Len(cas') /\ CAs \subseteq CAs' /\ \A i \in CAs : cas'[i] = cas[i]

\* Every step keeps the cadir in order.
LEMMA CadirStep == CadirOK /\ [Next]_vars => CadirOK' /\ Grows
<1> SUFFICES ASSUME CadirOK, [Next]_vars PROVE CadirOK' /\ Grows
  OBVIOUS
<1>1. ASSUME UNCHANGED <<cas, leaf, up, crt>>, now' \in 0 .. MaxTime
      PROVE  CadirOK' /\ Grows
  BY <1>1 DEF CadirOK, Grows, CAs, Current, LeafWithinIssuer
<1>2. CASE Tick
  <2>1. now' \in 0 .. MaxTime
    BY <1>2, TrustAssumption DEF Tick, CadirOK
  <2> QED
    BY <1>1, <1>2, <2>1 DEF Tick, server, CadirOK
<1>3. CASE Stop
  BY <1>3 DEF Stop, CadirOK, Grows, CAs, Current, LeafWithinIssuer
<1>4. CASE Rebuild
  <2>1. /\ cas' \in Seq(Nat) /\ Len(cas') = Len(cas) + 1 /\ Len(cas') \in 1 .. MaxCAs
        /\ \A i \in 1 .. Len(cas) : cas'[i] = cas[i]
    BY <1>4, TrustAssumption DEF Rebuild, CadirOK
  <2> QED
    BY <1>4, <2>1 DEF Rebuild, CadirOK, Grows, CAs, LeafWithinIssuer
<1>5. CASE Clean
  BY <1>5 DEF Clean, server, CadirOK, Grows, CAs, Current, LeafWithinIssuer
<1>6. ASSUME NEW ttl \in TTLs, Sign(ttl) PROVE CadirOK' /\ Grows
  <2>1. crt' \in [ca : CAs, notAfter : Nat] /\ crt'.notAfter <= cas[crt'.ca]
    BY <1>6, NotAfterIsClamped DEF Sign, CadirOK, CAs, Current
  <2> QED
    BY <1>6, <2>1 DEF Sign, server, CadirOK, Grows, CAs, Current, LeafWithinIssuer
<1>7. ASSUME NEW ttl \in TTLs, NEW names \in NameSets, Start(names, ttl)
      PROVE  CadirOK' /\ Grows
  <2>1. CASE leaf # None /\ leaf' = leaf
    BY <1>7, <2>1 DEF Start, CadirOK, Grows, CAs, Current, LeafWithinIssuer
  <2>2. CASE leaf' = [ca |-> Current, names |-> names, notAfter |-> NotAfter(ttl)]
    <3> DEFINE l == [ca |-> Current, names |-> names, notAfter |-> NotAfter(ttl)]
    <3>1. NotAfter(ttl) \in Nat /\ NotAfter(ttl) <= cas[Current] /\ Current \in Nat
      BY NotAfterIsClamped DEF CadirOK, Current
    <3>2. /\ l \in [ca : {Current}, names : NameSets, notAfter : Nat]
          /\ l \in [ca : Nat, names : SUBSET Hosts, notAfter : Nat]
          /\ l.notAfter <= cas[l.ca]
      BY <3>1, TrustAssumption
    <3>3. l # None
      BY <3>2, TrustAssumption
    <3>4. leaf' = l /\ up' = names /\ UNCHANGED <<now, cas, crt>>
      BY <1>7, <2>2 DEF Start
    <3> HIDE DEF l
    <3> QED
      BY <3>2, <3>3, <3>4 DEF CadirOK, Grows, CAs, Current, LeafWithinIssuer
  <2> QED
    BY <1>7, <2>1, <2>2 DEF Start
<1>8. CASE PutCSR
  BY <1>1, <1>8 DEF PutCSR, server, CadirOK
<1>9. ASSUME UNCHANGED <<now, server, pend, crt>> PROVE CadirOK' /\ Grows
  BY <1>1, <1>9 DEF server, CadirOK
<1> QED
  BY <1>2, <1>3, <1>4, <1>5, <1>6, <1>7, <1>8, <1>9
     DEF Next, Enroll, Bootstrap, Load, LoadIdentity, RejectStore, BeginEnroll, Starts, FinishWrite,
         Finish, StoredCA, PinnedCA, FetchCA, FetchCRL, LoadKey, CreateKey, Adopt, MissCert,
         Interrupt, OfAgent, vars

----------------------------------------------------------------------------
(* The agent's side. *)

\* What a configuration may name stays what it may name.
LEMMA ConfigsGrow == Grows => Configs \subseteq Configs' /\ Record \subseteq Record'
  BY DEF Grows, Configs, Record, CAs

\* A step that leaves the ssldir and the run alone, but for its connection.
LEMMA AgentKept ==
  ASSUME AgentType, RunOK, StoreOK, Grows, UNCHANGED <<ssl, history>>,
         run' = run \/ run' = [run EXCEPT !.conn = FALSE]
  PROVE  AgentType' /\ RunOK' /\ StoreOK'
<1>1. run \in Record
  BY DEF AgentType, Record
<1>2. /\ run' \in Record'
      /\ run'.pc = run.pc /\ run'.cfg = run.cfg /\ run'.ca = run.ca /\ run'.got = run.got
  BY <1>1, ConfigsGrow DEF Record
<1>3. CAs \subseteq CAs' /\ Configs \subseteq Configs'
  BY ConfigsGrow DEF Grows
<1>4. AgentType'
  BY <1>2, <1>3 DEF AgentType, Record, Certs, history
<1>5. RunOK'
  BY <1>2, <1>3 DEF RunOK, Whole, Satisfies, Certs, history
<1> QED
  BY <1>4, <1>5 DEF StoreOK, StoreConsistent, Whole, history

\* Enroll's beginnings: what was stored, or nothing yet.
LEMMA StartsStep ==
  ASSUME CadirOK, AgentType, RunOK, StoreOK, NEW cfg \in Configs,
         LoadIdentity(cfg) \/ RejectStore(cfg) \/ BeginEnroll(cfg)
  PROVE  AgentType' /\ RunOK' /\ StoreOK'
<1>0. /\ UNCHANGED <<cas, ssl>>
      /\ declared' = declared \cup ({cfg.cacert, cfg.fp} \ {None})
      /\ cfg.cacert \in CAs \cup {None} /\ cfg.fp \in CAs \cup {None}
  BY DEF LoadIdentity, RejectStore, BeginEnroll, Starts, server, Configs
<1>1. /\ CAs' = CAs /\ Configs' = Configs /\ declared' \subseteq CAs
      /\ declared \subseteq declared'
  BY <1>0 DEF CAs, Configs, AgentType
<1>2. ASSUME UNCHANGED unseen PROVE StoreOK'
  BY <1>0, <1>1, <1>2 DEF StoreOK, StoreConsistent, Whole
<1>3. CASE LoadIdentity(cfg)
  <2>1. /\ Whole("ca") /\ Whole("key") /\ Whole("cert")
        /\ Satisfies(ssl["ca"], cfg) /\ ssl["cert"].ca = ssl["ca"]
        /\ run' = Running("done", cfg, ssl["ca"], ssl["cert"]) /\ UNCHANGED unseen
    BY <1>3 DEF LoadIdentity, Provisioned, StoreValid, Verify
  <2>2. ssl["ca"] \in CAs /\ ssl["cert"] \in Certs /\ ssl["key"] = "key"
    BY <2>1 DEF AgentType, Whole
  <2>3. run' \in Record
    BY <2>1, <2>2 DEF Record, Running, PCs
  <2>4. AgentType'
    BY <1>0, <1>1, <2>1, <2>3 DEF AgentType, Record
  <2>5. RunOK'
    BY <1>0, <1>1, <2>1, <2>2 DEF RunOK, Running, Satisfies, HasCA, HasKey
  <2> QED
    BY <1>2, <2>1, <2>4, <2>5
<1>4. CASE RejectStore(cfg)
  <2>1. run' = Idle /\ run' \in Record /\ UNCHANGED unseen
    BY <1>4 DEF RejectStore, Idle, Running, Record, PCs
  <2>2. AgentType'
    BY <1>0, <1>1, <2>1 DEF AgentType, Record
  <2>3. RunOK'
    BY <2>1 DEF RunOK, Idle, Running, HasCA, HasKey
  <2> QED
    BY <1>2, <2>1, <2>2, <2>3
<1>5. CASE BeginEnroll(cfg)
  <2>1. run' = Running("ca", cfg, None, None) /\ run' \in Record
    BY <1>5 DEF BeginEnroll, Running, Record, PCs
  <2>2. /\ unseen \subseteq unseen' /\ unseen' \subseteq unseen \cup {"cert"}
        /\ Provisioned /\ Whole("cert") => "cert" \in unseen'
        /\ ~ Provisioned => unseen' = unseen
    BY <1>5 DEF BeginEnroll, Without
  <2>3. AgentType'
    BY <1>0, <1>1, <2>1, <2>2 DEF AgentType, Record
  <2>4. Whole("cert") => "cert" \in unseen'
    BY <2>2 DEF Provisioned, StoreOK, StoreConsistent, Whole
  <2>5. RunOK'
    BY <1>0, <1>1, <2>1, <2>4 DEF RunOK, Running, Whole, HasCA, HasKey
  <2>6. StoreOK'
    <3>1. Whole("cert") /\ ("cert" \in unseen' => unseen' = {"cert"})
          => ("cert" \in unseen => unseen = {"cert"})
      BY <2>2
    <3> QED
      BY <1>0, <1>1, <3>1 DEF StoreOK, StoreConsistent, Whole
  <2> QED
    BY <2>3, <2>5, <2>6
<1> QED
  BY <1>3, <1>4, <1>5

\* The steps of a run.
LEMMA RunStep ==
  ASSUME CadirOK, AgentType, RunOK, StoreOK,
         \/ FinishWrite \/ StoredCA \/ PinnedCA \/ FetchCA \/ FetchCRL \/ LoadKey \/ CreateKey
         \/ Adopt \/ MissCert \/ PutCSR \/ Interrupt
  PROVE  AgentType' /\ RunOK' /\ StoreOK'
<1> USE DEF PCs, HasCA, HasKey, history
<1>0. /\ UNCHANGED cas /\ CAs' = CAs /\ Configs' = Configs /\ Record' = Record
      /\ run \in Record /\ run.pc # "idle" /\ run.cfg \in Configs
  <2>1. UNCHANGED cas
    BY DEF FinishWrite, Finish, StoredCA, PinnedCA, FetchCA, FetchCRL, LoadKey, CreateKey,
           Adopt, MissCert, PutCSR, Interrupt, OfAgent, server
  <2>2. run.pc # "idle"
    BY DEF FinishWrite, StoredCA, PinnedCA, FetchCA, FetchCRL, LoadKey, CreateKey, Adopt,
           MissCert, PutCSR, Interrupt
  <2> QED
    BY <2>1, <2>2 DEF CAs, Configs, Record, AgentType, RunOK
<1>1. {Missing, Torn} \cap (CAs \cup {"key"}) = {}
  <2>1. CAs \subseteq Nat
    BY DEF CAs
  <2> QED
    BY <2>1, TrustAssumption
<1>2. CASE FinishWrite
  <2>1. CASE run.pc = "writeCA" /\ Finish("ca", run.ca, "crl")
    <3>1. /\ ssl' = [ssl EXCEPT !["ca"] = run.ca] /\ UNCHANGED history
          /\ run.ca \in CAs /\ Satisfies(run.ca, run.cfg) /\ run.ca \in declared
          /\ ssl["ca"] = Torn
      BY <2>1 DEF Finish, RunOK
    <3>2. /\ run' \in Record /\ run'.pc = "crl"
          /\ run'.cfg = run.cfg /\ run'.ca = run.ca /\ run'.got = run.got
      BY <1>0, <2>1 DEF Finish, Record
    <3>3. AgentType'
      BY <1>0, <3>1, <3>2 DEF AgentType, Certs
    <3>4. RunOK'
      BY <1>0, <2>1, <3>1, <3>2 DEF RunOK, AgentType, Satisfies, Whole
    <3> QED
      BY <1>1, <3>1, <3>3, <3>4 DEF StoreOK, StoreConsistent, AgentType, Whole
  <2>2. CASE run.pc = "writeKey" /\ Finish("key", "key", "get")
    <3>1. /\ ssl' = [ssl EXCEPT !["key"] = "key"] /\ UNCHANGED history
          /\ run.ca \in CAs /\ Satisfies(run.ca, run.cfg) /\ ssl["ca"] = run.ca
      BY <2>2 DEF Finish, RunOK
    <3>2. /\ run' \in Record /\ run'.pc = "get"
          /\ run'.cfg = run.cfg /\ run'.ca = run.ca /\ run'.got = run.got
      BY <1>0, <2>2 DEF Finish, Record
    <3>3. AgentType'
      BY <1>0, <3>1, <3>2 DEF AgentType, Certs
    <3>4. RunOK'
      BY <1>0, <2>2, <3>1, <3>2 DEF RunOK, AgentType, Satisfies, Whole
    <3> QED
      BY <1>1, <3>1, <3>3, <3>4 DEF StoreOK, StoreConsistent, AgentType, Whole
  <2>3. CASE run.pc = "writeCert" /\ Finish("cert", run.got, "done")
    <3>1. /\ ssl' = [ssl EXCEPT !["cert"] = run.got] /\ UNCHANGED history
          /\ run.ca \in CAs /\ Satisfies(run.ca, run.cfg) /\ ssl["ca"] = run.ca
          /\ ssl["key"] = "key" /\ run.got \in Certs /\ run.got.ca = run.ca
      BY <2>3 DEF Finish, RunOK
    <3>2. /\ run' \in Record /\ run'.pc = "done"
          /\ run'.cfg = run.cfg /\ run'.ca = run.ca /\ run'.got = run.got
      BY <1>0, <2>3 DEF Finish, Record
    <3>3. AgentType'
      BY <1>0, <3>1, <3>2 DEF AgentType, Certs
    <3>4. RunOK'
      BY <1>0, <2>3, <3>1, <3>2 DEF RunOK, AgentType, Satisfies, Whole, Certs
    <3> QED
      BY <1>1, <3>1, <3>3, <3>4 DEF StoreOK, StoreConsistent, AgentType, Whole
  <2> QED
    BY <1>2, <2>1, <2>2, <2>3 DEF FinishWrite
<1>3. CASE StoredCA
  <2>1. /\ UNCHANGED <<ssl, history>> /\ ssl["ca"] \in CAs /\ Satisfies(ssl["ca"], run.cfg)
        /\ run.pc = "ca"
    BY <1>3 DEF StoredCA, Whole, AgentType
  <2>2. /\ run' \in Record /\ run'.pc = "crl"
        /\ run'.cfg = run.cfg /\ run'.ca = ssl["ca"] /\ run'.got = run.got
    BY <1>0, <1>3, <2>1 DEF StoredCA, Record
  <2>3. AgentType'
    BY <1>0, <2>1, <2>2 DEF AgentType, Certs
  <2>4. RunOK'
    BY <1>0, <2>1, <2>2 DEF RunOK, Satisfies, Whole
  <2> QED
    BY <2>1, <2>3, <2>4 DEF StoreOK, StoreConsistent, Whole
<1>4. ASSUME NEW ca \in CAs, run.pc = "ca", Without("ca"), Accept(ca), Satisfies(ca, run.cfg),
             declared \subseteq declared', declared' \subseteq CAs, ca \in declared'
      PROVE  AgentType' /\ RunOK' /\ StoreOK'
  <2>1. /\ ssl' = [ssl EXCEPT !["ca"] = Torn]
        /\ run' \in Record /\ run'.pc = "writeCA"
        /\ run'.cfg = run.cfg /\ run'.ca = ca /\ run'.got = run.got
    BY <1>0, <1>4 DEF Accept, Record
  <2>2. /\ unseen \subseteq unseen' /\ unseen' \subseteq unseen \cup {"ca"}
        /\ IF Whole("ca") THEN "ca" \in unseen' ELSE unseen' = unseen
    BY <1>4 DEF Without
  <2>3. AgentType'
    BY <1>0, <1>4, <2>1, <2>2 DEF AgentType, Certs
  <2>4. ssl'["ca"] = Torn /\ ssl'["cert"] = ssl["cert"]
    BY <2>1 DEF AgentType
  <2>5. RunOK'
    BY <1>0, <1>4, <2>1, <2>2, <2>4 DEF RunOK, Satisfies, Whole
  <2>6. Whole("cert") => "cert" \in unseen'
    BY <1>4, <2>2 DEF RunOK
  <2>7. StoreConsistent'
    <3>1. Whole("cert") => "cert" \in unseen' /\ unseen' # {"cert"}
      BY <2>2, <2>6 DEF StoreOK, StoreConsistent
    <3> QED
      BY <2>4, <3>1 DEF StoreConsistent, Whole
  <2> QED
    BY <2>3, <2>4, <2>5, <2>7 DEF StoreOK, Whole
<1>5. CASE PinnedCA
  <2>1. run.cfg.cacert \in CAs /\ run.cfg.cacert \in declared
    BY <1>0, <1>5 DEF PinnedCA, Configs, RunOK
  <2> QED
    BY <1>4, <1>5, <2>1 DEF PinnedCA, AgentType
<1>6. CASE FetchCA
  <2>1. Current \in CAs
    BY DEF CadirOK, CAs, Current
  <2>2. declared' = declared \cup {ca \in {Current} : run.cfg.tofu}
    BY <1>6 DEF FetchCA
  <2>3. Current \in declared'
    BY <1>6, <2>2 DEF FetchCA, Satisfies, RunOK
  <2> QED
    BY <1>4, <1>6, <2>1, <2>2, <2>3 DEF FetchCA, AgentType
<1>7. CASE FetchCRL \/ LoadKey \/ MissCert \/ PutCSR
  <2>1. /\ UNCHANGED <<ssl, history>>
        /\ run' \in Record
        /\ run'.cfg = run.cfg /\ run'.ca = run.ca /\ run'.got = run.got
        /\ \/ run.pc = "crl" /\ run'.pc = "key"
           \/ run.pc = "key" /\ run'.pc = "get" /\ Whole("key")
           \/ run.pc = "get" /\ run'.pc = "put"
           \/ run.pc = "put" /\ run'.pc = "poll"
    BY <1>0, <1>7 DEF FetchCRL, LoadKey, MissCert, PutCSR, Record
  <2>2. AgentType'
    BY <1>0, <2>1 DEF AgentType, Certs
  <2>3. RunOK'
    BY <1>0, <2>1 DEF RunOK, Satisfies, Whole, AgentType
  <2> QED
    BY <2>1, <2>2, <2>3 DEF StoreOK, StoreConsistent, Whole
<1>8. CASE CreateKey
  <2>1. /\ ssl' = [ssl EXCEPT !["key"] = Torn] /\ UNCHANGED declared
        /\ run' \in Record /\ run.pc = "key" /\ run'.pc = "writeKey"
        /\ run'.cfg = run.cfg /\ run'.ca = run.ca /\ run'.got = run.got
    BY <1>0, <1>8 DEF CreateKey, Record
  <2>2. /\ unseen \subseteq unseen' /\ unseen' \subseteq unseen \cup {"key"}
        /\ IF Whole("key") THEN "key" \in unseen' ELSE unseen' = unseen
    BY <1>8 DEF CreateKey, Without
  <2>3. AgentType'
    BY <1>0, <2>1, <2>2 DEF AgentType, Certs
  <2>4. ssl'["ca"] = ssl["ca"] /\ ssl'["cert"] = ssl["cert"]
    BY <2>1 DEF AgentType
  <2>5. RunOK'
    BY <1>0, <2>1, <2>2, <2>4 DEF RunOK, Satisfies, Whole
  <2>6. Whole("cert") => "cert" \in unseen'
    BY <2>1, <2>2 DEF RunOK
  <2>7. StoreConsistent'
    <3>1. Whole("cert") => "cert" \in unseen' /\ unseen' # {"cert"}
      BY <2>2, <2>6 DEF StoreOK, StoreConsistent
    <3> QED
      BY <2>4, <3>1 DEF StoreConsistent, Whole
  <2> QED
    BY <2>1, <2>3, <2>4, <2>5, <2>7 DEF StoreOK, Whole
<1>9. CASE Adopt
  <2>1. crt \in Certs /\ crt.ca = run.ca
    <3>1. CAs \subseteq 1 .. MaxCAs
      BY TrustAssumption DEF CadirOK, CAs
    <3>2. crt \in [ca : CAs, notAfter : Nat] /\ crt.ca = run.ca
      BY <1>9 DEF Adopt, CadirOK, Verify
    <3> QED
      BY <3>1, <3>2 DEF Certs
  <2>2. /\ ssl' = [ssl EXCEPT !["cert"] = Torn] /\ UNCHANGED history
        /\ run' \in Record /\ run.pc \in {"get", "poll"} /\ run'.pc = "writeCert"
        /\ run'.cfg = run.cfg /\ run'.ca = run.ca /\ run'.got = crt
    BY <1>0, <1>9, <2>1 DEF Adopt, Record
  <2>3. AgentType'
    BY <1>0, <2>2 DEF AgentType, Certs
  <2>4. RunOK'
    BY <1>0, <2>1, <2>2 DEF RunOK, Satisfies, Whole, AgentType, Certs
  <2> QED
    BY <2>2, <2>3, <2>4 DEF StoreOK, StoreConsistent, AgentType, Whole
<1>10. CASE Interrupt
  <2>1. run' = Idle /\ run' \in Record /\ UNCHANGED <<ssl, history>>
    BY <1>10 DEF Interrupt, Idle, Running, Record
  <2>2. AgentType'
    BY <1>0, <2>1 DEF AgentType, Certs
  <2>3. RunOK'
    BY <2>1 DEF RunOK, Idle, Running
  <2> QED
    BY <2>1, <2>2, <2>3 DEF StoreOK, StoreConsistent, Whole
<1> QED
  BY <1>2, <1>3, <1>5, <1>6, <1>7, <1>8, <1>9, <1>10

----------------------------------------------------------------------------
(* The invariant. *)

\* A new CA, and a node that has nothing yet.
LEMMA InitIInv == Init => IInv
<1> SUFFICES ASSUME Init PROVE IInv
  OBVIOUS
<1>1. cas \in Seq(Nat) /\ Len(cas) = 1
  BY TrustAssumption DEF Init
<1>2. CadirOK
  BY <1>1, TrustAssumption DEF Init, CadirOK, LeafWithinIssuer
<1>3. run \in Record /\ run.pc = "idle"
  BY DEF Init, Idle, Running, Record, PCs
<1>4. ssl \in [{"ca", "key", "cert"} -> {Missing}]
  BY DEF Init
<1>5. AgentType
  BY <1>3, <1>4 DEF Init, AgentType
<1>6. RunOK /\ StoreOK
  BY <1>3, <1>4 DEF RunOK, StoreOK, StoreConsistent, Whole, HasCA, HasKey
<1>7. pend \in BOOLEAN
  BY DEF Init
<1> QED
  BY <1>2, <1>5, <1>6, <1>7 DEF IInv

\* Only the CA's side leaves the ssldir to itself.
LEMMA AgentStep ==
  ASSUME IInv, [Next]_vars
  PROVE  AgentType' /\ RunOK' /\ StoreOK'
<1> USE DEF IInv
<1>1. Grows
  BY CadirStep
<1>2. CASE \/ Tick \/ Stop \/ Rebuild \/ Clean \/ UNCHANGED vars
           \/ \E ttl \in TTLs : Sign(ttl) \/ \E names \in NameSets : Start(names, ttl)
  <2>1. UNCHANGED <<ssl, history>> /\ (run' = run \/ run' = [run EXCEPT !.conn = FALSE])
    BY <1>2 DEF Tick, Stop, Rebuild, Clean, Sign, Start, vars, history
  <2> QED
    BY <1>1, <2>1, AgentKept
<1>3. ASSUME NEW cfg \in Configs, Enroll(cfg) PROVE AgentType' /\ RunOK' /\ StoreOK'
  BY <1>3, StartsStep DEF Enroll
<1>4. ASSUME NEW host \in Hosts, Bootstrap(host) \/ Load(host)
      PROVE  AgentType' /\ RunOK' /\ StoreOK'
  <2>1. CommandConfig(host, TRUE) \in Configs /\ CommandConfig(host, FALSE) \in Configs
    BY DEF CommandConfig, Configs
  <2> QED
    BY <1>4, <2>1, StartsStep DEF Bootstrap, Load, Enroll
<1>5. CASE \/ FinishWrite \/ StoredCA \/ PinnedCA \/ FetchCA \/ FetchCRL \/ LoadKey
           \/ CreateKey \/ Adopt \/ MissCert \/ PutCSR \/ Interrupt
  BY <1>5, RunStep
<1> QED
  BY <1>2, <1>3, <1>4, <1>5 DEF Next

\* Every step of the operator, the server and the agent keeps the invariant.
LEMMA IInvStep == IInv /\ [Next]_vars => IInv'
<1> SUFFICES ASSUME IInv, [Next]_vars PROVE IInv'
  OBVIOUS
<1>1. pend' \in BOOLEAN
  BY Zenon
     DEF IInv, Next, Tick, Stop, Rebuild, Clean, Sign, Start, Enroll, Bootstrap, Load,
         LoadIdentity, RejectStore, BeginEnroll, Starts, FinishWrite, Finish, StoredCA, PinnedCA,
         FetchCA, FetchCRL, LoadKey, CreateKey, Adopt, MissCert, PutCSR, Interrupt, OfAgent, vars
<1> QED
  BY <1>1, CadirStep, AgentStep DEF IInv

\* The invariant, of which the next theorems name the parts.
THEOREM TrustInvariant == Spec => []IInv
  BY InitIInv, IInvStep, PTL DEF Spec

\* The variables keep their types, and a running server has a pair of its own CA.
THEOREM TypeCorrect == Spec => []TypeOK
<1>1. IInv => TypeOK
  <2> SUFFICES ASSUME IInv PROVE TypeOK
    OBVIOUS
  <2> USE DEF IInv
  <2>1. crt \in Certs \cup {None}
    <3>1. CAs \subseteq 1 .. MaxCAs
      BY TrustAssumption DEF CadirOK, CAs
    <3> QED
      BY <3>1 DEF CadirOK, Certs
  <2>2. /\ run.pc \in PCs /\ run.cfg \in Configs \cup {None} /\ run.ca \in CAs \cup {None}
        /\ run.got \in Certs \cup {None}
    BY DEF AgentType, Record
  <2>3. run.conn \in BOOLEAN
    BY DEF AgentType, Record
  <2> QED
    BY <2>1, <2>2, <2>3 DEF TypeOK, CadirOK, AgentType, PCs
<1> QED
  BY <1>1, TrustInvariant, PTL

\* No CA is trusted or stored that was not pinned, or fetched with leave to.
THEOREM NoSilentTrust == Spec => []TrustIsDeclared
<1>1. IInv => TrustIsDeclared
  BY DEF IInv, RunOK, StoreOK, TrustIsDeclared
<1> QED
  BY <1>1, TrustInvariant, PTL

\* A stored certificate is the stored CA's, with its key beside it, unless a run overlooked
\* it and then the CA or the key as well.
THEOREM StoreIsConsistent == Spec => []StoreConsistent
<1>1. IInv => StoreConsistent
  BY DEF IInv, StoreOK
<1> QED
  BY <1>1, TrustInvariant, PTL

\* No leaf outlives its issuer.
THEOREM LeavesAreClamped == Spec => []LeafWithinIssuer
<1>1. IInv => LeafWithinIssuer
  BY DEF IInv, CadirOK
<1> QED
  BY <1>1, TrustInvariant, PTL

\* An Identity of the present CA is good for as long as the two leaves are.
THEOREM IdentitiesWork == Spec => []IdentityWorks
<1>1. IInv => IdentityWorks
  <2> SUFFICES ASSUME IInv, run.pc = "done", run.ca = Current, now <= run.got.notAfter,
                      up # None, run.cfg.host \in leaf.names, now <= leaf.notAfter
               PROVE  MayAdminister
    BY DEF IdentityWorks
  <2>1. leaf # None /\ leaf.ca = Current /\ leaf.notAfter \in Nat /\ leaf.notAfter <= cas[Current]
    BY DEF IInv, CadirOK, LeafWithinIssuer
  <2>2. now \in Nat /\ cas[Current] \in Nat
    BY DEF IInv, CadirOK, Current
  <2>3. now <= cas[Current]
    BY <2>1, <2>2
  <2>4. run.got.ca = Current
    BY DEF IInv, RunOK
  <2> QED
    BY <2>1, <2>3, <2>4 DEF MayAdminister, CanConnect, Admits, Verify
<1> QED
  BY <1>1, TrustInvariant, PTL

----------------------------------------------------------------------------
(* Action properties. *)

\* No step overwrites a whole ca.pem, or a whole certificate, that the run has seen.
LEMMA SeenFilesStay ==
  ASSUME IInv, [Next]_vars
  PROVE  /\ Whole("ca") /\ "ca" \notin unseen' => ssl'["ca"] = ssl["ca"]
         /\ Whole("cert") /\ "cert" \notin unseen => ssl'["cert"] = ssl["cert"]
<1> USE DEF IInv
<1>1. CASE FinishWrite
  <2>1. CASE run.pc = "writeCA" /\ Finish("ca", run.ca, "crl")
    BY <2>1 DEF Finish, RunOK, AgentType, Whole
  <2>2. CASE run.pc = "writeKey" /\ Finish("key", "key", "get")
    BY <2>2 DEF Finish, AgentType
  <2>3. CASE run.pc = "writeCert" /\ Finish("cert", run.got, "done")
    BY <2>3 DEF Finish, RunOK, AgentType
  <2> QED
    BY <1>1, <2>1, <2>2, <2>3 DEF FinishWrite
<1>2. CASE PinnedCA \/ FetchCA
  <2>1. Without("ca") /\ ssl' = [ssl EXCEPT !["ca"] = Torn]
    BY <1>2 DEF PinnedCA, FetchCA, Accept
  <2>2. Whole("ca") => "ca" \in unseen'
    BY <2>1 DEF Without
  <2> QED
    BY <2>1, <2>2 DEF AgentType
<1>3. CASE CreateKey
  BY <1>3 DEF CreateKey, AgentType
<1>4. CASE Adopt
  BY <1>4 DEF Adopt, RunOK, AgentType
<1> QED
  BY <1>1, <1>2, <1>3, <1>4
     DEF Next, Tick, Stop, Rebuild, Clean, Sign, Start, Enroll, Bootstrap, Load, LoadIdentity,
         RejectStore, BeginEnroll, Starts, StoredCA, FetchCRL, LoadKey, MissCert, PutCSR,
         Interrupt, vars

\* The CA a node stored first is its CA for good, but for a failed read of ca.pem.
THEOREM FirstUseStays == Spec => FirstUseIsForGood
<1>1. IInv /\ [Next]_vars => (Whole("ca") /\ "ca" \notin unseen' => ssl'["ca"] = ssl["ca"])
  BY SeenFilesStay
<1> QED
  BY <1>1, TrustInvariant, PTL DEF Spec, FirstUseIsForGood

\* A certificate a node stored is never replaced, unless a run failed to see it.
THEOREM NoReenrollment == Spec => NoSilentReenroll
<1>1. IInv /\ [Next]_vars
      => (Whole("cert") /\ "cert" \notin unseen => ssl'["cert"] = ssl["cert"])
  BY SeenFilesStay
<1> QED
  BY <1>1, TrustInvariant, PTL DEF Spec, NoSilentReenroll
============================================================================
