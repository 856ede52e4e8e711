--------------------------- MODULE IssuingProofs ---------------------------
(***************************************************************************)
(* Proofs about Issuing, for every set of texts, OIDs, keys and values.      *)
(***************************************************************************)
EXTENDS Issuing, TLAPS

\* Where the request came from: from the agent's configuration, or from elsewhere.
CSRIsBuilt ==
    /\ pc = "config" => conf \in Config /\ csr = None
    /\ pc # "config" => csr \in Request
    /\ by # "server" /\ pc # "config" => csr.cn = Certname
    /\ conf # None /\ pc # "config" /\ by # "server" =>
          /\ conf \in Config
          /\ BuildOK(Requested)
          /\ csr.exts = BuildExtensions(Requested)

\* What the policy was shown is a description of that request.
ViewIsOfCSR == view # None => /\ pc \in {"pending", "signed"}
                              /\ by # "server"
                              /\ Describable(csr)
                              /\ view = PolicyInput(csr)

\* Where the certificate came from.
LeafIsSigned ==
    /\ pc = "signed" <=> by # "nobody"
    /\ by \in {"nobody", "policy", "autosign", "operator", "server"}
    /\ by = "nobody" => leaf = None
    /\ by \in {"policy", "autosign"} => leaf = SignCSR(csr, allowAltSAN, {})
    /\ by = "operator" => \E alts \in OperatorAlts : leaf = SignCSR(csr, allowAltSAN, alts)
    /\ by = "policy" => view # None
    /\ by = "server" =>
          /\ conf \in Config
          /\ \E n \in Hostnames(conf.alts) :
                csr = CreateCSR(n, Hostnames(conf.alts), [o \in OIDs |-> None])
          /\ leaf = SignCSR(csr, TRUE, {})

\* The inductive invariant: how the three were made from one another.
IInv == CSRIsBuilt /\ ViewIsOfCSR /\ LeafIsSigned /\ allowAltSAN \in BOOLEAN

----------------------------------------------------------------------------
(* Names. *)

\* Names that can stand in a certificate.
Proper == {x \in Text : x # Blank /\ Trim[x] = x}

\* Trimming leaves proper names, and proper names as they are.
LEMMA CleanIsProper ==
  ASSUME NEW xs \in SUBSET Text
  PROVE  /\ Clean(xs) \subseteq Proper
         /\ xs \subseteq Proper => Clean(xs) = xs
  BY IssuingAssumption DEF Clean, Proper

\* Addresses and the names given as constants are proper.
LEMMA GivenNamesAreProper == IPText \subseteq Proper /\ Certname \in Proper /\ Host \in Proper
  BY IssuingAssumption DEF Proper

\* The names of a server are proper, and there is one.
LEMMA HostnamesAreProper ==
  ASSUME NEW xs \in SUBSET Text
  PROVE  Hostnames(xs) \subseteq Proper /\ Hostnames(xs) # {}
  BY CleanIsProper, GivenNamesAreProper DEF Hostnames

----------------------------------------------------------------------------
(* Requests and certificates. *)

\* A CSR made by CreateCSR is one.
LEMMA CreateCSRType ==
  ASSUME NEW n \in Text, NEW alts \in SUBSET Text, NEW exts \in [OIDs -> Ext \cup {None}]
  PROVE  CreateCSR(n, alts, exts) \in Request
<1> DEFINE names == IF alts = {} THEN {} ELSE Clean(alts \cup {n})
<1>1. names \subseteq Text
  BY CleanIsProper DEF Proper
<1> HIDE DEF names
<1> QED
  BY <1>1 DEF CreateCSR, Request, names

\* The extensions built from a configuration are extensions.
LEMMA BuildExtensionsType ==
  ASSUME NEW m \in [Keys -> Vals \cup {None}]
  PROVE  BuildExtensions(m) \in [OIDs -> Ext \cup {None}]
<1> SUFFICES ASSUME NEW o \in OIDs PROVE BuildExtensions(m)[o] \in Ext \cup {None}
  BY DEF BuildExtensions
<1>1. CASE \E k \in Keys : m[k] # None /\ OidOf[k] = o
  <2> DEFINE k == CHOOSE k \in Keys : m[k] # None /\ OidOf[k] = o
  <2>1. k \in Keys /\ m[k] # None
    BY <1>1
  <2>2. BuildExtensions(m)[o] = [val |-> EncodeValue(m[k]), critical |-> FALSE]
    BY <1>1 DEF BuildExtensions
  <2> HIDE DEF k
  <2> QED
    BY <2>1, <2>2 DEF EncodeValue, Ext, DER
<1>2. CASE ~ \E k \in Keys : m[k] # None /\ OidOf[k] = o
  BY <1>2 DEF BuildExtensions
<1> QED
  BY <1>1, <1>2

\* The names of a leaf and the extensions it takes over.
LEMMA SignCSRParts ==
  ASSUME NEW c \in Request, NEW allow, NEW alts \in SUBSET Text
  PROVE  LET l == SignCSR(c, allow, alts)
             granted == Clean(alts \cup (IF allow THEN c.dns ELSE {}))
             addrs == IF allow THEN c.ips ELSE {}
         IN  /\ l.exts = AllowedFromCSR(c.exts)
             /\ l.ips \subseteq IPText
             /\ l.dns \subseteq Proper \ IPText
             /\ l.dns \cup l.ips = IF granted \cup addrs = {} THEN {}
                                    ELSE granted \cup addrs \cup Clean({c.cn})
<1> DEFINE granted == Clean(alts \cup (IF allow THEN c.dns ELSE {}))
           addrs == IF allow THEN c.ips ELSE {}
           names == IF granted \cup addrs = {} THEN {} ELSE granted \cup Clean({c.cn})
           l == SignCSR(c, allow, alts)
<1>1. c.cn \in Text /\ c.dns \subseteq Text /\ c.ips \subseteq IPText
  BY DEF Request
<1>2. granted \subseteq Proper /\ Clean({c.cn}) \subseteq Proper /\ addrs \subseteq IPText
  BY <1>1, CleanIsProper
<1>3. l = [dns |-> names \ IPText, ips |-> (names \cap IPText) \cup addrs,
           exts |-> AllowedFromCSR(c.exts)]
  BY DEF SignCSR
<1> HIDE DEF granted, addrs, l
<1>4. l.dns = names \ IPText /\ l.ips = (names \cap IPText) \cup addrs
        /\ l.exts = AllowedFromCSR(c.exts)
  BY <1>3
<1> QED
  BY <1>2, <1>4 DEF granted, addrs, l

\* A Puppet extension is taken over, whatever else is not.
LEMMA AllowedParts ==
  ASSUME NEW exts \in [OIDs -> Ext \cup {None}]
  PROVE  /\ AllowedFromCSR(exts) \in [OIDs -> Ext \cup {None}]
         /\ \A o \in OIDs : AllowedFromCSR(exts)[o] # None <=> o \in Puppet /\ exts[o] # None
         /\ \A o \in Puppet : exts[o] # None => AllowedFromCSR(exts)[o].val = exts[o].val
<1> SUFFICES ASSUME NEW o \in OIDs
             PROVE  /\ AllowedFromCSR(exts)[o] \in Ext \cup {None}
                    /\ AllowedFromCSR(exts)[o] # None <=> o \in Puppet /\ exts[o] # None
                    /\ o \in Puppet /\ exts[o] # None => AllowedFromCSR(exts)[o].val = exts[o].val
  BY IssuingAssumption DEF AllowedFromCSR
<1>1. CASE o \in Puppet /\ exts[o] # None
  <2>1. exts[o] \in Ext
    BY <1>1
  <2>2. [val |-> exts[o].val, critical |-> FALSE] \in Ext
    BY <2>1 DEF Ext
  <2> QED
    BY <1>1, <2>2, IssuingAssumption DEF AllowedFromCSR
<1>2. CASE ~ (o \in Puppet /\ exts[o] # None)
  BY <1>2 DEF AllowedFromCSR
<1> QED
  BY <1>1, <1>2

\* What is reported of a leaf's extensions is what would be reported of the CSR's.
LEMMA NamedIsKept ==
  ASSUME NEW exts \in [OIDs -> Ext \cup {None}], NEW arc \in SUBSET Puppet
  PROVE  Named(AllowedFromCSR(exts), arc) = Named(exts, arc)
<1> DEFINE kept == AllowedFromCSR(exts)
<1>1. /\ \A o \in Puppet : kept[o] # None <=> exts[o] # None
      /\ \A o \in Puppet : exts[o] # None => kept[o].val = exts[o].val
  BY AllowedParts, IssuingAssumption
<1> HIDE DEF kept
<1> SUFFICES ASSUME NEW k \in Keys PROVE Named(kept, arc)[k] = Named(exts, arc)[k]
  BY DEF Named, kept
<1>2. CASE \E o \in arc : exts[o] # None /\ NameFor[o] = k
  <2>1. PICK o \in arc : exts[o] # None /\ NameFor[o] = k
    BY <1>2
  <2>2. OidOf[k] = o /\ o \in Puppet
    BY <2>1, IssuingAssumption
  <2> QED
    BY <1>1, <2>1, <2>2 DEF Named
<1>3. CASE ~ \E o \in arc : exts[o] # None /\ NameFor[o] = k
  BY <1>1, <1>3 DEF Named
<1> QED
  BY <1>2, <1>3

----------------------------------------------------------------------------
(* The invariant. *)

\* The merged extension requests are a map from keys to values.
LEMMA RequestedType == conf \in Config => Requested \in [Keys -> Vals \cup {None}]
  BY IssuingAssumption DEF Config, Requested, CollectExtensions

\* A request starts with a configuration, or as a CSR.
LEMMA InitIInv == Init => IInv
<1> SUFFICES ASSUME Init PROVE IInv
  OBVIOUS
<1>1. CASE conf \in Config /\ csr = None /\ pc = "config"
  BY <1>1 DEF Init, IInv, CSRIsBuilt, ViewIsOfCSR, LeafIsSigned
<1>2. CASE conf = None /\ csr \in {c \in Request : c.cn = Certname} /\ pc = "csr"
  BY <1>2 DEF Init, IInv, CSRIsBuilt, ViewIsOfCSR, LeafIsSigned
<1> QED
  BY <1>1, <1>2 DEF Init

\* Every step keeps the links between configuration, request, view and certificate.
LEMMA IInvStep == IInv /\ [Next]_vars => IInv'
<1> SUFFICES ASSUME IInv, [Next]_vars PROVE IInv'
  OBVIOUS
<1> USE DEF IInv
<1>1. CASE SubmitCSR
  <2>1. conf \in Config /\ BuildOK(Requested) /\ by = "nobody" /\ leaf = None /\ view = None
    BY <1>1 DEF SubmitCSR, CSRIsBuilt, LeafIsSigned, ViewIsOfCSR
  <2>2. csr' \in Request
    BY <1>1, <2>1, RequestedType, BuildExtensionsType, CreateCSRType, IssuingAssumption
       DEF SubmitCSR, Config
  <2>3. csr'.cn = Certname /\ csr'.exts = BuildExtensions(Requested)
    BY <1>1 DEF SubmitCSR, CreateCSR
  <2>4. CSRIsBuilt'
    BY <1>1, <2>1, <2>2, <2>3 DEF SubmitCSR, CSRIsBuilt, Requested
  <2> QED
    BY <1>1, <2>1, <2>4 DEF SubmitCSR, ViewIsOfCSR, LeafIsSigned
<1>2. CASE AskPolicy
  <2>1. CSRIsBuilt'
    BY <1>2 DEF AskPolicy, CSRIsBuilt, Requested
  <2> QED
    BY <1>2, <2>1 DEF AskPolicy, LeafIsSigned, ViewIsOfCSR
<1>3. CASE RefuseCSR \/ StoreCSR
  <2>1. CSRIsBuilt'
    BY <1>3 DEF RefuseCSR, StoreCSR, CSRIsBuilt, Requested
  <2>2. view = None /\ by = "nobody"
    BY <1>3 DEF RefuseCSR, StoreCSR, ViewIsOfCSR, LeafIsSigned
  <2> QED
    BY <1>3, <2>1, <2>2 DEF RefuseCSR, StoreCSR, LeafIsSigned, ViewIsOfCSR
<1>4. CASE AutosignCSR \/ SignApproved \/ \E alts \in OperatorAlts : Sign(alts)
  <2>1. CSRIsBuilt'
    BY <1>4 DEF AutosignCSR, SignApproved, Sign, CSRIsBuilt, LeafIsSigned, Requested
  <2>2. ViewIsOfCSR'
    BY <1>4 DEF AutosignCSR, SignApproved, Sign, ViewIsOfCSR
  <2>3. LeafIsSigned'
    BY <1>4 DEF AutosignCSR, SignApproved, Sign, LeafIsSigned
  <2> QED
    BY <1>4, <2>1, <2>2, <2>3 DEF AutosignCSR, SignApproved, Sign
<1>5. CASE \E n \in Text : ServerTLSCert(n)
  <2>1. PICK n \in Text : ServerTLSCert(n)
    BY <1>5
  <2>2. conf \in Config /\ view = None
    BY <2>1 DEF ServerTLSCert, CSRIsBuilt, ViewIsOfCSR
  <2>3. csr' \in Request
    <3>1. Hostnames(conf.alts) \in SUBSET Text
      BY <2>2, HostnamesAreProper DEF Config, Proper
    <3> QED
      BY <2>1, <3>1, CreateCSRType DEF ServerTLSCert
  <2>4. CSRIsBuilt'
    BY <2>1, <2>3 DEF ServerTLSCert, CSRIsBuilt
  <2> QED
    BY <2>1, <2>2, <2>4 DEF ServerTLSCert, ViewIsOfCSR, LeafIsSigned
<1>6. CASE UNCHANGED vars
  BY <1>6 DEF vars, CSRIsBuilt, ViewIsOfCSR, LeafIsSigned, Requested
<1> QED
  BY <1>1, <1>2, <1>3, <1>4, <1>5, <1>6 DEF Next

\* The links hold on every way to a certificate.
THEOREM IssuingInvariant == Spec => []IInv
  BY InitIInv, IInvStep, PTL DEF Spec

\* Every certificate is SignCSR of its request, for some granted names.
LEMMA LeafParts ==
  ASSUME IInv, by # "nobody"
  PROVE  /\ csr \in Request
         /\ \E allow \in BOOLEAN, alts \in SUBSET Text :
               /\ leaf = SignCSR(csr, allow, alts)
               /\ by # "server" => allow = allowAltSAN
               /\ by # "operator" => alts = {}
<1>1. csr \in Request
  BY DEF IInv, CSRIsBuilt, LeafIsSigned
<1>2. CASE by \in {"policy", "autosign"}
  <2>1. leaf = SignCSR(csr, allowAltSAN, {}) /\ allowAltSAN \in BOOLEAN
    BY <1>2 DEF IInv, LeafIsSigned
  <2> QED
    BY <1>1, <1>2, <2>1
<1>3. CASE by = "operator"
  BY <1>1, <1>3, IssuingAssumption DEF IInv, LeafIsSigned
<1>4. CASE by = "server"
  BY <1>1, <1>4 DEF IInv, LeafIsSigned
<1> QED
  BY <1>2, <1>3, <1>4 DEF IInv, LeafIsSigned

----------------------------------------------------------------------------
(* The properties, each from the invariant. *)

\* A certificate's names are proper, and DNS names and addresses are told apart.
THEOREM TypeCorrect == Spec => []TypeOK
<1>1. IInv => TypeOK
  <2> SUFFICES ASSUME IInv PROVE TypeOK
    OBVIOUS
  <2>1. csr # None => csr \in Request
    BY DEF IInv, CSRIsBuilt
  <2>2. ASSUME leaf # None
        PROVE  /\ leaf.ips \subseteq IPText
               /\ leaf.dns \subseteq {x \in Text \ IPText : x # Blank /\ Trim[x] = x}
               /\ leaf.exts \in [OIDs -> Ext \cup {None}]
    <3>1. by # "nobody"
      BY <2>2 DEF IInv, LeafIsSigned
    <3>2. PICK allow \in BOOLEAN, alts \in SUBSET Text : leaf = SignCSR(csr, allow, alts)
      BY <3>1, LeafParts
    <3>3. csr \in Request /\ csr.exts \in [OIDs -> Ext \cup {None}]
      BY <3>1, LeafParts DEF Request
    <3>4. /\ leaf.ips \subseteq IPText
          /\ leaf.dns \subseteq Proper \ IPText
          /\ leaf.exts = AllowedFromCSR(csr.exts)
      BY <3>2, <3>3, SignCSRParts
    <3> QED
      BY <3>3, <3>4, AllowedParts DEF Proper
  <2> QED
    BY <2>1, <2>2 DEF TypeOK
<1> QED
  BY <1>1, IssuingInvariant, PTL

\* What the operator is shown of the authorization extensions is what is granted.
THEOREM OperatorInformed == Spec => []OperatorSawWhatIsIssued
<1>1. IInv => OperatorSawWhatIsIssued
  <2> SUFFICES ASSUME IInv, leaf # None
               PROVE  AuthExtensions(leaf.exts) = AuthExtensions(csr.exts)
    BY DEF OperatorSawWhatIsIssued
  <2>1. by # "nobody"
    BY DEF IInv, LeafIsSigned
  <2>2. PICK allow \in BOOLEAN, alts \in SUBSET Text : leaf = SignCSR(csr, allow, alts)
    BY <2>1, LeafParts
  <2>3. csr \in Request /\ csr.exts \in [OIDs -> Ext \cup {None}]
    BY <2>1, LeafParts DEF Request
  <2>4. leaf.exts = AllowedFromCSR(csr.exts)
    BY <2>2, <2>3, SignCSRParts
  <2> QED
    BY <2>3, <2>4, NamedIsKept, IssuingAssumption DEF AuthExtensions
<1> QED
  BY <1>1, IssuingInvariant, PTL

\* A CSR that can be described is described in full, as JSON writes it.
LEMMA ViewIsShown ==
  ASSUME NEW c \in Request, Describable(c)
  PROVE  PolicyInput(c).requests = Shown(Describe(c.exts))
<1> SUFFICES ASSUME NEW k \in Keys
             PROVE  PolicyInput(c).requests[k] = Shown(Describe(c.exts))[k]
  BY DEF PolicyInput, Shown
<1>1. \A o \in Puppet : c.exts[o] # None => c.exts[o].val.tag = "string"
  BY IssuingAssumption DEF Describable
<1>2. CASE \E o \in Puppet : c.exts[o] # None /\ NameFor[o] = k
  <2>1. PICK o \in Puppet : c.exts[o] # None /\ NameFor[o] = k
    BY <1>2
  <2>2. OidOf[k] = o /\ c.exts[o].val.tag = "string"
    BY <1>1, <2>1, IssuingAssumption
  <2>3. PolicyInput(c).requests[k] = Json[c.exts[o].val.s]
    BY <2>1, <2>2 DEF PolicyInput
  <2>4. Describe(c.exts)[k] = c.exts[o].val.s
    BY <2>1, <2>2 DEF Describe, Named, DecodeValue
  <2>5. c.exts[o].val.s \in Vals
    <3>1. c.exts[o] \in Ext
      BY <2>1, IssuingAssumption DEF Request
    <3> QED
      BY <3>1 DEF Ext, DER
  <2>6. Shown(Describe(c.exts))[k] = Json[c.exts[o].val.s]
    BY <2>4, <2>5, IssuingAssumption DEF Shown, JsonValue
  <2> QED
    BY <2>3, <2>6
<1>3. CASE ~ \E o \in Puppet : c.exts[o] # None /\ NameFor[o] = k
  BY <1>3 DEF PolicyInput, Describe, Named, Shown
<1> QED
  BY <1>2, <1>3

\* A value that is UTF-8 is shown as it is.
LEMMA TextIsShownExactly ==
  ASSUME NEW m \in [Keys -> Vals \cup {None}],
         \A k \in Keys : m[k] # None => Json[m[k]] = m[k]
  PROVE  Shown(m) = m
  BY IssuingAssumption DEF Shown, JsonValue

\* What the policy executable approves is what is then issued, as JSON shows it, and
\* nothing more is.
THEOREM PolicyInformed == Spec => []PolicySawWhatIsIssued
<1>1. IInv => PolicySawWhatIsIssued
  <2> SUFFICES ASSUME IInv, by = "policy"
               PROVE  /\ view.requests = Shown(Describe(leaf.exts))
                      /\ \A o \in OIDs : leaf.exts[o] # None => o \in Puppet
                      /\ SANs \subseteq Clean(view.dns) \cup view.ips \cup {Certname}
    BY DEF PolicySawWhatIsIssued
  <2>1. /\ csr \in Request /\ csr.cn = Certname
        /\ leaf = SignCSR(csr, allowAltSAN, {}) /\ allowAltSAN \in BOOLEAN
        /\ Describable(csr) /\ view = PolicyInput(csr)
    BY DEF IInv, CSRIsBuilt, ViewIsOfCSR, LeafIsSigned
  <2>2. csr.exts \in [OIDs -> Ext \cup {None}] /\ csr.dns \in SUBSET Text
    BY <2>1 DEF Request
  <2>3. leaf.exts = AllowedFromCSR(csr.exts)
    BY <2>1, SignCSRParts
  <2>4. view.requests = Shown(Describe(leaf.exts))
    BY <2>1, <2>2, <2>3, NamedIsKept, ViewIsShown DEF Describe
  <2>5. \A o \in OIDs : leaf.exts[o] # None => o \in Puppet
    BY <2>2, <2>3, AllowedParts
  <2>6. view.dns = csr.dns /\ view.ips = csr.ips
    BY <2>1 DEF PolicyInput
  <2>7. Clean({Certname}) = {Certname}
    BY CleanIsProper, GivenNamesAreProper, IssuingAssumption
  <2>8. SANs \subseteq Clean({} \cup (IF allowAltSAN THEN csr.dns ELSE {}))
                        \cup (IF allowAltSAN THEN csr.ips ELSE {}) \cup {Certname}
    BY <2>1, <2>7, SignCSRParts DEF SANs
  <2>9. Clean({} \cup (IF allowAltSAN THEN csr.dns ELSE {})) \subseteq Clean(csr.dns)
    BY DEF Clean
  <2> QED
    BY <2>4, <2>5, <2>6, <2>8, <2>9
<1> QED
  BY <1>1, IssuingInvariant, PTL

\* An extension configured under one of its keys is reported with its value.
LEMMA FactIsReported ==
  ASSUME NEW m \in [Keys -> Vals \cup {None}], BuildOK(m),
         NEW k \in Keys, m[k] # None, OidOf[k] \in Puppet
  PROVE  Describe(BuildExtensions(m))[NameFor[OidOf[k]]] = m[k]
<1> DEFINE o == OidOf[k]
           exts == BuildExtensions(m)
<1>1. (CHOOSE l \in Keys : m[l] # None /\ OidOf[l] = o) = k
  BY DEF BuildOK
<1>2. o \in OIDs /\ NameFor[o] \in Keys /\ OidOf[NameFor[o]] = o
  BY IssuingAssumption
<1>3. exts[o] = [val |-> EncodeValue(m[k]), critical |-> FALSE]
  BY <1>1, <1>2 DEF BuildExtensions
<1>4. exts[o] # None
  <2>1. m[k] \in Vals
    OBVIOUS
  <2>2. EncodeValue(m[k]) \in DER
    BY <2>1 DEF EncodeValue, DER
  <2>3. [val |-> EncodeValue(m[k]), critical |-> FALSE] \in Ext
    BY <2>2 DEF Ext
  <2> QED
    BY <1>3, <2>3, IssuingAssumption
<1>5. DecodeValue(exts[o].val) = m[k]
  BY <1>3 DEF DecodeValue, EncodeValue
<1> HIDE DEF o, exts
<1>6. Describe(exts)[NameFor[o]] = DecodeValue(exts[o].val)
  <2>1. o \in Puppet
    BY DEF o
  <2> QED
    BY <1>2, <1>4, <2>1 DEF Describe, Named
<1> QED
  BY <1>5, <1>6 DEF o, exts

\* A trusted fact of the configuration arrives, and the flags win over the file.
THEOREM FactsAreIssued == Spec => []FactsArrive
<1>1. IInv => FactsArrive
  <2> SUFFICES ASSUME IInv, leaf # None, by # "server", conf # None,
                      NEW k \in Keys, OidOf[k] \in Puppet
               PROVE  LET arrived == Describe(leaf.exts)[NameFor[OidOf[k]]] IN
                      /\ conf.flags[k] # None => arrived = conf.flags[k]
                      /\ conf.file[k] # None /\ conf.flags[k] = None => arrived = conf.file[k]
    BY DEF FactsArrive
  <2>1. by # "nobody" /\ pc = "signed"
    BY DEF IInv, LeafIsSigned
  <2>2. conf \in Config /\ BuildOK(Requested) /\ csr.exts = BuildExtensions(Requested)
    BY <2>1 DEF IInv, CSRIsBuilt
  <2>3. PICK allow \in BOOLEAN, alts \in SUBSET Text : leaf = SignCSR(csr, allow, alts)
    BY <2>1, LeafParts
  <2>4. csr \in Request /\ csr.exts \in [OIDs -> Ext \cup {None}]
    BY <2>1, LeafParts DEF Request
  <2>5. leaf.exts = AllowedFromCSR(csr.exts)
    BY <2>3, <2>4, SignCSRParts
  <2>6. Describe(leaf.exts) = Describe(BuildExtensions(Requested))
    BY <2>2, <2>4, <2>5, NamedIsKept DEF Describe
  <2>7. Requested \in [Keys -> Vals \cup {None}]
    BY <2>2, RequestedType
  <2>8. Requested[k] # None => Describe(leaf.exts)[NameFor[OidOf[k]]] = Requested[k]
    BY <2>2, <2>6, <2>7, FactIsReported
  <2>9. Requested[k] = IF conf.flags[k] # None THEN conf.flags[k] ELSE conf.file[k]
    BY DEF Requested, CollectExtensions
  <2> QED
    BY <2>8, <2>9
<1> QED
  BY <1>1, IssuingInvariant, PTL

\* Nobody gets an alternative name that was not granted.
THEOREM NamesAreGranted == Spec => []SANsAreGranted
<1>1. IInv => SANsAreGranted
  <2> SUFFICES ASSUME IInv, leaf # None, by # "server"
               PROVE  /\ allowAltSAN \/ by = "operator" \/ SANs = {}
                      /\ by # "operator" /\ SANs # {} => csr.dns \cup csr.ips # {}
                      /\ SANs # {} => Certname \in SANs
    BY DEF SANsAreGranted
  <2>1. by # "nobody"
    BY DEF IInv, LeafIsSigned
  <2>2. PICK allow \in BOOLEAN, alts \in SUBSET Text :
           leaf = SignCSR(csr, allow, alts) /\ allow = allowAltSAN /\ (by # "operator" => alts = {})
    BY <2>1, LeafParts
  <2>3. csr \in Request /\ csr.cn = Certname /\ csr.dns \in SUBSET Text
    BY <2>1, LeafParts DEF Request, IInv, CSRIsBuilt, LeafIsSigned
  <2> DEFINE granted == Clean(alts \cup (IF allow THEN csr.dns ELSE {}))
             addrs == IF allow THEN csr.ips ELSE {}
  <2>4. SANs = IF granted \cup addrs = {} THEN {} ELSE granted \cup addrs \cup Clean({Certname})
    BY <2>2, <2>3, SignCSRParts DEF SANs
  <2>5. Clean({Certname}) = {Certname}
    BY CleanIsProper, GivenNamesAreProper, IssuingAssumption
  <2>6. by # "operator" /\ granted \cup addrs # {} => allow /\ csr.dns \cup csr.ips # {}
    BY <2>2 DEF Clean
  <2> HIDE DEF granted, addrs
  <2> QED
    BY <2>2, <2>4, <2>5, <2>6
<1> QED
  BY <1>1, IssuingInvariant, PTL

\* The server's own leaf covers its host names, and no others.
THEOREM HostsAreCovered == Spec => []ServerLeafCoversHosts
<1>1. IInv => ServerLeafCoversHosts
  <2> SUFFICES ASSUME IInv, by = "server" PROVE Hostnames(conf.alts) = SANs
    BY DEF ServerLeafCoversHosts
  <2> DEFINE hosts == Hostnames(conf.alts)
  <2>1. PICK n \in hosts : csr = CreateCSR(n, hosts, [o \in OIDs |-> None])
    BY DEF IInv, LeafIsSigned
  <2>2. csr \in Request /\ leaf = SignCSR(csr, TRUE, {})
    BY DEF IInv, LeafIsSigned, CSRIsBuilt
  <2>3. hosts \subseteq Proper /\ hosts # {}
    BY HostnamesAreProper DEF IInv, LeafIsSigned, Config
  <2> HIDE DEF hosts
  <2>4. Clean(hosts \cup {n}) = hosts /\ Clean({n}) = {n}
    BY <2>3, CleanIsProper DEF Proper
  <2>5. csr.cn = n /\ csr.dns = hosts \ IPText /\ csr.ips = hosts \cap IPText
    BY <2>1, <2>3, <2>4 DEF CreateCSR
  <2>6. Clean({} \cup csr.dns) = hosts \ IPText
    BY <2>3, <2>5, CleanIsProper DEF Proper
  <2>7. SANs = IF Clean({} \cup csr.dns) \cup csr.ips = {} THEN {}
               ELSE Clean({} \cup csr.dns) \cup csr.ips \cup Clean({csr.cn})
    BY <2>2, SignCSRParts DEF SANs
  <2> QED
    BY <2>3, <2>4, <2>5, <2>6, <2>7 DEF hosts
<1> QED
  BY <1>1, IssuingInvariant, PTL
============================================================================
