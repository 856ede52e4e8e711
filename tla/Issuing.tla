------------------------------ MODULE Issuing ------------------------------
(***************************************************************************)
(* What ends up in a certificate: one request on its way from the agent's   *)
(* configuration, or from another client, through the CSR, the view that the *)
(* autosign policy gets, and the signature.  Also the server's own leaf.     *)
(*                                                                         *)
(* Subject alternative names and extensions are sets and functions: their    *)
(* order does not matter to anyone, and crypto/x509 refuses a CSR that asks  *)
(* for an extension twice.  Serials, lifetimes and the key are not here.     *)
(***************************************************************************)
CONSTANTS Text,      \* names as people write them
          Trim,      \* Trim[x]: x without the white space around it
          IPText,    \* the texts net.ParseIP accepts
          Blank,     \* the empty text
          Certname,  \* the certname of the request
          Keys,      \* extension keys: short names and dotted OIDs
          OIDs,      \* extension OIDs other than subjectAltName
          Puppet,    \* the OIDs under the Puppet arc (IsPuppetOID)
          Auth,      \* the OIDs of the authorization subtree (IsAuthOID)
          OidOf,     \* ResolveOID: the OID of a key, or None
          NameFor,   \* the key an OID is reported under
          Vals,      \* extension values, as strings of bytes
          Json,      \* Json[v]: v as encoding/json writes it, U+FFFD for what is not UTF-8
          FlagSets,  \* what the --ext flags of a bootstrap can give
          OperatorAlts, \* what dns_alt_names of a signing request can be
          Host,      \* defaultHostname
          None

(* A DER value is a string type (UTF8String, PrintableString) or something else. *)
DER == [tag : {"string", "other"}, s : Vals]
Ext == [val : DER, critical : BOOLEAN]

ASSUME IssuingAssumption ==
    /\ Trim \in [Text -> Text]
    /\ \A x \in Text : Trim[Trim[x]] = Trim[x]
    /\ IPText \subseteq Text
    /\ \A x \in IPText : Trim[x] = x
    /\ Blank \in Text \ IPText
    /\ Certname \in Text \ {Blank} /\ Trim[Certname] = Certname
    /\ Host \in Text \ {Blank} /\ Trim[Host] = Host
    /\ Auth \subseteq Puppet /\ Puppet \subseteq OIDs
    /\ OidOf \in [Keys -> OIDs \cup {None}]
    /\ NameFor \in [OIDs -> Keys]
    /\ \A o \in Puppet : OidOf[NameFor[o]] = o
    /\ Json \in [Vals -> Vals]
    /\ FlagSets \subseteq [Keys -> Vals \cup {None}]
    /\ OperatorAlts \subseteq SUBSET Text
    /\ None \notin Vals /\ None \notin Ext

VARIABLES conf,        \* the agent's configuration: alternative names, the extension requests of
                       \* csr_attributes.yaml or agent.Config, the --ext flags; or None
          allowAltSAN, \* CA.allowAltSAN
          csr,         \* the parsed certificate request, or None
          view,        \* the policyInput the executable was given, or None
          leaf,        \* the certificate, or None
          by,          \* who had it signed: "policy", "autosign", "operator" or "server"
          pc

vars == <<conf, allowAltSAN, csr, view, leaf, by, pc>>

Request == [cn : Text, dns : SUBSET Text, ips : SUBSET IPText, exts : [OIDs -> Ext \cup {None}]]

----------------------------------------------------------------------------
(* The agent's side: collectExtensions, ppext.BuildExtensions and pki.CreateCSR. *)

\* Mutant: the file wins.
CollectExtensions_FileWins(file, flags) ==
    [k \in Keys |-> IF file[k] # None THEN file[k] ELSE flags[k]]

\* A flag wins over the same key of the file; another key for its OID stays beside it.
CollectExtensions(file, flags) ==
    [k \in Keys |-> IF flags[k] # None THEN flags[k] ELSE file[k]]

\* Mutant: two keys for one OID are accepted.
BuildOK_Duplicates(m) ==
    \A k \in Keys : m[k] # None => OidOf[k] # None

\* BuildExtensions: every key resolves, and no two of them to the same OID.
BuildOK(m) ==
    /\ \A k \in Keys : m[k] # None => OidOf[k] # None
    /\ \A k, l \in Keys : m[k] # None /\ m[l] # None /\ OidOf[k] = OidOf[l] => k = l

EncodeValue(v) == [tag |-> "string", s |-> v]

BuildExtensions(m) ==
    [o \in OIDs |->
        IF \E k \in Keys : m[k] # None /\ OidOf[k] = o
        THEN [val |-> EncodeValue(m[CHOOSE k \in Keys : m[k] # None /\ OidOf[k] = o]),
              critical |-> FALSE]
        ELSE None]

\* The names that are left after trimming.
Clean(xs) == {Trim[x] : x \in xs} \ {Blank}

\* With alternative names, the certname is one of them.
CreateCSR(n, alts, exts) ==
    LET names == IF alts = {} THEN {} ELSE Clean(alts \cup {n}) IN
    [cn |-> n, dns |-> names \ IPText, ips |-> names \cap IPText, exts |-> exts]

----------------------------------------------------------------------------
(* The CA's side: buildPolicyInput, AllowedFromCSR and SignCSR. *)

\* A string of raw bytes, and a DER value that is shown as its bytes, in a JSON document.
JsonValue(x) == IF x \in Vals THEN Json[x] ELSE [x EXCEPT !.s = Json[@]]

\* A key-to-value map in a JSON document.
Shown(m) == [k \in Keys |-> IF m[k] = None THEN None ELSE JsonValue(m[k])]

DecodeValue(d) == IF d.tag = "string" THEN d.s ELSE d

\* The key-to-value map of the extensions in the set arc.
Named(exts, arc) ==
    [k \in Keys |->
        IF \E o \in arc : exts[o] # None /\ NameFor[o] = k
        THEN DecodeValue(exts[OidOf[k]].val) ELSE None]

Describe(exts) == Named(exts, Puppet)
AuthExtensions(exts) == Named(exts, Auth)

\* Mutant: a value that is not a string is left out of the view.
Describable_Lenient(c) ==
    \A o \in OIDs : c.exts[o] # None /\ o \notin Puppet => ~ c.exts[o].critical

\* A Puppet extension has a value with a string's tag, whatever its bytes are, and no
\* other extension is critical.
Describable(c) ==
    \A o \in OIDs : c.exts[o] # None =>
        IF o \in Puppet THEN c.exts[o].val.tag = "string" ELSE ~ c.exts[o].critical

\* What the executable reads: the policyInput as json.Marshal writes it.  DNS names are
\* ASCII, as crypto/x509 has checked.
PolicyInput(c) ==
    [dns |-> c.dns, ips |-> c.ips,
     requests |-> [k \in Keys |->
        IF \E o \in Puppet : c.exts[o] # None /\ NameFor[o] = k
                              /\ c.exts[o].val.tag = "string"
        THEN Json[c.exts[OidOf[k]].val.s] ELSE None]]

\* Mutant: only the registered and private namespaces are copied.
AllowedFromCSR_NotAuth(exts) ==
    [o \in OIDs |-> IF o \in Puppet \ Auth /\ exts[o] # None
                    THEN [exts[o] EXCEPT !.critical = FALSE] ELSE None]

AllowedFromCSR(exts) ==
    [o \in OIDs |-> IF o \in Puppet /\ exts[o] # None
                    THEN [val |-> exts[o].val, critical |-> FALSE] ELSE None]

\* Mutant: the alternative names of the CSR are always honoured.
SignCSR_AnySAN(c, allow, alts) ==
    LET names == Clean(alts \cup c.dns) IN
    [dns |-> names \ IPText, ips |-> (names \cap IPText) \cup c.ips,
     exts |-> AllowedFromCSR(c.exts)]

\* Mutant: names are taken over as they are written.
SignCSR_Untrimmed(c, allow, alts) ==
    LET granted == alts \cup (IF allow THEN c.dns ELSE {})
        addrs == IF allow THEN c.ips ELSE {}
        names == IF granted \cup addrs = {} THEN {} ELSE granted \cup {c.cn}
    IN  [dns |-> names \ IPText, ips |-> (names \cap IPText) \cup addrs,
         exts |-> AllowedFromCSR(c.exts)]

\* A name that reads as an address becomes one, whatever it was in the CSR, and
\* the certname joins when there is any other alternative name.
SignCSR(c, allow, alts) ==
    LET granted == Clean(alts \cup (IF allow THEN c.dns ELSE {}))
        addrs == IF allow THEN c.ips ELSE {}
        names == IF granted \cup addrs = {} THEN {} ELSE granted \cup Clean({c.cn})
    IN  [dns |-> names \ IPText, ips |-> (names \cap IPText) \cup addrs,
         exts |-> AllowedFromCSR(c.exts)]

\* Options.hostnames: the names of the server's own leaf.
Hostnames(xs) == IF Clean(xs) = {} THEN {Host} ELSE Clean(xs)

----------------------------------------------------------------------------
Config == [alts : SUBSET Text, file : [Keys -> Vals \cup {None}], flags : FlagSets]

Requested == CollectExtensions(conf.file, conf.flags)

\* Either the agent's configuration, or the CSR of another client as submitCSR
\* has decoded and verified it.
Init ==
    /\ \/ conf \in Config /\ csr = None /\ pc = "config"
       \/ conf = None /\ csr \in {c \in Request : c.cn = Certname} /\ pc = "csr"
    /\ allowAltSAN \in BOOLEAN
    /\ view = None /\ leaf = None /\ by = "nobody"

SubmitCSR ==
    /\ pc = "config"
    /\ BuildOK(Requested)
    /\ csr' = CreateCSR(Certname, conf.alts, BuildExtensions(Requested))
    /\ pc' = "csr"
    /\ UNCHANGED <<conf, allowAltSAN, view, leaf, by>>

\* With a policy the CSR is described to it, or refused and not stored.
AskPolicy ==
    /\ pc = "csr"
    /\ Describable(csr)
    /\ view' = PolicyInput(csr)
    /\ pc' = "pending"
    /\ UNCHANGED <<conf, allowAltSAN, csr, leaf, by>>

RefuseCSR ==
    /\ pc = "csr"
    /\ ~ Describable(csr)
    /\ pc' = "refused"
    /\ UNCHANGED <<conf, allowAltSAN, csr, view, leaf, by>>

StoreCSR ==
    /\ pc = "csr"
    /\ pc' = "pending"
    /\ UNCHANGED <<conf, allowAltSAN, csr, view, leaf, by>>

\* With autosigning and no policy it is stored and signed at once.
AutosignCSR ==
    /\ pc = "csr"
    /\ leaf' = SignCSR(csr, allowAltSAN, {})
    /\ by' = "autosign"
    /\ pc' = "signed"
    /\ UNCHANGED <<conf, allowAltSAN, csr, view>>

SignApproved ==
    /\ pc = "pending"
    /\ view # None
    /\ leaf' = SignCSR(csr, allowAltSAN, {})
    /\ by' = "policy"
    /\ pc' = "signed"
    /\ UNCHANGED <<conf, allowAltSAN, csr, view>>

\* putStatus, with the alternative names the operator asks for.
Sign(alts) ==
    /\ pc = "pending"
    /\ leaf' = SignCSR(csr, allowAltSAN, alts)
    /\ by' = "operator"
    /\ pc' = "signed"
    /\ UNCHANGED <<conf, allowAltSAN, csr, view>>

\* Mutant: the server's leaf goes by the CA's rule for agents.
ServerTLSCert_LikeAgents(n) ==
    /\ pc = "config"
    /\ n \in Hostnames(conf.alts)
    /\ csr' = CreateCSR(n, Hostnames(conf.alts), [o \in OIDs |-> None])
    /\ leaf' = SignCSR(csr', allowAltSAN, {})
    /\ by' = "server"
    /\ pc' = "signed"
    /\ UNCHANGED <<conf, allowAltSAN, view>>

\* ServerTLSCert: conf.alts are Options.Hostnames, n is the first of them.
ServerTLSCert(n) ==
    /\ pc = "config"
    /\ n \in Hostnames(conf.alts)
    /\ csr' = CreateCSR(n, Hostnames(conf.alts), [o \in OIDs |-> None])
    /\ leaf' = SignCSR(csr', TRUE, {})
    /\ by' = "server"
    /\ pc' = "signed"
    /\ UNCHANGED <<conf, allowAltSAN, view>>

Next ==
    \/ SubmitCSR \/ AskPolicy \/ RefuseCSR \/ StoreCSR \/ AutosignCSR \/ SignApproved
    \/ \E alts \in OperatorAlts : Sign(alts)
    \/ \E n \in Text : ServerTLSCert(n)

Spec == Init /\ [][Next]_vars

----------------------------------------------------------------------------
(* Properties. *)

SANs == leaf.dns \cup leaf.ips

\* A certificate's names are trimmed and not empty, its addresses are addresses,
\* and none of its names is one.
TypeOK ==
    /\ csr # None => csr \in Request
    /\ leaf # None => /\ leaf.ips \subseteq IPText
                      /\ leaf.dns \subseteq {x \in Text \ IPText : x # Blank /\ Trim[x] = x}
                      /\ leaf.exts \in [OIDs -> Ext \cup {None}]

\* The policy decides on what is issued: the trusted facts in a certificate it
\* approved are the ones it was shown, each with its value as JSON writes it (the very
\* value if it is UTF-8), nothing else is copied from the CSR, and every name is one it
\* was shown, trimmed.
PolicySawWhatIsIssued ==
    by = "policy" =>
        /\ view.requests = Shown(Describe(leaf.exts))
        /\ \A o \in OIDs : leaf.exts[o] # None => o \in Puppet
        /\ SANs \subseteq Clean(view.dns) \cup view.ips \cup {Certname}

\* What the operator sees in the status of the request is what the certificate
\* grants: its authorization extensions are those of the CSR, byte for byte.  The
\* status is JSON too, and shows both of them through Json.
OperatorSawWhatIsIssued ==
    leaf # None => AuthExtensions(leaf.exts) = AuthExtensions(csr.exts)

\* A trusted fact configured at the agent arrives in the certificate with its value,
\* whichever of its names it was configured under; one given by flag with the flag's,
\* whatever csr_attributes.yaml has under any of its names ("flags win").
FactsArrive ==
    leaf # None /\ by # "server" /\ conf # None =>
        \A k \in Keys : OidOf[k] \in Puppet =>
            LET arrived == Describe(leaf.exts)[NameFor[OidOf[k]]] IN
            /\ conf.flags[k] # None => arrived = conf.flags[k]
            /\ conf.file[k] # None /\ conf.flags[k] = None => arrived = conf.file[k]

\* Alternative names are granted by the operator or, with AllowAltSAN, asked for in
\* the CSR; and where there are any, the certname is among them.
SANsAreGranted ==
    leaf # None /\ by # "server" =>
        /\ allowAltSAN \/ by = "operator" \/ SANs = {}
        /\ by # "operator" /\ SANs # {} => csr.dns \cup csr.ips # {}
        /\ SANs # {} => Certname \in SANs

\* The server's leaf covers every host name it is configured with, under any CA
\* options: a client that verifies one of them accepts it.
ServerLeafCoversHosts ==
    by = "server" => Hostnames(conf.alts) = SANs

(* A property a document of the repository states and the code does not keep. *)

\* ADR 0010: a CSR whose extensions cannot be brought into the JSON view "is invalid for
\* policy autosign and is not stored", so a value the policy approved is the one issued.
PolicyViewIsExact == by = "policy" => Describe(leaf.exts) = view.requests
============================================================================
