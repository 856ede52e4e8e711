---------------------------- MODULE CADirProofs ----------------------------
(***************************************************************************)
(* Proofs about CADir, for any set of names and CSRs and any number of       *)
(* serials, crashes and failures.                                           *)
(***************************************************************************)
EXTENDS CADir, TLAPS

(* What a section can look like.  Shape is about the list of steps alone. *)

\* The files that are never removed.
Fixed == {CaCrt, CaKey, CaPub, Serial, Inventory, Crl, ServerCrt, ServerKey}

Vals == {Missing, Torn} \cup Nat \cup (SUBSET Nat) \cup CSRs \cup Names
Ops == {"create", "fill", "append", "remove", "clean", "sign", "revoke"}
Steps == [op : Ops, file : Files, val : Vals]

\* v is a content of file f.
Holds(f, v) ==
    \/ f \in {CaCrt, CaKey, CaPub} /\ v = 1
    \/ f \in {Serial, ServerKey, ServerCrt} \cup {Signed(n) : n \in Names} /\ v \in 2 .. MaxSerial
    \/ f \in {Inventory, Crl} /\ v \subseteq 1 .. MaxSerial
    \/ \E n \in Names : f = Request(n) /\ v \in {c \in CSRs : CN[c] = n}

Is(s, op, f) == s.op = op /\ s.file = f

\* Each step by itself.
StepOK(s) ==
    /\ s.op = "create" => s.val = Torn
    /\ s.op \in {"fill", "append"} => Holds(s.file, s.val)
    /\ s.op = "append" => s.file = Inventory
    /\ s.op = "remove" => s.val = Missing /\ \E n \in Names : s.file = Request(n)
    /\ s.op = "clean" => s.val = Missing /\ \E n \in Names : s.file = Signed(n)
    /\ s.op = "sign" => s.val \in Names /\ s.file = Request(s.val)
    /\ s.op = "revoke" => s.val \in 1 .. MaxSerial /\ s.file = Crl

IsCertFill(s) == s.op = "fill" /\ s.file \in CertFiles

\* The order of the steps: a file is filled right after it is created, and removals
\* come last.
Ordered(t) ==
    /\ \A i \in DOMAIN t : t[i].op = "create" => i < Len(t) /\ Is(t[i + 1], "fill", t[i].file)
    /\ \A i \in DOMAIN t : t[i].op = "fill" /\ i > 1 => Is(t[i - 1], "create", t[i].file)
    /\ \A i \in DOMAIN t : t[i].op \in {"remove", "sign"} => i = Len(t)
    /\ \A i, j \in DOMAIN t : t[i].op \in {"revoke", "clean", "append"} /\ i < j
                              => t[j].op \in {"clean", "remove"}

\* How the steps on several files belong together.
Coupled(t) ==
    /\ \A i, j \in DOMAIN t : /\ t[i].op = "fill" /\ t[j].op = "fill"
                              /\ t[i].file = t[j].file \/ {t[i].file, t[j].file} \subseteq CertFiles
                              => i = j
    /\ \A i, j \in DOMAIN t : Is(t[i], "fill", Serial) /\ IsCertFill(t[j]) => t[j].val < t[i].val
    /\ \A i, j \in DOMAIN t : Is(t[i], "fill", ServerCrt) /\ Is(t[j], "fill", ServerKey)
                              => i < j /\ t[i].val = t[j].val
    /\ \A i \in DOMAIN t : 
              t[i].op = "sign" \/ (t[i].op = "create" /\ \E n \in Names : t[i].file = Request(n))
                              => \A j \in DOMAIN t : t[j].file = t[i].file
    /\ \A i \in DOMAIN t, n \in Names : Is(t[i], "create", Signed(n))
                              => \E j \in DOMAIN t : Is(t[j], "remove", Request(n))

Shape(t) == t \in Seq(Steps) /\ (\A i \in DOMAIN t : StepOK(t[i])) /\ Ordered(t) /\ Coupled(t)

----------------------------------------------------------------------------
(* What holds of a section with respect to the disk. *)

HasStep(t, op, f) == \E i \in DOMAIN t : Is(t[i], op, f)

\* A file that is about to be filled was created.
Created(t) == t # <<>> /\ t[1].op = "fill" /\ t[1].file \in Fixed => Exists(t[1].file)

\* The serial it takes is new, and the serial file gets ahead of it first.
SerialAhead(t) ==
    \A i \in DOMAIN t :
        /\ t[i].op = "sign" /\ Whole(Serial) => disk[Serial] < MaxSerial
        /\ Is(t[i], "fill", Serial) => \A k \in issued : k < t[i].val
        /\ IsCertFill(t[i]) =>
              /\ t[i].val \notin issued
              /\ Whole(Serial) => \/ t[i].val < disk[Serial]
                                  \/ \E j \in DOMAIN t : j < i /\ Is(t[j], "fill", Serial)

\* The server's key is written right after its certificate and for it.
PairAhead(t) ==
    \A i \in DOMAIN t :
        /\ Is(t[i], "fill", ServerCrt) => i < Len(t) /\ Is(t[i + 1], "create", ServerKey)
        /\ Is(t[i], "fill", ServerKey) =>
              disk[ServerCrt] = t[i].val \/ HasStep(t, "fill", ServerCrt)

\* A request is written for a name without a certificate, or whose certificate was not seen.
RequestAhead(t) ==
    \A i \in DOMAIN t, n \in Names :
        Is(t[i], "create", Request(n)) => ~ Exists(Signed(n)) \/ n \in cut

SectionOK(t) == Shape(t) /\ Created(t) /\ SerialAhead(t) /\ PairAhead(t) /\ RequestAhead(t)

\* A section that takes no serial and writes no certificate.
Quiet(t) == \A i \in DOMAIN t : t[i].op \in {"revoke", "clean", "remove"} \/ t[i].file = Crl

----------------------------------------------------------------------------
(* The parts of the inductive invariant. *)

DiskOK ==
    /\ disk \in [Files -> Vals]
    /\ \A f \in Files : disk[f] \in {Missing, Torn} \/ Holds(f, disk[f])

\* Only one of the processes can be signing.
PhaseOK ==
    /\ server \in {"down", "init", "up", "offline"}
    /\ todo \in [Procs -> Seq(Steps)]
    /\ server \in {"down", "offline"} => todo["server"] = <<>>
    /\ server # "offline" => Quiet(todo["admin"])

SectionsOK == \A p \in Procs : SectionOK(todo[p])

\* Init has still to create ca_key.pem, and ca_crt.pem at most comes before it.
BeforeKey(t) ==
    \E k \in DOMAIN t : /\ Is(t[k], "create", CaKey)
                        /\ k = 1 => Exists(CaCrt)
                        /\ \A i \in DOMAIN t : i < k => t[i].file = CaCrt

\* Before Init creates ca_key.pem there is ca_crt.pem at most.
FreshOK ==
    /\ Exists(CaKey) => Exists(CaCrt)
    /\ ~ Exists(CaKey) =>
          /\ \A f \in Files \ {CaCrt} : ~ Exists(f)
          /\ revokedEver = {}
          /\ todo["admin"] = <<>>
          /\ server \in {"down", "init"}
          /\ server = "init" => BeforeKey(todo["server"])

\* The serial file is ahead of every certificate.
SerialOK ==
    /\ issued \subseteq 1 .. MaxSerial
    /\ Whole(Serial) => \A k \in issued : k < disk[Serial]

\* The next step of t makes the server's key.
AtKey(t) == t # <<>> /\ Is(t[1], "create", ServerKey)

\* The pair belongs together, except where minting over one is between the two files or
\* ended there.
PairOK ==
    Whole(ServerCrt) /\ Whole(ServerKey) =>
        \/ disk[ServerCrt] = disk[ServerKey]
        \/ split \/ \E p \in Procs : AtKey(todo[p])

\* The CRL, and a CRL that is being written, list what was ever revoked.
CrlKept ==
    /\ Whole(Crl) => revokedEver \subseteq disk[Crl]
    /\ \A p \in Procs : \A i \in DOMAIN todo[p] :
          Is(todo[p][i], "fill", Crl) => revokedEver \subseteq todo[p][i].val
    /\ \A p, q \in Procs : HasStep(todo[p], "fill", Crl) /\ HasStep(todo[q], "fill", Crl) => p = q
    /\ disk[Crl] = Torn => \E p \in Procs : todo[p] # <<>> /\ Is(todo[p][1], "fill", Crl)

CrlOK ==
    /\ ~ Exists(Crl) => revokedEver = {}
    /\ ~ crlHurt => CrlKept

\* The inductive invariant.
IInv == /\ DiskOK /\ PhaseOK /\ SectionsOK /\ FreshOK
        /\ SerialOK /\ PairOK /\ CrlOK /\ RequestOrCertUnlessCut

----------------------------------------------------------------------------
(* Files and lists of steps. *)

\* No two names of files are the same.
LEMMA FilesDiffer ==
  /\ \A n, m : Signed(n) # Request(m)
  /\ \A n, m : Signed(n) = Signed(m) => n = m
  /\ \A n, m : Request(n) = Request(m) => n = m
  /\ \A n : Signed(n) \notin Fixed /\ Request(n) \notin Fixed
  /\ CaCrt \notin {CaKey, CaPub, Serial, Inventory, Crl, ServerCrt, ServerKey}
  /\ CaKey \notin {CaPub, Serial, Inventory, Crl, ServerCrt, ServerKey}
  /\ CaPub \notin {Serial, Inventory, Crl, ServerCrt, ServerKey}
  /\ Serial \notin {Inventory, Crl, ServerCrt, ServerKey}
  /\ Inventory \notin {Crl, ServerCrt, ServerKey}
  /\ Crl \notin {ServerCrt, ServerKey}
  /\ ServerCrt # ServerKey
<1> USE DEF CaCrt, CaKey, CaPub, Serial, Inventory, Crl, ServerCrt, ServerKey, Request, Signed
<1>1. \A n : Signed(n) \notin Fixed /\ Request(n) \notin Fixed
  BY DEF Fixed
<1>2. \A n, m : Signed(n) # Request(m)
  OBVIOUS
<1>3. \A n, m : (Signed(n) = Signed(m) => n = m) /\ (Request(n) = Request(m) => n = m)
  OBVIOUS
<1> QED
  BY <1>1, <1>2, <1>3

\* Every file is one of these.
LEMMA FilesAre ==
  /\ Files = Fixed \cup {Request(n) : n \in Names} \cup {Signed(n) : n \in Names}
  /\ {Serial, Crl, Inventory, ServerKey, CaKey, CaPub} \cap CertFiles = {}
  /\ \A n : Request(n) \notin CertFiles
  /\ {CaCrt, ServerCrt} \subseteq CertFiles
  /\ \A n \in Names : Signed(n) \in CertFiles
<1>1. Files = Fixed \cup {Request(n) : n \in Names} \cup {Signed(n) : n \in Names}
  BY DEF Files, Fixed
<1> QED
  BY <1>1, FilesDiffer DEF CertFiles, Fixed

\* What a file can hold is neither Missing nor Torn when the file is never removed.
LEMMA FixedHold ==
  ASSUME NEW f \in Fixed, NEW v, Holds(f, v)
  PROVE  v \notin {Missing, Torn}
<1>1. \A n \in Names : f # Request(n)
  BY FilesDiffer
<1>2. v \in Nat \/ v \in SUBSET (1 .. MaxSerial)
  BY <1>1, DirAssumption DEF Holds
<1> QED
  BY <1>2, DirAssumption

LEMMA TailIs ==
  ASSUME NEW t \in Seq(Steps), t # <<>>
  PROVE  /\ Tail(t) \in Seq(Steps) /\ Len(t) \in Nat \ {0} /\ Len(Tail(t)) = Len(t) - 1
         /\ DOMAIN t = 1 .. Len(t) /\ DOMAIN Tail(t) = 1 .. Len(t) - 1
         /\ \A i \in DOMAIN Tail(t) : i + 1 \in DOMAIN t /\ Tail(t)[i] = t[i + 1]
         /\ \A i \in DOMAIN t : i > 1 => i - 1 \in DOMAIN Tail(t) /\ Tail(t)[i - 1] = t[i]
         /\ Head(t) = t[1] /\ 1 \in DOMAIN t /\ t[1] \in Steps
  OBVIOUS

\* What is left of a section after a step is a section.
LEMMA TailShape ==
  ASSUME NEW t, Shape(t), t # <<>>
  PROVE  Shape(Tail(t))
<1> DEFINE u == Tail(t)
<1>1. t \in Seq(Steps)
  BY DEF Shape
<1>2. /\ u \in Seq(Steps) /\ Len(u) = Len(t) - 1 /\ Len(t) \in Nat \ {0}
      /\ DOMAIN t = 1 .. Len(t) /\ DOMAIN u = 1 .. Len(t) - 1
      /\ \A i \in DOMAIN u : i + 1 \in DOMAIN t /\ u[i] = t[i + 1]
      /\ \A i \in DOMAIN t : i > 1 => i - 1 \in DOMAIN u /\ u[i - 1] = t[i]
  BY <1>1, TailIs
<1> HIDE DEF u
<1>3. \A i \in DOMAIN u : StepOK(u[i])
  BY <1>2 DEF Shape
<1>4. Ordered(u)
  <2>1. \A i \in DOMAIN u : u[i].op = "create" => i < Len(u) /\ Is(u[i + 1], "fill", u[i].file)
    BY <1>2 DEF Shape, Ordered
  <2>2. \A i \in DOMAIN u : u[i].op = "fill" /\ i > 1 => Is(u[i - 1], "create", u[i].file)
    BY <1>2 DEF Shape, Ordered
  <2>3. \A i \in DOMAIN u : u[i].op \in {"remove", "sign"} => i = Len(u)
    BY <1>2 DEF Shape, Ordered
  <2>4. \A i, j \in DOMAIN u : u[i].op \in {"revoke", "clean", "append"} /\ i < j
                              => u[j].op \in {"clean", "remove"}
    BY <1>2 DEF Shape, Ordered
  <2> QED
    BY <2>1, <2>2, <2>3, <2>4 DEF Ordered
<1>5. Coupled(u)
  <2>1. \A i \in DOMAIN u, n \in Names : Is(u[i], "create", Signed(n))
                              => \E j \in DOMAIN u : Is(u[j], "remove", Request(n))
    <3> SUFFICES ASSUME NEW i \in DOMAIN u, NEW n \in Names, Is(u[i], "create", Signed(n))
                 PROVE  \E j \in DOMAIN u : Is(u[j], "remove", Request(n))
      OBVIOUS
    <3>1. PICK j \in DOMAIN t : Is(t[j], "remove", Request(n))
      BY <1>2 DEF Shape, Coupled
    <3>2. j = Len(t) /\ i + 1 < Len(t)
      BY <1>2, <3>1 DEF Shape, Ordered, Is
    <3> QED
      BY <1>2, <3>1, <3>2
  <2>2. \A i \in DOMAIN u : 
              u[i].op = "sign" \/ (u[i].op = "create" /\ \E n \in Names : u[i].file = Request(n))
                              => \A j \in DOMAIN u : u[j].file = u[i].file
    BY <1>2 DEF Shape, Coupled
  <2>3. \A i, j \in DOMAIN u : /\ u[i].op = "fill" /\ u[j].op = "fill"
                               /\ u[i].file = u[j].file \/ {u[i].file, u[j].file} \subseteq CertFiles
                              => i = j
    <3> SUFFICES ASSUME NEW i \in DOMAIN u, NEW j \in DOMAIN u, u[i].op = "fill", u[j].op = "fill",
                        u[i].file = u[j].file \/ {u[i].file, u[j].file} \subseteq CertFiles
                 PROVE  i = j
      OBVIOUS
    <3>1. i + 1 = j + 1
      BY <1>2 DEF Shape, Coupled
    <3> QED
      BY <1>2, <3>1
  <2>4. \A i, j \in DOMAIN u : Is(u[i], "fill", Serial) /\ IsCertFill(u[j]) => u[j].val < u[i].val
    BY <1>2 DEF Shape, Coupled
  <2>5. \A i, j \in DOMAIN u : Is(u[i], "fill", ServerCrt) /\ Is(u[j], "fill", ServerKey)
                              => i < j /\ u[i].val = u[j].val
    <3> SUFFICES ASSUME NEW i \in DOMAIN u, NEW j \in DOMAIN u,
                        Is(u[i], "fill", ServerCrt), Is(u[j], "fill", ServerKey)
                 PROVE  i < j /\ u[i].val = u[j].val
      OBVIOUS
    <3>1. i + 1 < j + 1 /\ u[i].val = u[j].val
      BY <1>2 DEF Shape, Coupled
    <3> QED
      BY <1>2, <3>1
  <2> QED
    BY <2>1, <2>2, <2>3, <2>4, <2>5 DEF Coupled
<1> QED
  BY <1>2, <1>3, <1>4, <1>5 DEF Shape, u

\* Process goes over to the removals of a `clean`, or to nothing.
OnlyRemoves(u, t) ==
    /\ u \in Seq(Steps)
    /\ \A i \in DOMAIN u : /\ u[i].op \in {"clean", "remove"}
                           /\ \E j \in DOMAIN t : u[i] = t[j]
    /\ \A i \in DOMAIN u : u[i].op = "remove" => i = Len(u)

LEMMA OnlyRemovesShape ==
  ASSUME NEW t, Shape(t), NEW u, OnlyRemoves(u, t)
  PROVE  Shape(u)
<1>1. \A i \in DOMAIN u : StepOK(u[i]) /\ u[i].op \in {"clean", "remove"}
  BY DEF Shape, OnlyRemoves
<1>2. Ordered(u)
  BY <1>1 DEF OnlyRemoves, Ordered
<1>3. Coupled(u)
  BY <1>1 DEF Coupled, Is, IsCertFill
<1> QED
  BY <1>1, <1>2, <1>3 DEF Shape, OnlyRemoves

LEMMA AfterErrorRemoves ==
  ASSUME NEW t, Shape(t)
  PROVE  OnlyRemoves(AfterError(t), t) /\ OnlyRemoves(<<>>, t)
<1>1. t \in Seq(Steps) /\ DOMAIN t = 1 .. Len(t) /\ Len(t) \in Nat
  BY DEF Shape
<1>2. OnlyRemoves(<<>>, t)
  BY DEF OnlyRemoves
<1> DEFINE rest == {i \in DOMAIN t : t[i].op = "clean"}
           k == CHOOSE i \in rest : TRUE
           u == SubSeq(t, k, Len(t))
<1>3. CASE rest = {}
  BY <1>2, <1>3 DEF AfterError
<1>4. CASE rest # {}
  <2>1. k \in DOMAIN t /\ t[k].op = "clean"
    BY <1>4
  <2> HIDE DEF k
  <2>2. /\ u \in Seq(Steps) /\ Len(u) = Len(t) + 1 - k /\ DOMAIN u = 1 .. Len(t) + 1 - k
        /\ \A i \in DOMAIN u : i + k - 1 \in DOMAIN t /\ u[i] = t[i + k - 1]
    BY <1>1, <2>1
  <2> HIDE DEF u
  <2>3. \A i \in DOMAIN u : u[i].op \in {"clean", "remove"}
    <3> SUFFICES ASSUME NEW i \in DOMAIN u PROVE u[i].op \in {"clean", "remove"}
      OBVIOUS
    <3>1. i = 1 \/ k < i + k - 1
      BY <1>1, <2>1, <2>2
    <3> QED
      BY <1>1, <2>1, <2>2, <3>1 DEF Shape, Ordered
  <2>4. \A i \in DOMAIN u : u[i].op = "remove" => i = Len(u)
    BY <1>1, <2>1, <2>2 DEF Shape, Ordered
  <2>5. OnlyRemoves(u, t)
    BY <2>2, <2>3, <2>4 DEF OnlyRemoves
  <2>6. AfterError(t) = u
    BY <1>4 DEF AfterError, u, k
  <2> QED
    BY <1>2, <2>5, <2>6
<1> QED
  BY <1>3, <1>4

----------------------------------------------------------------------------
(* The sections, step by step. *)

\* t is this list of k steps.
Lists(t, k) == t \in Seq(Steps) /\ Len(t) = k /\ DOMAIN t = 1 .. k

LEMMA ListsSome ==
  ASSUME NEW k \in Nat \ {0}, NEW t, Lists(t, k)
  PROVE  t # <<>> /\ 1 \in DOMAIN t
  BY DEF Lists

\* What the serial file, a certificate and the CRL have.
LEMMA Contents ==
  ASSUME DiskOK
  PROVE  /\ Whole(Serial) => disk[Serial] \in 2 .. MaxSerial
         /\ \A n \in Names : Whole(Signed(n)) => disk[Signed(n)] \in 2 .. MaxSerial
         /\ ReadRevoked \subseteq 1 .. MaxSerial
<1>1. {Serial, Crl} \subseteq Files /\ \A n \in Names : Signed(n) \in Files
  BY FilesAre DEF Fixed
<1>2. Whole(Serial) => disk[Serial] \in 2 .. MaxSerial
  BY <1>1, FilesDiffer DEF DiskOK, Holds, Whole, Fixed
<1>3. \A n \in Names : Whole(Signed(n)) => disk[Signed(n)] \in 2 .. MaxSerial
  BY <1>1, FilesDiffer DEF DiskOK, Holds, Whole, Fixed
<1>4. Whole(Crl) => disk[Crl] \subseteq 1 .. MaxSerial
  BY <1>1, FilesDiffer DEF DiskOK, Holds, Whole, Fixed
<1> QED
  BY <1>2, <1>3, <1>4 DEF ReadRevoked

\* Each of these is a step.
LEMMA StepsAre ==
  /\ \A f \in Files : FileStep("create", f, Torn) \in Steps /\ StepOK(FileStep("create", f, Torn))
  /\ \A f \in Files : \A v \in Vals :
        Holds(f, v) => FileStep("fill", f, v) \in Steps /\ StepOK(FileStep("fill", f, v))
  /\ \A v \in SUBSET (1 .. MaxSerial) :
        FileStep("append", Inventory, v) \in Steps /\ StepOK(FileStep("append", Inventory, v))
  /\ \A n \in Names :
        /\ FileStep("remove", Request(n), Missing) \in Steps
        /\ StepOK(FileStep("remove", Request(n), Missing))
        /\ FileStep("clean", Signed(n), Missing) \in Steps
        /\ StepOK(FileStep("clean", Signed(n), Missing))
        /\ FileStep("sign", Request(n), n) \in Steps /\ StepOK(FileStep("sign", Request(n), n))
  /\ \A v \in 1 .. MaxSerial :
        FileStep("revoke", Crl, v) \in Steps /\ StepOK(FileStep("revoke", Crl, v))
<1>1. /\ Inventory \in Files /\ Crl \in Files
      /\ \A n \in Names : Request(n) \in Files /\ Signed(n) \in Files
  BY FilesAre DEF Fixed
<1>2. \A f \in Files : FileStep("create", f, Torn) \in Steps /\ StepOK(FileStep("create", f, Torn))
  BY DEF FileStep, Steps, Ops, Vals, StepOK
<1>3. \A f \in Files : \A v \in Vals :
        Holds(f, v) => FileStep("fill", f, v) \in Steps /\ StepOK(FileStep("fill", f, v))
  BY DEF FileStep, Steps, Ops, StepOK
<1>4. \A v \in SUBSET (1 .. MaxSerial) :
        FileStep("append", Inventory, v) \in Steps /\ StepOK(FileStep("append", Inventory, v))
  <2> SUFFICES ASSUME NEW v \in SUBSET (1 .. MaxSerial)
               PROVE  FileStep("append", Inventory, v) \in Steps /\ StepOK(FileStep("append", Inventory, v))
    OBVIOUS
  <2>1. v \in Vals /\ Holds(Inventory, v)
    BY DirAssumption DEF Vals, Holds
  <2> QED
    BY <1>1, <2>1 DEF FileStep, Steps, Ops, StepOK
<1>5. \A n \in Names :
        /\ FileStep("remove", Request(n), Missing) \in Steps
        /\ StepOK(FileStep("remove", Request(n), Missing))
        /\ FileStep("clean", Signed(n), Missing) \in Steps
        /\ StepOK(FileStep("clean", Signed(n), Missing))
        /\ FileStep("sign", Request(n), n) \in Steps /\ StepOK(FileStep("sign", Request(n), n))
  <2> TAKE n \in Names
  <2>1. /\ FileStep("remove", Request(n), Missing) \in Steps
        /\ StepOK(FileStep("remove", Request(n), Missing))
    BY <1>1 DEF FileStep, Steps, Ops, Vals, StepOK
  <2>2. /\ FileStep("clean", Signed(n), Missing) \in Steps
        /\ StepOK(FileStep("clean", Signed(n), Missing))
    BY <1>1 DEF FileStep, Steps, Ops, Vals, StepOK
  <2>3. FileStep("sign", Request(n), n) \in Steps /\ StepOK(FileStep("sign", Request(n), n))
    BY <1>1 DEF FileStep, Steps, Ops, Vals, StepOK
  <2> QED
    BY <2>1, <2>2, <2>3
<1>6. \A v \in 1 .. MaxSerial :
        FileStep("revoke", Crl, v) \in Steps /\ StepOK(FileStep("revoke", Crl, v))
  BY <1>1, DirAssumption DEF FileStep, Steps, Ops, Vals, StepOK
<1> QED
  BY <1>2, <1>3, <1>4, <1>5, <1>6

LEMMA SignIs ==
  ASSUME DiskOK, NEW n \in Names, Whole(Serial), disk[Serial] < MaxSerial, NEW t, t = SignSteps(n)
  PROVE  /\ Lists(t, 6)
         /\ t[1] = FileStep("create", Serial, Torn)
         /\ t[2] = FileStep("fill", Serial, disk[Serial] + 1)
         /\ t[3] = FileStep("create", Signed(n), Torn)
         /\ t[4] = FileStep("fill", Signed(n), disk[Serial])
         /\ t[5].op = "append" /\ t[5].file = Inventory
         /\ t[6] = FileStep("remove", Request(n), Missing)
         /\ Shape(t)
<1>1. /\ disk[Serial] \in 2 .. MaxSerial /\ disk[Serial] + 1 \in 2 .. MaxSerial
      /\ {} \in SUBSET (1 .. MaxSerial)
  BY Contents, DirAssumption
<1>2. /\ {Serial, Signed(n)} \subseteq Files
      /\ Holds(Serial, disk[Serial] + 1) /\ Holds(Signed(n), disk[Serial])
      /\ {disk[Serial], disk[Serial] + 1} \subseteq Vals
  BY <1>1, FilesAre, DirAssumption DEF Fixed, Holds, Vals
<1>3. t = WriteFile(Serial, disk[Serial] + 1) \o WriteFile(Signed(n), disk[Serial])
            \o Do("append", Inventory, {}) \o Do("remove", Request(n), Missing)
  BY DEF SignSteps, TakeSerial, AppendInventory, RemoveFile
<1>4. /\ FileStep("create", Serial, Torn) \in Steps
      /\ FileStep("fill", Serial, disk[Serial] + 1) \in Steps
      /\ FileStep("create", Signed(n), Torn) \in Steps
      /\ FileStep("fill", Signed(n), disk[Serial]) \in Steps
      /\ FileStep("append", Inventory, {}) \in Steps
      /\ FileStep("remove", Request(n), Missing) \in Steps
  BY <1>1, <1>2, StepsAre
<1>5. /\ Lists(t, 6)
      /\ t[1] = FileStep("create", Serial, Torn)
      /\ t[2] = FileStep("fill", Serial, disk[Serial] + 1)
      /\ t[3] = FileStep("create", Signed(n), Torn)
      /\ t[4] = FileStep("fill", Signed(n), disk[Serial])
      /\ t[5] = FileStep("append", Inventory, {})
      /\ t[6] = FileStep("remove", Request(n), Missing)
  BY <1>3, <1>4 DEF Lists, WriteFile, Do
<1>6. \A i \in DOMAIN t : i \in {1, 2, 3, 4, 5, 6}
  BY <1>5 DEF Lists
<1>7. \A i \in DOMAIN t : StepOK(t[i])
  BY <1>1, <1>2, <1>5, <1>6, StepsAre
<1>8. Ordered(t)
  BY <1>5, <1>6 DEF FileStep, Ordered, Lists, Is
<1>9. Coupled(t)
  <2>1. /\ t[2].file = Serial /\ t[2].val = disk[Serial] + 1
        /\ t[4].file = Signed(n) /\ t[4].val = disk[Serial]
        /\ t[1].file = Serial /\ t[3].file = Signed(n)
        /\ Is(t[6], "remove", Request(n)) /\ 6 \in DOMAIN t
        /\ \A i \in DOMAIN t : /\ t[i].op = "fill" => i \in {2, 4}
                               /\ t[i].op = "create" => i \in {1, 3}
                               /\ t[i].op # "sign"
    BY <1>5, <1>6 DEF FileStep, Is, Lists
  <2>2. Serial \notin CertFiles /\ Serial # Signed(n) /\ ServerCrt \notin {Serial, Signed(n)}
        /\ \A m \in Names : Request(m) \notin {Serial, Signed(n)} /\ Signed(m) # Serial
    BY FilesAre, FilesDiffer DEF Fixed
  <2> QED
    BY <1>1, <2>1, <2>2, FilesDiffer DEF Coupled, Is, IsCertFill
<1> QED
  BY <1>5, <1>7, <1>8, <1>9 DEF Shape, Lists, FileStep

LEMMA MintIs ==
  ASSUME DiskOK, Whole(Serial), disk[Serial] < MaxSerial, NEW t, t = MintSteps
  PROVE  /\ Lists(t, 7)
         /\ t[1] = FileStep("create", Serial, Torn)
         /\ t[2] = FileStep("fill", Serial, disk[Serial] + 1)
         /\ t[3] = FileStep("create", ServerCrt, Torn)
         /\ t[4] = FileStep("fill", ServerCrt, disk[Serial])
         /\ t[5] = FileStep("create", ServerKey, Torn)
         /\ t[6] = FileStep("fill", ServerKey, disk[Serial])
         /\ t[7].op = "append" /\ t[7].file = Inventory
         /\ Shape(t)
<1>1. /\ disk[Serial] \in 2 .. MaxSerial /\ disk[Serial] + 1 \in 2 .. MaxSerial
      /\ {} \in SUBSET (1 .. MaxSerial)
  BY Contents, DirAssumption
<1>2. /\ {Serial, ServerCrt, ServerKey} \subseteq Files
      /\ Holds(Serial, disk[Serial] + 1) /\ Holds(ServerCrt, disk[Serial])
      /\ Holds(ServerKey, disk[Serial])
      /\ {disk[Serial], disk[Serial] + 1} \subseteq Vals
  BY <1>1, FilesAre, DirAssumption DEF Fixed, Holds, Vals
<1>3. t = WriteFile(Serial, disk[Serial] + 1) \o WriteFile(ServerCrt, disk[Serial])
            \o WriteFile(ServerKey, disk[Serial]) \o Do("append", Inventory, {})
  BY DEF MintSteps, TakeSerial, AppendInventory
<1>4. /\ FileStep("create", Serial, Torn) \in Steps
      /\ FileStep("fill", Serial, disk[Serial] + 1) \in Steps
      /\ FileStep("create", ServerCrt, Torn) \in Steps
      /\ FileStep("fill", ServerCrt, disk[Serial]) \in Steps
      /\ FileStep("create", ServerKey, Torn) \in Steps
      /\ FileStep("fill", ServerKey, disk[Serial]) \in Steps
      /\ FileStep("append", Inventory, {}) \in Steps
  BY <1>1, <1>2, StepsAre
<1>5. /\ Lists(t, 7)
      /\ t[1] = FileStep("create", Serial, Torn)
      /\ t[2] = FileStep("fill", Serial, disk[Serial] + 1)
      /\ t[3] = FileStep("create", ServerCrt, Torn)
      /\ t[4] = FileStep("fill", ServerCrt, disk[Serial])
      /\ t[5] = FileStep("create", ServerKey, Torn)
      /\ t[6] = FileStep("fill", ServerKey, disk[Serial])
      /\ t[7] = FileStep("append", Inventory, {})
  BY <1>3, <1>4 DEF Lists, WriteFile, Do
<1>6. \A i \in DOMAIN t : i \in {1, 2, 3, 4, 5, 6, 7}
  BY <1>5 DEF Lists
<1>7. \A i \in DOMAIN t : StepOK(t[i])
  BY <1>1, <1>2, <1>5, <1>6, StepsAre
<1>8. Ordered(t)
  BY <1>5, <1>6 DEF FileStep, Ordered, Lists, Is
<1>9. Coupled(t)
  <2>1. /\ t[2].file = Serial /\ t[2].val = disk[Serial] + 1
        /\ t[4].file = ServerCrt /\ t[4].val = disk[Serial]
        /\ t[6].file = ServerKey /\ t[6].val = disk[Serial]
        /\ t[1].file = Serial /\ t[3].file = ServerCrt /\ t[5].file = ServerKey
        /\ \A i \in DOMAIN t : /\ t[i].op = "fill" => i \in {2, 4, 6}
                               /\ t[i].op = "create" => i \in {1, 3, 5}
                               /\ t[i].op # "sign"
    BY <1>5, <1>6 DEF FileStep
  <2>2. /\ Serial \notin CertFiles /\ ServerKey \notin CertFiles
        /\ Serial \notin {ServerCrt, ServerKey} /\ ServerCrt # ServerKey
        /\ \A m \in Names : {Request(m), Signed(m)} \cap {Serial, ServerCrt, ServerKey} = {}
    BY FilesAre, FilesDiffer DEF Fixed
  <2>3. \A i, j \in DOMAIN t : /\ t[i].op = "fill" /\ t[j].op = "fill"
                               /\ t[i].file = t[j].file \/ {t[i].file, t[j].file} \subseteq CertFiles
                              => i = j
    BY <2>1, <2>2
  <2>4. \A i, j \in DOMAIN t : Is(t[i], "fill", Serial) /\ IsCertFill(t[j]) => t[j].val < t[i].val
    BY <1>1, <2>1, <2>2 DEF Is, IsCertFill
  <2>5. \A i, j \in DOMAIN t : Is(t[i], "fill", ServerCrt) /\ Is(t[j], "fill", ServerKey)
                              => i < j /\ t[i].val = t[j].val
    BY <2>1, <2>2 DEF Is
  <2>6. \A i \in DOMAIN t : t[i].op # "sign" /\ \A n \in Names :
            t[i].op = "create" => t[i].file \notin {Request(n), Signed(n)}
    BY <2>1, <2>2
  <2> QED
    BY <2>3, <2>4, <2>5, <2>6 DEF Coupled, Is
<1> QED
  BY <1>5, <1>7, <1>8, <1>9 DEF Shape, Lists, FileStep

LEMMA InitIs ==
  ASSUME NEW t, t = InitSteps
  PROVE  /\ Lists(t, 13)
         /\ t[1] = FileStep("create", CaCrt, Torn) /\ t[2] = FileStep("fill", CaCrt, 1)
         /\ t[3] = FileStep("create", CaKey, Torn) /\ t[8] = FileStep("fill", Serial, 2)
         /\ \A i \in DOMAIN t : /\ t[i].op \in {"create", "fill", "append"}
                                /\ t[i].file \in Fixed \ {ServerCrt, ServerKey}
                                /\ IsCertFill(t[i]) => i = 2
                                /\ Is(t[i], "fill", Serial) => i = 8
         /\ Shape(t)
<1>1. /\ {CaCrt, CaKey, CaPub, Serial, Inventory, Crl} \subseteq Files
      /\ Holds(CaCrt, 1) /\ Holds(CaKey, 1) /\ Holds(CaPub, 1) /\ Holds(Serial, 2)
      /\ Holds(Inventory, {}) /\ Holds(Crl, {})
      /\ {1, 2, {}} \subseteq Vals /\ {} \in SUBSET (1 .. MaxSerial)
  BY FilesAre, DirAssumption DEF Fixed, Holds, Vals
<1>2. /\ FileStep("create", CaCrt, Torn) \in Steps /\ FileStep("create", CaKey, Torn) \in Steps
      /\ FileStep("create", CaPub, Torn) \in Steps /\ FileStep("create", Serial, Torn) \in Steps
      /\ FileStep("create", Inventory, Torn) \in Steps /\ FileStep("create", Crl, Torn) \in Steps
  BY <1>1, StepsAre
<1>3. /\ FileStep("fill", CaCrt, 1) \in Steps /\ FileStep("fill", CaKey, 1) \in Steps
      /\ FileStep("fill", CaPub, 1) \in Steps
      /\ FileStep("fill", Serial, 2) \in Steps /\ FileStep("fill", Inventory, {}) \in Steps
      /\ FileStep("fill", Crl, {}) \in Steps
      /\ FileStep("append", Inventory, {}) \in Steps
  BY <1>1, StepsAre
<1>4. /\ Lists(t, 13)
      /\ t[1] = FileStep("create", CaCrt, Torn) /\ t[2] = FileStep("fill", CaCrt, 1)
      /\ t[3] = FileStep("create", CaKey, Torn) /\ t[4] = FileStep("fill", CaKey, 1)
      /\ t[5] = FileStep("create", CaPub, Torn) /\ t[6] = FileStep("fill", CaPub, 1)
      /\ t[7] = FileStep("create", Serial, Torn) /\ t[8] = FileStep("fill", Serial, 2)
      /\ t[9] = FileStep("create", Inventory, Torn) /\ t[10] = FileStep("fill", Inventory, {})
      /\ t[11] = FileStep("create", Crl, Torn) /\ t[12] = FileStep("fill", Crl, {})
      /\ t[13] = FileStep("append", Inventory, {})
  BY <1>2, <1>3 DEF InitSteps, AppendInventory, WriteFile, Do, Lists
<1>5. \A i \in DOMAIN t : i \in {1, 2, 3, 4, 5, 6, 7, 8, 9, 10, 11, 12, 13}
  BY <1>4 DEF Lists
<1>6. \A i \in DOMAIN t : StepOK(t[i])
  BY <1>1, <1>4, <1>5, StepsAre
<1>7. Ordered(t)
  BY <1>4, <1>5 DEF FileStep, Ordered, Lists, Is
<1>8. /\ t[2].file = CaCrt /\ t[4].file = CaKey /\ t[6].file = CaPub /\ t[8].file = Serial
      /\ t[10].file = Inventory /\ t[12].file = Crl
      /\ t[1].file = CaCrt /\ t[3].file = CaKey /\ t[5].file = CaPub /\ t[7].file = Serial
      /\ t[9].file = Inventory /\ t[11].file = Crl /\ t[13].file = Inventory
      /\ t[2].val = 1 /\ t[8].val = 2
      /\ \A i \in DOMAIN t : /\ t[i].op = "fill" => i \in {2, 4, 6, 8, 10, 12}
                             /\ t[i].op \in {"create", "fill", "append"}
  BY <1>4, <1>5 DEF FileStep
<1>9. \A i \in DOMAIN t : t[i].file \in {CaCrt, CaKey, CaPub, Serial, Inventory, Crl}
  BY <1>5, <1>8
<1>10. \A i \in DOMAIN t : /\ t[i].file \in Fixed \ {ServerCrt, ServerKey}
                           /\ IsCertFill(t[i]) => i = 2
                           /\ Is(t[i], "fill", Serial) => i = 8
  <2>1. /\ {CaKey, CaPub, Serial, Inventory, Crl} \cap CertFiles = {}
        /\ Serial \notin {CaCrt, CaKey, CaPub, Inventory, Crl}
        /\ {CaCrt, CaKey, CaPub, Serial, Inventory, Crl} \subseteq Fixed \ {ServerCrt, ServerKey}
    BY FilesAre, FilesDiffer DEF Fixed
  <2> QED
    BY <1>8, <1>9, <2>1 DEF Is, IsCertFill
<1>11. Coupled(t)
  <2>1. \A i, j \in DOMAIN t : /\ t[i].op = "fill" /\ t[j].op = "fill"
                               /\ t[i].file = t[j].file \/ {t[i].file, t[j].file} \subseteq CertFiles
                              => i = j
    BY <1>8, <1>10, FilesDiffer DEF IsCertFill
  <2>2. \A i, j \in DOMAIN t : Is(t[i], "fill", Serial) /\ IsCertFill(t[j]) => t[j].val < t[i].val
    BY <1>8, <1>10
  <2>3. \A i \in DOMAIN t : /\ t[i].file \notin {ServerCrt, ServerKey} /\ t[i].op # "sign"
                            /\ \A n \in Names : t[i].file \notin {Request(n), Signed(n)}
    BY <1>8, <1>10, FilesDiffer
  <2> QED
    BY <2>1, <2>2, <2>3 DEF Coupled, Is
<1> QED
  BY <1>4, <1>6, <1>7, <1>8, <1>10, <1>11 DEF Shape, Lists

\* A section that writes one request, or signs it, or both.
OfRequest(t, n) ==
    /\ t # <<>>
    /\ \A i \in DOMAIN t : /\ t[i].file = Request(n) /\ t[i].op \in {"create", "fill", "sign"}
                           /\ t[i].op = "fill" => i = 2

LEMMA OfRequestShape ==
  ASSUME NEW n \in Names, NEW t \in Seq(Steps), OfRequest(t, n), Ordered(t),
         \A i \in DOMAIN t : StepOK(t[i])
  PROVE  Shape(t)
<1>1. /\ Request(n) \notin CertFiles /\ Request(n) \notin {Serial, ServerCrt, ServerKey}
      /\ \A m \in Names : Request(n) # Signed(m)
  BY FilesDiffer, FilesAre DEF Fixed
<1>2. Coupled(t)
  BY <1>1 DEF Coupled, OfRequest, Is, IsCertFill
<1> QED
  BY <1>2 DEF Shape

LEMMA SubmitOrdered ==
  ASSUME NEW k \in {2, 3}, NEW t, Lists(t, k), t[1].op = "create", t[2].op = "fill",
         t[1].file = t[2].file, k = 3 => t[3].op = "sign"
  PROVE  Ordered(t)
<1>1. \A i \in DOMAIN t : i \in {1, 2, 3} /\ (i = 3 => k = 3)
  BY DEF Lists
<1>2. \A i \in DOMAIN t : /\ t[i].op = "create" => i = 1
                          /\ t[i].op = "fill" => i = 2
                          /\ t[i].op = "sign" => i = k
                          /\ t[i].op \notin {"remove", "revoke", "clean", "append"}
  BY <1>1
<1>3. \A i \in DOMAIN t : t[i].op = "create" => i < Len(t) /\ Is(t[i + 1], "fill", t[i].file)
  BY <1>2 DEF Is, Lists
<1>4. \A i \in DOMAIN t : t[i].op = "fill" /\ i > 1 => Is(t[i - 1], "create", t[i].file)
  BY <1>2 DEF Is
<1>5. \A i \in DOMAIN t : t[i].op \in {"remove", "sign"} => i = Len(t)
  BY <1>2 DEF Lists
<1> QED
  BY <1>2, <1>3, <1>4, <1>5 DEF Ordered

LEMMA SubmitOfRequest ==
  ASSUME NEW k \in {2, 3}, NEW t, Lists(t, k), NEW n, t[1].op = "create", t[2].op = "fill",
         t[1].file = Request(n), t[2].file = Request(n),
         k = 3 => t[3].op = "sign" /\ t[3].file = Request(n)
  PROVE  OfRequest(t, n)
<1>1. t # <<>>
  BY ListsSome
<1>2. \A i \in DOMAIN t : i \in {1, 2, 3} /\ (i = 3 => k = 3)
  BY DEF Lists
<1>3. \A i \in DOMAIN t : /\ t[i].file = Request(n) /\ t[i].op \in {"create", "fill", "sign"}
                          /\ t[i].op = "fill" => i = 2
  BY <1>2
<1> QED
  BY <1>1, <1>3 DEF OfRequest

LEMMA SubmitIs ==
  ASSUME NEW c \in CSRs, NEW n, n = CN[c], NEW t, t = WriteFile(Request(n), c) \o <<>>
  PROVE  /\ n \in Names /\ Shape(t) /\ OfRequest(t, n)
         /\ \A i \in DOMAIN t : t[i].op # "sign"
         /\ t[1].op = "create"
<1> DEFINE a1 == FileStep("create", Request(n), Torn)
           a2 == FileStep("fill", Request(n), c)
<1>1. n \in Names /\ Request(n) \in Files /\ c \in Vals /\ Holds(Request(n), c)
  BY DirAssumption, FilesAre DEF Vals, Holds
<1>2. /\ a1 \in Steps /\ a2 \in Steps /\ StepOK(a1) /\ StepOK(a2)
      /\ a1.op = "create" /\ a2.op = "fill" /\ a1.file = Request(n) /\ a2.file = Request(n)
  BY <1>1, StepsAre DEF FileStep
<1> HIDE DEF a1, a2
<1>4. Lists(t, 2) /\ t[1] = a1 /\ t[2] = a2
  BY <1>2 DEF Lists, WriteFile, Do, a1, a2
<1>5. /\ t \in Seq(Steps) /\ Len(t) = 2 /\ 1 \in DOMAIN t /\ 2 \in DOMAIN t
      /\ \A i \in DOMAIN t : i \in {1, 2}
  BY <1>4 DEF Lists
<1>6. OfRequest(t, n)
  BY <1>2, <1>4, SubmitOfRequest
<1>7. Ordered(t)
  BY <1>2, <1>4, SubmitOrdered
<1> QED
  BY <1>1, <1>2, <1>4, <1>5, <1>6, <1>7, OfRequestShape

LEMMA SubmitSignIs ==
  ASSUME NEW c \in CSRs, NEW n, n = CN[c],
         NEW t, t = WriteFile(Request(n), c) \o Do("sign", Request(n), n)
  PROVE  n \in Names /\ Shape(t) /\ OfRequest(t, n) /\ t[1].op = "create"
<1> DEFINE a1 == FileStep("create", Request(n), Torn)
           a2 == FileStep("fill", Request(n), c)
           a3 == FileStep("sign", Request(n), n)
<1>1. n \in Names /\ Request(n) \in Files /\ c \in Vals /\ Holds(Request(n), c)
  BY DirAssumption, FilesAre DEF Vals, Holds
<1>2. /\ a1 \in Steps /\ a2 \in Steps /\ a3 \in Steps /\ StepOK(a1) /\ StepOK(a2) /\ StepOK(a3)
      /\ a1.op = "create" /\ a2.op = "fill" /\ a3.op = "sign"
      /\ a1.file = Request(n) /\ a2.file = Request(n) /\ a3.file = Request(n)
  BY <1>1, StepsAre DEF FileStep
<1> HIDE DEF a1, a2, a3
<1>4. Lists(t, 3) /\ t[1] = a1 /\ t[2] = a2 /\ t[3] = a3
  BY <1>2 DEF Lists, WriteFile, Do, a1, a2, a3
<1>5. /\ t \in Seq(Steps) /\ Len(t) = 3 /\ 1 \in DOMAIN t /\ 2 \in DOMAIN t
      /\ \A i \in DOMAIN t : i \in {1, 2, 3}
  BY <1>4 DEF Lists
<1>6. OfRequest(t, n)
  BY <1>2, <1>4, SubmitOfRequest
<1>7. Ordered(t)
  BY <1>2, <1>4, SubmitOrdered
<1> QED
  BY <1>1, <1>2, <1>4, <1>5, <1>6, <1>7, OfRequestShape

LEMMA SignEntryIs ==
  ASSUME NEW n \in Names, NEW t, t = Do("sign", Request(n), n)
  PROVE  /\ t # <<>> /\ Shape(t) /\ DOMAIN t = {1}
         /\ t[1].op = "sign" /\ t[1].file = Request(n)
<1> DEFINE a == FileStep("sign", Request(n), n)
<1>1. a \in Steps /\ StepOK(a) /\ a.op = "sign" /\ a.file = Request(n)
  BY StepsAre DEF FileStep
<1>2. t = <<a>>
  BY DEF Do
<1> HIDE DEF a
<1>3. t \in Seq(Steps) /\ Len(t) = 1 /\ DOMAIN t = {1} /\ t[1] = a
  BY <1>1, <1>2
<1>4. Ordered(t)
  BY <1>1, <1>3 DEF Ordered
<1>5. Coupled(t)
  BY <1>1, <1>3 DEF Coupled, Is, IsCertFill
<1> QED
  BY <1>1, <1>3, <1>4, <1>5 DEF Shape

\* A section that only reads the CRL and removes files.
Light(t) == \A i \in DOMAIN t : t[i].op \in {"revoke", "clean", "remove"}

LEMMA LightShape ==
  ASSUME NEW t \in Seq(Steps), Light(t), Ordered(t), \A i \in DOMAIN t : StepOK(t[i])
  PROVE  Shape(t)
<1>1. Coupled(t)
  BY DEF Coupled, Light, Is, IsCertFill
<1> QED
  BY <1>1 DEF Shape

LEMMA LightSections ==
  ASSUME DiskOK, NEW n \in Names,
         NEW t \in {RevokeSection(n), CleanSection(n), RemoveFile(Request(n)),
                    RevokeSection(n) \o CleanSection(n), <<>> \o CleanSection(n)}
  PROVE  Shape(t) /\ Light(t)
<1> DEFINE a1 == FileStep("revoke", Crl, disk[Signed(n)])
           a2 == FileStep("clean", Signed(n), Missing)
           a3 == FileStep("remove", Request(n), Missing)
<1>1. /\ a1.op = "revoke" /\ a2.op = "clean" /\ a3.op = "remove"
      /\ {a2, a3} \subseteq Steps /\ StepOK(a2) /\ StepOK(a3)
      /\ Whole(Signed(n)) => a1 \in Steps /\ StepOK(a1)
  <2>1. Whole(Signed(n)) => disk[Signed(n)] \in 1 .. MaxSerial
    BY Contents, DirAssumption
  <2> QED
    BY <2>1, StepsAre DEF FileStep
<1>2. /\ RevokeSection(n) = IF Whole(Signed(n)) THEN <<a1>> ELSE <<>>
      /\ CleanSection(n) = <<a2>> \o <<a3>> /\ RemoveFile(Request(n)) = <<a3>>
  BY DEF RevokeSection, CleanSection, RemoveFile, Do
<1> HIDE DEF a1, a2, a3
<1>3. CASE t = RemoveFile(Request(n))
  <2>1. t \in Seq(Steps) /\ Len(t) = 1 /\ DOMAIN t = {1} /\ t[1] = a3
    BY <1>1, <1>2, <1>3
  <2>2. Ordered(t) /\ Light(t)
    BY <1>1, <2>1 DEF Ordered, Light
  <2> QED
    BY <1>1, <2>1, <2>2, LightShape
<1>4. ASSUME Whole(Signed(n)), t = RevokeSection(n) PROVE Shape(t) /\ Light(t)
  <2>1. t \in Seq(Steps) /\ Len(t) = 1 /\ DOMAIN t = {1} /\ t[1] = a1
    BY <1>1, <1>2, <1>4
  <2>2. Ordered(t) /\ Light(t)
    BY <1>1, <2>1 DEF Ordered, Light
  <2> QED
    BY <1>1, <1>4, <2>1, <2>2, LightShape
<1>5. CASE t = <<>>
  <2>1. t \in Seq(Steps) /\ DOMAIN t = {}
    BY <1>5
  <2>2. Ordered(t) /\ Light(t)
    BY <2>1 DEF Ordered, Light
  <2> QED
    BY <2>1, <2>2, LightShape
<1>6. CASE t = CleanSection(n)
  <2>1. t \in Seq(Steps) /\ Len(t) = 2 /\ DOMAIN t = {1, 2} /\ t[1] = a2 /\ t[2] = a3
    BY <1>1, <1>2, <1>6
  <2>2. Ordered(t) /\ Light(t)
    BY <1>1, <2>1 DEF Ordered, Light
  <2> QED
    BY <1>1, <2>1, <2>2, LightShape
<1>7. ASSUME Whole(Signed(n)), t = RevokeSection(n) \o CleanSection(n) PROVE Shape(t) /\ Light(t)
  <2>1. t = <<a1>> \o (<<a2>> \o <<a3>>)
    BY <1>2, <1>7
  <2>2. /\ t \in Seq(Steps) /\ Len(t) = 3 /\ DOMAIN t = {1, 2, 3}
        /\ t[1] = a1 /\ t[2] = a2 /\ t[3] = a3
    BY <1>1, <1>7, <2>1
  <2>3. Ordered(t) /\ Light(t)
    BY <1>1, <2>2 DEF Ordered, Light
  <2> QED
    BY <1>1, <1>7, <2>2, <2>3, LightShape
<1>8. ASSUME ~ Whole(Signed(n)) \/ t = <<>> \o CleanSection(n),
             t \in {RevokeSection(n) \o CleanSection(n), <<>> \o CleanSection(n)}
      PROVE  t = CleanSection(n)
  <2>1. CleanSection(n) \in Seq(Steps)
    BY <1>1, <1>2
  <2> QED
    BY <1>2, <1>8, <2>1
<1> QED
  BY <1>2, <1>3, <1>4, <1>5, <1>6, <1>7, <1>8

LEMMA Prepend ==
  ASSUME NEW v \in Seq(Steps), NEW a1 \in Steps, NEW a2 \in Steps, NEW u, u = <<a1, a2>> \o v
  PROVE  /\ u \in Seq(Steps) /\ Len(u) = Len(v) + 2 /\ DOMAIN u = 1 .. Len(v) + 2 /\ Len(v) \in Nat
         /\ u[1] = a1 /\ u[2] = a2
         /\ \A i \in DOMAIN u : i > 2 => i - 2 \in DOMAIN v /\ u[i] = v[i - 2]
         /\ \A i \in DOMAIN v : i + 2 \in DOMAIN u /\ u[i + 2] = v[i]
  OBVIOUS

LEMMA PrependNothing ==
  ASSUME NEW v \in Seq(Steps)
  PROVE  <<>> \o v = v
  OBVIOUS

\* u rewrites the CRL with w, where t reads it.
Rewrites(u, t, w) ==
    /\ u \in Seq(Steps) /\ Len(t) \in Nat
    /\ Len(u) = Len(t) + 1 /\ DOMAIN u = 1 .. Len(t) + 1 /\ DOMAIN t = 1 .. Len(t)
    /\ u[1] = FileStep("create", Crl, Torn) /\ u[2] = FileStep("fill", Crl, w)
    /\ \A i \in DOMAIN u : i > 2 => i - 1 \in DOMAIN t /\ u[i] = t[i - 1]
    /\ \A i \in DOMAIN t : i > 1 => i + 1 \in DOMAIN u /\ u[i + 1] = t[i]

LEMMA RewritesShape ==
  ASSUME NEW t, Shape(t), t # <<>>, t[1].op = "revoke", NEW w \in SUBSET (1 .. MaxSerial),
         NEW u, Rewrites(u, t, w)
  PROVE  /\ Shape(u)
         /\ \A i \in DOMAIN u : i \in {1, 2} \/ (i > 2 /\ u[i].op \in {"clean", "remove"})
<1>1. Len(t) \in Nat \ {0} /\ DOMAIN t = 1 .. Len(t) /\ 1 \in DOMAIN t
  BY TailIs DEF Shape
<1>2. w \in Vals /\ Holds(Crl, w) /\ Crl \in Files
  BY DirAssumption, FilesAre DEF Vals, Holds, Fixed
<1>3. /\ u[1].op = "create" /\ u[1].file = Crl /\ u[2].op = "fill" /\ u[2].file = Crl
      /\ StepOK(u[1]) /\ StepOK(u[2])
  BY <1>2, StepsAre DEF FileStep, Rewrites
<1>4. \A i \in DOMAIN u : i > 2 => /\ i - 1 \in DOMAIN t /\ u[i] = t[i - 1] /\ 1 < i - 1
                                   /\ StepOK(u[i]) /\ u[i].op \in {"clean", "remove"}
  <2> SUFFICES ASSUME NEW i \in DOMAIN u, i > 2
               PROVE  /\ i - 1 \in DOMAIN t /\ u[i] = t[i - 1] /\ 1 < i - 1
                      /\ StepOK(u[i]) /\ u[i].op \in {"clean", "remove"}
    OBVIOUS
  <2>1. i - 1 \in DOMAIN t /\ u[i] = t[i - 1] /\ 1 < i - 1
    BY DEF Rewrites
  <2> QED
    BY <1>1, <2>1 DEF Shape, Ordered
<1>5. \A i \in DOMAIN u : i \in {1, 2} \/ i > 2
  BY DEF Rewrites
<1>6. \A i \in DOMAIN u : /\ StepOK(u[i])
                          /\ u[i].op = "create" => i = 1
                          /\ u[i].op = "fill" => i = 2
                          /\ u[i].op \in {"create", "fill", "clean", "remove"}
                          /\ u[i].op \in {"clean", "remove"} => i > 2
  BY <1>3, <1>4, <1>5
<1>7. Ordered(u)
  <2>1. \A i \in DOMAIN u : u[i].op = "create" => i < Len(u) /\ Is(u[i + 1], "fill", u[i].file)
    BY <1>1, <1>3, <1>6 DEF Is, Rewrites
  <2>2. \A i \in DOMAIN u : u[i].op = "fill" /\ i > 1 => Is(u[i - 1], "create", u[i].file)
    BY <1>1, <1>3, <1>6 DEF Is
  <2>3. \A i \in DOMAIN u : u[i].op \in {"remove", "sign"} => i = Len(u)
    <3> SUFFICES ASSUME NEW i \in DOMAIN u, u[i].op = "remove" PROVE i = Len(u)
      BY <1>6
    <3>1. i - 1 = Len(t)
      BY <1>4, <1>6 DEF Shape, Ordered
    <3> QED
      BY <1>1, <3>1 DEF Rewrites
  <2>4. \A i, j \in DOMAIN u : u[i].op \in {"revoke", "clean", "append"} /\ i < j
                              => u[j].op \in {"clean", "remove"}
    <3> SUFFICES ASSUME NEW i \in DOMAIN u, NEW j \in DOMAIN u, i > 2, i < j
                 PROVE  u[j].op \in {"clean", "remove"}
      BY <1>6
    <3>1. j > 2
      BY DEF Rewrites
    <3> QED
      BY <1>4, <3>1
  <2> QED
    BY <2>1, <2>2, <2>3, <2>4 DEF Ordered
<1>8. Coupled(u)
  <2>1. /\ Crl \notin CertFiles /\ Crl \notin {Serial, ServerCrt, ServerKey}
        /\ \A n \in Names : Crl # Request(n) /\ Crl # Signed(n)
    BY FilesAre, FilesDiffer DEF Fixed
  <2>2. \A i \in DOMAIN u : /\ u[i].op \in {"create", "fill"} => u[i].file = Crl
                            /\ u[i].op # "sign"
    BY <1>3, <1>6
  <2> QED
    BY <1>6, <2>1, <2>2 DEF Coupled, Is, IsCertFill
<1> QED
  BY <1>4, <1>5, <1>6, <1>7, <1>8 DEF Shape, Rewrites

\* A revocation that has read the CRL rewrites it, unless the serial is listed.
LEMMA RevokeIs ==
  ASSUME NEW t, Shape(t), t # <<>>, t[1].op = "revoke", NEW r \in SUBSET (1 .. MaxSerial)
  PROVE  LET w == r \cup {t[1].val}
             u == RevokeSteps(t[1].val, r) \o Tail(t)
         IN  w \in SUBSET (1 .. MaxSerial) /\ (u = Tail(t) \/ Rewrites(u, t, w))
<1> DEFINE w == r \cup {t[1].val}
<1>1. /\ Tail(t) \in Seq(Steps) /\ Len(t) \in Nat \ {0} /\ Len(Tail(t)) = Len(t) - 1
      /\ DOMAIN t = 1 .. Len(t) /\ DOMAIN Tail(t) = 1 .. Len(t) - 1
      /\ \A i \in DOMAIN Tail(t) : i + 1 \in DOMAIN t /\ Tail(t)[i] = t[i + 1]
      /\ \A i \in DOMAIN t : i > 1 => i - 1 \in DOMAIN Tail(t) /\ Tail(t)[i - 1] = t[i]
      /\ 1 \in DOMAIN t
  BY TailIs DEF Shape
<1>2. w \in SUBSET (1 .. MaxSerial)
  BY <1>1 DEF Shape, StepOK
<1>3. CASE t[1].val \in r
  BY <1>1, <1>2, <1>3, PrependNothing DEF RevokeSteps
<1>4. CASE t[1].val \notin r
  <2> DEFINE u == <<FileStep("create", Crl, Torn), FileStep("fill", Crl, w)>> \o Tail(t)
             v == Tail(t)
  <2>1. w \in Vals /\ Holds(Crl, w) /\ Crl \in Files
    BY <1>2, DirAssumption, FilesAre DEF Vals, Holds, Fixed
  <2>2. FileStep("create", Crl, Torn) \in Steps /\ FileStep("fill", Crl, w) \in Steps
    BY <2>1, StepsAre
  <2>3. /\ u \in Seq(Steps) /\ Len(u) = Len(v) + 2 /\ DOMAIN u = 1 .. Len(v) + 2
        /\ u[1] = FileStep("create", Crl, Torn) /\ u[2] = FileStep("fill", Crl, w)
        /\ \A i \in DOMAIN u : i > 2 => i - 2 \in DOMAIN v /\ u[i] = v[i - 2]
        /\ \A i \in DOMAIN v : i + 2 \in DOMAIN u /\ u[i + 2] = v[i]
    BY <1>1, <2>2, Prepend
  <2> HIDE DEF u, w, v
  <2>4. Len(u) = Len(t) + 1 /\ DOMAIN u = 1 .. Len(t) + 1
    BY <1>1, <2>3 DEF v
  <2>5. \A i \in DOMAIN u : i > 2 => i - 1 \in DOMAIN t /\ u[i] = t[i - 1]
    BY <1>1, <2>3, <2>4 DEF v
  <2>6. \A i \in DOMAIN t : i > 1 => i + 1 \in DOMAIN u /\ u[i + 1] = t[i]
    BY <1>1, <2>3, <2>4 DEF v
  <2>7. Rewrites(u, t, w)
    BY <1>1, <2>3, <2>4, <2>5, <2>6 DEF Rewrites
  <2>8. RevokeSteps(t[1].val, r) \o Tail(t) = u
    BY <1>4 DEF RevokeSteps, WriteFile, u, w
  <2> QED
    BY <1>2, <2>7, <2>8 DEF w
<1> QED
  BY <1>3, <1>4

----------------------------------------------------------------------------
(* Steps that leave the files alone. *)

\* A section that neither creates nor fills nor signs has nothing to promise.
LEMMA LightOK ==
  ASSUME NEW t, Shape(t), Light(t)
  PROVE  SectionOK(t) /\ Quiet(t) /\ \A f : ~ HasStep(t, "fill", f)
<1>1. 1 \in DOMAIN t \/ t = <<>>
  BY DEF Shape
<1>2. /\ Created(t) /\ SerialAhead(t) /\ RequestAhead(t)
      /\ Quiet(t) /\ \A f : ~ HasStep(t, "fill", f)
  BY <1>1 DEF Light, Created, SerialAhead, RequestAhead, Quiet, HasStep, Is, IsCertFill
<1>3. PairAhead(t)
  BY DEF Light, PairAhead, Is
<1> QED
  BY <1>2, <1>3 DEF SectionOK

\* What a section was decided on stays when no file changes.
LEMMA SectionStays ==
  ASSUME NEW t, SectionOK(t), UNCHANGED disk, issued' \subseteq issued, cut \subseteq cut'
  PROVE  SectionOK(t)'
<1>1. \A f : (Exists(f)' <=> Exists(f)) /\ (Whole(f)' <=> Whole(f))
  BY DEF Exists, Whole
<1>2. Shape(t)'
  BY DEF SectionOK, Shape, StepOK, Holds, Ordered, Coupled, Is, IsCertFill
<1>3. SerialAhead(t)'
  BY <1>1 DEF SectionOK, SerialAhead, Is, IsCertFill
<1>4. Created(t)' /\ PairAhead(t)' /\ RequestAhead(t)'
  BY <1>1 DEF SectionOK, Created, PairAhead, RequestAhead, HasStep, Is
<1> QED
  BY <1>2, <1>3, <1>4 DEF SectionOK

\* The section of one process is replaced and no file changes; what it leaves of the
\* server's pair is in the history.
LEMMA SameDisk ==
  ASSUME IInv, NEW p \in Procs, NEW u, SectionOK(u)', todo' = [todo EXCEPT ![p] = u],
         UNCHANGED <<disk, revokedEver>>, issued' \subseteq issued, cut \subseteq cut',
         split \/ (AtKey(todo[p]) /\ Whole(ServerKey)) => split'
  PROVE  /\ DiskOK' /\ SectionsOK' /\ SerialOK' /\ PairOK'
         /\ todo' \in [Procs -> Seq(Steps)] /\ todo'[p] = u
         /\ \A q \in Procs \ {p} : todo'[q] = todo[q]
         /\ (~ Exists(Crl) => revokedEver = {})'
         /\ \A f : (Exists(f)' <=> Exists(f)) /\ (Whole(f)' <=> Whole(f))
<1>1. todo \in [Procs -> Seq(Steps)] /\ u \in Seq(Steps)
  BY DEF IInv, PhaseOK, SectionOK, Shape
<1>2. todo' \in [Procs -> Seq(Steps)] /\ todo'[p] = u /\ \A q \in Procs \ {p} : todo'[q] = todo[q]
  BY <1>1
<1>3. ASSUME NEW q \in Procs \ {p} PROVE SectionOK(todo[q])'
  BY <1>2, SectionStays DEF IInv, SectionsOK
<1>4. SectionsOK'
  BY <1>2, <1>3 DEF SectionsOK
<1>5. DiskOK' /\ SerialOK' /\ PairOK'
  <2>1. DiskOK' /\ SerialOK'
    BY DEF IInv, DiskOK, SerialOK, Whole, Holds
  <2>2. PairOK'
    BY <1>2 DEF IInv, PairOK, Whole, AtKey, Is
  <2> QED
    BY <2>1, <2>2
<1>6. (~ Exists(Crl) => revokedEver = {})'
  BY DEF IInv, CrlOK, Exists
<1>7. \A f : (Exists(f)' <=> Exists(f)) /\ (Whole(f)' <=> Whole(f))
  BY DEF Exists, Whole
<1> QED
  BY <1>2, <1>4, <1>5, <1>6, <1>7

\* Who is where after a step of a section.
LEMMA GoesOnIs ==
  ASSUME PhaseOK, NEW p \in Procs, todo[p] # <<>>, NEW u \in Seq(Steps), GoesOn(p, u),
         Quiet(todo[p]) => Quiet(u)
  PROVE  /\ PhaseOK' /\ todo' = [todo EXCEPT ![p] = u]
         /\ server' = server \/ (u = <<>> /\ server' \in {"up", "down"})
         /\ p = "server" => server \in {"init", "up"}
<1>1. todo' = [todo EXCEPT ![p] = u] /\ todo \in [Procs -> Seq(Steps)]
  BY DEF GoesOn, PhaseOK
<1>2. todo' \in [Procs -> Seq(Steps)] /\ todo'[p] = u /\ \A q \in Procs \ {p} : todo'[q] = todo[q]
  BY <1>1
<1>3. Quiet(<<>>)
  BY DEF Quiet
<1>4. CASE p = "server"
  <2>1. server \in {"init", "up"}
    BY <1>4 DEF PhaseOK
  <2>2. server' = server \/ (u = <<>> /\ server = "init" /\ server' = "up")
    BY <1>4 DEF GoesOn
  <2>3. todo'["admin"] = todo["admin"]
    BY <1>2, <1>4 DEF Procs
  <2>4. PhaseOK'
    BY <1>2, <2>1, <2>2, <2>3 DEF PhaseOK, Quiet
  <2> QED
    BY <1>1, <2>1, <2>2, <2>4
<1>5. CASE p = "admin"
  <2>1. server' = server \/ (u = <<>> /\ server = "offline" /\ server' = "down")
    BY <1>5 DEF GoesOn
  <2>2. todo'["server"] = todo["server"] /\ todo'["admin"] = u
    BY <1>2, <1>5 DEF Procs
  <2>3. server' # "offline" => Quiet(u)
    BY <1>3, <1>5, <2>1 DEF PhaseOK
  <2>4. PhaseOK'
    BY <1>2, <2>1, <2>2, <2>3 DEF PhaseOK, Quiet
  <2> QED
    BY <1>1, <1>5, <2>1, <2>4
<1> QED
  BY <1>4, <1>5 DEF Procs

\* Where there is no CA yet, the server is in Init, before it creates ca_key.pem.
LEMMA FreshSection ==
  ASSUME IInv, NEW p \in Procs, todo[p] # <<>>, ~ Exists(CaKey)
  PROVE  p = "server" /\ server = "init" /\ BeforeKey(todo[p])
  BY DEF IInv, PhaseOK, FreshOK, Procs

\* Whoever neither creates nor fills a file works in a CA that exists.
LEMMA CAExists ==
  ASSUME IInv, NEW p \in Procs, todo[p] # <<>>, todo[p][1].op \notin {"create", "fill"}
  PROVE  Exists(CaKey)
<1> DEFINE t == todo[p]
<1> SUFFICES ASSUME ~ Exists(CaKey) PROVE FALSE
  OBVIOUS
<1>1. BeforeKey(t)
  BY FreshSection
<1>2. t \in Seq(Steps) /\ Shape(t)
  BY DEF IInv, SectionsOK, SectionOK, Shape
<1>3. t[1] \in Steps /\ StepOK(t[1]) /\ DOMAIN t = 1 .. Len(t) /\ 1 \in DOMAIN t
  BY <1>2, TailIs DEF Shape
<1>4. t[1].file = CaCrt \/ t[1].op = "create"
  BY <1>1, <1>3 DEF BeforeKey, Is
<1> QED
  BY <1>3, <1>4, FilesDiffer DEF StepOK, Steps, Ops, Fixed

\* The section of p becomes u, in a CA that exists; no file changes, u does not write
\* the CRL, and what p leaves undone is in the history.
LEMMA SameDiskInv ==
  ASSUME IInv, NEW p \in Procs, NEW u, SectionOK(u)', todo' = [todo EXCEPT ![p] = u], PhaseOK',
         UNCHANGED <<disk, issued, revokedEver>>, Exists(CaKey),
         ~ HasStep(u, "fill", Crl),
         ~ crlHurt' => ~ crlHurt /\ ~ (todo[p] # <<>> /\ Is(todo[p][1], "fill", Crl)),
         cut \subseteq cut',
         split \/ (AtKey(todo[p]) /\ Whole(ServerKey)) => split',
         \A n \in Names : /\ Exists(Signed(n)) /\ Exists(Request(n))
                          /\ HasStep(todo[p], "remove", Request(n))
                          => n \in cut' \/ HasStep(u, "remove", Request(n))
  PROVE  IInv'
<1>1. /\ DiskOK' /\ SectionsOK' /\ SerialOK' /\ PairOK'
      /\ todo'[p] = u /\ \A q \in Procs \ {p} : todo'[q] = todo[q]
      /\ (~ Exists(Crl) => revokedEver = {})'
      /\ \A f : (Exists(f)' <=> Exists(f)) /\ (Whole(f)' <=> Whole(f))
  BY SameDisk
<1>2. FreshOK'
  BY <1>1 DEF IInv, FreshOK
<1>3. CrlOK'
  <2> SUFFICES ASSUME ~ crlHurt' PROVE CrlKept'
    BY <1>1 DEF CrlOK
  <2>1. CrlKept /\ ~ (todo[p] # <<>> /\ Is(todo[p][1], "fill", Crl))
    BY DEF IInv, CrlOK
  <2>2. (Whole(Crl) => revokedEver \subseteq disk[Crl])'
    BY <1>1, <2>1 DEF CrlKept
  <2>3. \A q \in Procs : \A i \in DOMAIN todo'[q] :
            Is(todo'[q][i], "fill", Crl) => revokedEver \subseteq todo'[q][i].val
    BY <1>1, <2>1 DEF CrlKept, HasStep
  <2>4. \A q, r \in Procs :
            HasStep(todo'[q], "fill", Crl) /\ HasStep(todo'[r], "fill", Crl) => q = r
    BY <1>1, <2>1 DEF CrlKept
  <2>5. disk[Crl] = Torn => \E q \in Procs : todo'[q] # <<>> /\ Is(todo'[q][1], "fill", Crl)
    BY <1>1, <2>1 DEF CrlKept
  <2> QED
    BY <2>2, <2>3, <2>4, <2>5 DEF CrlKept, HasStep, Is
<1>4. RequestOrCertUnlessCut'
  <2> SUFFICES ASSUME NEW n \in Names, n \notin cut', Exists(Signed(n)), Exists(Request(n))
               PROVE  \E q \in Procs : HasStep(todo'[q], "remove", Request(n))
    BY <1>1 DEF RequestOrCertUnlessCut, Ahead, HasStep, Is
  <2>1. PICK q \in Procs : HasStep(todo[q], "remove", Request(n))
    BY DEF IInv, RequestOrCertUnlessCut, Ahead, HasStep, Is
  <2> QED
    BY <1>1, <2>1
<1> QED
  BY <1>1, <1>2, <1>3, <1>4 DEF IInv

\* A process takes its lock.
LEMMA LockStep ==
  ASSUME IInv, NEW p \in Procs, NEW u, SectionOK(u)', Lock(p, u), Exists(CaKey),
         UNCHANGED <<issued, revokedEver, crlHurt, split>>, cut \subseteq cut',
         ~ HasStep(u, "fill", Crl),
         \/ p = "server" /\ server = "up" /\ server' = server
         \/ p = "admin" /\ Quiet(u) /\ server' = server
         \/ p = "admin" /\ server = "down" /\ server' = "offline"
  PROVE  IInv'
<1>1. todo' = [todo EXCEPT ![p] = u] /\ todo[p] = <<>> /\ UNCHANGED disk
  BY DEF Lock, LockFree
<1>2. u \in Seq(Steps) /\ todo \in [Procs -> Seq(Steps)]
  BY DEF IInv, PhaseOK, SectionOK, Shape
<1>3. todo' \in [Procs -> Seq(Steps)] /\ todo'[p] = u /\ \A q \in Procs \ {p} : todo'[q] = todo[q]
  BY <1>1, <1>2
<1>4. PhaseOK'
  <2>1. CASE p = "server"
    <3>1. todo'["admin"] = todo["admin"] /\ server = "up" /\ server' = "up"
      BY <1>3, <2>1 DEF Procs
    <3> QED
      BY <1>3, <3>1 DEF IInv, PhaseOK, Quiet
  <2>2. CASE p = "admin"
    <3>1. todo'["server"] = todo["server"] /\ todo'["admin"] = u
      BY <1>3, <2>2 DEF Procs
    <3> QED
      BY <1>3, <2>2, <3>1 DEF IInv, PhaseOK, Quiet
  <2> QED
    BY <2>1, <2>2 DEF Procs
<1>5. ~ AtKey(todo[p]) /\ \A f : ~ HasStep(todo[p], "remove", f)
  BY <1>1 DEF HasStep, AtKey
<1> QED
  BY <1>1, <1>4, <1>5, SameDiskInv

LEMMA EnterStep ==
  ASSUME IInv, NEW p \in Procs, NEW u, SectionOK(u), Enter(p, u), Exists(CaKey),
         ~ HasStep(u, "fill", Crl),
         \/ p = "server" /\ server = "up" /\ server' = server
         \/ p = "admin" /\ Quiet(u) /\ server' = server
         \/ p = "admin" /\ server = "down" /\ server' = "offline"
  PROVE  IInv'
<1>1. Lock(p, u) /\ UNCHANGED <<issued, revokedEver, crlHurt, cut, split>>
  BY DEF Enter, history
<1>2. UNCHANGED disk
  BY <1>1 DEF Lock
<1>3. SectionOK(u)'
  BY <1>1, <1>2, SectionStays
<1> QED
  BY <1>1, <1>3, LockStep

\* A server that is up, and an administrator who can open it, work in a CA that exists.
LEMMA UpExists == IInv /\ (server = "up" \/ CanOpen) => Exists(CaKey)
  BY DEF IInv, FreshOK, CanOpen, Whole, Exists

LEMMA OpenStep == IInv /\ Open => IInv'
<1> SUFFICES ASSUME IInv, Open PROVE IInv'
  OBVIOUS
<1>1. /\ server = "down" /\ server' = "up"
      /\ UNCHANGED <<disk, todo, issued, revokedEver, crlHurt, cut, split>>
      /\ Exists(CaKey)
  BY UpExists DEF Open, history
<1>2. \A f : (Exists(f)' <=> Exists(f)) /\ (Whole(f)' <=> Whole(f))
  BY <1>1 DEF Exists, Whole
<1>3. PhaseOK' /\ FreshOK'
  BY <1>1, <1>2 DEF IInv, PhaseOK, FreshOK, Quiet
<1>4. DiskOK' /\ SerialOK' /\ PairOK'
  BY <1>1, <1>2 DEF IInv, DiskOK, SerialOK, PairOK, AtKey, Is
<1>5. SectionsOK'
  BY <1>1, <1>2 DEF IInv, SectionsOK, SectionOK, Created, SerialAhead, PairAhead, RequestAhead
<1>6. CrlOK'
  BY <1>1, <1>2 DEF IInv, CrlOK, CrlKept, HasStep, Is
<1>7. RequestOrCertUnlessCut'
  BY <1>1, <1>2 DEF IInv, RequestOrCertUnlessCut, Ahead
<1> QED
  BY <1>3, <1>4, <1>5, <1>6, <1>7 DEF IInv

\* A section on the request of one name.
LEMMA OfRequestOK ==
  ASSUME NEW n \in Names, NEW t, Shape(t), OfRequest(t, n), t[1].op # "fill",
         (\E i \in DOMAIN t : t[i].op = "sign") => Room, UNCHANGED disk,
         (\E i \in DOMAIN t : t[i].op = "create") => ~ Exists(Signed(n)) \/ n \in cut'
  PROVE  SectionOK(t)' /\ ~ HasStep(t, "fill", Crl)
<1>1. /\ Request(n) \notin CertFiles /\ Request(n) \notin {Serial, ServerCrt, ServerKey, Crl}
      /\ \A m \in Names : Request(n) = Request(m) => n = m
  BY FilesDiffer, FilesAre DEF Fixed
<1>2. Created(t)' /\ ~ HasStep(t, "fill", Crl)
  BY <1>1 DEF Created, HasStep, OfRequest, Is
<1>3. SerialAhead(t)'
  BY <1>1 DEF SerialAhead, OfRequest, Is, IsCertFill, Room, Whole
<1>4. PairAhead(t)'
  BY <1>1 DEF PairAhead, OfRequest, Is
<1>5. RequestAhead(t)'
  BY <1>1 DEF RequestAhead, OfRequest, Is, Exists
<1>6. Shape(t)'
  BY DEF Shape, StepOK, Holds, Ordered, Coupled, Is, IsCertFill
<1> QED
  BY <1>2, <1>3, <1>4, <1>5, <1>6 DEF SectionOK

LEMMA SubmitStep ==
  ASSUME IInv, NEW c \in CSRs, NEW autosign \in BOOLEAN, NEW ok \in BOOLEAN,
         SubmitCSR(c, autosign, ok)
  PROVE  IInv'
<1> DEFINE n == CN[c]
<1>1. /\ server = "up" /\ server' = server /\ Exists(CaKey)
      /\ UNCHANGED <<issued, revokedEver, crlHurt, split>>
      /\ cut \subseteq cut' /\ (~ Exists(Signed(n)) \/ n \in cut')
  BY UpExists DEF SubmitCSR, StoreCSR
<1>2. CASE autosign
  <2> DEFINE t == WriteFile(Request(n), c) \o Do("sign", Request(n), n)
  <2>1. n \in Names /\ Shape(t) /\ OfRequest(t, n) /\ t[1].op = "create"
    BY SubmitSignIs
  <2>2. Room /\ Lock("server", t) /\ UNCHANGED disk
    BY <1>2 DEF SubmitCSR, StoreCSR, Lock
  <2> HIDE DEF t, n
  <2>3. SectionOK(t)' /\ ~ HasStep(t, "fill", Crl)
    BY <1>1, <2>1, <2>2, OfRequestOK
  <2> QED
    BY <1>1, <2>2, <2>3, LockStep DEF Procs
<1>3. CASE ~ autosign
  <2> DEFINE t == WriteFile(Request(n), c) \o <<>>
  <2>1. /\ n \in Names /\ Shape(t) /\ OfRequest(t, n) /\ t[1].op = "create"
        /\ \A i \in DOMAIN t : t[i].op # "sign"
    BY SubmitIs
  <2>2. Lock("server", t) /\ UNCHANGED disk
    BY <1>3 DEF SubmitCSR, StoreCSR, Lock
  <2> HIDE DEF t, n
  <2>3. SectionOK(t)' /\ ~ HasStep(t, "fill", Crl)
    BY <1>1, <2>1, <2>2, OfRequestOK
  <2> QED
    BY <1>1, <2>2, <2>3, LockStep DEF Procs
<1> QED
  BY <1>2, <1>3

LEMMA SignStep ==
  ASSUME IInv, NEW n \in Names, Sign(n) \/ AdminSign(n)
  PROVE  IInv'
<1> DEFINE t == Do("sign", Request(n), n)
<1>1. /\ t # <<>> /\ Shape(t) /\ DOMAIN t = {1} /\ t[1].op = "sign" /\ t[1].file = Request(n)
  BY SignEntryIs
<1>2. /\ Room /\ Exists(CaKey)
      /\ \/ Enter("server", t) /\ server = "up" /\ server' = server
         \/ Enter("admin", t) /\ server = "down" /\ server' = "offline"
  BY UpExists DEF Sign, AdminSign, Serve
<1> HIDE DEF t
<1>3. PICK p \in Procs :
          /\ Lock(p, t) /\ UNCHANGED <<disk, issued, revokedEver, crlHurt, cut, split>>
          /\ \/ p = "server" /\ server = "up" /\ server' = server
             \/ p = "admin" /\ server = "down" /\ server' = "offline"
  BY <1>2 DEF Enter, Lock, history, Procs
<1>4. OfRequest(t, n)
  BY <1>1 DEF OfRequest
<1>5. SectionOK(t)' /\ ~ HasStep(t, "fill", Crl)
  BY <1>1, <1>2, <1>3, <1>4, OfRequestOK
<1> QED
  BY <1>2, <1>3, <1>5, LockStep

LEMMA LightStep ==
  ASSUME IInv, NEW n \in Names,
         \/ Revoke(n) \/ Clean(n) \/ DeleteCSR(n)
         \/ AdminRevoke(n) \/ \E ok \in BOOLEAN : AdminClean(n, ok)
  PROVE  IInv'
<1>1. PICK t \in {RevokeSection(n), CleanSection(n), RemoveFile(Request(n)),
                  RevokeSection(n) \o CleanSection(n), <<>> \o CleanSection(n)} :
          /\ Exists(CaKey) /\ server' = server
          /\ Enter("admin", t) \/ (Enter("server", t) /\ server = "up")
  BY UpExists DEF Revoke, Clean, DeleteCSR, AdminRevoke, AdminClean, Serve
<1>2. Shape(t) /\ Light(t)
  BY LightSections DEF IInv
<1>3. SectionOK(t) /\ Quiet(t) /\ ~ HasStep(t, "fill", Crl)
  BY <1>2, LightOK
<1> QED
  BY <1>1, <1>3, EnterStep DEF Procs

LEMMA MintStep ==
  ASSUME IInv, NEW ok \in BOOLEAN, ServerTLSCert(ok)
  PROVE  IInv'
<1> DEFINE t == MintSteps
           k == disk[Serial]
<1>1. /\ Whole(Serial) /\ k < MaxSerial
      /\ Enter("server", t) /\ server = "up" /\ server' = server /\ Exists(CaKey)
  BY UpExists DEF ServerTLSCert, Serve, Room
<1>2. /\ Lists(t, 7)
      /\ t[1] = FileStep("create", Serial, Torn) /\ t[2] = FileStep("fill", Serial, k + 1)
      /\ t[3] = FileStep("create", ServerCrt, Torn) /\ t[4] = FileStep("fill", ServerCrt, k)
      /\ t[5] = FileStep("create", ServerKey, Torn) /\ t[6] = FileStep("fill", ServerKey, k)
      /\ t[7].op = "append" /\ t[7].file = Inventory
      /\ Shape(t)
  BY <1>1, MintIs DEF IInv
<1>3. k \in Nat /\ (\A i \in issued : i \in Nat /\ i < k)
  <2>1. k \in 2 .. MaxSerial
    BY <1>1, Contents DEF IInv
  <2>2. issued \subseteq 1 .. MaxSerial /\ \A i \in issued : i < k
    BY <1>1 DEF IInv, SerialOK
  <2> HIDE DEF k
  <2> QED
    BY <2>1, <2>2, DirAssumption
<1> HIDE DEF t, k
<1>5. \A i \in DOMAIN t : i \in {1, 2, 3, 4, 5, 6, 7}
  BY <1>2 DEF Lists
<1>6. /\ \A i \in DOMAIN t : /\ t[i].op = "fill" => i \in {2, 4, 6}
                             /\ t[i].op = "create" => i \in {1, 3, 5}
                             /\ t[i].op # "sign"
      /\ t[1].op = "create" /\ t[1].file = Serial /\ t[2].op = "fill"
      /\ t[2].file = Serial /\ t[2].val = k + 1
      /\ t[3].file = ServerCrt /\ t[4].op = "fill" /\ t[4].file = ServerCrt /\ t[4].val = k
      /\ t[5].op = "create" /\ t[5].file = ServerKey /\ t[6].file = ServerKey
      /\ 2 \in DOMAIN t /\ 4 \in DOMAIN t /\ Len(t) = 7
  BY <1>2, <1>5 DEF FileStep, Lists
<1>7. /\ Serial \notin CertFiles /\ ServerKey \notin CertFiles
      /\ Serial \notin {ServerCrt, ServerKey, Crl}
      /\ ServerCrt \notin {ServerKey, Crl} /\ ServerKey # Crl
      /\ \A m \in Names : {Request(m), Signed(m)} \cap {Serial, ServerCrt, ServerKey} = {}
  BY FilesAre, FilesDiffer DEF Fixed
<1>8. Created(t)
  BY <1>6 DEF Created
<1>9. SerialAhead(t)
  BY <1>3, <1>6, <1>7 DEF SerialAhead, Is, IsCertFill
<1>10. PairAhead(t)
  <2>1. HasStep(t, "fill", ServerCrt)
    BY <1>6 DEF HasStep, Is
  <2>2. \A i \in DOMAIN t : Is(t[i], "fill", ServerCrt) => i = 4
    BY <1>6, <1>7 DEF Is
  <2> QED
    BY <1>6, <2>1, <2>2 DEF PairAhead, Is
<1>11. RequestAhead(t)
  <2>1. \A i \in DOMAIN t : t[i].op = "create" => t[i].file \in {Serial, ServerCrt, ServerKey}
    BY <1>6
  <2>2. \A m \in Names : Request(m) \notin {Serial, ServerCrt, ServerKey}
    BY FilesDiffer DEF Fixed
  <2> QED
    BY <2>1, <2>2 DEF RequestAhead, Is
<1>12. ~ HasStep(t, "fill", Crl)
  BY <1>6, <1>7 DEF HasStep, Is
<1> QED
  BY <1>1, <1>2, <1>8, <1>9, <1>10, <1>11, <1>12, EnterStep DEF Procs, SectionOK

\* Init starts where there is ca_crt.pem at most.
LEMMA InitCAStep ==
  ASSUME IInv, NEW ok \in BOOLEAN, InitCA(ok)
  PROVE  IInv'
<1> DEFINE t == InitSteps
<1>1. /\ server = "down" /\ server' = "init" /\ OpenNotExist
      /\ todo' = [todo EXCEPT !["server"] = t] /\ issued' = {}
      /\ UNCHANGED <<disk, revokedEver, crlHurt, cut, split>>
  BY DEF InitCA
<1>2. /\ ~ Exists(CaKey) /\ \A f \in Files \ {CaCrt} : ~ Exists(f)
      /\ revokedEver = {} /\ todo["admin"] = <<>>
  BY <1>1 DEF IInv, FreshOK, OpenNotExist
<1>3. /\ Lists(t, 13)
      /\ t[1] = FileStep("create", CaCrt, Torn) /\ t[2] = FileStep("fill", CaCrt, 1)
      /\ t[3] = FileStep("create", CaKey, Torn) /\ t[8] = FileStep("fill", Serial, 2)
      /\ \A i \in DOMAIN t : /\ t[i].op \in {"create", "fill", "append"}
                             /\ t[i].file \in Fixed \ {ServerCrt, ServerKey}
                             /\ IsCertFill(t[i]) => i = 2
                             /\ Is(t[i], "fill", Serial) => i = 8
      /\ Shape(t)
  BY InitIs
<1> HIDE DEF t
<1>4. /\ t[1].op = "create" /\ t[1].file = CaCrt /\ t[2].file = CaCrt /\ Is(t[3], "create", CaKey)
      /\ t # <<>> /\ DOMAIN t = 1 .. 13
      /\ {Serial, Crl} \subseteq Files \ {CaCrt}
      /\ \A n \in Names : Signed(n) \in Files \ {CaCrt}
  <2>1. t[1].op = "create" /\ t[1].file = CaCrt /\ t[2].file = CaCrt /\ Is(t[3], "create", CaKey)
    BY <1>3 DEF FileStep, Is
  <2>2. t # <<>> /\ DOMAIN t = 1 .. 13
    <3>1. t # <<>>
      BY <1>3, ListsSome
    <3> QED
      BY <1>3, <3>1 DEF Lists
  <2>3. /\ {Serial, Crl} \subseteq Files \ {CaCrt}
        /\ \A n \in Names : Signed(n) \in Files \ {CaCrt}
    BY FilesAre, FilesDiffer DEF Fixed
  <2> QED
    BY <2>1, <2>2, <2>3
<1>5. SectionOK(t)'
  <2>1. Created(t)'
    BY <1>4 DEF Created
  <2>2. SerialAhead(t)'
    BY <1>1, <1>2, <1>3, <1>4 DEF SerialAhead, Exists, Whole, Is, IsCertFill
  <2>3. PairAhead(t)'
    BY <1>3 DEF PairAhead, Is
  <2>4. RequestAhead(t)'
    BY <1>3, FilesDiffer DEF RequestAhead, Is
  <2>5. Shape(t)'
    BY <1>3 DEF Shape, StepOK, Holds, Ordered, Coupled, Is, IsCertFill
  <2> QED
    BY <2>1, <2>2, <2>3, <2>4, <2>5 DEF SectionOK
<1>6. /\ DiskOK' /\ SectionsOK' /\ SerialOK' /\ PairOK'
      /\ todo' \in [Procs -> Seq(Steps)] /\ todo'["server"] = t
      /\ \A q \in Procs \ {"server"} : todo'[q] = todo[q]
      /\ (~ Exists(Crl) => revokedEver = {})'
      /\ \A f : (Exists(f)' <=> Exists(f)) /\ (Whole(f)' <=> Whole(f))
  <2>1. ~ AtKey(todo["server"])
    BY <1>1 DEF IInv, PhaseOK, AtKey
  <2> QED
    BY <1>1, <1>5, <2>1, SameDisk DEF Procs
<1>7. todo'["admin"] = <<>>
  BY <1>2, <1>6 DEF Procs
<1>8. PhaseOK'
  BY <1>1, <1>6, <1>7 DEF PhaseOK, Quiet
<1>9. FreshOK'
  <2>1. BeforeKey(t)'
    <3>1. \A i \in DOMAIN t : i < 3 => i \in {1, 2}
      BY <1>4
    <3>2. 3 \in DOMAIN t /\ Is(t[3], "create", CaKey) /\ \A i \in DOMAIN t : i < 3 => t[i].file = CaCrt
      BY <1>4, <3>1
    <3> QED
      BY <3>2 DEF BeforeKey, Is
  <2>2. \A f \in Files \ {CaCrt} : ~ Exists(f)'
    BY <1>2, <1>6
  <2> QED
    BY <1>1, <1>2, <1>6, <1>7, <2>1, <2>2 DEF FreshOK, BeforeKey, Is
<1>10. CrlKept'
  <2>1. disk'[Crl] = Missing /\ revokedEver' = {}
    BY <1>1, <1>2, <1>4 DEF Exists
  <2>2. \A p \in Procs : HasStep(todo'[p], "fill", Crl) => p = "server"
    BY <1>7 DEF Procs, HasStep
  <2> QED
    BY <2>1, <2>2, DirAssumption DEF CrlKept, Whole, HasStep, Is
<1>11. CrlOK'
  BY <1>6, <1>10 DEF CrlOK
<1>12. RequestOrCertUnlessCut'
  BY <1>2, <1>4, <1>6 DEF RequestOrCertUnlessCut
<1> QED
  BY <1>6, <1>8, <1>9, <1>11, <1>12 DEF IInv

\* A section cut down to its removals has nothing to promise.
LEMMA RemovesOK ==
  ASSUME NEW t, Shape(t), NEW u, OnlyRemoves(u, t)
  PROVE  SectionOK(u) /\ Quiet(u) /\ u \in Seq(Steps) /\ \A f : ~ HasStep(u, "fill", f)
<1>1. Shape(u) /\ Light(u)
  BY OnlyRemovesShape DEF OnlyRemoves, Light
<1> QED
  BY <1>1, LightOK DEF Shape

LEMMA SignOK ==
  ASSUME IInv, NEW n \in Names, Whole(Serial), disk[Serial] < MaxSerial, NEW t, t = SignSteps(n)
  PROVE  SectionOK(t) /\ ~ HasStep(t, "fill", Crl)
<1> DEFINE k == disk[Serial]
<1>1. /\ Lists(t, 6)
      /\ t[1] = FileStep("create", Serial, Torn) /\ t[2] = FileStep("fill", Serial, k + 1)
      /\ t[3] = FileStep("create", Signed(n), Torn) /\ t[4] = FileStep("fill", Signed(n), k)
      /\ t[5].op = "append" /\ t[5].file = Inventory
      /\ t[6] = FileStep("remove", Request(n), Missing)
      /\ Shape(t)
  BY SignIs DEF IInv
<1>2. k \in Nat /\ (\A i \in issued : i \in Nat /\ i < k)
  <2>1. k \in 2 .. MaxSerial
    BY Contents DEF IInv
  <2>2. issued \subseteq 1 .. MaxSerial /\ \A i \in issued : i < k
    BY DEF IInv, SerialOK
  <2> HIDE DEF k
  <2> QED
    BY <2>1, <2>2, DirAssumption
<1> HIDE DEF k
<1>3. \A i \in DOMAIN t : i \in {1, 2, 3, 4, 5, 6}
  BY <1>1 DEF Lists
<1>4. /\ \A i \in DOMAIN t : /\ t[i].op = "fill" => i \in {2, 4}
                             /\ t[i].op = "create" => i \in {1, 3}
                             /\ t[i].op # "sign"
      /\ t[1].op = "create" /\ t[1].file = Serial
      /\ t[2].op = "fill" /\ t[2].file = Serial /\ t[2].val = k + 1
      /\ t[3].file = Signed(n) /\ t[4].op = "fill" /\ t[4].file = Signed(n) /\ t[4].val = k
      /\ t[6].file = Request(n)
      /\ 2 \in DOMAIN t /\ 4 \in DOMAIN t
  BY <1>1, <1>3 DEF FileStep, Lists
<1>5. /\ Serial \notin CertFiles /\ Serial # Crl
      /\ Signed(n) \notin {Serial, ServerCrt, ServerKey, Crl}
      /\ Request(n) \notin {ServerCrt, ServerKey} /\ ServerCrt \notin {Serial, Inventory, ServerKey}
      /\ ServerKey # Serial
      /\ \A m \in Names : Request(m) \notin {Serial, Signed(n)}
  BY FilesAre, FilesDiffer DEF Fixed
<1>6. Created(t)
  BY <1>4 DEF Created
<1>7. SerialAhead(t)
  BY <1>2, <1>4, <1>5 DEF SerialAhead, Is, IsCertFill
<1>8. PairAhead(t)
  <2>1. \A i \in DOMAIN t : t[i].file # ServerCrt /\ (t[i].op = "fill" => t[i].file # ServerKey)
    BY <1>1, <1>3, <1>4, <1>5
  <2> QED
    BY <2>1 DEF PairAhead, Is
<1>9. RequestAhead(t)
  <2>1. \A i \in DOMAIN t : t[i].op = "create" => t[i].file \in {Serial, Signed(n)}
    BY <1>4
  <2> QED
    BY <1>5, <2>1 DEF RequestAhead, Is
<1>10. ~ HasStep(t, "fill", Crl)
  BY <1>4, <1>5 DEF HasStep, Is
<1> QED
  BY <1>1, <1>6, <1>7, <1>8, <1>9, <1>10 DEF SectionOK

LEMMA ReadToSignStep ==
  ASSUME IInv, NEW p \in Procs, ReadToSign(p)
  PROVE  IInv'
<1> DEFINE t == todo[p]
           n == t[1].val
<1>0. PICK u : u = IF Whole(t[1].file) /\ Whole(Serial) THEN SignSteps(n) ELSE <<>>
  OBVIOUS
<1>1. /\ t # <<>> /\ SectionOK(t) /\ Shape(t) /\ t \in Seq(Steps)
      /\ Len(t) \in Nat /\ DOMAIN t = 1 .. Len(t) /\ 1 \in DOMAIN t /\ Head(t) = t[1]
  <2>1. t # <<>> /\ SectionOK(t) /\ Shape(t) /\ t \in Seq(Steps)
    BY DEF ReadToSign, LockFree, IInv, SectionsOK, SectionOK, Shape
  <2> QED
    BY <2>1, TailIs
<1>2. /\ t[1].op = "sign" /\ GoesOn(p, u)
      /\ UNCHANGED <<disk, issued, revokedEver, crlHurt, cut, split>>
  BY <1>0, <1>1 DEF ReadToSign, history
<1>3. n \in Names /\ t[1].file = Request(n) /\ DOMAIN t = {1}
  <2>1. n \in Names /\ t[1].file = Request(n)
    BY <1>1, <1>2 DEF Shape, StepOK
  <2>2. Len(t) = 1
    BY <1>1, <1>2 DEF Shape, Ordered
  <2> QED
    BY <1>1, <2>1, <2>2
<1> HIDE DEF n
<1>4. SectionOK(u) /\ ~ HasStep(u, "fill", Crl)
  <2>1. CASE Whole(t[1].file) /\ Whole(Serial)
    <3>1. disk[Serial] < MaxSerial
      BY <1>1, <1>2, <2>1 DEF SectionOK, SerialAhead
    <3> QED
      BY <1>0, <1>3, <2>1, <3>1, SignOK
  <2>2. CASE ~ (Whole(t[1].file) /\ Whole(Serial))
    <3>1. OnlyRemoves(<<>>, t)
      BY <1>1, AfterErrorRemoves
    <3> QED
      BY <1>0, <1>1, <2>2, <3>1, RemovesOK
  <2> QED
    BY <2>1, <2>2
<1>5. u \in Seq(Steps) /\ ~ Quiet(t)
  <2>1. t[1].file # Crl
    BY <1>3, FilesDiffer DEF Fixed
  <2> QED
    BY <1>1, <1>2, <1>4, <2>1 DEF SectionOK, Shape, Quiet
<1>6. PhaseOK' /\ todo' = [todo EXCEPT ![p] = u]
  BY <1>1, <1>2, <1>5, GoesOnIs DEF IInv
<1>7. Exists(CaKey)
  BY <1>1, <1>2, CAExists
<1>8. (\A f : ~ HasStep(t, "remove", f)) /\ ~ Is(t[1], "fill", Crl) /\ ~ AtKey(t)
  BY <1>2, <1>3 DEF HasStep, Is, AtKey
<1>9. SectionOK(u)'
  BY <1>2, <1>4, SectionStays
<1> QED
  BY <1>2, <1>4, <1>6, <1>7, <1>8, <1>9, SameDiskInv

\* After a best-effort step or a look at the CRL only removals are left.
LEMMA TailRemoves ==
  ASSUME NEW t, Shape(t), t # <<>>, t[1].op \in {"revoke", "clean", "append", "remove"}
  PROVE  OnlyRemoves(Tail(t), t)
<1> DEFINE u == Tail(t)
<1>1. t \in Seq(Steps)
  BY DEF Shape
<1>2. /\ u \in Seq(Steps) /\ Len(u) = Len(t) - 1 /\ Len(t) \in Nat \ {0}
      /\ DOMAIN t = 1 .. Len(t) /\ DOMAIN u = 1 .. Len(t) - 1
      /\ \A i \in DOMAIN u : i + 1 \in DOMAIN t /\ u[i] = t[i + 1]
      /\ 1 \in DOMAIN t
  BY <1>1, TailIs
<1> HIDE DEF u
<1>3. \A i \in DOMAIN u : u[i].op \in {"clean", "remove"}
  <2>1. CASE t[1].op = "remove"
    <3>1. Len(t) = 1
      BY <1>2, <2>1 DEF Shape, Ordered
    <3> QED
      BY <1>2, <3>1
  <2>2. CASE t[1].op \in {"revoke", "clean", "append"}
    <3> SUFFICES ASSUME NEW i \in DOMAIN u PROVE u[i].op \in {"clean", "remove"}
      OBVIOUS
    <3>1. i + 1 \in DOMAIN t /\ 1 < i + 1 /\ u[i] = t[i + 1]
      BY <1>2
    <3> QED
      BY <1>2, <2>2, <3>1 DEF Shape, Ordered
  <2> QED
    BY <2>1, <2>2
<1>4. \A i \in DOMAIN u : u[i].op = "remove" => i = Len(u)
  <2> SUFFICES ASSUME NEW i \in DOMAIN u, u[i].op = "remove" PROVE i = Len(u)
    OBVIOUS
  <2>1. i + 1 = Len(t)
    BY <1>2 DEF Shape, Ordered
  <2> QED
    BY <1>2, <2>1
<1>5. \A i \in DOMAIN u : \E j \in DOMAIN t : u[i] = t[j]
  BY <1>2
<1>6. OnlyRemoves(u, t)
  BY <1>2, <1>3, <1>4, <1>5 DEF OnlyRemoves
<1> QED
  BY <1>6 DEF u

\* A rewrite of the CRL.
LEMMA RewritesOK ==
  ASSUME NEW t, Shape(t), t # <<>>, t[1].op = "revoke", NEW w \in SUBSET (1 .. MaxSerial),
         NEW u, Rewrites(u, t, w)
  PROVE  /\ SectionOK(u) /\ Quiet(u)
         /\ \A i \in DOMAIN u : Is(u[i], "fill", Crl) => u[i].val = w
         /\ \A f : HasStep(t, "remove", f) => HasStep(u, "remove", f)
<1>1. /\ Shape(u)
      /\ \A i \in DOMAIN u : i \in {1, 2} \/ (i > 2 /\ u[i].op \in {"clean", "remove"})
  BY RewritesShape
<1>2. /\ u[1].op = "create" /\ u[1].file = Crl
      /\ u[2].op = "fill" /\ u[2].file = Crl /\ u[2].val = w
  BY DEF Rewrites, FileStep
<1>3. \A i \in DOMAIN u : /\ u[i].op \in {"clean", "remove"} \/ u[i].file = Crl
                          /\ u[i].op \in {"clean", "remove", "create", "fill"}
                          /\ u[i].op = "fill" => u[i].val = w
  BY <1>1, <1>2
<1>4. /\ Crl \notin CertFiles /\ Crl \notin {Serial, ServerCrt, ServerKey}
      /\ \A n \in Names : Crl # Request(n)
  BY FilesAre, FilesDiffer DEF Fixed
<1>5. \A i \in DOMAIN u : u[i].file # ServerCrt
  <2>1. \A i \in DOMAIN u : u[i].op \in {"clean", "remove"} =>
            \E n \in Names : u[i].file = Request(n) \/ u[i].file = Signed(n)
    BY <1>1 DEF Shape, StepOK
  <2> QED
    BY <1>3, <1>4, <2>1, FilesDiffer DEF Fixed
<1>6. Created(u) /\ SerialAhead(u) /\ RequestAhead(u)
  BY <1>2, <1>3, <1>4 DEF Created, SerialAhead, RequestAhead, Is, IsCertFill
<1>7. PairAhead(u)
  BY <1>3, <1>4, <1>5 DEF PairAhead, Is
<1>8. \A f : HasStep(t, "remove", f) => HasStep(u, "remove", f)
  <2> SUFFICES ASSUME NEW f, NEW i \in DOMAIN t, Is(t[i], "remove", f)
               PROVE  \E j \in DOMAIN u : Is(u[j], "remove", f)
    BY DEF HasStep
  <2>1. i > 1
    BY DEF Rewrites, Is
  <2> QED
    BY <2>1 DEF Rewrites
<1> QED
  BY <1>1, <1>3, <1>6, <1>7, <1>8 DEF SectionOK, Quiet, Is

LEMMA ReadToRevokeStep ==
  ASSUME IInv, NEW p \in Procs, NEW ok \in BOOLEAN, ReadToRevoke(p, ok)
  PROVE  IInv'
<1> DEFINE t == todo[p]
           r == IF ok THEN ReadRevoked ELSE {}
           w == r \cup {t[1].val}
<1>0. PICK u : u = RevokeSteps(t[1].val, r) \o Tail(t)
  OBVIOUS
<1>1. /\ t # <<>> /\ SectionOK(t) /\ Shape(t)
      /\ t \in Seq(Steps) /\ Head(t) = t[1] /\ 1 \in DOMAIN t
  <2>1. t # <<>> /\ SectionOK(t) /\ Shape(t) /\ t \in Seq(Steps)
    BY DEF ReadToRevoke, LockFree, IInv, SectionsOK, SectionOK, Shape
  <2> QED
    BY <2>1, TailIs
<1>2. /\ t[1].op = "revoke" /\ GoesOn(p, u)
      /\ UNCHANGED <<disk, issued, revokedEver, cut, split>> /\ ~ AtKey(t)
  BY <1>0, <1>1 DEF ReadToRevoke, AtKey, Is
<1>3. crlHurt' = (crlHurt \/ ~ ok \/ \E q \in Procs \ {p} : Ahead(q, "fill", Crl))
  BY DEF ReadToRevoke
<1>4. ~ crlHurt' => /\ ~ crlHurt /\ r = ReadRevoked
                    /\ \A q \in Procs \ {p} : ~ HasStep(todo[q], "fill", Crl)
  BY <1>3 DEF Ahead, HasStep, Is
<1>5. r \in SUBSET (1 .. MaxSerial)
  BY Contents DEF IInv
<1>6. w \in SUBSET (1 .. MaxSerial) /\ (u = Tail(t) \/ Rewrites(u, t, w))
  BY <1>0, <1>1, <1>2, <1>5, RevokeIs
<1>7. Exists(CaKey)
  BY <1>1, <1>2, CAExists
<1> HIDE DEF r
<1>8. CASE u = Tail(t)
  <2>1. OnlyRemoves(u, t)
    BY <1>1, <1>2, <1>8, TailRemoves
  <2>2. SectionOK(u) /\ Quiet(u) /\ u \in Seq(Steps) /\ ~ HasStep(u, "fill", Crl)
    BY <1>1, <2>1, RemovesOK
  <2>3. PhaseOK' /\ todo' = [todo EXCEPT ![p] = u]
    BY <1>1, <1>2, <2>2, GoesOnIs DEF IInv
  <2>4. \A f : HasStep(t, "remove", f) => HasStep(u, "remove", f)
    <3> SUFFICES ASSUME NEW f, NEW i \in DOMAIN t, Is(t[i], "remove", f)
                 PROVE  \E j \in DOMAIN u : Is(u[j], "remove", f)
      BY DEF HasStep
    <3>1. i > 1
      BY <1>1, <1>2, TailIs DEF Is
    <3> QED
      BY <1>1, <1>8, <3>1, TailIs
  <2>5. ~ Is(t[1], "fill", Crl)
    BY <1>2 DEF Is
  <2>6. SectionOK(u)'
    BY <1>2, <2>2, SectionStays
  <2> QED
    BY <1>2, <1>4, <1>7, <2>2, <2>3, <2>4, <2>5, <2>6, SameDiskInv
<1>9. CASE Rewrites(u, t, w)
  <2>1. /\ SectionOK(u) /\ Quiet(u)
        /\ \A i \in DOMAIN u : Is(u[i], "fill", Crl) => u[i].val = w
        /\ \A f : HasStep(t, "remove", f) => HasStep(u, "remove", f)
    BY <1>1, <1>2, <1>6, <1>9, RewritesOK
  <2>2. PhaseOK' /\ todo' = [todo EXCEPT ![p] = u]
    BY <1>1, <1>2, <2>1, GoesOnIs DEF IInv, SectionOK, Shape
  <2>3. /\ DiskOK' /\ SectionsOK' /\ SerialOK' /\ PairOK'
        /\ todo'[p] = u /\ \A q \in Procs \ {p} : todo'[q] = todo[q]
        /\ (~ Exists(Crl) => revokedEver = {})'
        /\ \A f : (Exists(f)' <=> Exists(f)) /\ (Whole(f)' <=> Whole(f))
    <3>1. SectionOK(u)'
      BY <1>2, <2>1, SectionStays
    <3> QED
      BY <1>2, <2>2, <3>1, SameDisk
  <2>4. FreshOK'
    BY <1>7, <2>3 DEF IInv, FreshOK
  <2>5. CrlOK'
    <3> SUFFICES ASSUME ~ crlHurt' PROVE CrlKept'
      BY <2>3 DEF CrlOK
    <3>1. /\ CrlKept /\ r = ReadRevoked
          /\ \A q \in Procs \ {p} : ~ HasStep(todo[q], "fill", Crl)
      BY <1>4 DEF IInv, CrlOK
    <3>2. disk[Crl] # Torn
      <4>1. ~ Is(t[1], "fill", Crl)
        BY <1>2 DEF Is
      <4>2. \A q \in Procs : todo[q] # <<>> => 1 \in DOMAIN todo[q]
        BY TailIs DEF IInv, PhaseOK
      <4> QED
        BY <3>1, <4>1, <4>2 DEF CrlKept, HasStep
    <3>3. revokedEver \subseteq w
      BY <3>1, <3>2 DEF CrlKept, ReadRevoked, Whole, IInv, CrlOK, Exists
    <3>4. (Whole(Crl) => revokedEver \subseteq disk[Crl])'
      BY <1>2, <2>3, <3>1 DEF CrlKept
    <3>5. \A q \in Procs : HasStep(todo'[q], "fill", Crl) => q = p
      BY <2>3, <3>1
    <3>6. \A q \in Procs : \A i \in DOMAIN todo'[q] :
              Is(todo'[q][i], "fill", Crl) => revokedEver \subseteq todo'[q][i].val
      BY <2>1, <2>3, <3>3, <3>5 DEF HasStep
    <3> QED
      BY <1>2, <3>2, <3>4, <3>5, <3>6 DEF CrlKept, HasStep, Is
  <2>6. RequestOrCertUnlessCut'
    <3> SUFFICES ASSUME NEW n \in Names, n \notin cut', Exists(Signed(n)), Exists(Request(n))
                 PROVE  \E q \in Procs : HasStep(todo'[q], "remove", Request(n))
      BY <2>3 DEF RequestOrCertUnlessCut, Ahead, HasStep, Is
    <3>1. PICK q \in Procs : HasStep(todo[q], "remove", Request(n))
      BY <1>2 DEF IInv, RequestOrCertUnlessCut, Ahead, HasStep, Is
    <3> QED
      BY <2>1, <2>3, <3>1
  <2> QED
    BY <2>2, <2>3, <2>4, <2>5, <2>6 DEF IInv
<1> QED
  BY <1>6, <1>8, <1>9

\* A process gives up all but removals, and what that leaves behind is in the history.
LEMMA StopStep ==
  ASSUME IInv, NEW p \in Procs, todo[p] # <<>>, NEW u, OnlyRemoves(u, todo[p]), Hurt(p),
         todo' = [todo EXCEPT ![p] = u], PhaseOK',
         ~ Exists(CaKey) => p = "server" /\ u = <<>> /\ server' = "down"
  PROVE  IInv'
<1> DEFINE t == todo[p]
<1>1. t \in Seq(Steps) /\ Shape(t) /\ Head(t) = t[1]
  <2>1. t \in Seq(Steps) /\ Shape(t)
    BY DEF IInv, SectionsOK, SectionOK, Shape
  <2> QED
    BY <2>1, TailIs
<1>2. SectionOK(u) /\ Quiet(u) /\ u \in Seq(Steps) /\ \A f : ~ HasStep(u, "fill", f)
  BY <1>1, RemovesOK
<1>3. UNCHANGED <<disk, issued, revokedEver>> /\ cut \subseteq cut'
  BY DEF Hurt
<1>4. crlHurt' = (crlHurt \/ (t[1].op = "fill" /\ t[1].file = Crl))
  BY <1>1 DEF Hurt
<1>5. ~ crlHurt' => ~ crlHurt /\ ~ Is(t[1], "fill", Crl)
  BY <1>4 DEF Is
<1>6. \A n \in Names : /\ Exists(Signed(n)) /\ Exists(Request(n))
                       /\ HasStep(t, "remove", Request(n))
                       => n \in cut'
  <2>1. cut' = cut \cup {n \in Names : /\ Exists(Signed(n)) /\ Exists(Request(n))
                                       /\ Ahead(p, "remove", Request(n))}
    BY DEF Hurt
  <2>2. \A n \in Names : HasStep(t, "remove", Request(n)) <=> Ahead(p, "remove", Request(n))
    BY DEF Ahead, HasStep, Is
  <2> QED
    BY <2>1, <2>2
<1>7. SectionOK(u)' /\ (split \/ (AtKey(t) /\ Whole(ServerKey)) => split')
  <2>1. SectionOK(u)'
    BY <1>2, <1>3, SectionStays
  <2> QED
    BY <1>1, <2>1 DEF Hurt, AtKey, Is
<1>8. CASE Exists(CaKey)
  BY <1>2, <1>3, <1>5, <1>6, <1>7, <1>8, SameDiskInv
<1>9. CASE ~ Exists(CaKey)
  <2>1. /\ DiskOK' /\ SectionsOK' /\ SerialOK' /\ PairOK'
        /\ todo'[p] = u /\ \A q \in Procs \ {p} : todo'[q] = todo[q]
        /\ (~ Exists(Crl) => revokedEver = {})'
        /\ \A f : (Exists(f)' <=> Exists(f)) /\ (Whole(f)' <=> Whole(f))
    BY <1>3, <1>7, SameDisk
  <2>2. /\ \A f \in Files \ {CaCrt} : ~ Exists(f)
        /\ revokedEver = {} /\ todo["admin"] = <<>>
    BY <1>9 DEF IInv, FreshOK
  <2>3. todo'["admin"] = <<>> /\ server' = "down" /\ todo'["server"] = <<>>
    BY <1>9, <2>1, <2>2 DEF Procs
  <2>4. FreshOK'
    <3>1. \A f \in Files \ {CaCrt} : ~ Exists(f)'
      BY <2>1, <2>2
    <3> QED
      BY <1>3, <1>9, <2>1, <2>2, <2>3, <3>1 DEF FreshOK
  <2>5. Crl \in Files \ {CaCrt} /\ \A n \in Names : Signed(n) \in Files \ {CaCrt}
    BY FilesAre, FilesDiffer DEF Fixed
  <2>6. CrlKept'
    <3>1. disk'[Crl] = Missing /\ revokedEver' = {}
      BY <1>3, <2>2, <2>5 DEF Exists
    <3>2. \A q \in Procs : todo'[q] = <<>>
      BY <2>3 DEF Procs
    <3> QED
      BY <3>1, <3>2, DirAssumption DEF CrlKept, Whole, HasStep
  <2>7. CrlOK'
    BY <2>1, <2>6 DEF CrlOK
  <2>8. RequestOrCertUnlessCut'
    BY <2>1, <2>2, <2>5 DEF RequestOrCertUnlessCut
  <2> QED
    BY <2>1, <2>4, <2>7, <2>8 DEF IInv
<1> QED
  BY <1>8, <1>9

LEMMA FailStep ==
  ASSUME IInv, NEW p \in Procs, Fail(p)
  PROVE  IInv'
<1> DEFINE t == todo[p]
<1>1. t # <<>> /\ t \in Seq(Steps) /\ Shape(t) /\ Head(t) = t[1]
  <2>1. t # <<>> /\ t \in Seq(Steps) /\ Shape(t)
    BY DEF Fail, LockFree, IInv, SectionsOK, SectionOK, Shape
  <2> QED
    BY <2>1, TailIs
<1>2. Hurt(p)
  BY DEF Fail
<1>3. OnlyRemoves(AfterError(t), t) /\ OnlyRemoves(<<>>, t)
  BY <1>1, AfterErrorRemoves
<1>4. ASSUME t[1].op \in {"append", "clean", "remove"}, GoesOn(p, Tail(t)) PROVE IInv'
  <2> DEFINE u == Tail(t)
  <2>1. OnlyRemoves(u, t)
    BY <1>1, <1>4, TailRemoves
  <2> HIDE DEF u
  <2>2. Quiet(u) /\ u \in Seq(Steps)
    BY <1>1, <2>1, RemovesOK
  <2>3. PhaseOK' /\ todo' = [todo EXCEPT ![p] = u]
    BY <1>1, <1>4, <2>2, GoesOnIs DEF IInv, u
  <2>4. Exists(CaKey)
    BY <1>1, <1>4, CAExists
  <2> QED
    BY <1>1, <1>2, <2>1, <2>3, <2>4, StopStep
<1>5. ASSUME server = "init", p = "server", server' = "down", todo' = [todo EXCEPT ![p] = <<>>]
      PROVE  IInv'
  <2>1. PhaseOK'
    <3>1. todo \in [Procs -> Seq(Steps)] /\ Quiet(todo["admin"])
      BY <1>5 DEF IInv, PhaseOK
    <3>2. /\ todo' \in [Procs -> Seq(Steps)] /\ todo'["server"] = <<>>
          /\ todo'["admin"] = todo["admin"]
      BY <1>5, <3>1 DEF Procs
    <3> QED
      BY <1>5, <3>1, <3>2 DEF PhaseOK, Quiet
  <2> QED
    BY <1>1, <1>2, <1>3, <1>5, <2>1, StopStep
<1>6. ASSUME ~ (server = "init" /\ p = "server"), GoesOn(p, AfterError(t)) PROVE IInv'
  <2> DEFINE u == AfterError(t)
  <2>1. OnlyRemoves(u, t)
    BY <1>3
  <2> HIDE DEF u
  <2>2. Quiet(u) /\ u \in Seq(Steps)
    BY <1>1, <2>1, RemovesOK
  <2>3. PhaseOK' /\ todo' = [todo EXCEPT ![p] = u]
    BY <1>1, <1>6, <2>2, GoesOnIs DEF IInv, u
  <2>4. Exists(CaKey)
    BY <1>1, <1>6, FreshSection
  <2> QED
    BY <1>1, <1>2, <2>1, <2>3, <2>4, StopStep
<1> QED
  BY <1>1, <1>4, <1>5, <1>6 DEF Fail

LEMMA CrashStep ==
  ASSUME IInv, NEW p \in Procs, Crash(p)
  PROVE  IInv'
<1> DEFINE t == todo[p]
<1>1. t \in Seq(Steps) /\ Shape(t)
  BY DEF IInv, SectionsOK, SectionOK, Shape
<1>2. OnlyRemoves(<<>>, t)
  BY <1>1, AfterErrorRemoves
<1>3. /\ todo' = [todo EXCEPT ![p] = <<>>]
      /\ p = "server" => server \in {"init", "up"} /\ server' = "down"
      /\ p = "admin" => t # <<>> /\ server' = IF server = "offline" THEN "down" ELSE server
  BY DEF Crash, LockFree
<1>4. PhaseOK'
  <2>1. todo \in [Procs -> Seq(Steps)]
    BY DEF IInv, PhaseOK
  <2>2. /\ todo' \in [Procs -> Seq(Steps)] /\ todo'[p] = <<>>
        /\ \A q \in Procs \ {p} : todo'[q] = todo[q]
    BY <1>3, <2>1
  <2>3. CASE p = "server"
    <3>1. todo'["server"] = <<>> /\ todo'["admin"] = todo["admin"] /\ Quiet(todo["admin"])
      BY <1>3, <2>2, <2>3 DEF Procs, IInv, PhaseOK
    <3> QED
      BY <1>3, <2>2, <2>3, <3>1 DEF PhaseOK, Quiet
  <2>4. CASE p = "admin"
    <3>1. todo'["admin"] = <<>> /\ todo'["server"] = todo["server"]
      BY <2>2, <2>4 DEF Procs
    <3> QED
      BY <1>3, <2>2, <2>4, <3>1 DEF IInv, PhaseOK, Quiet
  <2> QED
    BY <2>3, <2>4 DEF Procs
<1>5. CASE t # <<>>
  <2>1. Hurt(p)
    BY <1>5 DEF Crash, LockFree
  <2>2. ~ Exists(CaKey) => p = "server" /\ server' = "down"
    BY <1>3, <1>5, FreshSection
  <2> QED
    BY <1>2, <1>3, <1>4, <1>5, <2>1, <2>2, StopStep
<1>6. CASE t = <<>>
  <2>1. p = "server" /\ UNCHANGED <<disk, issued, revokedEver, crlHurt, cut, split>>
    BY <1>3, <1>6 DEF Crash, LockFree, history, Procs
  <2>2. Exists(CaKey)
    BY <1>3, <1>6, <2>1 DEF IInv, FreshOK, BeforeKey
  <2>3. SectionOK(<<>>) /\ ~ HasStep(<<>>, "fill", Crl)
    BY <1>1, <1>2, RemovesOK
  <2>4. SectionOK(<<>>)'
    BY <2>1, <2>3, SectionStays
  <2>5. ~ AtKey(t) /\ \A f : ~ HasStep(t, "remove", f)
    BY <1>6 DEF HasStep, AtKey
  <2> QED
    BY <1>3, <1>4, <1>6, <2>1, <2>2, <2>3, <2>4, <2>5, SameDiskInv
<1> QED
  BY <1>5, <1>6

----------------------------------------------------------------------------
(* Steps that change a file. *)

\* t is a section and u is what its first step leaves.
Takes(t, u) ==
    /\ t # <<>> /\ SectionOK(t) /\ Shape(t) /\ Shape(u)
    /\ Len(t) \in Nat \ {0} /\ DOMAIN t = 1 .. Len(t) /\ DOMAIN u = 1 .. Len(t) - 1
    /\ 1 \in DOMAIN t
    /\ \A i \in DOMAIN u : i + 1 \in DOMAIN t /\ u[i] = t[i + 1]
    /\ \A i \in DOMAIN t : i > 1 => i - 1 \in DOMAIN u /\ u[i - 1] = t[i]

\* What step s does to the files and to the history.
Effect(s) ==
    /\ s.file \in Files /\ s.val \in Vals /\ StepOK(s)
    /\ s.op \in {"create", "fill", "append", "remove", "clean"}
    /\ \A f \in Files : f # s.file => disk'[f] = disk[f]
    /\ \/ disk'[s.file] = s.val /\ (s.op = "fill" => disk[s.file] # Missing)
       \/ s.op = "fill" /\ disk[s.file] = Missing /\ disk'[s.file] = Missing
    /\ issued' = IF IsCertFill(s) THEN issued \cup {s.val} ELSE issued
    /\ revokedEver' = IF Is(s, "fill", Crl) THEN revokedEver \cup s.val ELSE revokedEver
    /\ cut' = {n \in cut : \/ s.val # Missing \/ s.file \notin {Request(n), Signed(n)}
                           \/ \E q \in Procs : HasStep(todo[q], "create", Request(n))}
    /\ split' = (split /\ s.file # ServerKey)

LEMMA StepTakes ==
  ASSUME IInv, NEW p \in Procs, Step(p), NEW t, t = todo[p], NEW u, u = Tail(t)
  PROVE  /\ Takes(t, u) /\ Effect(t[1]) /\ GoesOn(p, u) /\ u \in Seq(Steps)
         /\ disk' \in [Files -> Vals]
<1>1. t # <<>> /\ SectionOK(t) /\ Shape(t) /\ t \in Seq(Steps)
  BY DEF Step, LockFree, IInv, SectionsOK, SectionOK, Shape
<1>2. /\ u \in Seq(Steps) /\ Len(t) \in Nat \ {0}
      /\ DOMAIN t = 1 .. Len(t) /\ DOMAIN u = 1 .. Len(t) - 1
      /\ \A i \in DOMAIN u : i + 1 \in DOMAIN t /\ u[i] = t[i + 1]
      /\ \A i \in DOMAIN t : i > 1 => i - 1 \in DOMAIN u /\ u[i - 1] = t[i]
      /\ Head(t) = t[1] /\ 1 \in DOMAIN t /\ t[1] \in Steps
  BY <1>1, TailIs
<1>3. Shape(u)
  BY <1>1, TailShape
<1>4. Takes(t, u)
  BY <1>1, <1>2, <1>3 DEF Takes
<1> DEFINE s == t[1]
           lost == s.op = "fill" /\ ~ Exists(s.file)
<1>5. /\ s.op \notin {"sign", "revoke"}
      /\ disk' = IF lost THEN disk ELSE [disk EXCEPT ![s.file] = s.val]
      /\ issued' = IF s.op = "fill" /\ s.file \in CertFiles THEN issued \cup {s.val} ELSE issued
      /\ revokedEver' = IF s.op = "fill" /\ s.file = Crl
                         THEN revokedEver \cup s.val ELSE revokedEver
      /\ cut' = {n \in cut : \/ s.val # Missing \/ s.file \notin {Request(n), Signed(n)}
                             \/ \E q \in Procs : HasStep(todo[q], "create", Request(n))}
      /\ split' = (split /\ s.file # ServerKey)
      /\ GoesOn(p, u)
  BY <1>2 DEF Step, Ahead, HasStep, Is
<1>6. s.file \in Files /\ s.val \in Vals /\ s.op \in {"create", "fill", "append", "remove", "clean"}
  BY <1>2, <1>5 DEF Steps, Ops
<1>7. StepOK(s)
  BY <1>1, <1>2 DEF Shape
<1>8. disk \in [Files -> Vals]
  BY DEF IInv, DiskOK
<1> HIDE DEF s
<1>9. /\ disk' \in [Files -> Vals]
      /\ \A f \in Files : f # s.file => disk'[f] = disk[f]
      /\ \/ disk'[s.file] = s.val /\ (s.op = "fill" => disk[s.file] # Missing)
         \/ s.op = "fill" /\ disk[s.file] = Missing /\ disk'[s.file] = Missing
  BY <1>5, <1>6, <1>8 DEF Exists
<1>10. Effect(s)
  BY <1>5, <1>6, <1>7, <1>9 DEF Effect, IsCertFill, Is
<1> QED
  BY <1>2, <1>4, <1>5, <1>9, <1>10 DEF s

\* Which step can be on which file, and no step empties a file that is never removed.
LEMMA EffectFiles ==
  ASSUME DiskOK, NEW s, Effect(s)
  PROVE  /\ s.file \in Fixed => s.op \in {"create", "fill", "append"}
         /\ s.file \in Fixed /\ s.op # "fill" => Exists(s.file)'
         /\ s.op = "append" => s.file = Inventory
         /\ s.op = "create" => s.val = Torn /\ disk'[s.file] = Torn
         /\ s.op = "fill" /\ s.file \in Fixed => s.val \notin {Missing, Torn}
         /\ s.op \in {"remove", "clean"} => s.val = Missing
         /\ \A f \in Fixed : Exists(f) => Exists(f)'
<1>1. s.file \in Fixed => s.op \in {"create", "fill", "append"}
  BY FilesDiffer DEF Effect, StepOK
<1>2. s.op \in {"fill", "append"} /\ s.file \in Fixed => s.val \notin {Missing, Torn}
  BY FixedHold DEF Effect, StepOK
<1>3. /\ s.op = "append" => s.file = Inventory
      /\ s.op = "create" => s.val = Torn /\ disk'[s.file] = Torn
      /\ s.op \in {"remove", "clean"} => s.val = Missing
  BY DEF Effect, StepOK
<1>4. s.file \in Fixed /\ s.op # "fill" => disk'[s.file] # Missing
  BY <1>1, <1>2, <1>3, DirAssumption DEF Effect
<1>5. \A f \in Fixed : disk[f] # Missing => disk'[f] # Missing
  <2> SUFFICES ASSUME NEW f \in Fixed, disk[f] # Missing PROVE disk'[f] # Missing
    OBVIOUS
  <2>1. f \in Files
    BY FilesAre
  <2>2. CASE f # s.file
    BY <2>1, <2>2 DEF Effect
  <2>3. CASE f = s.file /\ s.op = "fill"
    BY <1>2, <2>3 DEF Effect
  <2>4. CASE f = s.file /\ s.op # "fill"
    BY <1>4, <2>4
  <2> QED
    BY <2>2, <2>3, <2>4
<1> QED
  BY <1>1, <1>2, <1>3, <1>4, <1>5 DEF Exists

LEMMA StepDisk ==
  ASSUME DiskOK, NEW s, Effect(s), disk' \in [Files -> Vals]
  PROVE  DiskOK'
<1> SUFFICES ASSUME NEW f \in Files PROVE disk'[f] \in {Missing, Torn} \/ Holds(f, disk'[f])
  BY DEF DiskOK, Holds
<1>1. CASE f # s.file
  BY <1>1 DEF DiskOK, Effect
<1>2. CASE f = s.file
  <2>1. s.op \in {"fill", "append"} => Holds(f, s.val)
    BY <1>2 DEF Effect, StepOK
  <2>2. s.op \notin {"fill", "append"} => s.val \in {Missing, Torn}
    BY EffectFiles DEF Effect
  <2> QED
    BY <1>2, <2>1, <2>2 DEF Effect
<1> QED
  BY <1>1, <1>2

\* The files the serial number, the server's pair and the revocations are in.
LEMMA TheFixed ==
  /\ {CaCrt, CaKey, Serial, Crl, ServerCrt, ServerKey} \subseteq Fixed /\ Fixed \subseteq Files
  /\ Serial \notin CertFiles /\ Crl \notin CertFiles /\ ServerKey \notin CertFiles
  /\ Serial \notin {ServerCrt, ServerKey, Crl, Inventory}
  /\ ServerCrt \notin {ServerKey, Crl, Inventory}
  /\ ServerKey \notin {Crl, Inventory} /\ Crl # Inventory
  /\ CertFiles \subseteq Files
  /\ \A n \in Names : /\ Request(n) \in Files /\ Signed(n) \in Files
                      /\ Request(n) \notin Fixed /\ Signed(n) \notin Fixed
                      /\ Request(n) # Signed(n)
<1>1. {CaCrt, CaKey, Serial, Crl, ServerCrt, ServerKey} \subseteq Fixed /\ Fixed \subseteq Files
  BY FilesAre DEF Fixed
<1> QED
  BY <1>1, FilesAre, FilesDiffer DEF CertFiles

\* The serial file stays ahead of every certificate, written and to be written.
LEMMA StepSerial ==
  ASSUME DiskOK, SerialOK, NEW t, NEW u, Takes(t, u), Effect(t[1])
  PROVE  SerialOK' /\ SerialAhead(u)'
<1> DEFINE s == t[1]
<1>1. /\ Serial \in Files /\ Serial \in Fixed /\ Serial \notin CertFiles /\ Serial # Inventory
      /\ \A n \in Names : Request(n) # Serial
  BY TheFixed
<1>2. /\ Serial # s.file => disk'[Serial] = disk[Serial]
      /\ (s.file = Serial /\ s.op = "fill" /\ Whole(Serial)') => disk'[Serial] = s.val
      /\ (s.file = Serial /\ s.op # "fill") => ~ Whole(Serial)'
  <2>1. s.file = Serial /\ s.op # "fill" => s.op = "create"
    BY <1>1, EffectFiles
  <2> QED
    BY <1>1, <2>1, EffectFiles DEF Effect, Whole
<1>3. issued' = IF IsCertFill(s) THEN issued \cup {s.val} ELSE issued
  BY DEF Effect
<1>4. s.file = Serial => ~ IsCertFill(s)
  BY <1>1 DEF IsCertFill
<1>5. SerialAhead(t) /\ Coupled(t)
  BY DEF Takes, SectionOK, Shape
<1>6. \A i \in DOMAIN u : /\ i + 1 \in DOMAIN t /\ u[i] = t[i + 1] /\ i + 1 # 1
                          /\ i \in Nat /\ 1 \in DOMAIN t
  BY DEF Takes
<1>7. SerialOK'
  <2>1. issued' \subseteq 1 .. MaxSerial
    <3>1. IsCertFill(s) => s.val \in 1 .. MaxSerial
      <4> SUFFICES ASSUME IsCertFill(s) PROVE s.val \in 1 .. MaxSerial
        OBVIOUS
      <4>1. Holds(s.file, s.val) /\ s.file \in CertFiles
        BY DEF IsCertFill, Effect, StepOK
      <4>2. s.file \notin {Inventory, Crl} /\ \A n \in Names : s.file # Request(n)
        BY <4>1, FilesAre
      <4> QED
        BY <4>1, <4>2, DirAssumption DEF Holds
    <3> QED
      BY <1>3, <3>1 DEF SerialOK
  <2>2. ASSUME Whole(Serial)', NEW k \in issued' PROVE k < disk'[Serial]
    <3>1. CASE s.file = Serial
      <4>1. s.op = "fill" /\ disk'[Serial] = s.val /\ k \in issued
        BY <1>2, <1>3, <1>4, <2>2, <3>1
      <4> QED
        BY <1>5, <3>1, <4>1 DEF SerialAhead, Is, Takes
    <3>2. CASE s.file # Serial
      <4>1. disk'[Serial] = disk[Serial] /\ Whole(Serial)
        BY <1>2, <2>2, <3>2 DEF Whole
      <4>2. CASE k \in issued
        BY <4>1, <4>2 DEF SerialOK
      <4>3. CASE IsCertFill(s) /\ k = s.val
        <5>1. s.val < disk[Serial] \/ \E j \in DOMAIN t : j < 1
          BY <1>5, <4>1, <4>3 DEF SerialAhead, Takes
        <5>2. \A j \in DOMAIN t : ~ (j < 1)
          BY DEF Takes
        <5> QED
          BY <4>1, <4>3, <5>1, <5>2
      <4> QED
        BY <1>3, <2>2, <4>2, <4>3
    <3> QED
      BY <3>1, <3>2
  <2> QED
    BY <2>1, <2>2 DEF SerialOK
<1>8. ASSUME NEW i \in DOMAIN u, u[i].op = "sign", Whole(Serial)' PROVE disk'[Serial] < MaxSerial
  <2>1. s.file = t[i + 1].file
    BY <1>5, <1>6, <1>8 DEF Coupled
  <2>2. t[i + 1].file # Serial
    BY <1>1, <1>6, <1>8 DEF Takes, Shape, StepOK
  <2>3. disk'[Serial] = disk[Serial] /\ Whole(Serial)
    BY <1>2, <1>8, <2>1, <2>2 DEF Whole
  <2> QED
    BY <1>5, <1>6, <1>8, <2>3 DEF SerialAhead
<1>9. ASSUME NEW i \in DOMAIN u, Is(u[i], "fill", Serial), NEW k \in issued' PROVE k < u[i].val
  <2>1. CASE k \in issued
    BY <1>5, <1>6, <1>9, <2>1 DEF SerialAhead
  <2>2. CASE IsCertFill(s) /\ k = s.val
    BY <1>5, <1>6, <1>9, <2>2 DEF Coupled
  <2> QED
    BY <1>3, <2>1, <2>2, <1>9
<1>10. ASSUME NEW i \in DOMAIN u, IsCertFill(u[i]) PROVE u[i].val \notin issued'
  <2>1. ~ IsCertFill(s)
    BY <1>5, <1>6, <1>10 DEF Coupled, IsCertFill
  <2> QED
    BY <1>3, <1>5, <1>6, <1>10, <2>1 DEF SerialAhead
<1>11. ASSUME NEW i \in DOMAIN u, IsCertFill(u[i]), Whole(Serial)'
       PROVE  u[i].val < disk'[Serial] \/ \E j \in DOMAIN u : j < i /\ Is(u[j], "fill", Serial)
  <2>1. CASE s.file = Serial
    <3>1. s.op = "fill" /\ disk'[Serial] = s.val
      BY <1>2, <1>11, <2>1
    <3>2. t[i + 1].val < s.val
      BY <1>5, <1>6, <1>11, <2>1, <3>1 DEF Coupled, Is
    <3> QED
      BY <1>6, <3>1, <3>2
  <2>2. CASE s.file # Serial
    <3>1. disk'[Serial] = disk[Serial] /\ Whole(Serial)
      BY <1>2, <1>11, <2>2 DEF Whole
    <3>2. t[i + 1].val < disk[Serial] \/ \E j \in DOMAIN t : j < i + 1 /\ Is(t[j], "fill", Serial)
      BY <1>5, <1>6, <1>11, <3>1 DEF SerialAhead
    <3>3. ASSUME NEW j \in DOMAIN t, j < i + 1, Is(t[j], "fill", Serial)
          PROVE  \E k \in DOMAIN u : k < i /\ Is(u[k], "fill", Serial)
      <4>1. j > 1 /\ j \in Nat
        BY <2>2, <3>3 DEF Is, Takes
      <4>2. j - 1 \in DOMAIN u /\ j - 1 < i /\ u[j - 1] = t[j]
        BY <1>6, <3>3, <4>1 DEF Takes
      <4> QED
        BY <3>3, <4>2
    <3> QED
      BY <1>6, <3>1, <3>2, <3>3
  <2> QED
    BY <2>1, <2>2
<1>12. SerialAhead(u)'
  BY <1>8, <1>9, <1>10, <1>11 DEF SerialAhead, Is, IsCertFill
<1> QED
  BY <1>7, <1>12

\* The server's key follows its certificate.
LEMMA StepPair ==
  ASSUME DiskOK, PairOK, NEW p \in Procs, NEW t, t = todo[p], NEW u, Takes(t, u), Effect(t[1]),
         todo'[p] = u, \A q \in Procs \ {p} : todo'[q] = todo[q]
  PROVE  PairOK' /\ PairAhead(u)'
<1> DEFINE s == t[1]
<1>1. /\ {ServerCrt, ServerKey} \subseteq Files /\ {ServerCrt, ServerKey} \subseteq Fixed
      /\ ServerCrt # ServerKey /\ Inventory \notin {ServerCrt, ServerKey}
  BY TheFixed
<1>2. Coupled(t) /\ Ordered(t) /\ PairAhead(t) /\ Created(t)
  BY DEF Takes, SectionOK, Shape
<1>3. \A i \in DOMAIN u : /\ i + 1 \in DOMAIN t /\ u[i] = t[i + 1] /\ i + 1 # 1
                          /\ i \in Nat /\ 1 \in DOMAIN t
  BY DEF Takes
<1>4. \A i \in DOMAIN t : t[i].file \in {ServerCrt, ServerKey} => t[i].op \in {"create", "fill"}
  <2> SUFFICES ASSUME NEW i \in DOMAIN t, t[i].file \in {ServerCrt, ServerKey}
               PROVE  t[i].op \in {"create", "fill"}
    OBVIOUS
  <2>1. t[i].op \in Ops
    <3>1. t \in Seq(Steps)
      BY DEF Takes, Shape
    <3>2. t[i] \in Steps
      BY <3>1
    <3> QED
      BY <3>2 DEF Steps
  <2>2. StepOK(t[i])
    BY DEF Takes, Shape
  <2>3. \A n \in Names : t[i].file # Request(n) /\ t[i].file # Signed(n)
    BY <1>1, TheFixed
  <2>4. t[i].file \notin {Crl, Inventory}
    BY TheFixed
  <2> QED
    BY <2>1, <2>2, <2>3, <2>4 DEF StepOK, Ops
<1>5. /\ \A f \in {ServerCrt, ServerKey} : f # s.file => disk'[f] = disk[f]
      /\ s.file \in {ServerCrt, ServerKey} => disk'[s.file] = s.val /\ Exists(s.file)'
      /\ s.op = "create" => s.val = Torn
  <2>1. s.file \in {ServerCrt, ServerKey} /\ s.op = "fill" => disk[s.file] # Missing
    BY <1>1, <1>2 DEF Created, Takes, Exists
  <2> QED
    BY <1>1, <2>1, EffectFiles DEF Effect, Exists
\* The certificate is never ahead of a step on the key.
<1>6. ASSUME s.file = ServerKey, NEW j \in DOMAIN t, Is(t[j], "fill", ServerCrt) PROVE FALSE
  <2>1. CASE s.op = "fill"
    BY <1>2, <1>6, <2>1 DEF Coupled, Is, Takes
  <2>2. CASE s.op = "create"
    <3>1. 2 \in DOMAIN t /\ Is(t[2], "fill", ServerKey)
      BY <1>2, <1>6, <2>2 DEF Ordered, Takes
    <3>2. j < 2
      BY <1>2, <1>6, <3>1 DEF Coupled
    <3>3. j = 1
      BY <3>2 DEF Takes
    <3> QED
      BY <1>6, <2>2, <3>3 DEF Is
  <2> QED
    BY <1>1, <1>4, <1>6, <2>1, <2>2, <1>3 DEF Takes
<1>7. Is(s, "fill", ServerKey) => s.val = disk[ServerCrt]
  <2> SUFFICES ASSUME Is(s, "fill", ServerKey) PROVE s.val = disk[ServerCrt]
    OBVIOUS
  <2>1. ~ HasStep(t, "fill", ServerCrt)
    BY <1>6 DEF HasStep, Is
  <2> QED
    BY <1>2, <2>1 DEF PairAhead, Takes
<1>8. PairOK'
  <2> SUFFICES ASSUME disk'[ServerCrt] \notin {Missing, Torn}, disk'[ServerKey] \notin {Missing, Torn}
               PROVE  \/ disk'[ServerCrt] = disk'[ServerKey]
                      \/ split' \/ \E q \in Procs : AtKey(todo'[q])
    BY DEF PairOK, Whole, AtKey, Is
  <2>1. s.file \in {ServerCrt, ServerKey} => s.op = "fill"
    BY <1>4, <1>5 DEF Takes
  <2>2. CASE s.file = ServerKey
    BY <1>1, <1>5, <1>7, <2>1, <2>2 DEF Is
  <2>3. CASE s.file = ServerCrt
    <3>1. 1 < Len(t) /\ Is(t[1 + 1], "create", ServerKey)
      BY <1>2, <2>1, <2>3 DEF PairAhead, Is, Takes
    <3>2. 2 \in DOMAIN t
      BY <3>1 DEF Takes
    <3>3. 1 \in DOMAIN u /\ u[1] = t[2]
      BY <3>2 DEF Takes
    <3>4. AtKey(u)
      BY <3>1, <3>3 DEF AtKey
    <3> QED
      BY <3>4
  <2>4. CASE s.file \notin {ServerCrt, ServerKey}
    <3>1. disk'[ServerKey] = disk[ServerKey] /\ disk'[ServerCrt] = disk[ServerCrt]
      BY <1>1, <1>5, <2>4
    <3>2. split => split'
      BY <2>4, Zenon DEF Effect
    <3>3. ~ AtKey(todo[p])
      BY <2>4 DEF AtKey, Is
    <3> QED
      BY <3>1, <3>2, <3>3 DEF PairOK, Whole
  <2> QED
    BY <2>2, <2>3, <2>4
<1>9. ASSUME NEW i \in DOMAIN u, Is(u[i], "fill", ServerCrt)
      PROVE  i < Len(u) /\ Is(u[i + 1], "create", ServerKey)
  <2>1. i + 1 < Len(t) /\ Is(t[(i + 1) + 1], "create", ServerKey)
    BY <1>2, <1>3, <1>9 DEF PairAhead
  <2>2. i + 1 \in DOMAIN u
    BY <1>3, <2>1 DEF Takes
  <2>3. Is(u[i + 1], "create", ServerKey)
    BY <1>3, <2>1, <2>2
  <2>4. DOMAIN u = 1 .. Len(u)
    BY DEF Takes, Shape
  <2> QED
    BY <1>3, <2>2, <2>3, <2>4
<1>10. ASSUME NEW i \in DOMAIN u, Is(u[i], "fill", ServerKey)
       PROVE  disk'[ServerCrt] = u[i].val \/ HasStep(u, "fill", ServerCrt)
  <2>1. \A j \in DOMAIN t : j > 1 /\ Is(t[j], "fill", ServerCrt) => HasStep(u, "fill", ServerCrt)
    BY DEF Takes, HasStep
  <2>2. CASE s.file # ServerCrt
    <3>1. disk'[ServerCrt] = disk[ServerCrt]
      BY <1>5, <2>2
    <3>2. disk[ServerCrt] = t[i + 1].val \/ HasStep(t, "fill", ServerCrt)
      BY <1>2, <1>3, <1>10 DEF PairAhead
    <3>3. ASSUME NEW j \in DOMAIN t, Is(t[j], "fill", ServerCrt) PROVE j > 1
      BY <2>2, <3>3 DEF Is, Takes
    <3> QED
      BY <1>3, <2>1, <3>1, <3>2, <3>3 DEF HasStep
  <2>3. CASE s.file = ServerCrt /\ s.op = "fill"
    <3>1. s.val = t[i + 1].val
      BY <1>2, <1>3, <1>10, <2>3 DEF Coupled, Is
    <3> QED
      BY <1>3, <1>5, <2>3, <3>1
  <2>4. CASE s.file = ServerCrt /\ s.op = "create"
    <3>1. 2 \in DOMAIN t /\ Is(t[2], "fill", ServerCrt)
      BY <1>2, <2>4 DEF Ordered, Takes
    <3> QED
      BY <2>1, <3>1
  <2> QED
    BY <1>1, <1>4, <2>2, <2>3, <2>4 DEF Takes
<1>11. PairAhead(u)'
  BY <1>9, <1>10 DEF PairAhead, HasStep, Is
<1> QED
  BY <1>8, <1>11

\* The section the step is taken from.
LEMMA StepOwn ==
  ASSUME DiskOK, SerialOK, PairOK, NEW p \in Procs, NEW t, t = todo[p], NEW u, Takes(t, u),
         Effect(t[1]), todo'[p] = u, \A q \in Procs \ {p} : todo'[q] = todo[q]
  PROVE  SectionOK(u)'
<1> DEFINE s == t[1]
<1>1. Coupled(t) /\ Ordered(t) /\ RequestAhead(t) /\ Shape(u)
  BY DEF Takes, SectionOK, Shape
<1>2. \A i \in DOMAIN u : i + 1 \in DOMAIN t /\ u[i] = t[i + 1] /\ i \in Nat /\ 1 \in DOMAIN t
  BY DEF Takes
<1>3. Created(u)'
  <2> SUFFICES ASSUME u # <<>>, u[1].op = "fill" PROVE disk'[u[1].file] # Missing
    BY DEF Created, Exists
  <2>1. 1 \in DOMAIN u
    BY DEF Takes, Shape
  <2>2. 2 \in DOMAIN t /\ u[1] = t[2]
    BY <2>1 DEF Takes
  <2>3. Is(s, "create", u[1].file)
    BY <1>1, <2>2 DEF Ordered
  <2> QED
    BY <2>3, EffectFiles, DirAssumption DEF Is
<1>4. RequestAhead(u)'
  <2> SUFFICES ASSUME NEW i \in DOMAIN u, NEW n \in Names, Is(u[i], "create", Request(n))
               PROVE  disk'[Signed(n)] = Missing \/ n \in cut'
    BY DEF RequestAhead, Exists, Is
  <2>1. disk[Signed(n)] = Missing \/ n \in cut
    BY <1>1, <1>2 DEF RequestAhead, Exists
  <2>2. s.file = Request(n)
    BY <1>1, <1>2 DEF Coupled, Is
  <2>3. HasStep(todo[p], "create", Request(n))
    BY <1>2 DEF HasStep
  <2> QED
    BY <2>1, <2>2, <2>3, TheFixed DEF Effect
<1>5. SerialAhead(u)' /\ PairAhead(u)'
  BY StepSerial, StepPair
<1>6. Shape(u)'
  BY <1>1 DEF Shape, StepOK, Holds, Ordered, Coupled, Is, IsCertFill
<1> QED
  BY <1>3, <1>4, <1>5, <1>6 DEF SectionOK

\* A section that takes no serial has nothing to promise about serials or the pair.
LEMMA QuietIs ==
  ASSUME NEW v, Shape(v), Quiet(v)
  PROVE  \A i \in DOMAIN v :
            /\ v[i].op # "sign" /\ v[i].file # ServerCrt /\ ~ IsCertFill(v[i])
            /\ v[i].op = "fill" => v[i].file = Crl
            /\ v[i].op \in {"create", "append"} => v[i].file = Crl
<1> SUFFICES ASSUME NEW i \in DOMAIN v
             PROVE  /\ v[i].op # "sign" /\ v[i].file # ServerCrt /\ ~ IsCertFill(v[i])
                    /\ v[i].op = "fill" => v[i].file = Crl
                    /\ v[i].op \in {"create", "append"} => v[i].file = Crl
  OBVIOUS
<1>1. StepOK(v[i]) /\ (v[i].op \in {"revoke", "clean", "remove"} \/ v[i].file = Crl)
  BY DEF Shape, Quiet
<1>2. Crl \notin CertFiles /\ Crl # ServerCrt /\ ServerCrt \in Fixed /\ Crl \in Fixed
  BY TheFixed
<1>3. v[i].op # "sign"
  BY <1>1, <1>2, FilesDiffer DEF StepOK
<1>4. v[i].file # ServerCrt
  BY <1>1, <1>2, FilesDiffer DEF StepOK
<1> QED
  BY <1>1, <1>2, <1>3, <1>4 DEF IsCertFill

\* The section of the other process.
LEMMA StepOther ==
  ASSUME DiskOK, NEW t, NEW u, Takes(t, u), Effect(t[1]),
         NEW q \in Procs, NEW v, v = todo[q], SectionOK(v), Quiet(t) \/ Quiet(v)
  PROVE  SectionOK(v)'
<1> DEFINE s == t[1]
<1>1. Shape(v) /\ Shape(v)'
  BY DEF SectionOK, Shape, StepOK, Holds, Ordered, Coupled, Is, IsCertFill
<1>2. Created(v)'
  BY EffectFiles DEF Created, SectionOK
<1>3. CASE Quiet(v)
  <2>1. \A i \in DOMAIN v :
            /\ v[i].op # "sign" /\ v[i].file # ServerCrt /\ ~ IsCertFill(v[i])
            /\ v[i].op = "fill" => v[i].file = Crl
            /\ v[i].op \in {"create", "append"} => v[i].file = Crl
    BY <1>1, <1>3, QuietIs
  <2>2. Crl \notin {Serial, ServerKey} /\ \A n \in Names : Crl # Request(n)
    BY TheFixed
  <2>3. SerialAhead(v)' /\ PairAhead(v)' /\ RequestAhead(v)'
    BY <2>1, <2>2 DEF SerialAhead, PairAhead, RequestAhead, Is, IsCertFill
  <2> QED
    BY <1>1, <1>2, <2>3 DEF SectionOK
<1>4. CASE Quiet(t)
  <2>1. /\ s.op = "fill" => s.file = Crl
        /\ s.op \in {"create", "append"} => s.file = Crl
        /\ ~ IsCertFill(s)
    BY <1>4, QuietIs DEF Takes
  <2>2. issued' = issued
    BY <2>1 DEF Effect
  <2>3. s.file \in Fixed => s.file = Crl
    BY <2>1, EffectFiles
  <2>4. /\ disk'[Serial] = disk[Serial] /\ disk'[ServerCrt] = disk[ServerCrt]
        /\ disk'[ServerKey] = disk[ServerKey]
    BY <2>3, TheFixed DEF Effect
  <2>5. \A n \in Names : disk[Signed(n)] = Missing => disk'[Signed(n)] = Missing
    <3> SUFFICES ASSUME NEW n \in Names, disk[Signed(n)] = Missing PROVE disk'[Signed(n)] = Missing
      OBVIOUS
    <3>1. CASE s.file # Signed(n)
      BY <3>1, TheFixed DEF Effect
    <3>2. CASE s.file = Signed(n)
      <4>1. s.file # Crl
        BY <3>2, TheFixed
      <4>2. s.op \in {"remove", "clean"}
        BY <2>1, <4>1 DEF Effect
      <4>3. s.val = Missing
        BY <4>2, EffectFiles
      <4> QED
        BY <3>2, <4>3 DEF Effect
    <3> QED
      BY <3>1, <3>2
  <2>6. SerialAhead(v)'
    BY <2>2, <2>4 DEF SectionOK, SerialAhead, Whole
  <2>7. PairAhead(v)'
    BY <2>4 DEF SectionOK, PairAhead, Exists
  <2>8. RequestAhead(v)'
    <3> SUFFICES ASSUME NEW i \in DOMAIN v, NEW n \in Names, Is(v[i], "create", Request(n))
                 PROVE  disk'[Signed(n)] = Missing \/ n \in cut'
      BY DEF RequestAhead, Exists, Is
    <3>1. disk[Signed(n)] = Missing \/ n \in cut
      BY DEF SectionOK, RequestAhead, Exists
    <3>2. HasStep(todo[q], "create", Request(n))
      BY DEF HasStep
    <3> QED
      BY <2>5, <3>1, <3>2 DEF Effect
  <2> QED
    BY <1>1, <1>2, <2>6, <2>7, <2>8 DEF SectionOK
<1> QED
  BY <1>3, <1>4

\* The CRL.
LEMMA StepCrl ==
  ASSUME IInv, NEW p \in Procs, NEW t, t = todo[p], NEW u, Takes(t, u), Effect(t[1]),
         todo'[p] = u, \A q \in Procs \ {p} : todo'[q] = todo[q],
         ~ crlHurt' => ~ crlHurt
  PROVE  CrlOK'
<1> DEFINE s == t[1]
<1>1. DiskOK /\ Crl \in Fixed /\ Crl \in Files /\ Crl # Inventory
  BY TheFixed DEF IInv
<1>2. Coupled(t) /\ Ordered(t) /\ Created(t) /\ 1 \in DOMAIN t
  BY DEF Takes, SectionOK, Shape
<1>3. /\ Crl # s.file => disk'[Crl] = disk[Crl]
      /\ s.file = Crl => s.op \in {"create", "fill"} /\ disk'[Crl] = s.val /\ disk'[Crl] # Missing
      /\ s.op = "create" => s.val = Torn
      /\ s.file = Crl /\ s.op = "fill" => disk[Crl] # Missing /\ s.val \notin {Missing, Torn}
  <2>1. s.file = Crl /\ s.op = "fill" => disk[Crl] # Missing
    BY <1>1, <1>2 DEF Created, Exists, Takes
  <2>2. s.file = Crl => s.op \in {"create", "fill"}
    BY <1>1, EffectFiles
  <2>3. /\ s.op = "create" => s.val = Torn
        /\ s.file = Crl /\ s.op = "fill" => s.val \notin {Missing, Torn}
    BY <1>1, EffectFiles
  <2> QED
    BY <1>1, <2>1, <2>2, <2>3, DirAssumption DEF Effect
<1>4. revokedEver' = IF Is(s, "fill", Crl) THEN revokedEver \cup s.val ELSE revokedEver
  BY DEF Effect
<1>5. ~ Exists(Crl)' => revokedEver' = {}
  <2> SUFFICES ASSUME disk'[Crl] = Missing PROVE revokedEver' = {}
    BY DEF Exists
  <2>1. s.file # Crl /\ disk[Crl] = Missing
    BY <1>3
  <2> QED
    BY <1>4, <2>1 DEF IInv, CrlOK, Exists, Is
<1>6. ASSUME CrlKept PROVE CrlKept'
  <2>1. Whole(Crl)' => revokedEver' \subseteq disk'[Crl]
    <3>1. CASE s.file = Crl
      <4>1. s.op = "fill" => revokedEver \subseteq s.val
        BY <1>2, <1>6, <3>1 DEF CrlKept, Is
      <4> QED
        BY <1>3, <1>4, <3>1, <4>1 DEF Whole, Is
    <3>2. CASE s.file # Crl
      BY <1>3, <1>4, <1>6, <3>2 DEF CrlKept, Whole, Is
    <3> QED
      BY <3>1, <3>2
  <2>2. \A i \in DOMAIN u : i + 1 \in DOMAIN t /\ u[i] = t[i + 1] /\ i + 1 # 1
    BY DEF Takes
  <2>3. \A q \in Procs : HasStep(todo'[q], "fill", Crl) => HasStep(todo[q], "fill", Crl)
    BY <2>2 DEF HasStep
  <2>4. \A q, r \in Procs :
            HasStep(todo'[q], "fill", Crl) /\ HasStep(todo'[r], "fill", Crl) => q = r
    BY <1>6, <2>3 DEF CrlKept
  <2>5. ASSUME NEW q \in Procs, NEW i \in DOMAIN todo'[q], Is(todo'[q][i], "fill", Crl)
        PROVE  revokedEver' \subseteq todo'[q][i].val
    <3>1. ~ Is(s, "fill", Crl)
      <4> SUFFICES ASSUME Is(s, "fill", Crl) PROVE FALSE
        OBVIOUS
      <4>1. HasStep(todo[p], "fill", Crl) /\ HasStep(todo[q], "fill", Crl)
        BY <1>2, <2>3, <2>5 DEF HasStep
      <4>2. q = p
        BY <1>6, <4>1 DEF CrlKept
      <4>3. i \in DOMAIN u /\ Is(t[i + 1], "fill", Crl)
        BY <2>2, <2>5, <4>2
      <4> QED
        BY <1>2, <2>2, <4>3 DEF Coupled, Is
    <3>2. revokedEver' = revokedEver
      BY <1>4, <3>1
    <3>3. CASE q = p
      <4>1. i \in DOMAIN u /\ Is(t[i + 1], "fill", Crl) /\ todo'[q][i] = t[i + 1]
        BY <2>2, <2>5, <3>3
      <4> QED
        BY <1>6, <2>2, <3>2, <4>1 DEF CrlKept
    <3>4. CASE q # p
      BY <1>6, <2>5, <3>2, <3>4 DEF CrlKept
    <3> QED
      BY <3>3, <3>4
  <2>6. ASSUME disk'[Crl] = Torn
        PROVE  \E q \in Procs : todo'[q] # <<>> /\ Is(todo'[q][1], "fill", Crl)
    <3>1. CASE s.file = Crl
      <4>1. s.op = "create"
        BY <1>3, <2>6, <3>1
      <4>2. 2 \in DOMAIN t /\ Is(t[2], "fill", Crl)
        <5>1. 1 < Len(t) /\ Is(t[1 + 1], "fill", t[1].file)
          BY <1>2, <4>1 DEF Ordered
        <5>2. 2 \in DOMAIN t
          BY <5>1 DEF Takes
        <5> QED
          BY <3>1, <5>1, <5>2
      <4>3. 1 \in DOMAIN u /\ u[1] = t[2]
        BY <4>2 DEF Takes
      <4>4. u # <<>>
        BY <4>3
      <4> QED
        BY <4>2, <4>3, <4>4
    <3>2. CASE s.file # Crl
      <4>1. PICK q \in Procs : todo[q] # <<>> /\ Is(todo[q][1], "fill", Crl)
        BY <1>3, <1>6, <2>6, <3>2 DEF CrlKept
      <4>2. q # p
        BY <3>2, <4>1 DEF Is
      <4> QED
        BY <4>1, <4>2
    <3> QED
      BY <3>1, <3>2
  <2> QED
    BY <2>1, <2>4, <2>5, <2>6 DEF CrlKept, HasStep, Is
<1>7. ~ crlHurt' => CrlKept'
  BY <1>6 DEF IInv, CrlOK
<1> QED
  BY <1>5, <1>7 DEF CrlOK

\* Requests and certificates.
LEMMA StepRequest ==
  ASSUME IInv, NEW p \in Procs, NEW t, t = todo[p], NEW u, Takes(t, u), Effect(t[1]),
         todo'[p] = u, \A q \in Procs \ {p} : todo'[q] = todo[q]
  PROVE  RequestOrCertUnlessCut'
<1> DEFINE s == t[1]
<1> SUFFICES ASSUME NEW n \in Names, n \notin cut',
                    disk'[Signed(n)] # Missing, disk'[Request(n)] # Missing
             PROVE  \E q \in Procs : HasStep(todo'[q], "remove", Request(n))
  BY DEF RequestOrCertUnlessCut, Ahead, HasStep, Is, Exists
<1>1. /\ Request(n) \in Files /\ Signed(n) \in Files /\ Request(n) # Signed(n) /\ DiskOK
      /\ Request(n) # Inventory /\ Signed(n) # Inventory
  BY TheFixed, FilesDiffer DEF IInv, Fixed
<1>2. Coupled(t) /\ RequestAhead(t) /\ 1 \in DOMAIN t
  BY DEF Takes, SectionOK, Shape
<1>3. s.file \in {Request(n), Signed(n)} => disk'[s.file] = s.val /\ s.val # Missing
  BY DEF Effect
<1>4. n \notin cut
  BY <1>3 DEF Effect
<1>5. \A j \in DOMAIN t : Is(t[j], "remove", Request(n)) /\ s.op # "remove"
                          => HasStep(u, "remove", Request(n))
  <2> SUFFICES ASSUME NEW j \in DOMAIN t, Is(t[j], "remove", Request(n)), s.op # "remove"
               PROVE  HasStep(u, "remove", Request(n))
    OBVIOUS
  <2>1. j > 1
    BY DEF Is, Takes
  <2> QED
    BY <2>1 DEF Takes, HasStep
<1>6. s.file \in {Request(n), Signed(n)} => s.op \in {"create", "fill"}
  BY <1>1, <1>3, EffectFiles DEF Effect
<1>7. s.file \in {Request(n), Signed(n)} /\ disk[s.file] = Missing => s.op = "create"
  BY <1>3, <1>6 DEF Effect
<1>8. CASE disk[Signed(n)] # Missing /\ disk[Request(n)] # Missing
  <2>1. PICK q \in Procs : HasStep(todo[q], "remove", Request(n))
    BY <1>4, <1>8 DEF IInv, RequestOrCertUnlessCut, Ahead, HasStep, Is, Exists
  <2>2. CASE q # p
    BY <2>1, <2>2
  <2>3. CASE q = p
    <3>1. PICK j \in DOMAIN t : Is(t[j], "remove", Request(n))
      BY <2>1, <2>3 DEF HasStep
    <3>2. j # 1
      BY <1>6, <3>1 DEF Is
    <3>3. j - 1 \in DOMAIN u /\ u[j - 1] = t[j]
      BY <3>1, <3>2 DEF Takes
    <3>4. HasStep(u, "remove", Request(n))
      BY <3>1, <3>3 DEF HasStep
    <3> QED
      BY <3>4
  <2> QED
    BY <2>2, <2>3
<1>9. CASE disk[Signed(n)] = Missing
  <2>1. s.file = Signed(n)
    BY <1>1, <1>9 DEF Effect
  <2>2. s.op = "create"
    BY <1>7, <1>9, <2>1
  <2>3. \E j \in DOMAIN t : Is(t[j], "remove", Request(n))
    BY <1>2, <2>1, <2>2 DEF Coupled, Is
  <2>4. HasStep(u, "remove", Request(n))
    BY <1>5, <2>2, <2>3
  <2> QED
    BY <2>4
<1>10. CASE disk[Request(n)] = Missing /\ disk[Signed(n)] # Missing
  <2>1. s.file = Request(n)
    BY <1>1, <1>10 DEF Effect
  <2>2. s.op = "create"
    BY <1>7, <1>10, <2>1
  <2>3. disk[Signed(n)] = Missing \/ n \in cut
    BY <1>2, <2>1, <2>2 DEF RequestAhead, Is, Exists
  <2> QED
    BY <1>4, <1>10, <2>3
<1> QED
  BY <1>8, <1>9, <1>10

\* Init creates ca_crt.pem before ca_key.pem, and both before anything else.
LEMMA StepFresh ==
  ASSUME IInv, NEW p \in Procs, NEW t, t = todo[p], NEW u, Takes(t, u), Effect(t[1]),
         GoesOn(p, u), todo'[p] = u, \A q \in Procs \ {p} : todo'[q] = todo[q]
  PROVE  FreshOK'
<1> DEFINE s == t[1]
<1>1. /\ DiskOK /\ {CaCrt, CaKey} \subseteq Fixed /\ CaCrt # CaKey /\ CaCrt # Crl
      /\ {CaCrt, CaKey} \subseteq Files
  BY TheFixed, FilesDiffer DEF IInv
<1>2. (Exists(CaCrt) => Exists(CaCrt)') /\ (Exists(CaKey) => Exists(CaKey)')
  BY <1>1, EffectFiles
<1>3. CASE Exists(CaKey)
  BY <1>2, <1>3 DEF IInv, FreshOK
<1>4. CASE ~ Exists(CaKey)
  <2>1. p = "server" /\ server = "init" /\ BeforeKey(t)
    BY <1>4, FreshSection DEF Takes
  <2>2. PICK k \in DOMAIN t : /\ Is(t[k], "create", CaKey) /\ (k = 1 => Exists(CaCrt))
                              /\ \A i \in DOMAIN t : i < k => t[i].file = CaCrt
    BY <2>1 DEF BeforeKey
  <2>3. CASE k = 1
    <3>1. Exists(CaKey)'
      BY <1>1, <2>2, <2>3, EffectFiles DEF Is
    <3> QED
      BY <1>2, <2>2, <2>3, <3>1 DEF FreshOK
  <2>4. CASE k # 1
    <3>1. k > 1 /\ k - 1 \in DOMAIN u /\ u[k - 1] = t[k] /\ s.file = CaCrt
      BY <2>2, <2>4 DEF Takes
    <3>2. /\ \A f \in Files \ {CaCrt} : ~ Exists(f)
          /\ revokedEver = {} /\ todo["admin"] = <<>>
      BY <1>4 DEF IInv, FreshOK
    <3>3. (\A f \in Files \ {CaCrt} : disk'[f] = Missing) /\ revokedEver' = {}
      BY <1>1, <3>1, <3>2 DEF Effect, Exists, Is
    <3>4. Exists(CaCrt)'
      <4>1. CASE s.op = "fill"
        BY <1>1, <1>2, <3>1, <4>1 DEF Takes, SectionOK, Created
      <4>2. CASE s.op # "fill"
        BY <1>1, <3>1, <4>2, EffectFiles
      <4> QED
        BY <4>1, <4>2
    <3>5. BeforeKey(u)'
      <4>1. \A i \in DOMAIN u : i < k - 1 => u[i].file = CaCrt
        <5> SUFFICES ASSUME NEW i \in DOMAIN u, i < k - 1 PROVE u[i].file = CaCrt
          OBVIOUS
        <5>1. i + 1 \in DOMAIN t /\ u[i] = t[i + 1] /\ i + 1 < k
          BY <3>1 DEF Takes
        <5> QED
          BY <2>2, <5>1
      <4> QED
        BY <2>2, <3>1, <3>4, <4>1 DEF BeforeKey, Is
    <3>6. todo'["admin"] = <<>> /\ todo'["server"] = u /\ server' = "init"
      <4>1. u # <<>>
        BY <3>1
      <4> QED
        BY <2>1, <3>2, <4>1 DEF Procs, GoesOn
    <3> QED
      BY <3>3, <3>4, <3>5, <3>6 DEF FreshOK, Exists, BeforeKey, Is
  <2> QED
    BY <2>3, <2>4
<1> QED
  BY <1>3, <1>4

LEMMA StepStep ==
  ASSUME IInv, NEW p \in Procs, Step(p)
  PROVE  IInv'
<1> DEFINE t == todo[p]
           u == Tail(t)
<1>1. /\ Takes(t, u) /\ Effect(t[1]) /\ GoesOn(p, u) /\ u \in Seq(Steps)
      /\ disk' \in [Files -> Vals]
  BY StepTakes
<1>2. crlHurt' = crlHurt
  BY DEF Step
<1> HIDE DEF u
<1>3. DiskOK /\ PhaseOK /\ SerialOK /\ PairOK /\ SectionsOK
  BY DEF IInv
<1>4. DiskOK'
  BY <1>1, <1>3, StepDisk
<1>5. Quiet(t) => Quiet(u)
  BY <1>1 DEF Quiet, Takes
<1>6. PhaseOK' /\ todo' = [todo EXCEPT ![p] = u]
  BY <1>1, <1>3, <1>5, GoesOnIs DEF Takes
<1>7. todo'[p] = u /\ \A q \in Procs \ {p} : todo'[q] = todo[q]
  BY <1>3, <1>6 DEF PhaseOK
<1>8. SectionsOK'
  <2>1. SectionOK(todo[p])'
    BY <1>1, <1>3, <1>7, StepOwn
  <2>2. ASSUME NEW q \in Procs \ {p} PROVE SectionOK(todo[q])'
    <3>1. Quiet(t) \/ Quiet(todo[q])
      <4>1. server = "offline" => Quiet(todo["server"])
        BY <1>3 DEF PhaseOK, Quiet
      <4> QED
        BY <1>3, <4>1 DEF PhaseOK, Procs
    <3>2. SectionOK(todo[q])
      BY <1>3 DEF SectionsOK
    <3> QED
      BY <1>1, <1>3, <1>7, <3>1, <3>2, StepOther
  <2> QED
    BY <2>1, <2>2 DEF SectionsOK
<1>9. SerialOK' /\ PairOK'
  BY <1>1, <1>3, <1>7, StepSerial, StepPair
<1>10. FreshOK'
  BY <1>1, <1>7, StepFresh
<1>11. CrlOK'
  BY <1>1, <1>2, <1>7, StepCrl
<1>12. RequestOrCertUnlessCut'
  BY <1>1, <1>7, StepRequest
<1> QED
  BY <1>4, <1>6, <1>8, <1>9, <1>10, <1>11, <1>12 DEF IInv

----------------------------------------------------------------------------
(* The invariant. *)

LEMMA InitIInv == Init => IInv
<1> SUFFICES ASSUME Init PROVE IInv
  OBVIOUS
<1>1. /\ disk = [f \in Files |-> Missing] /\ server = "down" /\ todo = [p \in Procs |-> <<>>]
      /\ issued = {} /\ revokedEver = {}
  BY DEF Init
<1>2. (\A f \in Files : disk[f] = Missing) /\ (\A p \in Procs : todo[p] = <<>>)
  BY <1>1
<1>3. /\ {CaCrt, CaKey, Serial, Crl, ServerCrt, ServerKey} \subseteq Files
      /\ \A n \in Names : Signed(n) \in Files
  BY FilesAre DEF Fixed
<1>4. DiskOK
  BY <1>1, <1>2 DEF DiskOK, Vals
<1>5. PhaseOK
  BY <1>1, <1>2 DEF PhaseOK, Quiet, Procs
<1>6. SectionsOK
  <2>1. Shape(<<>>) /\ Light(<<>>)
    BY DEF Shape, Ordered, Coupled, Light
  <2>2. SectionOK(<<>>)
    BY <2>1, LightOK
  <2> QED
    BY <1>2, <2>2 DEF SectionsOK
<1>7. FreshOK
  BY <1>1, <1>2, <1>3 DEF FreshOK, Exists, Procs
<1>8. SerialOK /\ PairOK
  BY <1>1, <1>2, <1>3 DEF SerialOK, PairOK, Exists, Whole
<1>9. CrlOK
  <2>1. CrlKept
    BY <1>1, <1>2, <1>3, DirAssumption DEF CrlKept, Whole, HasStep
  <2> QED
    BY <1>1, <2>1 DEF CrlOK
<1>10. RequestOrCertUnlessCut
  BY <1>2, <1>3 DEF RequestOrCertUnlessCut, Exists
<1> QED
  BY <1>4, <1>5, <1>6, <1>7, <1>8, <1>9, <1>10 DEF IInv

LEMMA StutterStep == IInv /\ UNCHANGED vars => IInv'
<1> SUFFICES ASSUME IInv, UNCHANGED vars PROVE IInv'
  OBVIOUS
<1>1. UNCHANGED <<disk, server, todo, issued, revokedEver, crlHurt, cut, split>>
  BY DEF vars, history
<1>2. \A f : (Exists(f)' <=> Exists(f)) /\ (Whole(f)' <=> Whole(f))
  BY <1>1 DEF Exists, Whole
<1>3. PhaseOK' /\ FreshOK' /\ DiskOK' /\ SerialOK' /\ PairOK'
  BY <1>1, <1>2 DEF IInv, PhaseOK, FreshOK, BeforeKey, Quiet, DiskOK, SerialOK, PairOK, AtKey, Is
<1>4. SectionsOK'
  BY <1>1, <1>2 DEF IInv, SectionsOK, SectionOK, Created, SerialAhead, PairAhead, RequestAhead
<1>5. CrlOK'
  BY <1>1, <1>2 DEF IInv, CrlOK, CrlKept, HasStep, Is
<1>6. RequestOrCertUnlessCut'
  BY <1>1, <1>2 DEF IInv, RequestOrCertUnlessCut, Ahead
<1> QED
  BY <1>3, <1>4, <1>5, <1>6 DEF IInv

LEMMA IInvStep == IInv /\ [Next]_vars => IInv'
<1> SUFFICES ASSUME IInv, [Next]_vars PROVE IInv'
  OBVIOUS
<1>1. CASE Open
  BY <1>1, OpenStep
<1>2. ASSUME NEW ok \in BOOLEAN, InitCA(ok) PROVE IInv'
  BY <1>2, InitCAStep
<1>3. ASSUME NEW ok \in BOOLEAN, ServerTLSCert(ok) PROVE IInv'
  BY <1>3, MintStep
<1>4. ASSUME NEW c \in CSRs, NEW a \in BOOLEAN, NEW ok \in BOOLEAN, SubmitCSR(c, a, ok) PROVE IInv'
  BY <1>4, SubmitStep
<1>5. ASSUME NEW n \in Names, Sign(n) \/ AdminSign(n) PROVE IInv'
  BY <1>5, SignStep
<1>6. ASSUME NEW n \in Names, \/ Revoke(n) \/ Clean(n) \/ DeleteCSR(n)
                              \/ AdminRevoke(n) \/ \E ok \in BOOLEAN : AdminClean(n, ok)
      PROVE  IInv'
  BY <1>6, LightStep
<1>7. ASSUME NEW p \in Procs, Step(p) PROVE IInv'
  BY <1>7, StepStep
<1>8. ASSUME NEW p \in Procs, ReadToSign(p) PROVE IInv'
  BY <1>8, ReadToSignStep
<1>9. ASSUME NEW p \in Procs, Fail(p) PROVE IInv'
  BY <1>9, FailStep
<1>10. ASSUME NEW p \in Procs, Crash(p) PROVE IInv'
  BY <1>10, CrashStep
<1>11. ASSUME NEW p \in Procs, NEW ok \in BOOLEAN, ReadToRevoke(p, ok) PROVE IInv'
  BY <1>11, ReadToRevokeStep
<1>12. CASE UNCHANGED vars
  BY <1>12, StutterStep
<1> QED
  BY <1>1, <1>2, <1>3, <1>4, <1>5, <1>6, <1>7, <1>8, <1>9, <1>10, <1>11, <1>12 DEF Next

\* The inductive invariant: what is on disk, who is signing, what each open section has
\* still to do and what it was decided on, through every write of castore.go, failing or
\* cut short by a crash, and the reads and stats it goes on without.
THEOREM DirInvariant == Spec => []IInv
  BY InitIInv, IInvStep, PTL DEF Spec

\* Every file of the cadir is missing, cut short or of its own kind, and no certificate
\* but the CA's own has serial 1.
THEOREM TypeCorrect == Spec => []TypeOK
<1>1. IInv => TypeOK
  <2> SUFFICES ASSUME IInv PROVE TypeOK
    OBVIOUS
  <2>1. \A f \in Files :
          \/ disk[f] \in {Missing, Torn}
          \/ f \in {CaCrt, CaKey, CaPub} /\ disk[f] = 1
          \/ /\ f \in {Serial, ServerKey, ServerCrt} \cup {Signed(n) : n \in Names}
             /\ disk[f] \in 2 .. MaxSerial
          \/ f \in {Inventory, Crl} /\ disk[f] \subseteq 1 .. MaxSerial
          \/ \E n \in Names : f = Request(n) /\ disk[f] \in {c \in CSRs : CN[c] = n}
    BY DEF IInv, DiskOK, Holds
  <2>2. server \in {"down", "init", "up", "offline"}
    BY DEF IInv, PhaseOK
  <2>3. \A p \in Procs : \A i \in DOMAIN todo[p] : todo[p][i].file \in Files
    <3> SUFFICES ASSUME NEW p \in Procs, NEW i \in DOMAIN todo[p] PROVE todo[p][i].file \in Files
      OBVIOUS
    <3>1. todo[p] \in Seq(Steps)
      BY DEF IInv, PhaseOK
    <3>2. todo[p][i] \in Steps
      BY <3>1
    <3> QED
      BY <3>2 DEF Steps
  <2> QED
    BY <2>1, <2>2, <2>3 DEF TypeOK
<1> QED
  BY <1>1, DirInvariant, PTL

\* nextSerialLocked advances the serial file before the certificate is written: no crash,
\* failed write or offline `sign` makes signLocked use a serial again.
THEOREM SerialsAreNew == Spec => []SerialNeverReused
<1>1. IInv => SerialNeverReused
  BY DEF IInv, SectionsOK, SectionOK, SerialAhead, SerialNeverReused, IsCertFill
<1> QED
  BY <1>1, DirInvariant, PTL

\* ServerTLSCert writes the certificate before its key: two halves that decode belong
\* together, unless the pair was there, a read of it failed and minting over it is between
\* the two files or ended there.
THEOREM PairsMatch == Spec => []ServerPairMatches
<1>1. IInv => ServerPairMatches
  <2> SUFFICES ASSUME IInv, Whole(ServerCrt), Whole(ServerKey), disk[ServerCrt] # disk[ServerKey],
                      ~ split
               PROVE  \E p \in Procs : Ahead(p, "create", ServerKey)
    BY DEF ServerPairMatches
  <2>1. PICK p \in Procs : AtKey(todo[p])
    BY DEF IInv, PairOK
  <2>2. 1 \in DOMAIN todo[p]
    BY <2>1, TailIs DEF IInv, PhaseOK, AtKey
  <2> QED
    BY <2>1, <2>2 DEF AtKey, Ahead, Is
<1> QED
  BY <1>1, DirInvariant, PTL

\* Revoke reads the CRL back before it rewrites it: a revocation is lost only through a
\* cut or unreadable CRL or a race of the two processes.
THEOREM RevocationsStay == Spec => []RevocationsKept
<1>1. IInv => RevocationsKept
  BY DEF IInv, CrlOK, CrlKept, RevocationsKept
<1> QED
  BY <1>1, DirInvariant, PTL

\* submitCSR looks for a certificate before it writes a request, and signLocked removes
\* the request: a name has both only during a signing, after one that was cut short, or
\* after a failing stat of the certificate, which submitCSR takes for none.
THEOREM RequestsAndCerts == Spec => []RequestOrCertUnlessCut
<1>1. IInv => RequestOrCertUnlessCut
  BY DEF IInv
<1> QED
  BY <1>1, DirInvariant, PTL
============================================================================
