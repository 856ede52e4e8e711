---------------------------- MODULE EnrollProofs ---------------------------
(***************************************************************************)
(* Proofs about Enroll, for any number of keys, faults and removals.         *)
(***************************************************************************)
EXTENDS Enroll, TLAPS

\* The steps of a run at which the agent holds its key and, with an ssldir, has stored it.
HoldsKey == {"pub", "get", "csr", "put", "wait", "poll", "adopt", "done"}

KeyIsStored == key \in 1 .. keys /\ (Disk => ssl["key"] = key)

\* The writes a run makes.
WriteOK ==
    \/ wr = [file |-> "ca", val |-> "pem", then |-> "crl"]
    \/ wr = [file |-> "crl", val |-> "pem", then |-> "key"]
    \/ wr = [file |-> "key", val |-> key, then |-> "pub"] /\ key \in 1 .. keys
    \/ wr = [file |-> "pub", val |-> key, then |-> "get"] /\ KeyIsStored
    \/ wr = [file |-> "csr", val |-> key, then |-> "put"] /\ KeyIsStored
    \/ wr = [file |-> "cert", val |-> key, then |-> "done"] /\ KeyIsStored /\ key \in signedFor

\* What a run has established so far.
RunOK ==
    /\ pc \in HoldsKey => KeyIsStored
    /\ pc = "write" => Disk /\ WriteOK
    /\ pc = "adopt" => got # None /\ (got # Torn => got \in signedFor)
    /\ pc = "done" => key \in signedFor /\ (Disk => ssl["cert"] = key)

\* A node with an ssldir generates one key, when it finds none, unless it overlooks the
\* one it has, and the certificate it stores is one the CA issued.
StoreOK ==
    /\ ssl = None \/ ssl \in [Files -> Contents]
    /\ keys \in Nat
    /\ Disk => /\ ~ rekeyed => keys <= 1
               /\ ssl["key"] = Missing => keys = 0
               /\ ssl["cert"] \in {Missing, Torn} \cup signedFor

\* The certificate file of the CA is whole only once it is issued.
CAOK == cert \in {None, Torn} \cup signedFor

\* No answer to the node turns it away because of itself.
AnswersOK ==
    /\ reply \in {None, "ok", "signed", "different"}
    /\ Disk /\ ~ rekeyed => reply # "different" /\ outcome \notin {"different", "mismatch"}

\* The inductive invariant.
IInv == TypeOK /\ RunOK /\ StoreOK /\ CAOK /\ AnswersOK

----------------------------------------------------------------------------

\* Nothing is stored, sent or signed yet.
LEMMA InitIInv == Init => IInv
<1> SUFFICES ASSUME Init PROVE IInv
  OBVIOUS
<1>1. ssl = None \/ ssl = [f \in Files |-> Missing]
  BY DEF Init
<1>2. TypeOK
  BY <1>1 DEF Init, TypeOK, Disk
<1>3. RunOK
  BY DEF Init, RunOK, HoldsKey
<1>4. ssl = None \/ ssl \in [Files -> Contents]
  BY <1>1 DEF Contents
<1>5. StoreOK
  BY <1>1, <1>4 DEF Init, StoreOK, Files, Disk
<1>6. CAOK /\ AnswersOK
  BY EnrollAssumption DEF Init, CAOK, AnswersOK
<1> QED
  BY <1>2, <1>3, <1>5, <1>6 DEF IInv

\* The steps of the CA.
LEMMA CAStep ==
  ASSUME IInv,
         \/ \E failed \in BOOLEAN : ServePut(failed)
         \/ Sign \/ FinishSign \/ Remove
         \/ \E c \in stale : LoseStalePut(c) \/ \E failed \in BOOLEAN : ServeStalePut(c, failed)
  PROVE  IInv'
<1> USE DEF Submit
<1>0. /\ UNCHANGED <<ssl, pc, key, got, wr, outcome, keys, rekeyed>> /\ signedFor \subseteq signedFor'
      /\ (Disk' <=> Disk) /\ (KeyIsStored' <=> KeyIsStored)
  BY DEF ServePut, Sign, FinishSign, Remove, ServeStalePut, LoseStalePut, agent, ca, budget,
         Disk, KeyIsStored
<1>1. RunOK'
  BY <1>0 DEF IInv, RunOK, WriteOK
<1>2. StoreOK'
  BY <1>0 DEF IInv, StoreOK
<1>3. CAOK'
  BY DEF IInv, TypeOK, CAOK, ServePut, Sign, FinishSign, Remove, ServeStalePut, LoseStalePut, ca
<1>4. Disk /\ ~ rekeyed => \A c \in 1 .. keys : \A failed \in BOOLEAN : Answer(c, failed) # "different"
  BY DEF IInv, TypeOK, StoreOK, Answer
<1>5. AnswersOK'
  BY <1>0, <1>4 DEF IInv, AnswersOK, TypeOK, ServePut, Sign, FinishSign, Remove, ServeStalePut,
     LoseStalePut, net, Answer
<1>6. TypeOK'
  <2>1. /\ \A k \in {key, flight, pend, writing}' : k = None \/ k \in 1 .. keys
        /\ cert' \in {None, Torn} \cup 1 .. keys
        /\ stale' \subseteq 1 .. keys
    BY <1>0 DEF IInv, TypeOK, ServePut, Sign, FinishSign, Remove, ServeStalePut, LoseStalePut,
       net, ca, Submit
  <2> QED
    BY <1>0, <2>1 DEF IInv, TypeOK
<1> QED
  BY <1>1, <1>2, <1>3, <1>5, <1>6 DEF IInv

----------------------------------------------------------------------------
(* The agent: a step moves on, starts a write or ends the run. *)

PCs == {"idle", "ca", "crl", "key", "pub", "get", "csr", "put", "wait", "poll", "adopt",
        "write", "done"}

\* A step that writes nothing and goes on with the run.
LEMMA MoveStep ==
  ASSUME IInv, UNCHANGED <<ssl, outcome, ca, keys, stale, rekeyed>>,
         pc' \in PCs \ {"write"},
         key' = None \/ key' \in 1 .. keys,
         got' \in {got, cert}, flight' \in {flight, key}, reply' \in {reply, None},
         pc' \in HoldsKey => KeyIsStored',
         pc' = "adopt" => got' # None /\ (got' # Torn => got' \in signedFor),
         pc' = "done" => key' \in signedFor /\ (Disk => ssl["cert"] = key')
  PROVE  IInv'
<1>1. Disk' <=> Disk
  BY DEF Disk
<1>2. RunOK'
  BY <1>1 DEF RunOK, ca
<1>3. StoreOK' /\ CAOK'
  BY <1>1 DEF IInv, StoreOK, CAOK, ca
<1>4. AnswersOK'
  BY <1>1, EnrollAssumption DEF IInv, AnswersOK
<1>5. TypeOK'
  BY <1>1 DEF IInv, TypeOK, PCs, ca
<1> QED
  BY <1>2, <1>3, <1>4, <1>5 DEF IInv

\* A step that ends the run.
LEMMA ReturnStep ==
  ASSUME IInv, NEW o, Return(o), UNCHANGED <<ssl, ca, keys, rekeyed>>,
         flight' \in {flight, None}, reply' \in {reply, None},
         stale' = stale \/ (stale' = stale \cup {flight} /\ flight # None),
         Disk /\ ~ rekeyed => o \notin {"different", "mismatch"}
  PROVE  IInv'
<1>1. Disk' <=> Disk
  BY DEF Disk
<1>2. RunOK'
  BY <1>1 DEF RunOK, Return, HoldsKey
<1>3. StoreOK' /\ CAOK'
  BY <1>1 DEF IInv, StoreOK, CAOK, ca
<1>4. AnswersOK'
  BY <1>1, EnrollAssumption DEF IInv, AnswersOK, Return
<1>5. TypeOK'
  BY <1>1 DEF IInv, TypeOK, Return, ca
<1> QED
  BY <1>2, <1>3, <1>4, <1>5 DEF IInv

\* A step that starts the write of a file; the key is created where there was none, or
\* replaced.
LEMMA WriteStep ==
  ASSUME IInv, Disk, NEW f \in Files, NEW v, NEW p, WriteThen(f, v, p), UNCHANGED <<ca, net>>,
         rekeyed => rekeyed',
         IF f = "key" THEN keys' = keys + 1 /\ key' = keys' ELSE UNCHANGED <<key, keys>>,
         Disk /\ ~ rekeyed' => keys' <= 1,
         WriteOK'
  PROVE  IInv'
<1>1. /\ ssl \in [Files -> Contents] /\ ssl' \in [Files -> Contents]
      /\ ssl' = [ssl EXCEPT ![f] = Torn]
  BY DEF IInv, StoreOK, Disk, WriteThen, Contents
<1>2. Disk' /\ pc' = "write" /\ UNCHANGED <<got, outcome>>
  BY <1>1, EnrollAssumption DEF Disk, WriteThen
<1>3. keys \in Nat /\ keys <= keys' /\ keys' \in Nat /\ 1 .. keys \subseteq 1 .. keys'
  BY DEF IInv, StoreOK
<1>4. RunOK'
  BY <1>2 DEF RunOK, HoldsKey
<1>5. StoreOK'
  BY <1>1, <1>2, <1>3, EnrollAssumption DEF IInv, StoreOK, Files, ca
<1>6. CAOK' /\ AnswersOK'
  BY <1>2 DEF IInv, CAOK, AnswersOK, ca, net
<1>7. TypeOK'
  <2>1. \A g \in Files : ssl'[g] \in {Missing, Torn} \cup
                             (IF g \in {"ca", "crl"} THEN {"pem"} ELSE 1 .. keys')
    BY <1>1, <1>3 DEF IInv, TypeOK
  <2>2. /\ \A k \in {key, flight, pend, writing}' : k = None \/ k \in 1 .. keys'
        /\ got' \in {None, Torn} \cup 1 .. keys'
        /\ cert' \in {None, Torn} \cup 1 .. keys'
        /\ stale' \subseteq 1 .. keys'
    BY <1>2, <1>3 DEF IInv, TypeOK, ca, net
  <2> QED
    BY <1>2, <2>1, <2>2 DEF TypeOK
<1> QED
  BY <1>4, <1>5, <1>6, <1>7 DEF IInv

\* The end of a write.
LEMMA FinishStep == IInv /\ FinishWrite => IInv'
<1> SUFFICES ASSUME IInv, FinishWrite PROVE IInv'
  OBVIOUS
<1>1. Disk /\ WriteOK /\ ssl \in [Files -> Contents] /\ keys \in Nat
  BY DEF IInv, RunOK, StoreOK, Disk, FinishWrite
<1>2. /\ wr.file \in Files
      /\ wr.val \in (IF wr.file \in {"ca", "crl"} THEN {"pem"} ELSE 1 .. keys)
      /\ wr.then \in PCs \ {"write", "adopt"}
  BY <1>1 DEF WriteOK, KeyIsStored, Files, PCs
<1>3. /\ ssl' = [ssl EXCEPT ![wr.file] = wr.val] /\ pc' = wr.then
      /\ UNCHANGED <<key, got, outcome, net, ca, budget>>
  BY DEF FinishWrite
<1>4. ssl' \in [Files -> Contents]
  BY <1>1, <1>2, <1>3 DEF Contents
<1>5. Disk'
  BY <1>4, EnrollAssumption DEF Disk
<1>6. RunOK'
  <2>1. pc' \in HoldsKey => KeyIsStored'
    <3>1. wr.then \in HoldsKey => /\ key \in 1 .. keys
                                 /\ IF wr.file = "key" THEN wr.val = key ELSE ssl["key"] = key
      BY <1>1 DEF WriteOK, KeyIsStored, HoldsKey
    <3> QED
      BY <1>1, <1>2, <1>3, <3>1 DEF KeyIsStored, Files, budget
  <2>2. pc' = "done" => key' \in signedFor' /\ ssl'["cert"] = key'
    <3>1. wr.then = "done" => wr.file = "cert" /\ wr.val = key /\ key \in signedFor
      BY <1>1 DEF WriteOK
    <3> QED
      BY <1>1, <1>3, <3>1 DEF Files, ca
  <2> QED
    BY <1>2, <1>3, <2>1, <2>2 DEF RunOK
<1>7. StoreOK'
  <2>1. keys' \in Nat /\ (~ rekeyed' => keys' <= 1)
    BY <1>1, <1>3 DEF IInv, StoreOK, budget
  <2>2. ssl'["key"] = Missing => keys' = 0
    <3>1. CASE wr.file = "key"
      BY <1>1, <1>2, <1>3, <3>1, EnrollAssumption DEF Files
    <3>2. CASE wr.file # "key"
      BY <1>1, <1>2, <1>3, <3>2 DEF IInv, StoreOK, budget, Files
    <3> QED
      BY <3>1, <3>2
  <2>3. ssl'["cert"] \in {Missing, Torn} \cup signedFor'
    BY <1>1, <1>3 DEF IInv, StoreOK, WriteOK, Files, ca
  <2> QED
    BY <1>4, <2>1, <2>2, <2>3 DEF StoreOK
<1>8. CAOK' /\ AnswersOK'
  BY <1>1, <1>3, <1>5 DEF IInv, CAOK, AnswersOK, ca, net, budget
<1>9. TypeOK'
  <2>1. \A g \in Files : ssl'[g] \in {Missing, Torn} \cup
                             (IF g \in {"ca", "crl"} THEN {"pem"} ELSE 1 .. keys')
    BY <1>1, <1>2, <1>3 DEF IInv, TypeOK, budget
  <2>2. /\ \A k \in {key, flight, pend, writing}' : k = None \/ k \in 1 .. keys'
        /\ got' \in {None, Torn} \cup 1 .. keys'
        /\ cert' \in {None, Torn} \cup 1 .. keys'
        /\ stale' \subseteq 1 .. keys'
    BY <1>3 DEF IInv, TypeOK, ca, net, budget
  <2> QED
    BY <1>2, <1>3, <2>1, <2>2 DEF TypeOK, PCs
<1> QED
  BY <1>6, <1>7, <1>8, <1>9 DEF IInv

\* The steps of a run that write a file, or without an ssldir just go on.
LEMMA WriteSteps ==
  ASSUME IInv, NEW failed \in BOOLEAN,
         ObtainCA(failed) \/ FetchCRL \/ CreateKey(failed) \/ WritePub \/ WriteCSR \/ Adopt
  PROVE  IInv'
<1> USE DEF net, budget, HoldsKey, PCs
<1>0. key = None \/ key \in 1 .. keys
  BY DEF IInv, TypeOK
<1>a. Disk /\ ~ rekeyed => keys <= 1
  BY DEF IInv, StoreOK
<1>1. CASE ObtainCA(failed)
  <2>1. CASE ~ Disk \/ (Whole("ca") /\ ~ failed)
    BY <1>0, <1>1, <2>1, MoveStep DEF ObtainCA, WriteThen, Goto, Whole
  <2>2. CASE Disk /\ ~ (Whole("ca") /\ ~ failed)
    BY <1>a, <1>1, <2>2, WriteStep DEF ObtainCA, WriteThen, WriteOK, Files
  <2> QED
    BY <2>1, <2>2
<1>2. CASE FetchCRL
  <2>1. CASE ~ Disk
    BY <1>0, <1>2, <2>1, MoveStep DEF FetchCRL, WriteThen, Goto
  <2>2. CASE Disk
    BY <1>a, <1>2, <2>2, WriteStep DEF FetchCRL, WriteThen, WriteOK, Files
  <2> QED
    BY <2>1, <2>2
<1>3. CASE WritePub
  <2>1. KeyIsStored
    BY <1>3 DEF WritePub, IInv, RunOK
  <2>2. CASE ~ Disk
    BY <1>0, <1>3, <2>1, <2>2, MoveStep DEF WritePub, WriteThen, Goto, KeyIsStored, Disk
  <2>3. CASE Disk
    <3>1. KeyIsStored'
      BY <1>3, <2>1, <2>3 DEF WritePub, WriteThen, KeyIsStored, IInv, StoreOK, Disk, Files
    <3> QED
      BY <1>a, <1>3, <2>3, <3>1, WriteStep DEF WritePub, WriteThen, WriteOK, Files
  <2> QED
    BY <2>2, <2>3
<1>4. CASE WriteCSR
  <2>1. KeyIsStored
    BY <1>4 DEF WriteCSR, IInv, RunOK
  <2>2. CASE ~ Disk
    BY <1>0, <1>4, <2>1, <2>2, MoveStep DEF WriteCSR, WriteThen, Goto, KeyIsStored, Disk
  <2>3. CASE Disk
    <3>1. KeyIsStored'
      BY <1>4, <2>1, <2>3 DEF WriteCSR, WriteThen, KeyIsStored, IInv, StoreOK, Disk, Files
    <3> QED
      BY <1>a, <1>4, <2>3, <3>1, WriteStep DEF WriteCSR, WriteThen, WriteOK, Files
  <2> QED
    BY <2>2, <2>3
<1>5. CASE Adopt
  <2>1. KeyIsStored
    BY <1>5 DEF Adopt, IInv, RunOK
  <2>2. key \in signedFor
    BY <1>5, <2>1, EnrollAssumption DEF Adopt, IInv, RunOK, StoreOK, KeyIsStored
  <2>3. CASE ~ Disk
    BY <1>0, <1>5, <2>1, <2>2, <2>3, MoveStep DEF Adopt, WriteThen, Goto, KeyIsStored, Disk
  <2>4. CASE Disk
    <3>1. KeyIsStored'
      BY <1>5, <2>1, <2>4 DEF Adopt, WriteThen, KeyIsStored, IInv, StoreOK, Disk, Files
    <3> QED
      BY <1>a, <1>5, <2>2, <2>4, <3>1, WriteStep DEF Adopt, WriteThen, WriteOK, Files, ca
  <2> QED
    BY <2>3, <2>4
<1>6. CASE CreateKey(failed)
  <2>1. keys \in Nat
    BY DEF IInv, StoreOK
  <2> USE DEF CreateKey, GenerateKey
  <2>2. CASE Disk
    <3>0. rekeyed => rekeyed'
      BY <1>6
    <3>1. keys' = keys + 1 /\ key' = keys' /\ key' \in 1 .. keys'
      BY <1>6, <2>1
    <3>2. ~ rekeyed' => keys' <= 1
      BY <1>6, <2>2, <3>1 DEF IInv, StoreOK
    <3>3. WriteOK'
      BY <1>6, <2>2, <3>1 DEF WriteThen, WriteOK
    <3> QED
      BY <1>6, <2>2, <3>0, <3>1, <3>2, <3>3, WriteStep DEF Files
  <2>3. CASE ~ Disk
    <3>1. /\ ~ Disk' /\ pc' = "pub" /\ UNCHANGED <<ssl, got, wr, outcome, net, ca>>
          /\ keys' \in Nat /\ keys' > keys /\ key' = keys'
      BY <1>6, <2>1, <2>3 DEF CreateKey, WriteThen, Goto, Disk
    <3>2. 1 .. keys \subseteq 1 .. keys' /\ key' \in 1 .. keys'
      BY <2>1, <3>1
    <3>3. RunOK' /\ StoreOK' /\ CAOK' /\ AnswersOK'
      BY <3>1, <3>2 DEF IInv, RunOK, KeyIsStored, StoreOK, CAOK, AnswersOK, ca
    <3>4. TypeOK'
      BY <3>1, <3>2 DEF IInv, TypeOK, ca
    <3> QED
      BY <3>3, <3>4 DEF IInv
  <2> QED
    BY <2>2, <2>3
<1> QED
  BY <1>1, <1>2, <1>3, <1>4, <1>5, <1>6

\* The steps of a run that write nothing.
LEMMA MoveSteps ==
  ASSUME IInv, NEW failed \in BOOLEAN,
         \/ LoadIdentity \/ BeginEnroll(failed) \/ LoadKey \/ GetCert \/ PutCSR
         \/ PollForCert \/ SkipCRL \/ MissCert
  PROVE  IInv'
<1> USE DEF net, budget, HoldsKey, PCs
<1>0. /\ key = None \/ key \in 1 .. keys
      /\ ssl = None \/ ssl["key"] \in {Missing, Torn} \cup 1 .. keys
  BY DEF IInv, TypeOK, Disk, Files
<1>1. CASE LoadIdentity
  <2>1. key' \in signedFor /\ key' \in 1 .. keys /\ ssl["key"] = key' /\ ssl["cert"] = key'
    BY <1>0, <1>1 DEF LoadIdentity, StoreValid, Whole, Disk, IInv, StoreOK
  <2> QED
    BY <1>1, <2>1, MoveStep DEF LoadIdentity, Goto, KeyIsStored
<1>2. CASE BeginEnroll(failed) \/ SkipCRL
  BY <1>0, <1>2, MoveStep DEF BeginEnroll, SkipCRL, Goto
<1>3. CASE LoadKey
  <2>1. key' \in 1 .. keys /\ ssl["key"] = key'
    BY <1>0, <1>3 DEF LoadKey, Whole, Disk
  <2> QED
    BY <1>3, <2>1, MoveStep DEF LoadKey, Goto, KeyIsStored
<1>4. CASE GetCert \/ PollForCert \/ PutCSR \/ MissCert
  <2>1. KeyIsStored /\ KeyIsStored' /\ UNCHANGED <<ssl, key, keys, outcome, ca, stale, rekeyed>>
    BY <1>4 DEF GetCert, PollForCert, PutCSR, MissCert, Goto, IInv, RunOK, KeyIsStored, Disk
  <2>2. pc' = "adopt" => got' # None /\ (got' # Torn => got' \in signedFor)
    BY <1>4 DEF GetCert, PollForCert, PutCSR, MissCert, Goto, IInv, CAOK
  <2>3. /\ pc' \in {"adopt", "csr", "wait"} /\ got' \in {got, cert}
        /\ flight' \in {flight, key} /\ reply' \in {reply, None}
    BY <1>4 DEF GetCert, PollForCert, PutCSR, MissCert, Goto
  <2> QED
    BY <1>0, <2>1, <2>2, <2>3, MoveStep
<1> QED
  BY <1>1, <1>2, <1>3, <1>4

\* The steps that end a run, and ReadReply, which may.
LEMMA ReturnSteps ==
  IInv /\ (RejectStore \/ RejectKey \/ GiveUp \/ RejectCert \/ ReadReply \/ Interrupt) => IInv'
<1> SUFFICES ASSUME IInv, RejectStore \/ RejectKey \/ GiveUp \/ RejectCert \/ ReadReply \/ Interrupt
             PROVE  IInv'
  OBVIOUS
<1> USE DEF net, budget
<1>1. CASE RejectStore
  BY <1>1, ReturnStep DEF RejectStore
<1>2. CASE RejectKey
  BY <1>2, ReturnStep DEF RejectKey
<1>3. CASE GiveUp
  BY <1>3, ReturnStep DEF GiveUp
<1>4. CASE RejectCert
  \* With an ssldir and its first key there is one key, so a whole certificate is for it.
  <2>1. Disk /\ ~ rekeyed => got = Torn
    BY <1>4 DEF RejectCert, IInv, TypeOK, RunOK, StoreOK, KeyIsStored, HoldsKey
  <2> QED
    BY <1>4, <2>1, ReturnStep DEF RejectCert
<1>5. CASE ReadReply /\ reply = "ok"
  <2>1. KeyIsStored /\ KeyIsStored' /\ pc' = "poll" /\ UNCHANGED <<ssl, key, keys>>
    BY <1>5 DEF ReadReply, Goto, IInv, RunOK, HoldsKey, KeyIsStored, Disk
  <2> QED
    BY <1>5, <2>1, MoveStep DEF ReadReply, Goto, KeyIsStored, PCs
<1>6. CASE ReadReply /\ reply # "ok"
  <2>1. Disk /\ ~ rekeyed => reply \notin {"different", "mismatch"}
    BY <1>6 DEF ReadReply, IInv, AnswersOK
  <2> QED
    BY <1>6, <2>1, ReturnStep DEF ReadReply
<1>7. CASE Interrupt
  BY <1>7, ReturnStep DEF Interrupt
<1> QED
  BY <1>1, <1>2, <1>3, <1>4, <1>5, <1>6, <1>7

----------------------------------------------------------------------------

\* The inductive invariant holds of every state a node and its CA can be in: that the key
\* is stored before it is used is what the usability of an Identity rests on, and one key
\* for an ssldir, until a failed read has it replaced, the absence of conflicts.
THEOREM EnrollInvariant == Spec => []IInv
<1>1. Init => IInv
  BY InitIInv
<1>2. IInv /\ [Next]_vars => IInv'
  <2> SUFFICES ASSUME IInv, [Next]_vars PROVE IInv'
    OBVIOUS
  <2>1. CASE UNCHANGED vars
    <3>1. UNCHANGED <<ssl, pc, key, got, wr, outcome, flight, reply, stale, pend, cert, writing,
                      signedFor, keys, rekeyed>>
      BY <2>1 DEF vars, agent, net, ca, budget
    <3>2. (TypeOK' <=> TypeOK) /\ (RunOK' <=> RunOK) /\ (StoreOK' <=> StoreOK)
      BY <3>1 DEF TypeOK, RunOK, StoreOK, WriteOK, KeyIsStored, Disk
    <3>3. CAOK' /\ AnswersOK'
      BY <3>1 DEF IInv, CAOK, AnswersOK, Disk
    <3> QED
      BY <3>2, <3>3 DEF IInv
  <2> QED
    BY <2>1, CAStep, FinishStep, WriteSteps, MoveSteps, ReturnSteps DEF Next, Run, Overlook
<1> QED
  BY <1>1, <1>2, PTL DEF Spec

\* Every file holds its own kind of content and only generated keys are handled.
THEOREM TypeCorrect == Spec => []TypeOK
<1>1. IInv => TypeOK
  BY DEF IInv
<1> QED
  BY <1>1, EnrollInvariant, PTL

\* agent.Enroll never returns an Identity whose certificate the CA did not issue for
\* the key in it, and with an ssldir both are what is stored, however runs are cut short.
THEOREM IdentitiesAreUsable == Spec => []IdentityIsUsable
<1>1. IInv => IdentityIsUsable
  BY DEF IInv, RunOK, HoldsKey, KeyIsStored, IdentityIsUsable
<1> QED
  BY <1>1, EnrollInvariant, PTL

\* A node that keeps its key in an ssldir is never refused because of what an earlier,
\* interrupted run of it left at the CA, unless a read of that key failed and the key was
\* replaced.
THEOREM NodesDoNotConflict == Spec => []NoSelfConflict
<1>1. IInv => NoSelfConflict
  BY DEF IInv, AnswersOK, NoSelfConflict
<1> QED
  BY <1>1, EnrollInvariant, PTL
============================================================================
