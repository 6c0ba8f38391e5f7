-------------------------- MODULE OtaPositionProofs --------------------------
(***************************************************************************)
(* That a block of the job being downloaded is written at no position but  *)
(* its own, for every number of jobs, blocks, buffers, queue slots and     *)
(* faults.  A stale block differs from an expected one by nothing that the *)
(* handler looks at, so the argument is about what can still be on its way *)
(* when a download starts.  On the same argument rest the two sections     *)
(* that follow it: the file that is closed first is complete, and a block  *)
(* that is outstanding is asked for again.                                 *)
(***************************************************************************)
EXTENDS OtaBufferProofs, SequenceTheorems

\* The job j will be heard of after the first i messages on their way.
IsDoc(m) == m.kind = "doc"
Follows(i, j) ==
    \/ serverJob = j
    \/ \E k \in DOMAIN inbound :
          k > i /\ IsDoc(inbound[k]) /\ inbound[k].job = j
Ahead(j) == j \notin offered \/ jobDocBuffer = j \/ Follows(0, j)

\* A job that another one has taken the place of does not come back: neither the
\* one being downloaded, nor that of the document buffer, nor one on its way.
Replaces(m, j) == IsDoc(m) /\ m.job \notin {NoJob, j}
Ordered ==
    \A j \in Jobs :
        /\ stream = j /\ jobDocBuffer \notin {NoJob, j} => ~Follows(0, j)
        /\ \A i \in DOMAIN inbound :
              /\ stream = j \/ jobDocBuffer = j
              /\ Replaces(inbound[i], j)
              => ~Follows(i, j)
        /\ \A i, k \in DOMAIN inbound :
              /\ IsDoc(inbound[i]) /\ inbound[i].job = j
              /\ i < k /\ Replaces(inbound[k], j)
              => ~Follows(k, j)

\* Every job the device hears of has been offered.
Known ==
    /\ {stream, jobDocBuffer, serverJob} \subseteq offered \cup {NoJob}
    /\ \A i \in DOMAIN inbound : IsDoc(inbound[i]) => inbound[i].job \in offered \cup {NoJob}

Order == Ordered /\ Known

\* A block is of the current stream, and not beyond what was asked for, or of a
\* job that is over.
InTurn(m) ==
    ~IsDoc(m) => IF m.job = stream THEN m.block <= currentBlockOffset
                                   ELSE ~Ahead(m.job)
Requested ==
    /\ \A i \in DOMAIN inbound : InTurn(inbound[i])
    /\ \A b \in Buffers :
          InTurn(bufferData[b]) /\ (IsDoc(bufferData[b]) => bufferData[b].job = NoJob)

\* So are the blocks of the file, where those of the stream are in their place.
Placed(m, i) == IF m.job = stream THEN m.block = i ELSE m.job = NoJob \/ ~Ahead(m.job)
Filed == \A i \in BlockIds : file[i] # Hole => Placed(file[i], i)

\* A download starts at the first block, and a job that is forgotten has not
\* got beyond that.
Starting ==
    /\ taskPc \in {"subscribe", "create", "reportSuccess"} => currentBlockOffset = 0
    /\ taskPc \in {"subscribe", "create"} => globalJobId = stream
    /\ taskPc = "reportSuccess" => ~fileOpen
    /\ stream # NoJob /\ globalJobId # stream => currentBlockOffset = 0 /\ ~fileOpen

Position    == Order /\ Requested /\ Filed
PositionInv == Position /\ Starting

-----------------------------------------------------------------------------
(* What happens to the messages on their way.                              *)

\* When the first message is taken, the others move up.
LEMMA Taken ==
  ASSUME inbound \in Seq(Messages), inbound # <<>>, inbound' = Tail(inbound),
         serverJob' = serverJob
  PROVE  /\ 1 \in DOMAIN inbound /\ inbound[1] = Head(inbound)
         /\ \A i \in DOMAIN inbound' :
               i \in Nat /\ i > 0 /\ i + 1 \in DOMAIN inbound /\ inbound'[i] = inbound[i + 1]
         /\ \A j : \A i \in Nat : Follows(i, j)' => Follows(i + 1, j)
         /\ \A j : Follows(0, j)' => Follows(0, j)
<1>1. /\ DOMAIN inbound = 1 .. Len(inbound) /\ Len(inbound) \in Nat /\ Len(inbound) > 0
      /\ DOMAIN inbound' = 1 .. Len(inbound) - 1
      /\ \A i \in 1 .. Len(inbound) - 1 : inbound'[i] = inbound[i + 1]
      /\ inbound[1] = Head(inbound)
  OBVIOUS
<1>2. \A i \in DOMAIN inbound' :
         i \in Nat /\ i > 0 /\ i + 1 \in DOMAIN inbound /\ inbound'[i] = inbound[i + 1]
  BY <1>1
<1>3. ASSUME NEW i \in Nat, NEW j, Follows(i, j)' PROVE Follows(i + 1, j)
  <2>1. CASE serverJob = j
    BY <2>1 DEF Follows
  <2>2. CASE serverJob # j
    <3>1. PICK k \in DOMAIN inbound' : k > i /\ IsDoc(inbound'[k]) /\ inbound'[k].job = j
      BY <1>3, <2>2 DEF Follows, IsDoc
    <3>2. k + 1 \in DOMAIN inbound /\ k + 1 > i + 1 /\ inbound[k + 1] = inbound'[k]
      BY <1>2, <3>1
    <3> QED
      BY <3>1, <3>2 DEF Follows
  <2> QED
    BY <2>1, <2>2
<1>4. ASSUME NEW j, Follows(1, j) PROVE Follows(0, j)
  BY <1>1, <1>4 DEF Follows
<1>5. \A j : Follows(0, j)' => Follows(0, j)
  BY <1>3, <1>4
<1> QED
  BY <1>1, <1>2, <1>3, <1>5

\* A message is added at the end, or dropped.
LEMMA Delivered ==
  ASSUME inbound \in Seq(Messages), NEW m, Deliver(m)
  PROVE  \/ inbound' = inbound
         \/ /\ Len(inbound) + 1 \in DOMAIN inbound' /\ inbound'[Len(inbound) + 1] = m
            /\ \A i \in DOMAIN inbound' :
                  \/ i = Len(inbound) + 1
                  \/ i \in DOMAIN inbound /\ i < Len(inbound) + 1 /\ inbound'[i] = inbound[i]
<1>1. CASE inbound' = Append(inbound, m)
  <2>1. /\ DOMAIN inbound = 1 .. Len(inbound) /\ Len(inbound) \in Nat
        /\ DOMAIN inbound' = 1 .. Len(inbound) + 1
        /\ \A i \in 1 .. Len(inbound) : inbound'[i] = inbound[i]
        /\ inbound'[Len(inbound) + 1] = m
    BY <1>1
  <2> QED
    BY <2>1
<1> QED
  BY <1>1 DEF Deliver

\* The documents of a job that is pending come at the end and so replace no
\* other that follows.
LEMMA DocDelivered ==
  ASSUME inbound \in Seq(Messages), Order, serverJob \in MaybeJob,
         inbound' = inbound \/ Deliver(Doc(serverJob)),
         UNCHANGED <<stream, jobDocBuffer, serverJob, offered>>
  PROVE  Order' /\ \A j : Follows(0, j)' => Follows(0, j)
<1>1. CASE inbound' = inbound
  BY <1>1 DEF Order, Ordered, Known, Follows, IsDoc, Replaces
<1>2. CASE inbound' # inbound
  <2>1. PICK n \in Nat :
           /\ n \in DOMAIN inbound' /\ inbound'[n] = Doc(serverJob)
           /\ \A i \in DOMAIN inbound' :
                 \/ i = n
                 \/ i \in DOMAIN inbound /\ i < n /\ inbound'[i] = inbound[i]
    BY <1>2, Delivered
  <2>2. Doc(serverJob).kind = "doc" /\ Doc(serverJob).job = serverJob
    BY DEF Doc
  <2>3. \A i \in DOMAIN inbound' : i \in Nat /\ ~(i > n)
    BY <2>1
  <2>4. ASSUME NEW i, NEW j, Follows(i, j)' PROVE Follows(i, j)
    BY <2>1, <2>2, <2>4 DEF Follows, IsDoc
  <2>5. ASSUME NEW j, Replaces(inbound'[n], j) PROVE ~Follows(n, j)'
    BY <2>1, <2>2, <2>3, <2>5 DEF Follows, IsDoc, Replaces
  <2>6. Ordered'
    <3> SUFFICES ASSUME NEW j \in Jobs PROVE
          /\ stream = j /\ jobDocBuffer \notin {NoJob, j} => ~Follows(0, j)'
          /\ \A i \in DOMAIN inbound' :
                /\ stream = j \/ jobDocBuffer = j
                /\ Replaces(inbound'[i], j)
                => ~Follows(i, j)'
          /\ \A i, k \in DOMAIN inbound' :
                /\ IsDoc(inbound'[i]) /\ inbound'[i].job = j
                /\ i < k /\ Replaces(inbound'[k], j)
                => ~Follows(k, j)'
      BY DEF Ordered, Replaces, IsDoc
    <3>1. stream = j /\ jobDocBuffer \notin {NoJob, j} => ~Follows(0, j)'
      BY <2>4 DEF Order, Ordered
    <3>2. ASSUME NEW i \in DOMAIN inbound', stream = j \/ jobDocBuffer = j,
                 Replaces(inbound'[i], j)
          PROVE  ~Follows(i, j)'
      BY <2>1, <2>4, <2>5, <3>2 DEF Order, Ordered
    <3>3. ASSUME NEW i \in DOMAIN inbound', NEW k \in DOMAIN inbound',
                 IsDoc(inbound'[i]), inbound'[i].job = j, i < k,
                 Replaces(inbound'[k], j)
          PROVE  ~Follows(k, j)'
      <4>1. CASE k = n
        BY <2>5, <3>3, <4>1
      <4>2. CASE k # n
        <5>1. i # n
          BY <2>1, <2>3, <3>3, <4>2
        <5> QED
          BY <2>1, <2>4, <3>3, <4>2, <5>1 DEF Order, Ordered
      <4> QED
        BY <4>1, <4>2
    <3> QED
      BY <3>1, <3>2, <3>3
  <2>7. Known'
    BY <2>1, <2>2 DEF Order, Known, IsDoc
  <2> QED
    BY <2>4, <2>6, <2>7 DEF Order
<1> QED
  BY <1>1, <1>2

\* A block that is added changes nothing in the order of the documents.
LEMMA BlockDelivered ==
  ASSUME inbound \in Seq(Messages), Order, NEW m, m.kind = "block", Deliver(m),
         UNCHANGED <<stream, jobDocBuffer, serverJob, offered>>
  PROVE  Order' /\ \A j : Follows(0, j)' => Follows(0, j)
<1>1. CASE inbound' = inbound
  BY <1>1 DEF Order, Ordered, Known, Follows, IsDoc, Replaces
<1>2. CASE inbound' # inbound
  <2>1. PICK n \in Nat :
           /\ n \in DOMAIN inbound' /\ inbound'[n] = m
           /\ \A i \in DOMAIN inbound' :
                 \/ i = n
                 \/ i \in DOMAIN inbound /\ i < n /\ inbound'[i] = inbound[i]
    BY <1>2, Delivered
  <2>2. \A i \in DOMAIN inbound' :
           IsDoc(inbound'[i]) => i \in DOMAIN inbound /\ inbound'[i] = inbound[i]
    BY <2>1 DEF IsDoc
  <2>3. ASSUME NEW i, NEW j, Follows(i, j)' PROVE Follows(i, j)
    BY <2>2, <2>3 DEF Follows, IsDoc
  <2>4. Ordered'
    BY <2>2, <2>3 DEF Order, Ordered, Replaces, IsDoc
  <2>5. Known'
    BY <2>2 DEF Order, Known, IsDoc
  <2> QED
    BY <2>3, <2>4, <2>5 DEF Order
<1> QED
  BY <1>1, <1>2

\* A block that is taken does not either.
LEMMA BlockTaken ==
  ASSUME inbound \in Seq(Messages), Order, inbound # <<>>, inbound' = Tail(inbound),
         UNCHANGED <<stream, jobDocBuffer, serverJob, offered>>
  PROVE  Order' /\ \A j : Follows(0, j)' => Follows(0, j)
<1>1. /\ \A i \in DOMAIN inbound' :
            i \in Nat /\ i > 0 /\ i + 1 \in DOMAIN inbound /\ inbound'[i] = inbound[i + 1]
      /\ \A j : \A i \in Nat : Follows(i, j)' => Follows(i + 1, j)
      /\ \A j : Follows(0, j)' => Follows(0, j)
  BY Taken
<1>2. Ordered'
  <2> SUFFICES ASSUME NEW j \in Jobs PROVE
        /\ stream = j /\ jobDocBuffer \notin {NoJob, j} => ~Follows(0, j)'
        /\ \A i \in DOMAIN inbound' :
              /\ stream = j \/ jobDocBuffer = j
              /\ Replaces(inbound'[i], j)
              => ~Follows(i, j)'
        /\ \A i, k \in DOMAIN inbound' :
              /\ IsDoc(inbound'[i]) /\ inbound'[i].job = j
              /\ i < k /\ Replaces(inbound'[k], j)
              => ~Follows(k, j)'
    BY DEF Ordered, Replaces, IsDoc
  <2>1. stream = j /\ jobDocBuffer \notin {NoJob, j} => ~Follows(0, j)'
    BY <1>1 DEF Order, Ordered
  <2>2. ASSUME NEW i \in DOMAIN inbound', stream = j \/ jobDocBuffer = j,
               Replaces(inbound'[i], j)
        PROVE  ~Follows(i, j)'
    BY <1>1, <2>2 DEF Order, Ordered
  <2>3. ASSUME NEW i \in DOMAIN inbound', NEW k \in DOMAIN inbound',
               IsDoc(inbound'[i]), inbound'[i].job = j, i < k,
               Replaces(inbound'[k], j)
        PROVE  ~Follows(k, j)'
    <3>1. i + 1 < k + 1 /\ i + 1 \in DOMAIN inbound /\ k + 1 \in DOMAIN inbound
      BY <1>1, <2>3
    <3> QED
      BY <1>1, <2>3, <3>1 DEF Order, Ordered
  <2> QED
    BY <2>1, <2>2, <2>3
<1>3. Known'
  BY <1>1 DEF Order, Known, IsDoc
<1> QED
  BY <1>1, <1>2, <1>3 DEF Order

\* A document that is put into the buffer is the next in the order.
LEMMA DocTaken ==
  ASSUME inbound \in Seq(Messages), Order, inbound # <<>>, inbound' = Tail(inbound),
         IsDoc(Head(inbound)), jobDocBuffer' = Head(inbound).job,
         Head(inbound).job \in MaybeJob,
         UNCHANGED <<stream, serverJob, offered>>
  PROVE  Order' /\ \A j : Ahead(j)' => Ahead(j)
<1> DEFINE next == Head(inbound).job
<1>1. /\ 1 \in DOMAIN inbound /\ inbound[1] = Head(inbound)
      /\ \A i \in DOMAIN inbound' :
            i \in Nat /\ i > 0 /\ i + 1 \in DOMAIN inbound /\ inbound'[i] = inbound[i + 1]
      /\ \A j : \A i \in Nat : Follows(i, j)' => Follows(i + 1, j)
      /\ \A j : Follows(0, j)' => Follows(0, j)
  BY Taken
<1>2. Ordered'
  <2> SUFFICES ASSUME NEW j \in Jobs PROVE
        /\ stream = j /\ jobDocBuffer' \notin {NoJob, j} => ~Follows(0, j)'
        /\ \A i \in DOMAIN inbound' :
              /\ stream = j \/ jobDocBuffer' = j
              /\ Replaces(inbound'[i], j)
              => ~Follows(i, j)'
        /\ \A i, k \in DOMAIN inbound' :
              /\ IsDoc(inbound'[i]) /\ inbound'[i].job = j
              /\ i < k /\ Replaces(inbound'[k], j)
              => ~Follows(k, j)'
    BY DEF Ordered, Replaces, IsDoc
  <2>1. ASSUME stream = j, jobDocBuffer' \notin {NoJob, j} PROVE ~Follows(0, j)'
    <3>1. Replaces(inbound[1], j)
      BY <1>1, <2>1 DEF Replaces
    <3>2. ~Follows(1, j)
      BY <1>1, <2>1, <3>1 DEF Order, Ordered
    <3> QED
      BY <1>1, <3>2
  <2>2. ASSUME NEW i \in DOMAIN inbound', stream = j \/ jobDocBuffer' = j,
               Replaces(inbound'[i], j)
        PROVE  ~Follows(i, j)'
    <3>1. /\ i + 1 \in DOMAIN inbound /\ 1 < i + 1 /\ i \in Nat
          /\ Replaces(inbound[i + 1], j)
      BY <1>1, <2>2
    <3>2. ~Follows(i + 1, j)
      <4>1. CASE stream = j
        BY <3>1, <4>1 DEF Order, Ordered
      <4>2. CASE jobDocBuffer' = j
        BY <1>1, <3>1, <4>2 DEF Order, Ordered
      <4> QED
        BY <2>2, <4>1, <4>2
    <3> QED
      BY <1>1, <3>1, <3>2
  <2>3. ASSUME NEW i \in DOMAIN inbound', NEW k \in DOMAIN inbound',
               IsDoc(inbound'[i]), inbound'[i].job = j, i < k,
               Replaces(inbound'[k], j)
        PROVE  ~Follows(k, j)'
    <3>1. i + 1 < k + 1 /\ i + 1 \in DOMAIN inbound /\ k + 1 \in DOMAIN inbound
      BY <1>1, <2>3
    <3> QED
      BY <1>1, <2>3, <3>1 DEF Order, Ordered
  <2> QED
    BY <2>1, <2>2, <2>3
<1>3. Known'
  BY <1>1 DEF Order, Known, IsDoc
<1>4. ASSUME NEW j, Ahead(j)' PROVE Ahead(j)
  <2>1. CASE jobDocBuffer' = j
    <3>1. 1 > 0 /\ Follows(0, j)
      BY <1>1, <2>1 DEF Follows
    <3> QED
      BY <3>1 DEF Ahead
  <2>2. CASE jobDocBuffer' # j
    BY <1>1, <1>4, <2>2 DEF Ahead
  <2> QED
    BY <2>1, <2>2
<1> QED
  BY <1>2, <1>3, <1>4 DEF Order

\* After a loss of the connection at most the pending job is announced again.
LEMMA Redelivered ==
  ASSUME inbound' = <<>> \/ inbound' = <<Doc(serverJob)>>, Known,
         jobDocBuffer \notin {NoJob, stream} /\ stream \in Jobs => ~Follows(0, stream),
         UNCHANGED <<stream, jobDocBuffer, serverJob, offered>>
  PROVE  Order' /\ \A j : Follows(0, j)' => Follows(0, j)
<1>1. \A i \in DOMAIN inbound' : i = 1 /\ inbound'[i] = Doc(serverJob)
  OBVIOUS
<1>2. Doc(serverJob).kind = "doc" /\ Doc(serverJob).job = serverJob
  BY DEF Doc
<1>3. ASSUME NEW i, NEW j, Follows(i, j)' PROVE serverJob = j
  BY <1>1, <1>2, <1>3 DEF Follows
<1>4. \A i, j : Follows(i, j)' => Follows(0, j)
  BY <1>3 DEF Follows
<1>5. Ordered'
  BY <1>1, <1>2, <1>3, <1>4 DEF Ordered, Replaces, IsDoc
<1>6. Known'
  BY <1>1, <1>2 DEF Known, IsDoc
<1> QED
  BY <1>4, <1>5, <1>6 DEF Order

\* A new job comes after all that the device has heard of.
LEMMA Offered ==
  ASSUME inbound \in Seq(Messages), Order, NEW job \in Jobs \ offered,
         serverJob' = job, offered' = offered \cup {job},
         inbound' = inbound \/ Deliver(Doc(job)),
         UNCHANGED <<stream, jobDocBuffer>>
  PROVE  Order' /\ \A j : Ahead(j)' => Ahead(j)
<1>1. Doc(job).kind = "doc" /\ Doc(job).job = job
  BY DEF Doc
<1>2. PICK n \in Nat :
         \A i \in DOMAIN inbound' :
            \/ i = n /\ inbound'[i] = Doc(job)
            \/ i \in DOMAIN inbound /\ i \in Nat /\ i < n /\ inbound'[i] = inbound[i]
  <2>1. CASE inbound' = inbound
    <3>1. DOMAIN inbound = 1 .. Len(inbound) /\ Len(inbound) \in Nat
      OBVIOUS
    <3>2. \A i \in DOMAIN inbound' : i \in DOMAIN inbound /\ i \in Nat /\ i < Len(inbound) + 1
      BY <2>1, <3>1
    <3> QED
      BY <2>1, <3>1, <3>2
  <2>2. CASE inbound' # inbound
    <3>1. Len(inbound) + 1 \in Nat /\ \A i \in DOMAIN inbound : i \in Nat
      OBVIOUS
    <3> QED
      BY <2>2, <3>1, Delivered
  <2> QED
    BY <2>1, <2>2
<1>3. \A i \in DOMAIN inbound' : i \in Nat /\ ~(i > n)
  BY <1>2
<1>4. ASSUME NEW i, NEW j, j # job, Follows(i, j)' PROVE Follows(i, j)
  BY <1>1, <1>2, <1>4 DEF Follows, IsDoc
<1>5. ASSUME NEW j, j # job PROVE ~Follows(n, j)'
  BY <1>3, <1>5 DEF Follows
<1>6. /\ stream # job /\ jobDocBuffer # job
      /\ \A i \in DOMAIN inbound : IsDoc(inbound[i]) => inbound[i].job # job
  BY ConstantsAssumption DEF ConstantsAssumption, Order, Known
<1>7. Ordered'
  <2> SUFFICES ASSUME NEW j \in Jobs PROVE
        /\ stream = j /\ jobDocBuffer \notin {NoJob, j} => ~Follows(0, j)'
        /\ \A i \in DOMAIN inbound' :
              /\ stream = j \/ jobDocBuffer = j
              /\ Replaces(inbound'[i], j)
              => ~Follows(i, j)'
        /\ \A i, k \in DOMAIN inbound' :
              /\ IsDoc(inbound'[i]) /\ inbound'[i].job = j
              /\ i < k /\ Replaces(inbound'[k], j)
              => ~Follows(k, j)'
    BY DEF Ordered, Replaces, IsDoc
  <2>1. stream = j /\ jobDocBuffer \notin {NoJob, j} => ~Follows(0, j)'
    BY <1>4, <1>6 DEF Order, Ordered
  <2>2. ASSUME NEW i \in DOMAIN inbound', stream = j \/ jobDocBuffer = j,
               Replaces(inbound'[i], j)
        PROVE  ~Follows(i, j)'
    BY <1>2, <1>4, <1>5, <1>6, <2>2 DEF Order, Ordered
  <2>3. ASSUME NEW i \in DOMAIN inbound', NEW k \in DOMAIN inbound',
               IsDoc(inbound'[i]), inbound'[i].job = j, i < k,
               Replaces(inbound'[k], j)
        PROVE  ~Follows(k, j)'
    <3>1. i \in DOMAIN inbound /\ inbound'[i] = inbound[i] /\ j # job
      BY <1>2, <1>3, <1>6, <2>3
    <3>2. CASE k = n
      BY <1>5, <3>1, <3>2
    <3>3. CASE k # n
      BY <1>2, <1>4, <2>3, <3>1, <3>3 DEF Order, Ordered
    <3> QED
      BY <3>2, <3>3
  <2> QED
    BY <2>1, <2>2, <2>3
<1>8. Known'
  BY <1>1, <1>2 DEF Order, Known, IsDoc
<1>9. ASSUME NEW j, Ahead(j)' PROVE Ahead(j)
  <2>1. CASE j = job
    BY <2>1 DEF Ahead
  <2>2. CASE j # job
    BY <1>4, <1>9, <2>2 DEF Ahead
  <2> QED
    BY <2>1, <2>2
<1> QED
  BY <1>7, <1>8, <1>9 DEF Order

-----------------------------------------------------------------------------
(* Blocks stay in turn and in place as long as no job comes back.          *)

\* The offset only grows and the jobs ahead only become fewer.
LEMMA Kept ==
  ASSUME stream' = stream, ProgressTypeOK, ProgressTypeOK',
         currentBlockOffset' >= currentBlockOffset,
         \A j : Ahead(j)' => Ahead(j)
  PROVE  /\ \A m \in Messages : InTurn(m) => InTurn(m)'
         /\ \A m, i : Placed(m, i) => Placed(m, i)'
<1>1. ASSUME NEW m \in Messages, InTurn(m) PROVE InTurn(m)'
  <2>1. CASE IsDoc(m)
    BY <2>1 DEF InTurn, IsDoc
  <2>2. CASE ~IsDoc(m) /\ m.job = stream
    <3>1. m.block \in Nat
      BY <2>2, ConstantsAssumption DEF Messages, IsDoc, BlockIds, ConstantsAssumption
    <3> QED
      BY <1>1, <2>2, <3>1, ConstantsAssumption
         DEF InTurn, ProgressTypeOK, ConstantsAssumption
  <2>3. CASE ~IsDoc(m) /\ m.job # stream
    BY <1>1, <2>3 DEF InTurn
  <2> QED
    BY <2>1, <2>2, <2>3
<1>2. \A m, i : Placed(m, i) => Placed(m, i)'
  BY DEF Placed
<1> QED
  BY <1>1, <1>2

\* A step that leaves the messages, the jobs and the file alone.
LEMMA Still ==
  ASSUME TypeInv, Position,
         UNCHANGED <<stream, jobDocBuffer, serverJob, offered, inbound,
                     currentBlockOffset, bufferData, file>>
  PROVE  Position'
BY DEF Position, Order, Ordered, Known, Requested, Filed, InTurn, Placed, Ahead,
       Follows, Replaces, IsDoc

\* A step that moves or adds messages while no job comes back.
LEMMA Moved ==
  ASSUME TypeInv, Position, Order', \A j : Ahead(j)' => Ahead(j),
         UNCHANGED <<stream, currentBlockOffset, file>>,
         \A b \in Buffers :
            \/ bufferData'[b] = bufferData[b]
            \/ \E k \in DOMAIN inbound :
                  bufferData'[b] = inbound[k] /\ ~IsDoc(inbound[k]),
         \A i \in DOMAIN inbound' :
            \/ \E k \in DOMAIN inbound : inbound'[i] = inbound[k]
            \/ inbound'[i] \in Messages /\ InTurn(inbound'[i])
  PROVE  Position'
<1>1. ProgressTypeOK /\ inbound \in Seq(Messages) /\ bufferData \in [Buffers -> Messages]
  BY DEF TypeInv, TypeOK, CloudTypeOK, BufferTypeOK
<1>2. /\ \A m \in Messages : InTurn(m) => InTurn(m)'
      /\ \A m, i : Placed(m, i) => Placed(m, i)'
  <2>1. \A m \in Messages : InTurn(m) => InTurn(m)'
    BY DEF InTurn
  <2>2. \A m, i : Placed(m, i) => Placed(m, i)'
    BY DEF Placed
  <2> QED
    BY <2>1, <2>2
<1>3. \A k \in DOMAIN inbound : inbound[k] \in Messages
  BY <1>1
<1>4. ASSUME NEW i \in DOMAIN inbound' PROVE InTurn(inbound[i])'
  <2>1. PICK m \in Messages : m = inbound'[i] /\ InTurn(m)
    BY <1>3 DEF Position, Requested
  <2>2. InTurn(m)'
    BY <1>2, <2>1
  <2> QED
    BY <2>1, <2>2
<1>5. ASSUME NEW b \in Buffers
      PROVE  InTurn(bufferData[b])' /\ (IsDoc(bufferData[b]) => bufferData[b].job = NoJob)'
  <2>1. PICK m \in Messages : /\ m = bufferData'[b]
                              /\ InTurn(m) /\ (IsDoc(m) => m.job = NoJob)
    BY <1>1, <1>3 DEF Position, Requested
  <2>2. InTurn(m)'
    BY <1>2, <2>1
  <2> QED
    BY <2>1, <2>2
<1>6. Filed'
  BY <1>2 DEF Position, Filed
<1> QED
  BY <1>4, <1>5, <1>6 DEF Position, Requested

-----------------------------------------------------------------------------
(* The steps of the device and of the cloud.                               *)

\* A parsed document starts a job of which no block is on its way, or has been
\* written, beyond the first.
LEMMA ParseKeepsPosition ==
  ASSUME TypeInv, PositionInv, ParseJobDocument
  PROVE  Position'
<1> USE DEF PositionInv, Position, ParseJobDocument
<1>1. /\ inbound \in Seq(Messages) /\ bufferData \in [Buffers -> Messages]
      /\ jobDocBuffer \in Jobs /\ stream \in MaybeJob
      /\ file \in [BlockIds -> Messages \cup {Hole}]
      /\ stream' = jobDocBuffer /\ currentBlockOffset' = 0
      /\ UNCHANGED <<inbound, bufferData, jobDocBuffer, serverJob, offered, file>>
  BY DEF TypeInv, TypeOK, CloudTypeOK, BufferTypeOK, JobTypeOK, PalTypeOK, MaybeJob,
         bufferVars, cloudVars, netVars, palVars
<1>2. \A i, j : Follows(i, j)' <=> Follows(i, j)
  BY <1>1 DEF Follows
<1>3. \A j : Ahead(j)' <=> Ahead(j)
  BY <1>1, <1>2 DEF Ahead
<1>4. Order'
  <2>1. Ordered'
    BY <1>1, <1>2 DEF Order, Ordered, Replaces, IsDoc
  <2>2. Known'
    BY <1>1 DEF Order, Known, IsDoc
  <2> QED
    BY <2>1, <2>2 DEF Order
<1>5. CASE stream = jobDocBuffer
  <2>1. stream' = stream /\ currentBlockOffset = 0
    BY <1>1, <1>5, ConstantsAssumption DEF Starting, ConstantsAssumption
  <2>2. Requested' /\ Filed'
    BY <1>1, <1>3, <2>1 DEF Requested, InTurn, Filed, Placed
  <2> QED
    BY <1>4, <2>2
<1>6. CASE stream # jobDocBuffer
  <2>1. Ahead(jobDocBuffer)
    BY DEF Ahead
  <2>2. stream \in Jobs => ~Ahead(stream)
    <3> SUFFICES ASSUME stream \in Jobs PROVE ~Ahead(stream)
      OBVIOUS
    <3>1. stream \in offered /\ ~Follows(0, stream)
      BY <1>1, <1>6, ConstantsAssumption
         DEF ConstantsAssumption, Order, Ordered, Known
    <3> QED
      BY <1>6, <3>1 DEF Ahead
  <2>3. ASSUME NEW m \in Messages, InTurn(m), IsDoc(m) \/ m.job \in Jobs
        PROVE  InTurn(m)'
    BY <1>1, <1>3, <2>1, <2>2, <2>3 DEF InTurn
  <2>4. \A m \in Messages : IsDoc(m) \/ m.job \in Jobs
    BY DEF Messages, IsDoc
  <2>5. Requested'
    <3>1. \A i \in DOMAIN inbound : inbound[i] \in Messages
      BY <1>1
    <3>2. \A i \in DOMAIN inbound : InTurn(inbound[i])'
      BY <1>1, <2>3, <2>4, <3>1 DEF Requested
    <3>3. \A b \in Buffers : InTurn(bufferData[b])'
      BY <1>1, <2>3, <2>4 DEF Requested
    <3> QED
      BY <1>1, <3>2, <3>3 DEF Requested
  <2>6. Filed'
    <3> SUFFICES ASSUME NEW i \in BlockIds, file[i] # Hole PROVE Placed(file[i], i)'
      BY <1>1 DEF Filed
    <3>1. Placed(file[i], i) /\ file[i].job \in MaybeJob
      BY <1>1 DEF Filed, Messages, MaybeJob
    <3> QED
      BY <1>1, <1>3, <2>1, <2>2, <3>1 DEF Placed, MaybeJob
  <2> QED
    BY <1>4, <2>5, <2>6
<1> QED
  BY <1>5, <1>6

\* A block that is accepted is the one at the current offset, if it is of the
\* stream: it is above the last one, and no more was asked for.
LEMMA WriteKeepsPosition ==
  ASSUME TypeInv, TypeInv', PositionInv, WriteBlock
  PROVE  Position'
<1> USE DEF PositionInv, Position
<1> DEFINE block == bufferData[current.buffer]
<1>1. /\ ProgressTypeOK /\ ProgressTypeOK' /\ bufferData \in [Buffers -> Messages]
      /\ inbound \in Seq(Messages) /\ file \in [BlockIds -> Messages \cup {Hole}]
      /\ UNCHANGED <<inbound, bufferData, jobDocBuffer, stream, serverJob, offered>>
      /\ currentBlockOffset' = currentBlockOffset + 1
      /\ file' = [file EXCEPT ![currentBlockOffset] = block]
      /\ currentBlockOffset <= lastReceivedblockId + 1
      /\ block.block > lastReceivedblockId /\ fileOpen /\ stream # NoJob
  BY DEF TypeInv, TypeOK, CloudTypeOK, BufferTypeOK, PalTypeOK, WriteBlock, Accepted,
         Headroom, jobVars, cloudVars, netVars
<1>2. current.buffer \in Buffers /\ block \in Messages /\ block.block \in BlockIds
  BY BlockInHand DEF TypeInv, WriteBlock
<1>3. Order' /\ \A j : Ahead(j)' => Ahead(j)
  BY <1>1 DEF Order, Ordered, Known, Ahead, Follows, Replaces, IsDoc
<1>4. currentBlockOffset' >= currentBlockOffset
  BY <1>1, ConstantsAssumption DEF ProgressTypeOK, ConstantsAssumption
<1>5. /\ \A m \in Messages : InTurn(m) => InTurn(m)'
      /\ \A m, i : Placed(m, i) => Placed(m, i)'
  BY <1>1, <1>3, <1>4, Kept
<1>6. Requested'
  <2>1. \A i \in DOMAIN inbound : inbound[i] \in Messages
    BY <1>1
  <2> QED
    BY <1>1, <1>5, <2>1 DEF Requested
<1>7. Placed(block, currentBlockOffset)
  <2>1. InTurn(block) /\ (IsDoc(block) => block.job = NoJob)
    BY <1>2 DEF Requested
  <2>2. CASE block.job = stream
    <3>1. block.block <= currentBlockOffset
      BY <1>1, <2>1, <2>2 DEF InTurn
    <3>2. block.block = currentBlockOffset
      BY <1>1, <1>2, <3>1, ConstantsAssumption
         DEF ProgressTypeOK, BlockIds, ConstantsAssumption
    <3> QED
      BY <2>2, <3>2 DEF Placed
  <2>3. CASE block.job # stream
    BY <2>1, <2>3 DEF Placed, InTurn
  <2> QED
    BY <2>2, <2>3
<1>8. Filed'
  <2> SUFFICES ASSUME NEW i \in BlockIds, file'[i] # Hole PROVE Placed(file[i], i)'
    BY DEF Filed
  <2>1. PICK m : m = file'[i] /\ Placed(m, i)
    <3>1. CASE i = currentBlockOffset
      BY <1>1, <1>7, <3>1
    <3>2. CASE i # currentBlockOffset
      BY <1>1, <3>2 DEF Filed
    <3> QED
      BY <3>1, <3>2
  <2>2. Placed(m, i)'
    BY <1>5, <2>1
  <2> QED
    BY <2>1, <2>2
<1> QED
  BY <1>3, <1>6, <1>8

\* A file that is created or closed is empty.
LEMMA EmptyFileKeepsPosition ==
  ASSUME PositionInv, file' = EmptyFile,
         UNCHANGED <<stream, jobDocBuffer, serverJob, offered, inbound,
                     currentBlockOffset, bufferData>>
  PROVE  Position'
BY DEF PositionInv, Position, Order, Ordered, Known, Requested, Filed, InTurn,
       EmptyFile, Ahead, Follows, Replaces, IsDoc

\* A reset leaves nothing but what the cloud knows.
LEMMA ResetKeepsPosition ==
  ASSUME TypeInv, PositionInv, ActivateImage
  PROVE  Position'
<1>1. /\ stream' = NoJob /\ jobDocBuffer' = NoJob /\ inbound' = <<>>
      /\ file' = EmptyFile /\ UNCHANGED <<serverJob, offered>>
      /\ bufferData' = [b \in Buffers |-> Doc(NoJob)]
  BY DEF ActivateImage, cloudVars
<1>2. Ordered' /\ Known'
  BY <1>1, ConstantsAssumption
     DEF ConstantsAssumption, PositionInv, Position, Order, Ordered, Known
<1>3. Requested' /\ Filed'
  BY <1>1 DEF Requested, InTurn, IsDoc, Doc, Filed, EmptyFile
<1> QED
  BY <1>2, <1>3 DEF Position, Order

\* The steps that move no message, job or block.
StillStep ==
    \/ TaskSubscribeNotifyNext \/ ReceiveEvent \/ ReceiveTimesOut \/ WaitForResume
    \/ JobDocumentNotNew \/ SubscribeStream \/ SignatureUnreadable \/ DelayOver
    \/ WriteBlockFails \/ IgnoreBlock \/ ActivateImageFails \/ QueueBlock
    \/ LinkComesUp \/ UNCHANGED vars
LEMMA StillKeepsPosition ==
  ASSUME TypeInv, PositionInv, StillStep
  PROVE  Position'
<1>1. UNCHANGED <<stream, jobDocBuffer, serverJob, offered, inbound,
                  currentBlockOffset, bufferData, file>>
  BY DEF StillStep, TaskSubscribeNotifyNext, ReceiveEvent, ReceiveTimesOut,
         WaitForResume, JobDocumentNotNew, SubscribeStream, SignatureUnreadable,
         DelayOver, WriteBlockFails, IgnoreBlock, ActivateImageFails, QueueBlock,
         LinkComesUp, vars, taskVars, bufferVars, jobVars, progressVars, palVars,
         cloudVars, sessionVars, netVars
<1> QED
  BY <1>1, Still DEF PositionInv

\* A publish of the task, and what the broker answers.
LEMMA AnswerKeepsPosition ==
  ASSUME TypeInv, PositionInv, RequestJobDocument \/ RequestFileBlock \/ NotifyAgain
  PROVE  Position'
<1>1. /\ inbound \in Seq(Messages) /\ serverJob \in MaybeJob /\ stream \in MaybeJob
      /\ UNCHANGED <<stream, jobDocBuffer, serverJob, offered, currentBlockOffset,
                     bufferData, file>>
      /\ \/ inbound' = inbound \/ Deliver(Doc(serverJob))
         \/ /\ stream \in Jobs /\ currentBlockOffset \in BlockIds
            /\ Deliver(Block(stream, currentBlockOffset))
  BY DEF TypeInv, TypeOK, CloudTypeOK, JobTypeOK, RequestJobDocument,
         RequestFileBlock, NotifyAgain, PublishFailed, bufferVars, jobVars,
         progressVars, palVars, cloudVars
<1>2. CASE inbound' = inbound \/ Deliver(Doc(serverJob))
  <2>1. Order' /\ \A j : Follows(0, j)' => Follows(0, j)
    BY <1>1, <1>2, DocDelivered DEF PositionInv, Position
  <2>2. \A j : Ahead(j)' => Ahead(j)
    BY <1>1, <2>1 DEF Ahead
  <2>3. Doc(serverJob) \in Messages /\ InTurn(Doc(serverJob))
    BY <1>1, MessageTyped DEF InTurn, IsDoc, Doc
  <2>4. \A i \in DOMAIN inbound' :
           \/ \E k \in DOMAIN inbound : inbound'[i] = inbound[k]
           \/ inbound'[i] = Doc(serverJob)
    BY <1>1, <1>2, Delivered
  <2> QED
    BY <1>1, <2>1, <2>2, <2>3, <2>4, Moved DEF PositionInv
<1>3. CASE /\ stream \in Jobs /\ currentBlockOffset \in BlockIds
           /\ Deliver(Block(stream, currentBlockOffset))
  <2> DEFINE m == Block(stream, currentBlockOffset)
  <2>1. /\ m.kind = "block" /\ m.job = stream /\ m.block = currentBlockOffset
        /\ m \in Messages
    BY <1>3, MessageTyped DEF Block, MaybeJob
  <2>2. Order' /\ \A j : Follows(0, j)' => Follows(0, j)
    BY <1>1, <1>3, <2>1, BlockDelivered DEF PositionInv, Position
  <2>3. \A j : Ahead(j)' => Ahead(j)
    BY <1>1, <2>2 DEF Ahead
  <2>4. InTurn(m)
    BY <1>3, <2>1, ConstantsAssumption DEF InTurn, BlockIds, ConstantsAssumption
  <2>5. \A i \in DOMAIN inbound' :
           (\E k \in DOMAIN inbound : inbound'[i] = inbound[k]) \/ inbound'[i] = m
    BY <1>1, <1>3, Delivered
  <2> QED
    BY <1>1, <2>1, <2>2, <2>3, <2>4, <2>5, Moved DEF PositionInv
<1> QED
  BY <1>1, <1>2, <1>3

\* The callback's handling of a message.
LEMMA ArrivalKeepsPosition ==
  ASSUME TypeInv, PositionInv, TakeBuffer \/ DropBlock \/ QueueJobDocument
  PROVE  Position'
<1>1. /\ inbound \in Seq(Messages) /\ inbound # <<>> /\ inbound' = Tail(inbound)
      /\ Head(inbound) \in Messages
      /\ bufferData \in [Buffers -> Messages]
      /\ UNCHANGED <<stream, serverJob, offered, currentBlockOffset, file>>
      /\ \/ ~IsDoc(Head(inbound)) /\ UNCHANGED jobDocBuffer
         \/ IsDoc(Head(inbound)) /\ jobDocBuffer' = Head(inbound).job
      /\ \A b \in Buffers :
            \/ bufferData'[b] = bufferData[b]
            \/ bufferData'[b] = Head(inbound) /\ ~IsDoc(Head(inbound))
  BY DEF TypeInv, TypeOK, CloudTypeOK, BufferTypeOK, TakeBuffer, DropBlock,
         QueueJobDocument, Arrives, IsDoc, FreeBuffers, taskVars, bufferVars, jobVars,
         progressVars, palVars, cloudVars, sessionVars
<1>2. /\ 1 \in DOMAIN inbound /\ inbound[1] = Head(inbound)
      /\ \A i \in DOMAIN inbound' :
            i + 1 \in DOMAIN inbound /\ inbound'[i] = inbound[i + 1]
  BY <1>1, Taken
<1>3. Order' /\ \A j : Ahead(j)' => Ahead(j)
  <2>1. CASE ~IsDoc(Head(inbound)) /\ UNCHANGED jobDocBuffer
    BY <1>1, <2>1, BlockTaken DEF PositionInv, Position, Ahead
  <2>2. CASE IsDoc(Head(inbound)) /\ jobDocBuffer' = Head(inbound).job
    <3>1. Head(inbound).job \in MaybeJob
      BY <1>1 DEF Messages, MaybeJob
    <3> QED
      BY <1>1, <2>2, <3>1, DocTaken DEF PositionInv, Position
  <2> QED
    BY <1>1, <2>1, <2>2
<1>4. \A b \in Buffers :
         \/ bufferData'[b] = bufferData[b]
         \/ \E k \in DOMAIN inbound : bufferData'[b] = inbound[k] /\ ~IsDoc(inbound[k])
  BY <1>1, <1>2
<1> QED
  BY <1>1, <1>2, <1>3, <1>4, Moved DEF PositionInv

\* What the cloud and the connection do, and the success that is reported.
LEMMA CloudKeepsPosition ==
  ASSUME TypeInv, PositionInv, ReportSuccess \/ LinkDrops \/ JobChanges
  PROVE  Position'
<1>1. /\ inbound \in Seq(Messages) /\ serverJob \in MaybeJob
      /\ jobDocBuffer \in MaybeJob /\ offered \subseteq Jobs
      /\ UNCHANGED <<stream, currentBlockOffset, bufferData, file>>
  BY DEF TypeInv, TypeOK, CloudTypeOK, JobTypeOK, ReportSuccess, LinkDrops,
         JobChanges, bufferVars, jobVars, progressVars, palVars
<1>2. CASE ReportSuccess
  <2>1. /\ UNCHANGED <<inbound, offered>> /\ jobDocBuffer' = NoJob
        /\ serverJob' \in {serverJob, NoJob}
    BY <1>2 DEF ReportSuccess, netVars
  <2>2. NoJob \notin offered /\ NoJob \notin Jobs
    BY <1>1, ConstantsAssumption DEF ConstantsAssumption
  <2>3. \A i : \A j \in Jobs : Follows(i, j)' => Follows(i, j)
    BY <2>1, <2>2 DEF Follows
  <2>4. ASSUME NEW j, Ahead(j)' PROVE Ahead(j)
    <3>1. CASE j \in Jobs
      BY <2>1, <2>2, <2>3, <2>4, <3>1 DEF Ahead
    <3>2. CASE j \notin Jobs
      BY <1>1, <3>2 DEF Ahead
    <3> QED
      BY <3>1, <3>2
  <2>5. Ordered'
    BY <1>1, <2>1, <2>2, <2>3
       DEF PositionInv, Position, Order, Ordered, Replaces, IsDoc
  <2>6. Known'
    BY <1>1, <2>1 DEF PositionInv, Position, Order, Known, IsDoc
  <2> QED
    BY <1>1, <2>1, <2>4, <2>5, <2>6, Moved DEF PositionInv, Order
<1>3. CASE LinkDrops
  <2>1. /\ UNCHANGED <<jobDocBuffer, serverJob, offered>>
        /\ inbound' = <<>> \/ inbound' = <<Doc(serverJob)>>
    BY <1>3 DEF LinkDrops, cloudVars
  <2>2. Order' /\ \A j : Follows(0, j)' => Follows(0, j)
    <3>1. jobDocBuffer \notin {NoJob, stream} /\ stream \in Jobs => ~Follows(0, stream)
      BY DEF PositionInv, Position, Order, Ordered
    <3> QED
      BY <1>1, <2>1, <3>1, Redelivered DEF PositionInv, Position, Order
  <2>3. \A j : Ahead(j)' => Ahead(j)
    BY <2>1, <2>2 DEF Ahead
  <2>4. Doc(serverJob) \in Messages /\ InTurn(Doc(serverJob))
    BY <1>1, MessageTyped DEF InTurn, IsDoc, Doc
  <2>5. \A i \in DOMAIN inbound' : inbound'[i] = Doc(serverJob)
    BY <2>1
  <2> QED
    BY <1>1, <2>2, <2>3, <2>4, <2>5, Moved DEF PositionInv
<1>4. CASE JobChanges
  <2>1. PICK job \in Jobs \ offered :
           /\ serverJob' = job /\ offered' = offered \cup {job}
           /\ inbound' = inbound \/ Deliver(Doc(job))
           /\ UNCHANGED jobDocBuffer
    BY <1>4 DEF JobChanges, jobVars
  <2>2. Order' /\ \A j : Ahead(j)' => Ahead(j)
    BY <1>1, <2>1, Offered DEF PositionInv, Position
  <2>3. Doc(job) \in Messages /\ InTurn(Doc(job))
    BY MessageTyped DEF InTurn, IsDoc, Doc, MaybeJob
  <2>4. \A i \in DOMAIN inbound' :
           (\E k \in DOMAIN inbound : inbound'[i] = inbound[k]) \/ inbound'[i] = Doc(job)
    BY <1>1, <2>1, Delivered
  <2> QED
    BY <1>1, <2>2, <2>3, <2>4, Moved DEF PositionInv
<1> QED
  BY <1>2, <1>3, <1>4

\* The order of the task's own steps, from a document to its first request.
LEMMA StartingStep ==
  ASSUME TypeInv, Starting, [Next]_vars
  PROVE  Starting'
<1> USE DEF Starting
<1>2. CASE UNCHANGED <<globalJobId, stream, currentBlockOffset, fileOpen>>
           /\ (taskPc' = taskPc \/ taskPc' \notin {"subscribe", "create", "reportSuccess"})
  BY <1>2
<1>3. CASE CloseFile
  BY <1>3 DEF CloseFile, Handling, Handled, jobVars, progressVars
<1>4. CASE ParseJobDocument
  BY <1>4 DEF ParseJobDocument, Handling, palVars
<1>5. CASE SubscribeStream
  BY <1>5 DEF SubscribeStream, jobVars, progressVars, palVars
<1>6. CASE CreateFile
  BY <1>6 DEF CreateFile, Handled, progressVars
<1>7. CASE ReportSuccess
  BY <1>7 DEF ReportSuccess, progressVars, palVars
<1>8. CASE WriteBlock
  <2>1. stream # NoJob
    BY <1>8 DEF WriteBlock, TypeInv, Headroom
  <2> QED
    BY <1>8, <2>1 DEF WriteBlock, Handling, Handled, jobVars
<1>9. CASE ActivateImage
  BY <1>9 DEF ActivateImage
<1> QED
  <2>1. CASE \/ TaskSubscribeNotifyNext \/ ReceiveEvent \/ ReceiveTimesOut
             \/ WaitForResume \/ RequestJobDocument \/ JobDocumentNotNew
             \/ SignatureUnreadable \/ DelayOver \/ RequestFileBlock
             \/ WriteBlockFails \/ IgnoreBlock \/ ActivateImageFails
    <3>1. UNCHANGED <<globalJobId, stream, currentBlockOffset, fileOpen>>
      BY <2>1
         DEF TaskSubscribeNotifyNext, ReceiveEvent, ReceiveTimesOut, WaitForResume,
             RequestJobDocument, JobDocumentNotNew, SignatureUnreadable, DelayOver,
             RequestFileBlock, WriteBlockFails, IgnoreBlock, ActivateImageFails,
             jobVars, progressVars, palVars
    <3>2. taskPc' \notin {"subscribe", "create", "reportSuccess"}
      BY <2>1
         DEF TaskSubscribeNotifyNext, ReceiveEvent, ReceiveTimesOut, WaitForResume,
             RequestJobDocument, JobDocumentNotNew, SignatureUnreadable, DelayOver,
             RequestFileBlock, WriteBlockFails, IgnoreBlock, ActivateImageFails, Handled
    <3> QED
      BY <1>2, <3>1, <3>2
  <2>2. CASE \/ Callback \/ LinkDrops \/ LinkComesUp \/ JobChanges \/ NotifyAgain
             \/ UNCHANGED vars
    <3>1. UNCHANGED <<taskPc, globalJobId, stream, currentBlockOffset, fileOpen>>
      BY <2>2
         DEF Callback, TakeBuffer, QueueBlock, DropBlock, QueueJobDocument, LinkDrops,
             LinkComesUp, JobChanges, NotifyAgain, vars, taskVars, jobVars,
             progressVars, palVars
    <3> QED
      BY <1>2, <3>1
  <2> QED
    BY <1>3, <1>4, <1>5, <1>6, <1>7, <1>8, <1>9, <2>1, <2>2 DEF Next, OtaTask

\* At boot nothing is on its way and nothing is written.
LEMMA PositionInit == Init => PositionInv
<1> SUFFICES ASSUME Init PROVE PositionInv
  OBVIOUS
<1>1. Order
  BY ConstantsAssumption
     DEF ConstantsAssumption, Init, Order, Ordered, Known, MaybeJob
<1>2. Requested /\ Filed
  BY DEF Init, Requested, InTurn, IsDoc, Doc, Filed, EmptyFile
<1>3. Starting
  BY DEF Init, Starting
<1> QED
  BY <1>1, <1>2, <1>3 DEF PositionInv, Position

\* Every step keeps the invariant.
LEMMA PositionStep == TypeInv /\ TypeInv' /\ PositionInv /\ [Next]_vars => PositionInv'
<1> SUFFICES ASSUME TypeInv, TypeInv', PositionInv, [Next]_vars PROVE PositionInv'
  OBVIOUS
<1>1. SUFFICES Position'
  BY StartingStep DEF PositionInv
<1>2. CASE StillStep
  BY <1>2, StillKeepsPosition
<1>3. CASE RequestJobDocument \/ RequestFileBlock \/ NotifyAgain
  BY <1>3, AnswerKeepsPosition
<1>4. CASE TakeBuffer \/ DropBlock \/ QueueJobDocument
  BY <1>4, ArrivalKeepsPosition
<1>5. CASE ReportSuccess \/ LinkDrops \/ JobChanges
  BY <1>5, CloudKeepsPosition
<1>6. CASE ParseJobDocument
  BY <1>6, ParseKeepsPosition
<1>7. CASE WriteBlock
  BY <1>7, WriteKeepsPosition
<1>8. CASE CreateFile \/ CloseFile
  BY <1>8, EmptyFileKeepsPosition
     DEF CreateFile, CloseFile, bufferVars, progressVars, cloudVars, netVars, jobVars
<1>9. CASE ActivateImage
  BY <1>9, ResetKeepsPosition
<1> QED
  BY <1>2, <1>3, <1>4, <1>5, <1>6, <1>7, <1>8, <1>9
     DEF Next, OtaTask, Callback, StillStep

\* No late, repeated or skipped block of the job being downloaded is written at
\* another position than its own, whatever the jobs before it have left behind.
THEOREM BlocksKeepTheirPlace == Spec => []BlocksLandInPlace
<1>1. PositionInv => BlocksLandInPlace
  BY DEF PositionInv, Position, Filed, Placed, BlocksLandInPlace
<1> QED
  BY InitTyped, TypeStep, PositionInit, PositionStep, <1>1, PTL DEF Spec

-----------------------------------------------------------------------------
(* The first CloseFile of a download finds the whole image, as long as the *)
(* cloud has offered one job.  With a second one a CloseFile event may be  *)
(* left in the queue when the document of the second job is parsed.        *)

OneJobOffered == \A i, j \in offered : i = j

ClosePending ==
    current.id = "CloseFile" \/ \E i \in 1 .. Len(events) : events[i].id = "CloseFile"

\* A used buffer holds a block, of a download that has been started.
HeldBlocks == \A b \in Buffers : bufferUsed[b] => ~IsDoc(bufferData[b]) /\ stream # NoJob

\* The file holds blocks, and has none missing before the current offset.
Written ==
    /\ \A i \in BlockIds : file[i] # Hole => ~IsDoc(file[i])
    /\ fileOpen => \A i \in BlockIds : i < currentBlockOffset => file[i] # Hole

\* A file is closed after its last block, and until then stays open.
LastBlock  == stream # NoJob /\ numOfBlocksRemaining = 0
Closing    == OneJobOffered /\ ClosePending => LastBlock
StillOpen  ==
    /\ OneJobOffered /\ LastBlock
    /\ verified = NoJob /\ jobFields.signature = globalJobId
    => fileOpen

Completion    == /\ HeldBlocks /\ Written /\ Closing /\ StillOpen
                 /\ globalJobId \in {NoJob, stream}
CompletionInv == TypeInv /\ Placement /\ Owned /\ PositionInv /\ Completion

\* After the last block the job has not been reported yet.
LEMMA AfterLastBlock ==
  ASSUME CompletionInv, LastBlock
  PROVE  /\ currentBlockOffset = NumBlocks /\ globalJobId = stream
         /\ taskPc \notin {"subscribe", "create", "reportSuccess"}
<1>1. currentBlockOffset = NumBlocks /\ currentBlockOffset # 0
  BY ConstantsAssumption
     DEF ConstantsAssumption, CompletionInv, TypeInv, TypeOK, ProgressTypeOK,
         BlocksAccountedFor, LastBlock
<1> QED
  BY <1>1 DEF CompletionInv, PositionInv, Starting, LastBlock

\* The block in hand is a block, of a download that has been started.
LEMMA HeldInHand ==
  ASSUME CompletionInv, Handling("ReceivedFileBlock")
  PROVE  /\ current.buffer \in Buffers /\ bufferData[current.buffer] \in Messages
         /\ ~IsDoc(bufferData[current.buffer]) /\ stream # NoJob
<1>1. /\ current.buffer \in Buffers /\ bufferData[current.buffer] \in Messages
      /\ current.buffer # NoBuffer
  BY BlockInHand, ConstantsAssumption
     DEF ConstantsAssumption, CompletionInv, TypeInv
<1> QED
  BY <1>1 DEF CompletionInv, Owned, TaskOwns, Completion, HeldBlocks

\* With one job offered no document is new after the last block.
LEMMA NothingNew ==
  ASSUME CompletionInv, OneJobOffered, LastBlock
  PROVE  jobDocBuffer \in {NoJob, globalJobId}
<1>1. globalJobId = stream /\ stream # NoJob
  BY AfterLastBlock DEF LastBlock
<1>2. {stream, jobDocBuffer} \subseteq offered \cup {NoJob}
  BY DEF CompletionInv, PositionInv, Position, Order, Known
<1> QED
  BY <1>1, <1>2 DEF OneJobOffered

\* Jobs are only ever added to those offered.
LEMMA OfferedGrows ==
  ASSUME [Next]_vars, ~ActivateImage
  PROVE  OneJobOffered' => OneJobOffered
<1>1. offered \subseteq offered'
  BY DEF Next, OtaTask, Callback, TaskSubscribeNotifyNext, ReceiveEvent,
     ReceiveTimesOut, WaitForResume, RequestJobDocument, JobDocumentNotNew,
     ParseJobDocument, SubscribeStream, CreateFile, SignatureUnreadable,
     ReportSuccess, DelayOver, RequestFileBlock, WriteBlock, WriteBlockFails,
     IgnoreBlock, CloseFile, ActivateImageFails, TakeBuffer,
     QueueBlock, DropBlock, QueueJobDocument, LinkDrops, LinkComesUp, JobChanges,
     NotifyAgain, vars, cloudVars
<1> QED
  BY <1>1 DEF OneJobOffered

\* An image that is closed is complete.
LEMMA ClosedIsComplete ==
  ASSUME CompletionInv, OneJobOffered
  PROVE  ClosedFileIsComplete
<1> SUFFICES ASSUME Handling("CloseFile"), verified = NoJob,
                    jobFields.signature = globalJobId
             PROVE  FileVerifies
  BY DEF ClosedFileIsComplete
<1>1. LastBlock
  BY DEF CompletionInv, Completion, Closing, ClosePending, Handling
<1>2. /\ currentBlockOffset = NumBlocks /\ fileOpen
      /\ jobFields.signature = stream /\ stream # NoJob
  BY <1>1, AfterLastBlock DEF CompletionInv, Completion, StillOpen, LastBlock
<1>3. ASSUME NEW i \in BlockIds PROVE file[i] = Block(stream, i)
  <2>1. i < currentBlockOffset
    BY <1>2, ConstantsAssumption DEF ConstantsAssumption, BlockIds
  <2>2. file[i] # Hole /\ ~IsDoc(file[i])
    BY <1>2, <2>1 DEF CompletionInv, Completion, Written
  <2>3. file[i] \in Messages /\ Placed(file[i], i)
    BY <2>2 DEF CompletionInv, TypeInv, TypeOK, PalTypeOK, PositionInv, Position, Filed
  <2>4. file[i] \in [kind : {"block"}, job : Jobs, block : BlockIds]
    BY <2>2, <2>3 DEF Messages, IsDoc
  <2>5. file[i].job = stream
    <3>1. CASE ~Ahead(file[i].job)
      BY <1>2, <3>1 DEF Ahead, OneJobOffered, CompletionInv, PositionInv, Position,
         Order, Known
    <3>2. CASE Ahead(file[i].job)
      BY <2>3, <2>4, <3>2, ConstantsAssumption DEF Placed, ConstantsAssumption
    <3> QED
      BY <3>1, <3>2
  <2>6. file[i].block = i
    BY <2>3, <2>5 DEF Placed
  <2> QED
    BY <2>4, <2>5, <2>6 DEF Block
<1> QED
  BY <1>2, <1>3 DEF FileVerifies

-----------------------------------------------------------------------------
(* The parts of the invariant, one by one.                                 *)

\* An event that is sent, and is not CloseFile, does not close the file.
LEMMA NoCloseSent ==
  ASSUME TypeOK, current' = current \/ current'.id # "CloseFile",
         UNCHANGED events \/ \E e : e.id # "CloseFile" /\ events' = Append(events, e)
  PROVE  ClosePending' => ClosePending
<1>1. ASSUME NEW i \in 1 .. Len(events'), events'[i].id = "CloseFile"
      PROVE  \E k \in 1 .. Len(events) : events[k].id = "CloseFile"
  <2>1. CASE UNCHANGED events
    BY <1>1, <2>1
  <2>2. ASSUME NEW e, e.id # "CloseFile", events' = Append(events, e)
        PROVE  \E k \in 1 .. Len(events) : events[k].id = "CloseFile"
    <3>1. /\ Len(events) \in Nat /\ Len(events') = Len(events) + 1
          /\ \A k \in 1 .. Len(events) : events'[k] = events[k]
          /\ events'[Len(events) + 1] = e
      BY <2>2, AppendedEvents DEF TypeOK, QueueTypeOK
    <3> QED
      BY <1>1, <2>2, <3>1
  <2> QED
    BY <2>1, <2>2
<1> QED
  BY <1>1 DEF ClosePending

\* What the handlers send, other than after a block, is not CloseFile.
OtherEvents ==
    \/ UNCHANGED events
    \/ \E e : e.id # "CloseFile" /\ Send(e)
LEMMA OtherEventsDoNotClose ==
  ASSUME TypeOK, current' = current \/ current'.id # "CloseFile", OtherEvents
  PROVE  ClosePending' => ClosePending
<1>1. UNCHANGED events \/ \E e : e.id # "CloseFile" /\ events' = Append(events, e)
  BY DEF OtherEvents, Send
<1> QED
  BY <1>1, NoCloseSent

LEMMA ClosingStep ==
  ASSUME CompletionInv, [Next]_vars
  PROVE  Closing'
<1> SUFFICES ASSUME OneJobOffered', ClosePending' PROVE LastBlock'
  BY DEF Closing
<1> USE DEF CompletionInv, Completion, Closing, TypeInv
<1>1. ClosePending /\ ~ActivateImage => LastBlock
  BY OfferedGrows
<1>2. CASE UNCHANGED <<stream, numOfBlocksRemaining>> /\ ClosePending /\ ~ActivateImage
  BY <1>1, <1>2 DEF LastBlock
<1>3. CASE ParseJobDocument
  <2>1. /\ current' = current /\ UNCHANGED events
        /\ jobDocBuffer \notin {NoJob, globalJobId} /\ ~ActivateImage
    BY <1>3 DEF ParseJobDocument, Handling, ActivateImage
  <2>2. ClosePending /\ OneJobOffered
    BY <1>3, <2>1, OfferedGrows DEF ClosePending
  <2> QED
    BY <2>1, <2>2, NothingNew
<1>4. CASE WriteBlock \/ WriteBlockFails \/ IgnoreBlock
  <2>1. stream # NoJob /\ UNCHANGED stream /\ current'.id # "CloseFile"
    BY <1>4, HeldInHand
       DEF WriteBlock, WriteBlockFails, IgnoreBlock, Handled, jobVars, NoEvent, Event
  <2>2. CASE numOfBlocksRemaining' = 0
    BY <2>1, <2>2 DEF LastBlock
  <2>3. CASE numOfBlocksRemaining' # 0
    <3>1. AfterBlock(numOfBlocksRemaining') /\ ~ActivateImage
      BY <1>4 DEF WriteBlock, WriteBlockFails, IgnoreBlock, Handling, ActivateImage,
         progressVars
    <3>2. OtherEvents
      BY <2>3, <3>1 DEF AfterBlock, OtherEvents, Event
    <3>3. ClosePending
      BY <2>1, <3>2, OtherEventsDoNotClose
    <3>4. LastBlock
      BY <1>1, <3>1, <3>3
    <3>5. ~WriteBlock
      <4> SUFFICES ASSUME WriteBlock PROVE FALSE
        OBVIOUS
      <4>1. currentBlockOffset = NumBlocks
        BY <3>4, AfterLastBlock
      <4>2. /\ bufferData[current.buffer].block \in BlockIds
            /\ bufferData[current.buffer].block > lastReceivedblockId
        BY BlockInHand DEF WriteBlock, Accepted
      <4> QED
        BY <4>1, <4>2, ConstantsAssumption
           DEF ConstantsAssumption, Headroom, TypeOK, ProgressTypeOK, BlockIds
    <3>6. UNCHANGED numOfBlocksRemaining
      BY <1>4, <3>5 DEF WriteBlockFails, IgnoreBlock, progressVars
    <3> QED
      BY <2>3, <3>4, <3>6 DEF LastBlock
  <2> QED
    BY <2>2, <2>3
<1>5. CASE ActivateImage
  <2>1. current' = NoEvent /\ events' = <<Event("RequestJobDocument")>>
    BY <1>5 DEF ActivateImage
  <2>2. Len(events') = 1 /\ events'[1].id = "RequestJobDocument"
    BY <2>1 DEF Event
  <2> QED
    BY <2>1, <2>2 DEF ClosePending, NoEvent, Event
<1>6. CASE ReceiveEvent
  <2>1. /\ events \in Seq(QueuedEvents) /\ events # <<>>
        /\ current' = Head(events) /\ events' = Tail(events)
        /\ UNCHANGED <<stream, numOfBlocksRemaining>> /\ ~ActivateImage
    BY <1>6 DEF ReceiveEvent, ActivateImage, Handling, TypeOK, QueueTypeOK, jobVars,
       progressVars
  <2>2. /\ 1 \in 1 .. Len(events) /\ Head(events) = events[1]
        /\ \A i \in 1 .. Len(events') :
              i + 1 \in 1 .. Len(events) /\ events'[i] = events[i + 1]
    BY <2>1
  <2>3. ClosePending
    BY <2>1, <2>2 DEF ClosePending
  <2> QED
    BY <1>2, <2>1, <2>3
<1>7. CASE \/ TaskSubscribeNotifyNext \/ ReceiveTimesOut \/ WaitForResume
           \/ RequestJobDocument \/ JobDocumentNotNew \/ SubscribeStream
           \/ CreateFile \/ SignatureUnreadable \/ ReportSuccess \/ DelayOver
           \/ RequestFileBlock \/ CloseFile \/ ActivateImageFails
  <2>1. OtherEvents /\ UNCHANGED <<stream, numOfBlocksRemaining>>
    BY <1>7
       DEF OtherEvents, Event, TaskSubscribeNotifyNext, ReceiveTimesOut,
           WaitForResume, RequestJobDocument, JobDocumentNotNew, SubscribeStream,
           CreateFile, SignatureUnreadable, ReportSuccess, DelayOver,
           RequestFileBlock, CloseFile, ActivateImageFails, jobVars, progressVars
  <2>2. (current' = current \/ current'.id # "CloseFile") /\ taskPc' # "start"
    BY <1>7
       DEF Handled, NoEvent, Event, TaskSubscribeNotifyNext, ReceiveTimesOut,
           WaitForResume, RequestJobDocument, JobDocumentNotNew, SubscribeStream,
           CreateFile, SignatureUnreadable, ReportSuccess, DelayOver,
           RequestFileBlock, CloseFile, ActivateImageFails
  <2>3. ClosePending
    BY <2>1, <2>2, OtherEventsDoNotClose
  <2> QED
    BY <1>2, <2>1, <2>2, <2>3 DEF ActivateImage
<1>8. CASE Callback \/ LinkDrops \/ LinkComesUp \/ JobChanges \/ NotifyAgain \/ UNCHANGED vars
  <2>1. OtherEvents /\ UNCHANGED <<stream, numOfBlocksRemaining, current, taskPc>>
    BY <1>8
       DEF OtherEvents, Event, EventIds, Callback, TakeBuffer, QueueBlock, DropBlock,
           QueueJobDocument, LinkDrops, LinkComesUp, JobChanges, NotifyAgain, vars,
           taskVars, jobVars, progressVars
  <2>2. ClosePending
    BY <2>1, OtherEventsDoNotClose
  <2>3. ~ActivateImage
    BY <2>1 DEF ActivateImage, Handling
  <2> QED
    BY <1>2, <2>1, <2>2, <2>3
<1> QED
  BY <1>3, <1>4, <1>5, <1>6, <1>7, <1>8 DEF Next, OtaTask
\* A buffer is taken for a block of the stream.
LEMMA HeldStep ==
  ASSUME CompletionInv, [Next]_vars
  PROVE  HeldBlocks'
<1> USE DEF CompletionInv, Completion, TypeInv
<1>0. bufferUsed \in [Buffers -> BOOLEAN] /\ bufferData \in [Buffers -> Messages]
  BY DEF TypeOK, BufferTypeOK
<1>1. CASE UNCHANGED bufferData /\ (stream # NoJob => stream' # NoJob)
           /\ \A b \in Buffers : bufferUsed'[b] => bufferUsed[b]
  BY <1>1 DEF HeldBlocks, IsDoc
<1>2. CASE TakeBuffer
  <2>1. PICK b \in Buffers :
           /\ bufferUsed' = [bufferUsed EXCEPT ![b] = TRUE]
           /\ bufferData' = [bufferData EXCEPT ![b] = Head(inbound)]
    BY <1>2 DEF TakeBuffer, FreeBuffers
  <2>2. /\ Head(inbound).kind = "block" /\ Head(inbound).job = stream
        /\ Head(inbound) \in Messages /\ UNCHANGED stream
    BY <1>2, MessageArrives DEF TakeBuffer, Arrives, TypeOK, CloudTypeOK, jobVars
  <2>3. ~IsDoc(Head(inbound)) /\ stream # NoJob
    BY <2>2, ConstantsAssumption DEF IsDoc, Messages, ConstantsAssumption
  <2> QED
    BY <1>0, <2>1, <2>2, <2>3 DEF HeldBlocks, IsDoc
<1>3. CASE ActivateImage
  BY <1>3 DEF ActivateImage, HeldBlocks
<1>4. CASE ParseJobDocument
  BY <1>1, <1>4 DEF ParseJobDocument, bufferVars
<1>5. CASE WriteBlock \/ WriteBlockFails \/ IgnoreBlock \/ QueueBlock
  <2>1. UNCHANGED <<bufferData, stream>>
    BY <1>5 DEF WriteBlock, WriteBlockFails, IgnoreBlock, QueueBlock, jobVars
  <2>2. UNCHANGED bufferUsed \/ \E b : FreeBuffer(b)
    BY <1>5 DEF WriteBlock, WriteBlockFails, IgnoreBlock, QueueBlock
  <2>3. \A b \in Buffers : bufferUsed'[b] => bufferUsed[b]
    BY <1>0, <2>2 DEF FreeBuffer
  <2> QED
    BY <1>1, <2>1, <2>3
<1>6. CASE UNCHANGED <<bufferVars, stream>>
  BY <1>1, <1>6 DEF bufferVars
<1> QED
  BY <1>2, <1>3, <1>4, <1>5, <1>6
     DEF Next, OtaTask, Callback, TaskSubscribeNotifyNext, ReceiveEvent,
     ReceiveTimesOut, WaitForResume, RequestJobDocument, JobDocumentNotNew,
     SubscribeStream, CreateFile, SignatureUnreadable, ReportSuccess, DelayOver,
     RequestFileBlock, CloseFile, ActivateImageFails, DropBlock,
     QueueJobDocument, LinkDrops, LinkComesUp, JobChanges,
     NotifyAgain, vars, jobVars

\* A file is written block by block, from the first.
LEMMA WrittenStep ==
  ASSUME CompletionInv, [Next]_vars
  PROVE  Written'
<1> USE DEF CompletionInv, Completion, TypeInv
<1>0. currentBlockOffset \in Nat /\ currentBlockOffset' \in Nat /\ BlockIds \subseteq Nat
  <2>1. TypeInv'
    BY TypeStep
  <2> QED
    BY <2>1, ConstantsAssumption
       DEF ConstantsAssumption, BlockIds, TypeOK, ProgressTypeOK
<1>1. CASE UNCHANGED <<palVars, currentBlockOffset>>
  BY <1>1 DEF Written, palVars, IsDoc
<1>2. CASE file' = EmptyFile /\ (fileOpen' => currentBlockOffset' = 0)
  BY <1>0, <1>2 DEF Written, EmptyFile
<1>3. CASE ParseJobDocument
  <2>1. currentBlockOffset' = 0 /\ UNCHANGED file
    BY <1>3 DEF ParseJobDocument, palVars
  <2>2. \A i \in BlockIds : ~(i < currentBlockOffset')
    BY <1>0, <2>1
  <2> QED
    BY <2>1, <2>2 DEF Written, IsDoc
<1>4. CASE CreateFile
  <2>1. taskPc = "create" /\ file' = EmptyFile /\ UNCHANGED currentBlockOffset
    BY <1>4 DEF CreateFile, progressVars
  <2> QED
    BY <1>2, <2>1 DEF PositionInv, Starting
<1>5. CASE CloseFile \/ ActivateImage
  BY <1>2, <1>5 DEF CloseFile, ActivateImage
<1>6. CASE WriteBlock
  <2> DEFINE block == bufferData[current.buffer]
  <2>1. /\ block \in Messages /\ ~IsDoc(block) /\ block # Hole
    BY <1>6, HeldInHand, HoleAssumption DEF WriteBlock, HoleAssumption
  <2>2. /\ file' = [file EXCEPT ![currentBlockOffset] = block]
        /\ file \in [BlockIds -> Messages \cup {Hole}]
        /\ currentBlockOffset' = currentBlockOffset + 1 /\ UNCHANGED fileOpen
    BY <1>6 DEF WriteBlock, TypeOK, PalTypeOK
  <2> HIDE DEF block
  <2>3. \A i \in BlockIds : file'[i] = IF i = currentBlockOffset THEN block ELSE file[i]
    BY <2>2
  <2>4. \A i \in BlockIds : i < currentBlockOffset' => i < currentBlockOffset \/ i = currentBlockOffset
    BY <1>0, <2>2
  <2> QED
    BY <2>1, <2>2, <2>3, <2>4 DEF Written, IsDoc
<1> QED
  BY <1>1, <1>3, <1>4, <1>5, <1>6
     DEF Next, OtaTask, Callback, TaskSubscribeNotifyNext, ReceiveEvent,
     ReceiveTimesOut, WaitForResume, RequestJobDocument, JobDocumentNotNew,
     SubscribeStream, SignatureUnreadable, ReportSuccess, DelayOver,
     RequestFileBlock, WriteBlockFails, IgnoreBlock, ActivateImageFails, TakeBuffer,
     QueueBlock, DropBlock, QueueJobDocument, LinkDrops, LinkComesUp, JobChanges,
     NotifyAgain, vars, progressVars

\* After its last block a file is closed only by the event that checks it.
LEMMA StillOpenStep ==
  ASSUME CompletionInv, [Next]_vars
  PROVE  StillOpen'
<1> SUFFICES ASSUME OneJobOffered', LastBlock', verified' = NoJob,
                    jobFields'.signature = globalJobId'
             PROVE  fileOpen'
  BY DEF StillOpen
<1> USE DEF CompletionInv, Completion, TypeInv
<1>1. CASE UNCHANGED <<stream, numOfBlocksRemaining, verified, fileOpen,
                       jobFields, globalJobId>> /\ ~ActivateImage
  BY <1>1, OfferedGrows DEF LastBlock, StillOpen
<1>2. CASE ParseJobDocument
  BY <1>2, ConstantsAssumption DEF ParseJobDocument, LastBlock, ConstantsAssumption
<1>3. CASE CreateFile \/ ReportSuccess
  <2>1. LastBlock /\ taskPc \in {"create", "reportSuccess"}
    BY <1>3 DEF CreateFile, ReportSuccess, LastBlock, progressVars, jobVars
  <2> QED
    BY <2>1, AfterLastBlock
<1>4. CASE JobDocumentNotNew
  <2>1. LastBlock /\ globalJobId' = globalJobId /\ jobFields'.signature = NoJob
    BY <1>4 DEF JobDocumentNotNew, LastBlock, progressVars, ZeroedFields
  <2> QED
    BY <2>1, AfterLastBlock DEF LastBlock
<1>5. CASE WriteBlock
  BY <1>5 DEF WriteBlock
<1>6. CASE CloseFile
  <2>1. /\ OneJobOffered /\ UNCHANGED <<jobFields, globalJobId>>
        /\ verified' = IF FileVerifies THEN jobFields.signature ELSE verified
        /\ Handling("CloseFile")
    BY <1>6, OfferedGrows DEF CloseFile, ActivateImage, Handling, jobVars
  <2>2. ~FileVerifies /\ verified = NoJob
    BY <2>1 DEF FileVerifies
  <2> QED
    BY <2>1, <2>2, ClosedIsComplete DEF ClosedFileIsComplete
<1>7. CASE ActivateImage
  BY <1>7 DEF ActivateImage, LastBlock
<1>8. CASE UNCHANGED <<stream, numOfBlocksRemaining, verified, fileOpen,
                       jobFields, globalJobId>>
  BY <1>1, <1>7, <1>8
<1> QED
  BY <1>2, <1>3, <1>4, <1>5, <1>6, <1>7, <1>8
     DEF Next, OtaTask, Callback, TaskSubscribeNotifyNext, ReceiveEvent,
     ReceiveTimesOut, WaitForResume, RequestJobDocument,
     SubscribeStream, SignatureUnreadable, DelayOver,
     RequestFileBlock, WriteBlockFails, IgnoreBlock, ActivateImageFails, TakeBuffer,
     QueueBlock, DropBlock, QueueJobDocument, LinkDrops, LinkComesUp, JobChanges,
     NotifyAgain, vars, progressVars, jobVars, palVars

\* The job that is known is the one being downloaded.
LEMMA JobOfStreamStep ==
  ASSUME globalJobId \in {NoJob, stream}, [Next]_vars
  PROVE  globalJobId' \in {NoJob, stream'}
BY DEF Next, OtaTask, Callback, TaskSubscribeNotifyNext, ReceiveEvent,
   ReceiveTimesOut, WaitForResume, RequestJobDocument, JobDocumentNotNew,
   ParseJobDocument, SubscribeStream, CreateFile, SignatureUnreadable,
   ReportSuccess, DelayOver, RequestFileBlock, WriteBlock, WriteBlockFails,
   IgnoreBlock, CloseFile, ActivateImage, ActivateImageFails, TakeBuffer,
   QueueBlock, DropBlock, QueueJobDocument, LinkDrops, LinkComesUp, JobChanges,
   NotifyAgain, vars, jobVars

LEMMA CompletionInit == Init => CompletionInv
<1> SUFFICES ASSUME Init PROVE CompletionInv
  OBVIOUS
<1>1. TypeInv /\ Placement /\ Owned /\ PositionInv
  BY InitTyped, OwnershipInit, PositionInit
<1>2. ~ClosePending /\ ~LastBlock
  BY DEF Init, ClosePending, LastBlock, NoEvent, Event
<1>3. HeldBlocks /\ Written /\ globalJobId \in {NoJob, stream}
  BY DEF Init, HeldBlocks, Written, EmptyFile
<1> QED
  BY <1>1, <1>2, <1>3 DEF CompletionInv, Completion, Closing, StillOpen

LEMMA CompletionStep == CompletionInv /\ [Next]_vars => CompletionInv'
<1> SUFFICES ASSUME CompletionInv, [Next]_vars PROVE CompletionInv'
  OBVIOUS
<1>1. TypeInv'
  BY TypeStep DEF CompletionInv
<1>2. Placement' /\ Owned'
  BY OwnershipStep DEF CompletionInv, TypeInv
<1>3. PositionInv'
  BY <1>1, PositionStep DEF CompletionInv
<1>4. Completion'
  BY HeldStep, WrittenStep, ClosingStep, StillOpenStep, JobOfStreamStep
     DEF CompletionInv, Completion
<1> QED
  BY <1>1, <1>2, <1>3, <1>4 DEF CompletionInv

\* While the cloud has offered one job, the first CloseFile event of its
\* download finds the whole image in the file, whatever was lost, repeated,
\* late, or not written at the first attempt.
THEOREM FirstCloseFindsTheImage == Spec => [](OneJobOffered => ClosedFileIsComplete)
<1>1. CompletionInv => (OneJobOffered => ClosedFileIsComplete)
  BY ClosedIsComplete
<1> QED
  BY CompletionInit, CompletionStep, <1>1, PTL DEF Spec

\* For a thing that gets one job, that is every CloseFile.
COROLLARY OnlyJobIsComplete ==
  ASSUME \A i, j \in Jobs : i = j
  PROVE  Spec => []ClosedFileIsComplete
<1>1. CompletionInv => ClosedFileIsComplete
  BY ClosedIsComplete DEF CompletionInv, TypeInv, TypeOK, CloudTypeOK, OneJobOffered
<1> QED
  BY CompletionInit, CompletionStep, <1>1, PTL DEF Spec
-----------------------------------------------------------------------------
(* That an outstanding block is asked for again.  The download waits on    *)
(* the last event of the queue: whatever comes before it, the last one     *)
(* leads to a request.  That depends on what the job document buffer holds *)
(* when it is read, so the other half of the argument is that no document  *)
(* without a job follows that of a job which the device is still to run.   *)

Asking == {"ReceivedJobDocument", "RequestFileBlock", "ReceivedFileBlock"}
LastEventAsks == events # <<>> /\ events[Len(events)].id \in Asking

Outstanding ==
    /\ globalJobId # NoJob /\ globalJobId = stream /\ running # globalJobId
    /\ numOfBlocksRemaining > 0

\* A job that is not running yet is not followed by a document without a job.
Remembered ==
    \A j \in Jobs : running # j =>
        /\ jobDocBuffer = j \/ globalJobId = j => ~Follows(0, NoJob)
        /\ globalJobId = j => jobDocBuffer # NoJob
        /\ \A i \in DOMAIN inbound :
              IsDoc(inbound[i]) /\ inbound[i].job = j => ~Follows(i, NoJob)

\* When the job that is running is pending, the device hears of no other.
OnlyRunning ==
    serverJob = running =>
        /\ {jobDocBuffer, globalJobId} \subseteq {NoJob, running}
        /\ \A i \in DOMAIN inbound :
              IsDoc(inbound[i]) => inbound[i].job \in {NoJob, running}

\* Every job the device has had to do with has been offered.
HadOffer == {running, verified, jobFields.job, jobFields.signature} \subseteq offered \cup {NoJob}

\* Where the task can be with which job and event.
TaskOrder ==
    /\ taskPc \in {"start", "delay"} => globalJobId = NoJob
    /\ taskPc \in {"subscribe", "create"} => jobFields.job = globalJobId
    /\ taskPc = "reportSuccess" => running = globalJobId /\ globalJobId # NoJob
    /\ taskPc \in {"handle", "waitResume"} => lastRecvEventId = current.id
    /\ taskPc = "waitResume" => current.id = "RequestFileBlock"

\* A signature has been read for the file, which has nothing beyond the offset.
Unwritten ==
    jobFields.signature # NoJob =>
        \A i \in BlockIds : i >= currentBlockOffset => file[i] = Hole

\* A handler finds the slot free that its own event was in, unless the callback
\* has filled it.
Room ==
    /\ taskPc \in {"waitResume", "handle", "subscribe", "create"}
          => HasRoom \/ LastEventAsks
    /\ taskPc \in {"subscribe", "create"} /\ jobDocBuffer \notin {NoJob, globalJobId}
          => LastEventAsks

Asked ==
    Outstanding =>
        /\ taskPc \in {"idle", "waitResume"} /\ events = <<>>
              => lastRecvEventId = "RequestFileBlock"
        /\ taskPc = "handle" /\ events = <<>> => current.id \in Asking
        /\ taskPc \in {"idle", "waitResume", "handle"} /\ events # <<>>
              => LastEventAsks

Retry    == Remembered /\ OnlyRunning /\ HadOffer /\ TaskOrder /\ Unwritten /\ Room /\ Asked
RetryInv == TypeInv /\ PositionInv /\ Retry

\* A message that is added says that no job is pending only if that is so.
LEMMA Announced ==
  ASSUME inbound \in Seq(Messages), NEW m, inbound' = inbound \/ Deliver(m),
         IsDoc(m) => m.job = serverJob', serverJob' # NoJob \/ serverJob' = serverJob
  PROVE  /\ \A i : Follows(i, NoJob)' => Follows(i, NoJob)
         /\ \A i \in DOMAIN inbound' :
               \/ i \in DOMAIN inbound /\ inbound'[i] = inbound[i]
               \/ inbound'[i] = m /\ (Follows(i, NoJob)' => serverJob' = NoJob)
<1>1. CASE inbound' = inbound
  BY <1>1 DEF Follows, IsDoc
<1>2. CASE inbound' # inbound
  <2>1. PICK n \in Nat :
           /\ n \in DOMAIN inbound' /\ inbound'[n] = m
           /\ \A i \in DOMAIN inbound' :
                 \/ i = n
                 \/ i \in DOMAIN inbound /\ i < n /\ inbound'[i] = inbound[i]
    BY <1>2, Delivered
  <2>2. \A i \in DOMAIN inbound' : ~(i > n)
    BY <2>1
  <2>3. ASSUME NEW i, Follows(i, NoJob)' PROVE Follows(i, NoJob)
    BY <2>1, <2>3 DEF Follows, IsDoc
  <2>4. Follows(n, NoJob)' => serverJob' = NoJob
    BY <2>2 DEF Follows
  <2> QED
    BY <2>1, <2>3, <2>4
<1> QED
  BY <1>1, <1>2

\* What the device hears of a job that it is still to run.
LEMMA HeardStep ==
  ASSUME RetryInv, "create" \notin FaultKinds, [Next]_vars
  PROVE  Remembered' /\ OnlyRunning'
<1> USE DEF RetryInv, Retry
<1>0. /\ inbound \in Seq(Messages) /\ NoJob \notin Jobs /\ serverJob \in MaybeJob
      /\ running \in offered \cup {NoJob} /\ offered \subseteq Jobs
  BY ConstantsAssumption
     DEF ConstantsAssumption, TypeInv, TypeOK, CloudTypeOK, HadOffer
<1>1. CASE UNCHANGED <<inbound, serverJob, running, jobDocBuffer, globalJobId>>
  BY <1>1 DEF Remembered, OnlyRunning, Follows, IsDoc
<1>2. CASE RequestJobDocument \/ RequestFileBlock \/ NotifyAgain \/ JobChanges
  <2>1. PICK m : /\ inbound' = inbound \/ Deliver(m)
                 /\ IsDoc(m) => m.job = serverJob'
    <3>1. \/ inbound' = inbound \/ Deliver(Doc(serverJob'))
          \/ Deliver(Block(stream, currentBlockOffset))
      BY <1>2
         DEF RequestJobDocument, RequestFileBlock, NotifyAgain, JobChanges,
             PublishFailed, cloudVars
    <3>2. Doc(serverJob').job = serverJob' /\ ~IsDoc(Block(stream, currentBlockOffset))
      BY DEF Doc, Block, IsDoc
    <3> HIDE DEF RetryInv, Retry
    <3> QED
      BY <3>1, <3>2
  <2>2. /\ UNCHANGED <<running, jobDocBuffer, globalJobId>>
        /\ \/ serverJob' = serverJob
           \/ serverJob' # NoJob /\ serverJob' # running
    BY <1>0, <1>2
       DEF RequestJobDocument, RequestFileBlock, NotifyAgain, JobChanges, cloudVars,
           jobVars, palVars
  <2>3. /\ \A i : Follows(i, NoJob)' => Follows(i, NoJob)
        /\ \A i \in DOMAIN inbound' :
              \/ i \in DOMAIN inbound /\ inbound'[i] = inbound[i]
              \/ inbound'[i] = m /\ (Follows(i, NoJob)' => serverJob' = NoJob)
    BY <1>0, <2>1, <2>2, Announced
  <2>4. Remembered'
    BY <1>0, <2>1, <2>2, <2>3 DEF Remembered, IsDoc
  <2>5. OnlyRunning'
    BY <2>1, <2>2, <2>3 DEF OnlyRunning, IsDoc
  <2> QED
    BY <2>4, <2>5
<1>3. CASE TakeBuffer \/ DropBlock \/ QueueJobDocument
  <2>1. /\ inbound # <<>> /\ inbound' = Tail(inbound)
        /\ UNCHANGED <<serverJob, running, globalJobId>>
        /\ \/ UNCHANGED jobDocBuffer
           \/ IsDoc(Head(inbound)) /\ jobDocBuffer' = Head(inbound).job
    BY <1>3
       DEF TakeBuffer, DropBlock, QueueJobDocument, Arrives, IsDoc, cloudVars,
           jobVars, palVars
  <2>2. /\ 1 \in DOMAIN inbound /\ inbound[1] = Head(inbound)
        /\ \A i \in DOMAIN inbound' :
              i \in Nat /\ i + 1 \in DOMAIN inbound /\ inbound'[i] = inbound[i + 1]
        /\ \A i \in Nat : Follows(i, NoJob)' => Follows(i + 1, NoJob)
        /\ Follows(0, NoJob)' => Follows(0, NoJob)
    BY <1>0, <2>1, Taken
  <2>3. Follows(0, NoJob)' => Follows(1, NoJob)
    BY <2>2
  <2>4. OnlyRunning'
    BY <2>1, <2>2 DEF OnlyRunning, IsDoc
  <2>5. ASSUME NEW j \in Jobs, running # j
        PROVE  /\ jobDocBuffer' = j \/ globalJobId' = j => ~Follows(0, NoJob)'
               /\ globalJobId' = j => jobDocBuffer' # NoJob
               /\ \A i \in DOMAIN inbound' :
                     IsDoc(inbound'[i]) /\ inbound'[i].job = j => ~Follows(i, NoJob)'
    <3>1. /\ jobDocBuffer = j \/ globalJobId = j => ~Follows(0, NoJob)
          /\ globalJobId = j => jobDocBuffer # NoJob
          /\ \A i \in DOMAIN inbound :
                IsDoc(inbound[i]) /\ inbound[i].job = j => ~Follows(i, NoJob)
      BY <2>5 DEF Remembered
    <3>2. jobDocBuffer' = j \/ globalJobId' = j => ~Follows(0, NoJob)'
      BY <2>1, <2>2, <2>3, <3>1
    <3>3. IsDoc(inbound[1]) /\ inbound[1].job = NoJob => Follows(0, NoJob)
      BY <2>2 DEF Follows
    <3>4. globalJobId' = j => jobDocBuffer' # NoJob
      BY <2>1, <2>2, <3>1, <3>3
    <3>5. \A i \in DOMAIN inbound' :
             IsDoc(inbound'[i]) /\ inbound'[i].job = j => ~Follows(i, NoJob)'
      BY <2>2, <3>1
    <3> QED
      BY <3>2, <3>4, <3>5
  <2>6. Remembered'
    BY <2>1, <2>5 DEF Remembered, IsDoc
  <2> QED
    BY <2>4, <2>6
<1>4. CASE LinkDrops
  <2>1. /\ UNCHANGED <<serverJob, running, globalJobId, jobDocBuffer>>
        /\ \/ inbound' = <<>>
           \/ serverJob # NoJob /\ inbound' = <<Doc(serverJob)>>
    BY <1>4 DEF LinkDrops, cloudVars, jobVars, palVars
  <2>2. \A i \in DOMAIN inbound' :
           IsDoc(inbound'[i]) => inbound'[i].job = serverJob /\ serverJob # NoJob
    BY <2>1 DEF Doc
  <2>3. \A i : Follows(i, NoJob)' => serverJob = NoJob
    BY <2>1, <2>2 DEF Follows, IsDoc
  <2>4. serverJob = NoJob => Follows(0, NoJob)
    BY DEF Follows
  <2> QED
    BY <2>1, <2>2, <2>3, <2>4 DEF Remembered, OnlyRunning, IsDoc
<1>5. CASE ParseJobDocument
  BY <1>5
     DEF ParseJobDocument, netVars, cloudVars, palVars, Remembered, OnlyRunning,
         Follows, IsDoc
<1>6. CASE ReportSuccess
  <2>1. /\ UNCHANGED <<inbound, running>> /\ jobDocBuffer' = NoJob /\ globalJobId' = NoJob
        /\ running = globalJobId /\ globalJobId # NoJob
        /\ \/ serverJob' = serverJob
           \/ serverJob = running /\ serverJob' = NoJob
    BY <1>6 DEF ReportSuccess, TaskOrder, palVars, netVars
  <2>2. OnlyRunning'
    BY <2>1 DEF OnlyRunning, IsDoc
  <2>3. CASE serverJob' = serverJob
    <3>1. \A i : Follows(i, NoJob)' => Follows(i, NoJob)
      BY <2>1, <2>3 DEF Follows, IsDoc
    <3>2. \A j \in Jobs : jobDocBuffer' # j /\ globalJobId' # j
      BY <1>0, <2>1
    <3>3. ASSUME NEW j \in Jobs, running' # j
          PROVE  \A i \in DOMAIN inbound' :
                    IsDoc(inbound'[i]) /\ inbound'[i].job = j => ~Follows(i, NoJob)'
      BY <2>1, <3>1, <3>3 DEF Remembered
    <3> QED
      BY <2>2, <3>2, <3>3 DEF Remembered, IsDoc
  <2>4. CASE serverJob = running
    BY <1>0, <2>1, <2>4 DEF Remembered, OnlyRunning, IsDoc
  <2> QED
    BY <2>1, <2>2, <2>3, <2>4
<1>7. CASE ActivateImage
  <2>1. /\ inbound' = <<>> /\ jobDocBuffer' = NoJob /\ globalJobId' = NoJob
    BY <1>7 DEF ActivateImage
  <2> QED
    BY <1>0, <2>1 DEF Remembered, OnlyRunning
<1> QED
  BY <1>1, <1>2, <1>3, <1>4, <1>5, <1>6, <1>7
     DEF Next, OtaTask, Callback, TaskSubscribeNotifyNext, ReceiveEvent,
     ReceiveTimesOut, WaitForResume, JobDocumentNotNew,
     SubscribeStream, CreateFile, SignatureUnreadable, DelayOver,
     WriteBlock, WriteBlockFails, IgnoreBlock, CloseFile, ActivateImageFails,
     QueueBlock, LinkComesUp, vars, jobVars, palVars, cloudVars, netVars
\* The device has to do with jobs the cloud has offered.
LEMMA HadOfferStep ==
  ASSUME RetryInv, [Next]_vars
  PROVE  HadOffer'
<1> USE DEF RetryInv, Retry, HadOffer
<1>1. jobDocBuffer \in offered \cup {NoJob}
  BY DEF PositionInv, Position, Order, Known
<1>2. CASE ParseJobDocument
  BY <1>1, <1>2 DEF ParseJobDocument, palVars, cloudVars
<1>3. CASE CreateFile
  <2>1. /\ jobFields' = [jobFields EXCEPT !.signature = SignatureRead]
        /\ UNCHANGED <<running, offered>> /\ verified' = NoJob
    BY <1>3 DEF CreateFile, cloudVars
  <2>2. SignatureRead \in offered \cup {NoJob}
    BY <1>1 DEF SignatureRead
  <2>3. jobFields' = [job |-> jobFields.job, signature |-> SignatureRead]
    BY <2>1 DEF TypeInv, TypeOK, JobTypeOK
  <2> QED
    BY <2>1, <2>2, <2>3
<1>4. CASE JobDocumentNotNew
  BY <1>4 DEF JobDocumentNotNew, ZeroedFields, palVars, cloudVars
<1>5. CASE CloseFile
  BY <1>5 DEF CloseFile, jobVars, cloudVars
<1>6. CASE ActivateImage
  BY <1>6 DEF ActivateImage, ZeroedFields, cloudVars
<1>7. CASE UNCHANGED <<running, verified, jobFields>> /\ offered \subseteq offered'
  BY <1>7
<1> QED
  BY <1>2, <1>3, <1>4, <1>5, <1>6, <1>7
     DEF Next, OtaTask, Callback, TaskSubscribeNotifyNext, ReceiveEvent,
     ReceiveTimesOut, WaitForResume, RequestJobDocument,
     SubscribeStream, SignatureUnreadable, ReportSuccess, DelayOver, RequestFileBlock,
     WriteBlock, WriteBlockFails, IgnoreBlock, ActivateImageFails, TakeBuffer,
     QueueBlock, DropBlock, QueueJobDocument, LinkDrops, LinkComesUp, JobChanges,
     NotifyAgain, vars, jobVars, palVars, cloudVars

\* Only the steps of the task move it, and they do so in the order of the code.
LEMMA TaskOrderStep ==
  ASSUME RetryInv, "create" \notin FaultKinds, [Next]_vars
  PROVE  TaskOrder'
<1> USE DEF RetryInv, Retry, TaskOrder
<1>1. CASE ReceiveEvent \/ ReceiveTimesOut \/ WaitForResume
  BY <1>1 DEF ReceiveEvent, ReceiveTimesOut, WaitForResume, Event
<1>2. CASE ParseJobDocument
  BY <1>2 DEF ParseJobDocument
<1>3. CASE SubscribeStream
  BY <1>3 DEF SubscribeStream, jobVars
<1>4. CASE CreateFile
  <2>1. \/ taskPc' = "idle"
        \/ /\ taskPc' = "reportSuccess" /\ running = jobFields.job
           /\ UNCHANGED <<running, globalJobId>>
    BY <1>4 DEF CreateFile, Handled, Fault
  <2>2. globalJobId # NoJob /\ jobFields.job = globalJobId
    <3>1. taskPc = "create"
      BY <1>4 DEF CreateFile
    <3> QED
      BY <3>1 DEF TypeInv, Headroom, PositionInv, Starting
  <2> QED
    BY <2>1, <2>2
<1>5. CASE ReportSuccess
  BY <1>5 DEF ReportSuccess
<1>6. CASE ActivateImage
  BY <1>6 DEF ActivateImage
<1>7. CASE taskPc' \in {"idle", "stopped"}
  BY <1>7
<1>8. CASE UNCHANGED <<taskVars, jobVars, running>>
  BY <1>8 DEF taskVars, jobVars
<1> QED
  BY <1>1, <1>2, <1>3, <1>4, <1>5, <1>6, <1>7, <1>8
     DEF Next, OtaTask, Callback, TaskSubscribeNotifyNext,
     RequestJobDocument, JobDocumentNotNew, SignatureUnreadable, DelayOver,
     RequestFileBlock, WriteBlock, WriteBlockFails, IgnoreBlock, CloseFile,
     ActivateImageFails, TakeBuffer, QueueBlock, DropBlock, QueueJobDocument, LinkDrops,
     LinkComesUp, JobChanges, NotifyAgain, vars, palVars, Handled

\* Beyond the offset nothing is written once the file has its signature.
LEMMA UnwrittenStep ==
  ASSUME RetryInv, [Next]_vars
  PROVE  Unwritten'
<1> USE DEF RetryInv, Retry, Unwritten
<1>1. CASE file' = EmptyFile
  BY <1>1 DEF EmptyFile
<1>2. CASE jobFields'.signature = NoJob
  BY <1>2
<1>3. CASE WriteBlock
  <2>1. /\ file' = [file EXCEPT ![currentBlockOffset] = bufferData[current.buffer]]
        /\ file \in [BlockIds -> Messages \cup {Hole}]
        /\ currentBlockOffset' = currentBlockOffset + 1 /\ UNCHANGED jobFields
        /\ currentBlockOffset \in Nat
    BY <1>3, ConstantsAssumption
       DEF WriteBlock, jobVars, TypeInv, TypeOK, PalTypeOK, ProgressTypeOK,
           ConstantsAssumption
  <2>2. BlockIds \subseteq Nat
    BY ConstantsAssumption DEF BlockIds, ConstantsAssumption
  <2>3. \A i \in BlockIds : i >= currentBlockOffset'
           => i >= currentBlockOffset /\ i # currentBlockOffset
    BY <2>1, <2>2
  <2>4. \A i \in BlockIds : i # currentBlockOffset => file'[i] = file[i]
    BY <2>1
  <2> QED
    BY <2>1, <2>3, <2>4
<1>4. CASE ParseJobDocument \/ JobDocumentNotNew
  BY <1>2, <1>4 DEF ParseJobDocument, JobDocumentNotNew, ZeroedFields
<1>5. CASE CreateFile \/ CloseFile \/ ActivateImage
  BY <1>1, <1>5 DEF CreateFile, CloseFile, ActivateImage
<1>6. CASE UNCHANGED <<jobFields, file, currentBlockOffset>>
  BY <1>6
<1> QED
  BY <1>3, <1>4, <1>5, <1>6
     DEF Next, OtaTask, Callback, TaskSubscribeNotifyNext, ReceiveEvent,
     ReceiveTimesOut, WaitForResume, RequestJobDocument,
     SubscribeStream, SignatureUnreadable, ReportSuccess, DelayOver, RequestFileBlock,
     WriteBlockFails, IgnoreBlock, ActivateImageFails, TakeBuffer,
     QueueBlock, DropBlock, QueueJobDocument, LinkDrops, LinkComesUp, JobChanges,
     NotifyAgain, vars, jobVars, palVars, progressVars

-----------------------------------------------------------------------------
(* The last event of the queue.                                            *)

\* An event that asks is the last one of the queue after it was sent, or finds
\* the queue full and leaves the last one what it was.
LEMMA AskingSent ==
  ASSUME TypeOK, NEW e, e.id \in Asking, Send(e), HasRoom \/ LastEventAsks
  PROVE  LastEventAsks'
<1>1. CASE HasRoom
  <2>1. events' = Append(events, e)
    BY <1>1 DEF Send
  <2>2. Len(events') = Len(events) + 1 /\ events'[Len(events) + 1] = e
    BY <2>1, AppendedEvents
  <2>3. events' # <<>>
    BY <2>1, <2>2 DEF TypeOK, QueueTypeOK
  <2> QED
    BY <2>2, <2>3 DEF LastEventAsks
<1>2. CASE ~HasRoom
  BY <1>2 DEF Send, LastEventAsks
<1> QED
  BY <1>1, <1>2

\* An empty queue has room.
LEMMA EmptyHasRoom ==
  ASSUME events = <<>>
  PROVE  HasRoom /\ ~LastEventAsks
BY ConstantsAssumption DEF ConstantsAssumption, HasRoom, LastEventAsks

\* What the callback sends asks.
LEMMA CallbackAsks ==
  ASSUME QueueBlock \/ QueueJobDocument
  PROVE  \E e : e.id \in Asking /\ Send(e)
<1>1. CASE QueueBlock
  BY <1>1 DEF QueueBlock, Asking
<1>2. CASE QueueJobDocument
  BY <1>2 DEF QueueJobDocument, Event, Asking
<1> QED
  BY <1>1, <1>2

LEMMA RoomStep ==
  ASSUME RetryInv, [Next]_vars
  PROVE  Room'
<1> USE DEF RetryInv, Retry
<1>1. CASE taskPc' \notin {"waitResume", "handle", "subscribe", "create"}
  BY <1>1 DEF Room
<1>2. CASE ReceiveEvent
  <2>1. /\ taskPc' = "handle" /\ events # <<>> /\ events' = Tail(events)
        /\ Len(Tail(events)) = Len(events) - 1 /\ Len(events) \in Nat
        /\ Len(events) <= QueueLength /\ QueueLength \in Nat
    BY <1>2, HeadEventTyped, ConstantsAssumption
       DEF ReceiveEvent, TypeInv, TypeOK, QueueTypeOK, ConstantsAssumption
  <2>2. Len(events') < QueueLength
    BY <2>1
  <2> QED
    BY <2>1, <2>2 DEF Room, HasRoom
<1>3. CASE ReceiveTimesOut
  <2>1. taskPc' = "waitResume" /\ UNCHANGED events /\ HasRoom
    BY <1>3, EmptyHasRoom DEF ReceiveTimesOut
  <2> QED
    BY <2>1 DEF Room, HasRoom
<1>4. CASE WaitForResume
  BY <1>4 DEF WaitForResume, Room, HasRoom, LastEventAsks
<1>5. CASE ParseJobDocument
  BY <1>5 DEF ParseJobDocument, Handling, Room, HasRoom, LastEventAsks
<1>6. CASE SubscribeStream
  BY <1>6 DEF SubscribeStream, jobVars, Room, HasRoom, LastEventAsks
<1>7. CASE QueueBlock \/ QueueJobDocument
  <2>1. UNCHANGED <<taskPc, globalJobId>>
    BY <1>7 DEF QueueBlock, QueueJobDocument, taskVars, jobVars
  <2>2. HasRoom \/ LastEventAsks => LastEventAsks'
    BY <1>7, CallbackAsks, AskingSent DEF TypeInv
  <2> QED
    BY <2>1, <2>2 DEF Room
<1>8. CASE UNCHANGED <<taskPc, events, jobDocBuffer, globalJobId>>
  BY <1>8 DEF Room, HasRoom, LastEventAsks
<1> QED
  BY <1>1, <1>2, <1>3, <1>4, <1>5, <1>6, <1>7, <1>8
     DEF Next, OtaTask, Callback, TaskSubscribeNotifyNext,
     RequestJobDocument, JobDocumentNotNew, CreateFile, SignatureUnreadable,
     ReportSuccess, DelayOver, RequestFileBlock, WriteBlock, WriteBlockFails,
     IgnoreBlock, CloseFile, ActivateImage, ActivateImageFails, TakeBuffer, DropBlock,
     LinkDrops, LinkComesUp, JobChanges, NotifyAgain, vars, taskVars, jobVars, Handled

\* A block comes to be outstanding when a job is parsed.
LEMMA OutstandingKept ==
  ASSUME RetryInv, [Next]_vars, Outstanding', ~ParseJobDocument
  PROVE  Outstanding
<1>1. numOfBlocksRemaining \in Nat
  BY ConstantsAssumption
     DEF ConstantsAssumption, RetryInv, TypeInv, TypeOK, ProgressTypeOK
<1>2. CASE UNCHANGED <<globalJobId, stream, running, numOfBlocksRemaining>>
  BY <1>2 DEF Outstanding
<1>3. CASE WriteBlock
  <2>1. /\ numOfBlocksRemaining' = numOfBlocksRemaining - 1
        /\ UNCHANGED <<globalJobId, stream, running>>
    BY <1>3 DEF WriteBlock, jobVars
  <2>2. numOfBlocksRemaining > 0
    BY <1>1, <2>1 DEF Outstanding
  <2> QED
    BY <2>1, <2>2 DEF Outstanding
<1>4. CASE ReportSuccess \/ ActivateImage
  BY <1>4 DEF ReportSuccess, ActivateImage, Outstanding
<1> QED
  BY <1>2, <1>3, <1>4
     DEF Next, OtaTask, Callback, TaskSubscribeNotifyNext, ReceiveEvent,
     ReceiveTimesOut, WaitForResume, RequestJobDocument, JobDocumentNotNew,
     SubscribeStream, CreateFile, SignatureUnreadable, DelayOver, RequestFileBlock,
     WriteBlockFails, IgnoreBlock, CloseFile, ActivateImageFails, TakeBuffer,
     QueueBlock, DropBlock, QueueJobDocument, LinkDrops, LinkComesUp, JobChanges,
     NotifyAgain, vars, jobVars, palVars, progressVars

\* While a block is outstanding the file does not verify.
LEMMA NotVerifiedYet ==
  ASSUME RetryInv, Outstanding
  PROVE  ~FileVerifies
<1> SUFFICES ASSUME FileVerifies PROVE FALSE
  OBVIOUS
<1>1. currentBlockOffset \in BlockIds
  BY ConstantsAssumption
     DEF ConstantsAssumption, RetryInv, TypeInv, TypeOK, ProgressTypeOK,
         BlocksAccountedFor, Outstanding, BlockIds
<1>2. file[currentBlockOffset] = Hole
  BY <1>1, ConstantsAssumption
     DEF ConstantsAssumption, BlockIds, RetryInv, Retry, Unwritten, FileVerifies
<1>3. jobFields.signature \in Jobs
  BY DEF FileVerifies, RetryInv, TypeInv, TypeOK, JobTypeOK, MaybeJob
<1>4. Block(jobFields.signature, currentBlockOffset) \in Messages
  BY <1>1, <1>3 DEF Block, Messages
<1> QED
  BY <1>1, <1>2, <1>4, HoleAssumption DEF HoleAssumption, FileVerifies

\* The last event stays the last one until it is taken.
LEMMA LastOfTail ==
  ASSUME events \in Seq(QueuedEvents), events # <<>>
  PROVE  IF Tail(events) = <<>>
            THEN Head(events) = events[Len(events)]
            ELSE Tail(events)[Len(Tail(events))] = events[Len(events)]
<1>1. /\ Len(events) \in Nat /\ Len(events) > 0 /\ Head(events) = events[1]
      /\ Tail(events) \in Seq(QueuedEvents)
      /\ Len(Tail(events)) = Len(events) - 1
      /\ \A i \in 1 .. Len(events) - 1 : Tail(events)[i] = events[i + 1]
  OBVIOUS
<1>2. Tail(events) = <<>> <=> Len(Tail(events)) = 0
  BY <1>1, EmptySeq
<1>3. Tail(events) = <<>> => Len(events) = 1
  BY <1>1, <1>2
<1>4. Tail(events) # <<>>
        => /\ Len(events) - 1 \in 1 .. Len(events) - 1
           /\ (Len(events) - 1) + 1 = Len(events)
  BY <1>1, <1>2
<1> QED
  BY <1>1, <1>3, <1>4

\* As long as a block is outstanding the last event asks.
LEMMA AskedStep ==
  ASSUME RetryInv, "create" \notin FaultKinds, [Next]_vars
  PROVE  Asked'
<1> SUFFICES ASSUME Outstanding'
             PROVE
        /\ taskPc' \in {"idle", "waitResume"} /\ events' = <<>>
              => lastRecvEventId' = "RequestFileBlock"
        /\ taskPc' = "handle" /\ events' = <<>> => current'.id \in Asking
        /\ taskPc' \in {"idle", "waitResume", "handle"} /\ events' # <<>>
              => LastEventAsks'
  BY DEF Asked
<1> USE DEF RetryInv, Retry
<1>1. CASE taskPc' \notin {"idle", "waitResume", "handle"}
  BY <1>1
<1>2. ASSUME ~ParseJobDocument
      PROVE  /\ Outstanding
             /\ taskPc \in {"idle", "waitResume"} /\ events = <<>>
                   => lastRecvEventId = "RequestFileBlock"
             /\ taskPc = "handle" /\ events = <<>> => current.id \in Asking
             /\ taskPc \in {"idle", "waitResume", "handle"} /\ events # <<>>
                   => LastEventAsks
  BY <1>2, OutstandingKept DEF Asked
<1>3. CASE LastEventAsks'
  BY <1>3 DEF LastEventAsks
<1>4. ASSUME ~ParseJobDocument PROVE jobDocBuffer # NoJob
  <2>1. globalJobId \in Jobs /\ running # globalJobId
    BY <1>2, <1>4 DEF Outstanding, TypeInv, TypeOK, JobTypeOK, MaybeJob
  <2> QED
    BY <2>1 DEF Remembered
<1>5. CASE TaskSubscribeNotifyNext \/ DelayOver
  <2>1. taskPc \in {"start", "delay"} /\ ~ParseJobDocument
    BY <1>5 DEF TaskSubscribeNotifyNext, DelayOver, ParseJobDocument, Handling
  <2> QED
    BY <1>2, <2>1 DEF TaskOrder, Outstanding
<1>6. CASE ReceiveEvent
  <2>1. /\ taskPc = "idle" /\ taskPc' = "handle" /\ events # <<>>
        /\ current' = Head(events) /\ events' = Tail(events)
        /\ events \in Seq(QueuedEvents) /\ ~ParseJobDocument
    BY <1>6 DEF ReceiveEvent, ParseJobDocument, Handling, TypeInv, TypeOK, QueueTypeOK
  <2>2. events[Len(events)].id \in Asking
    BY <1>2, <2>1 DEF LastEventAsks
  <2>3. /\ events' = <<>> => current' = events[Len(events)]
        /\ events' # <<>> => events'[Len(events')] = events[Len(events)]
    BY <2>1, LastOfTail
  <2> QED
    BY <1>3, <2>1, <2>2, <2>3 DEF LastEventAsks
<1>7. CASE ReceiveTimesOut \/ WaitForResume
  <2>1. /\ taskPc \in {"idle", "waitResume"} /\ ~ParseJobDocument
        /\ UNCHANGED <<events, lastRecvEventId>>
        /\ taskPc' = "handle" => current'.id = "RequestFileBlock"
        /\ ReceiveTimesOut => events = <<>>
    BY <1>7
       DEF ReceiveTimesOut, WaitForResume, ParseJobDocument, Handling, TaskOrder
  <2> QED
    BY <1>2, <2>1 DEF LastEventAsks, Asking
<1>8. CASE RequestJobDocument \/ CloseFile
  <2>1. /\ taskPc = "handle" /\ ~ParseJobDocument /\ current.id \notin Asking
    BY <1>8 DEF RequestJobDocument, CloseFile, Handling, ParseJobDocument, Asking
  <2>2. UNCHANGED events
    BY <1>2, <1>8, <2>1, NotVerifiedYet DEF RequestJobDocument, CloseFile
  <2> QED
    BY <1>2, <1>3, <2>1, <2>2 DEF LastEventAsks
<1>9. CASE JobDocumentNotNew
  <2>1. taskPc = "handle" /\ ~ParseJobDocument
    BY <1>9 DEF JobDocumentNotNew, Handling, ParseJobDocument
  <2>2. Send(Event("RequestFileBlock")) /\ Event("RequestFileBlock").id \in Asking
    BY <1>4, <1>9, <2>1 DEF JobDocumentNotNew, Event, Asking
  <2>3. HasRoom \/ LastEventAsks
    BY <2>1 DEF Room
  <2> QED
    BY <1>3, <2>2, <2>3, AskingSent DEF TypeInv
<1>10. CASE CreateFile /\ taskPc' = "idle"
  <2>1. /\ taskPc = "create" /\ Send(Event("RequestFileBlock"))
        /\ Event("RequestFileBlock").id \in Asking
    BY <1>10 DEF CreateFile, Event, Asking
  <2>2. HasRoom \/ LastEventAsks
    BY <2>1 DEF Room
  <2> QED
    BY <1>3, <2>1, <2>2, AskingSent DEF TypeInv
<1>11. CASE SignatureUnreadable
  <2>1. /\ taskPc = "create" /\ ~ParseJobDocument /\ SignatureRead # jobFields.job
        /\ UNCHANGED events
    BY <1>11 DEF SignatureUnreadable, ParseJobDocument, Handling
  <2>2. jobDocBuffer \notin {NoJob, globalJobId}
    BY <2>1 DEF SignatureRead, TaskOrder
  <2> QED
    BY <1>3, <2>1, <2>2 DEF Room, LastEventAsks
<1>12. CASE RequestFileBlock
  <2>1. /\ taskPc = "handle" /\ ~ParseJobDocument /\ taskPc' = "idle"
        /\ lastRecvEventId' = "RequestFileBlock"
        /\ UNCHANGED events \/ Send(Event("RequestFileBlock"))
        /\ Event("RequestFileBlock").id \in Asking
    BY <1>12
       DEF RequestFileBlock, Handling, Handled, ParseJobDocument, TaskOrder, Event,
           Asking
  <2>2. CASE UNCHANGED events
    BY <1>2, <2>1, <2>2 DEF LastEventAsks
  <2>3. CASE Send(Event("RequestFileBlock"))
    BY <1>3, <2>1, <2>3, AskingSent DEF TypeInv, Room
  <2> QED
    BY <2>1, <2>2, <2>3
<1>13. CASE WriteBlock \/ WriteBlockFails \/ IgnoreBlock
  <2>1. taskPc = "handle" /\ AfterBlock(numOfBlocksRemaining')
    BY <1>13 DEF WriteBlock, WriteBlockFails, IgnoreBlock, Handling, progressVars
  <2>2. numOfBlocksRemaining' # 0
    BY DEF Outstanding
  <2>3. Send(Event("RequestFileBlock")) /\ Event("RequestFileBlock").id \in Asking
    BY <2>1, <2>2 DEF AfterBlock, Event, Asking
  <2> QED
    BY <1>3, <2>1, <2>3, AskingSent DEF TypeInv, Room
<1>14. CASE QueueBlock \/ QueueJobDocument
  <2>1. UNCHANGED taskVars
    BY <1>14 DEF QueueBlock, QueueJobDocument
  <2>2. ~ParseJobDocument \/ taskPc' = "subscribe"
    BY DEF ParseJobDocument
  <2>3. HasRoom \/ LastEventAsks => LastEventAsks'
    BY <1>14, CallbackAsks, AskingSent DEF TypeInv
  <2>4. CASE events = <<>>
    BY <1>3, <2>3, <2>4, EmptyHasRoom
  <2>5. CASE events # <<>> /\ taskPc' \in {"idle", "waitResume", "handle"}
    BY <1>2, <1>3, <2>1, <2>2, <2>3, <2>5 DEF taskVars
  <2> QED
    BY <1>1, <2>4, <2>5
<1>15. CASE UNCHANGED <<taskVars, events>>
  BY <1>1, <1>2, <1>15 DEF taskVars, LastEventAsks, ParseJobDocument
<1>16. CASE ParseJobDocument \/ SubscribeStream \/ ReportSuccess \/ ActivateImage
            \/ ActivateImageFails
  BY <1>1, <1>16
     DEF ParseJobDocument, SubscribeStream, ReportSuccess, ActivateImage,
         ActivateImageFails
<1> QED
  BY <1>1, <1>5, <1>6, <1>7, <1>8, <1>9, <1>10, <1>11, <1>12, <1>13, <1>14, <1>15, <1>16
     DEF Next, OtaTask, Callback, CreateFile, Handled, TakeBuffer, DropBlock,
     LinkDrops, LinkComesUp, JobChanges, NotifyAgain, vars

LEMMA RetryInit == Init => RetryInv
<1> SUFFICES ASSUME Init PROVE RetryInv
  OBVIOUS
<1>1. TypeInv /\ PositionInv
  BY InitTyped, PositionInit
<1>2. Remembered /\ OnlyRunning
  BY ConstantsAssumption
     DEF ConstantsAssumption, Init, Remembered, OnlyRunning
<1>3. HadOffer /\ TaskOrder /\ Unwritten
  BY DEF Init, HadOffer, TaskOrder, Unwritten, ZeroedFields, NoEvent
<1>4. Room /\ Asked
  BY DEF Init, Room, Asked, Outstanding
<1> QED
  BY <1>1, <1>2, <1>3, <1>4 DEF RetryInv, Retry

LEMMA RetryStep ==
  ASSUME "create" \notin FaultKinds
  PROVE  RetryInv /\ [Next]_vars => RetryInv'
<1> SUFFICES ASSUME RetryInv, [Next]_vars PROVE RetryInv'
  OBVIOUS
<1>1. TypeInv' /\ PositionInv'
  BY TypeStep, PositionStep DEF RetryInv
<1>2. Retry'
  BY HeardStep, HadOfferStep, TaskOrderStep, UnwrittenStep, RoomStep, AskedStep
     DEF Retry
<1> QED
  BY <1>1, <1>2 DEF RetryInv

\* While a block is outstanding something brings the next one, whatever is lost,
\* repeated, late or not written, as long as no file fails to be created: a job
\* whose file could not be created is reported as done and then forgotten by the
\* cloud, and the empty answer to the next start-next request ends the download
\* that a late repetition of its document has started.
THEOREM OutstandingBlockIsRetried ==
  ASSUME "create" \notin FaultKinds
  PROVE  Spec => []OutstandingBlockRetried
<1>1. RetryInv => OutstandingBlockRetried
  <2> SUFFICES ASSUME RetryInv, NEW j \in Jobs, Downloading(j),
                      numOfBlocksRemaining > 0, taskPc = "idle", events = <<>>
               PROVE  lastRecvEventId = "RequestFileBlock"
    BY DEF OutstandingBlockRetried
  <2>1. Outstanding
    BY ConstantsAssumption DEF ConstantsAssumption, Downloading, Outstanding
  <2> QED
    BY <2>1 DEF RetryInv, Retry, Asked
<1> QED
  BY RetryInit, RetryStep, <1>1, PTL DEF Spec
=============================================================================
