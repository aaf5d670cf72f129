--------------------------- MODULE WagerLedgerProofs ---------------------------
(*****************************************************************************)
(* Theorems about WagerLedger, for any number of requests, workers and       *)
(* wallets, any inputs, any retry limit and any number of lost connections.  *)
(*                                                                           *)
(* The first part is about money and snapshots.  Its inductive invariant is  *)
(* IInv.  LedgerReconciles alone is not inductive: a settlement that commits *)
(* must know that the row its snapshot shows is the current one.             *)
(* SnapshotsSound says why it is: the version check made it so when the row  *)
(* lock was taken, and nobody else holds that lock.                          *)
(*                                                                           *)
(* The second part is about the rows.  KInv adds to IInv what a session      *)
(* knows of the rows it has read, and who holds which row, so that the       *)
(* moment of a commit can be compared with the moments of the reads.  Most   *)
(* of it only looks at facts the database never takes back (Grows): those    *)
(* survive the steps of all other sessions.  What could be taken back is     *)
(* held by a lock: Locks.                                                    *)
(*****************************************************************************)
EXTENDS WagerLedger, SequenceTheorems, TLAPS

\* The inductive invariant that the others start from.
IInv == TypeOK /\ LedgerReconciles /\ SnapshotsCurrent /\ RowsHaveWallets

--------------------------------------------------------------------------------
(* The operators the machine is built from.                                 *)

\* A decision to settle keeps the balance between zero and MaxMinor, and every
\* decision is one the plan can hold (wallet.go:107-148).
LEMMA DecisionFits ==
    ASSUME NEW in, in.amount \in Amounts, NEW refKind, NEW balance \in Amounts
    PROVE  /\ Decision(in, refKind, balance).do \in {"settle", "loss", "reject", "overflow"}
           /\ Decision(in, refKind, balance).code \in Failures
           /\ Decision(in, refKind, balance).do = "settle" =>
                Applied(Direction(in.kind, refKind), balance, in.amount) \in Amounts
  <1> DEFINE dir == Direction(in.kind, refKind)
  <1> SUFFICES ASSUME NEW d, d = Decision(in, refKind, balance)
               PROVE  /\ d.do \in {"settle", "loss", "reject", "overflow"}
                      /\ d.code \in Failures
                      /\ d.do = "settle" => Applied(dir, balance, in.amount) \in Amounts
    OBVIOUS
  <1>0. d = Decision(in, refKind, balance)
    OBVIOUS
  <1>1. in.amount \in Int /\ in.amount >= 0 /\ balance \in Int /\ 0 <= balance
        /\ balance <= MaxMinor /\ MaxMinor \in Int
    BY MaxMinorAssumption DEF Amounts
  <1>2. dir \in {"DEBIT", "CREDIT"}
    BY DEF Direction
  <1>3. InsufficientCode(in.kind) \in Failures
    BY DEF InsufficientCode, Failures, FailureCodes
  <1>4. CASE in.kind = "LOSS"
    <2>1. d.do = "loss" /\ d.code = NoFailure
      BY <1>0, <1>4 DEF Decision
    <2> QED
      BY <2>1 DEF Failures, NoFailure
  <1>5. CASE in.kind # "LOSS" /\ dir = "DEBIT" /\ ~ Covered(balance, in.amount)
    <2>1. d.do = "reject" /\ d.code = InsufficientCode(in.kind)
      BY <1>0, <1>5 DEF Decision
    <2> QED
      BY <2>1, <1>3
  <1>6. CASE in.kind # "LOSS" /\ dir = "CREDIT" /\ Overflows(balance, in.amount)
    <2>1. d.do = "overflow" /\ d.code = NoFailure
      BY <1>0, <1>6 DEF Decision
    <2> QED
      BY <2>1 DEF Failures, NoFailure
  <1>7. CASE in.kind # "LOSS" /\ dir = "DEBIT" /\ Covered(balance, in.amount)
    <2>1. d.do = "settle" /\ d.code = NoFailure
      BY <1>0, <1>7 DEF Decision
    <2>2. Applied(dir, balance, in.amount) \in Amounts
      BY <1>1, <1>7 DEF Applied, Covered, Amounts
    <2> QED
      BY <2>1, <2>2 DEF Failures, NoFailure
  <1>8. CASE in.kind # "LOSS" /\ dir = "CREDIT" /\ ~ Overflows(balance, in.amount)
    <2>1. d.do = "settle" /\ d.code = NoFailure
      BY <1>0, <1>8 DEF Decision
    <2>2. Applied(dir, balance, in.amount) \in Amounts
      BY <1>1, <1>8 DEF Applied, Overflows, Amounts
    <2> QED
      BY <2>1, <2>2 DEF Failures, NoFailure
  <1> QED
    BY <1>2, <1>4, <1>5, <1>6, <1>7, <1>8

\* The inputs carry what the types need.
LEMMA InputsTyped ==
    ASSUME TypeOK, NEW r \in Requests
    PROVE  input[r].wallet \in Wallets /\ input[r].amount \in Amounts
  BY InputsAssumption DEF TypeOK, Amounts

\* Answers that carry no row are answers.
LEMMA ErrorsTyped ==
    ASSUME NEW code \in Codes
    PROVE  ErrorReply(code) \in ReplyRecords
  BY DEF ErrorReply, Reply, ReplyRecords, Null, Failures, NoFailure

\* A session that is not waiting works on a row.
LEMMA TaskTyped ==
    ASSUME TypeOK, NEW p \in Sessions, pc[p] # "idle"
    PROVE  task[p] \in Requests
  BY DEF TypeOK, SessionsTypeOK, Sessions

--------------------------------------------------------------------------------
(* The ways a session moves keep its type.                                   *)

\* A session that ends its call keeps every variable typed (txmanager.go:20-34).
LEMMA ClosesTyped ==
    ASSUME TypeOK, NEW p \in Sessions, NEW rep \in ReplyRecords, Closes(p, rep)
    PROVE  SessionsTypeOK'
  <1>1. NoWallet \in WalletRows /\ NoPlan \in PlanRecords
    BY MaxMinorAssumption DEF NoWallet, WalletRows, Amounts, NoPlan, PlanRecords, Failures, NoFailure
  <1>2. (IF p \in Requests THEN "done" ELSE "idle") \in RequestPcs \cup WorkerPcs
    BY DEF RequestPcs, WorkerPcs
  <1>3. pc' \in [Sessions -> RequestPcs \cup WorkerPcs]
    BY <1>2 DEF TypeOK, SessionsTypeOK, Closes, Leaves
  <1>4. task' \in [Sessions -> Requests \cup {None}]
    BY DEF TypeOK, SessionsTypeOK, Closes, Leaves
  <1>5. \A r \in Requests : pc'[r] \in RequestPcs /\ task'[r] = r
    BY DEF TypeOK, SessionsTypeOK, Closes, Leaves, Sessions, RequestPcs
  <1>6. \A q \in Workers : pc'[q] \in WorkerPcs /\ (task'[q] = None <=> pc'[q] = "idle")
    BY SessionsAssumption DEF TypeOK, SessionsTypeOK, Closes, Leaves, Sessions, WorkerPcs
  <1>7. snap' \in [Sessions -> WalletRows] /\ plan' \in [Sessions -> PlanRecords]
    BY <1>1 DEF TypeOK, SessionsTypeOK, Closes, Leaves
  <1>8. tries' \in [Requests -> 0..(MaxRetries - 1)] /\ reply' \in [Requests -> ReplyRecords]
    BY DEF TypeOK, SessionsTypeOK, Closes, Leaves
  <1> QED
    BY <1>3, <1>4, <1>5, <1>6, <1>7, <1>8 DEF SessionsTypeOK

\* The retry loop of Execute keeps every variable typed, the counter included.
LEMMA RunsAgainTyped ==
    ASSUME TypeOK, NEW p \in Sessions, RunsAgain(p)
    PROVE  SessionsTypeOK'
  <1>1. CASE p \in Requests /\ tries[p] + 1 < MaxRetries
    <2>1. Leaves(p, "byKey", reply[p]) /\ tries' = [tries EXCEPT ![p] = @ + 1]
      BY <1>1 DEF RunsAgain
    <2>2. NoWallet \in WalletRows /\ NoPlan \in PlanRecords
      BY MaxMinorAssumption DEF NoWallet, WalletRows, Amounts, NoPlan, PlanRecords, Failures, NoFailure
    <2>3. pc' \in [Sessions -> RequestPcs \cup WorkerPcs]
      BY <2>1 DEF TypeOK, SessionsTypeOK, Leaves, RequestPcs
    <2>4. task' \in [Sessions -> Requests \cup {None}]
      BY <2>1 DEF TypeOK, SessionsTypeOK, Leaves
    <2>5. \A r \in Requests : pc'[r] \in RequestPcs /\ task'[r] = r
      BY <2>1 DEF TypeOK, SessionsTypeOK, Leaves, Sessions, RequestPcs
    <2>6. \A q \in Workers : pc'[q] \in WorkerPcs /\ (task'[q] = None <=> pc'[q] = "idle")
      BY <1>1, <2>1, SessionsAssumption DEF TypeOK, SessionsTypeOK, Leaves, Sessions
    <2>7. snap' \in [Sessions -> WalletRows] /\ plan' \in [Sessions -> PlanRecords]
      BY <2>1, <2>2 DEF TypeOK, SessionsTypeOK, Leaves
    <2>8. tries' \in [Requests -> 0..(MaxRetries - 1)]
      BY <1>1, <2>1, BoundsAssumption DEF TypeOK, SessionsTypeOK
    <2>9. reply' \in [Requests -> ReplyRecords]
      BY <1>1, <2>1 DEF TypeOK, SessionsTypeOK, Leaves
    <2> QED
      BY <2>3, <2>4, <2>5, <2>6, <2>7, <2>8, <2>9 DEF SessionsTypeOK
  <1>2. CASE ~ (p \in Requests /\ tries[p] + 1 < MaxRetries)
    <2>1. Closes(p, ErrorReply("tooManyRetries"))
      BY <1>2 DEF RunsAgain
    <2>2. ErrorReply("tooManyRetries") \in ReplyRecords
      BY ErrorsTyped DEF Codes
    <2> QED
      BY <2>1, <2>2, ClosesTyped
  <1> QED
    BY <1>1, <1>2

\* Recording what a session will commit keeps every variable typed.
LEMMA PlansTyped ==
    ASSUME TypeOK, NEW p \in Sessions, pc[p] # "idle",
           NEW label, p \in Requests => label \in RequestPcs,
           p \in Workers => label \in WorkerPcs \ {"idle"},
           NEW do \in {"none", "settle", "loss", "reject", "pend", "retry"},
           NEW code \in Failures, NEW ref \in Requests \cup {None},
           Plans(p, label, do, code, ref)
    PROVE  SessionsTypeOK'
  <1>1. pc' \in [Sessions -> RequestPcs \cup WorkerPcs]
    BY DEF TypeOK, SessionsTypeOK, Plans, Sessions
  <1>2. plan' \in [Sessions -> PlanRecords]
    BY DEF TypeOK, SessionsTypeOK, Plans, PlanRecords
  <1>3. \A r \in Requests : pc'[r] \in RequestPcs /\ task'[r] = r
    BY DEF TypeOK, SessionsTypeOK, Plans, Sessions
  <1>4. \A q \in Workers : pc'[q] \in WorkerPcs /\ (task'[q] = None <=> pc'[q] = "idle")
    BY SessionsAssumption DEF TypeOK, SessionsTypeOK, Plans, Sessions
  <1> QED
    BY <1>1, <1>2, <1>3, <1>4 DEF TypeOK, SessionsTypeOK, Plans

--------------------------------------------------------------------------------
(* A step of one session that writes no wallet keeps every snapshot sound, if  *)
(* it leaves its own sound and takes no lock that is held.                     *)

\* A step of one session that leaves the rows alone keeps what the others rely on.
LEMMA Undisturbed ==
    ASSUME SnapshotsCurrent, NEW p \in Sessions, UNCHANGED << input, wallets >>,
           \A q \in Sessions \ {p} : /\ pc'[q] = pc[q] /\ task'[q] = task[q]
                                     /\ snap'[q] = snap[q] /\ plan'[q] = plan[q],
           SnapshotHonest(p)', PlanSound(p)', HolderCurrent(p)',
           \A q \in Sessions \ {p} : \A w \in Wallets :
                HoldsWallet(p, w)' => ~ HoldsWallet(q, w)
    PROVE  SnapshotsCurrent'
  <1>1. ASSUME NEW q \in Sessions
        PROVE  (SnapshotHonest(q) /\ PlanSound(q) /\ HolderCurrent(q))'
    <2>1. CASE q = p
      BY <2>1
    <2>2. CASE q # p
      <3>1. SnapshotHonest(q) /\ PlanSound(q) /\ HolderCurrent(q)
        BY DEF SnapshotsCurrent
      <3>2. SnapshotHonest(q)'
        BY <2>2, <3>1 DEF SnapshotHonest, Asked
      <3>3. PlanSound(q)'
        BY <2>2, <3>1 DEF PlanSound, MovedBalance, MoveOf, RefKind, Asked
      <3>4. HolderCurrent(q)'
        BY <2>2, <3>1 DEF HolderCurrent, Asked
      <3> QED
        BY <3>2, <3>3, <3>4
    <2> QED
      BY <2>1, <2>2
  <1>2. OneHolder'
    <2> SUFFICES ASSUME NEW q \in Sessions, NEW o \in Sessions, NEW w \in Wallets,
                        HoldsWallet(q, w)', HoldsWallet(o, w)'
                 PROVE  q = o
      BY DEF OneHolder
    <2>1. \A u \in Sessions \ {p} : HoldsWallet(u, w)' => HoldsWallet(u, w)
      BY DEF HoldsWallet, Asked
    <2>2. CASE q # p /\ o # p
      BY <2>1, <2>2 DEF SnapshotsCurrent, OneHolder
    <2>3. CASE q = p \/ o = p
      BY <2>1, <2>3
    <2> QED
      BY <2>2, <2>3
  <1> QED
    BY <1>1, <1>2 DEF SnapshotsCurrent

\* A session that ends holds no snapshot, so it keeps the snapshots sound.
LEMMA ClosesSound ==
    ASSUME TypeOK, SnapshotsCurrent, NEW p \in Sessions, NEW rep, Closes(p, rep),
           UNCHANGED << input, wallets >>
    PROVE  SnapshotsCurrent'
  <1>1. pc'[p] \in {"done", "idle"}
    BY DEF TypeOK, SessionsTypeOK, Closes, Leaves
  <1>2. \A q \in Sessions \ {p} : /\ pc'[q] = pc[q] /\ task'[q] = task[q]
                                  /\ snap'[q] = snap[q] /\ plan'[q] = plan[q]
    BY DEF TypeOK, SessionsTypeOK, Closes, Leaves
  <1>3. SnapshotHonest(p)' /\ PlanSound(p)' /\ HolderCurrent(p)'
    BY <1>1 DEF SnapshotHonest, PlanSound, HolderCurrent, Reading
  <1>4. \A w \in Wallets : ~ HoldsWallet(p, w)'
    BY <1>1 DEF HoldsWallet
  <1> QED
    BY <1>2, <1>3, <1>4, Undisturbed

\* An attempt that starts over drops its snapshot, so the snapshots stay sound.
LEMMA RunsAgainSound ==
    ASSUME TypeOK, SnapshotsCurrent, NEW p \in Sessions, RunsAgain(p),
           UNCHANGED << input, wallets >>
    PROVE  SnapshotsCurrent'
  <1>1. CASE p \in Requests /\ tries[p] + 1 < MaxRetries
    <2>1. Leaves(p, "byKey", reply[p])
      BY <1>1 DEF RunsAgain
    <2>2. pc'[p] = "byKey"
      BY <2>1 DEF TypeOK, SessionsTypeOK, Leaves
    <2>3. \A q \in Sessions \ {p} : /\ pc'[q] = pc[q] /\ task'[q] = task[q]
                                    /\ snap'[q] = snap[q] /\ plan'[q] = plan[q]
      BY <2>1 DEF TypeOK, SessionsTypeOK, Leaves
    <2>4. SnapshotHonest(p)' /\ PlanSound(p)' /\ HolderCurrent(p)'
      BY <2>2 DEF SnapshotHonest, PlanSound, HolderCurrent, Reading
    <2>5. \A w \in Wallets : ~ HoldsWallet(p, w)'
      BY <2>2 DEF HoldsWallet
    <2> QED
      BY <2>3, <2>4, <2>5, Undisturbed
  <1>2. CASE ~ (p \in Requests /\ tries[p] + 1 < MaxRetries)
    BY <1>2, ClosesSound DEF RunsAgain
  <1> QED
    BY <1>1, <1>2

\* A plan other than a settlement about to commit keeps the snapshots sound.
LEMMA PlansSound ==
    ASSUME TypeOK, SnapshotsCurrent, NEW p \in Sessions,
           NEW label, label # "save", label \in Reading => pc[p] \in Reading,
           NEW do, label = "commit" => do \notin {"none", "settle"},
           NEW code, NEW ref, Plans(p, label, do, code, ref),
           UNCHANGED << input, wallets >>
    PROVE  SnapshotsCurrent'
  <1>1. /\ pc'[p] = label /\ plan'[p] = [do |-> do, code |-> code, ref |-> ref]
        /\ snap'[p] = snap[p] /\ task'[p] = task[p]
    BY DEF TypeOK, SessionsTypeOK, Plans
  <1>2. plan'[p].do = do
    BY <1>1
  <1>3. \A q \in Sessions \ {p} : /\ pc'[q] = pc[q] /\ task'[q] = task[q]
                                  /\ snap'[q] = snap[q] /\ plan'[q] = plan[q]
    BY DEF TypeOK, SessionsTypeOK, Plans
  <1>4. SnapshotHonest(p)'
    BY <1>1 DEF SnapshotsCurrent, SnapshotHonest, Asked
  <1>5. PlanSound(p)' /\ HolderCurrent(p)'
    BY <1>1, <1>2 DEF PlanSound, HolderCurrent
  <1>6. \A w \in Wallets : ~ HoldsWallet(p, w)'
    BY <1>1, <1>2 DEF HoldsWallet
  <1> QED
    BY <1>3, <1>4, <1>5, <1>6, Undisturbed

\* The decision, with every reference read: what is settled later was found to
\* fit the balance of the snapshot.
LEMMA DecidesOK ==
    ASSUME TypeOK, SnapshotsCurrent, NEW p \in Sessions, pc[p] \in Reading,
           NEW ref \in Requests \cup {None}, Decides(p, ref),
           UNCHANGED << input, wallets >>
    PROVE  SessionsTypeOK' /\ SnapshotsCurrent'
  <1> DEFINE refKind == RefKind(ref)
             do      == Decision(Asked(p), refKind, snap[p].balance).do
             code    == Decision(Asked(p), refKind, snap[p].balance).code
             label   == IF do = "settle" THEN "save" ELSE "commit"
  <1>0. pc[p] # "idle" /\ task[p] \in Requests
    BY TaskTyped DEF Reading
  <1>1. Asked(p).amount \in Amounts /\ snap[p].balance \in Amounts
    BY <1>0, InputsTyped DEF Asked, TypeOK, SessionsTypeOK, WalletRows
  <1>2. /\ do \in {"settle", "loss", "reject", "overflow"} /\ code \in Failures
        /\ do = "settle" =>
              Applied(Direction(Asked(p).kind, refKind), snap[p].balance, Asked(p).amount)
                \in Amounts
    BY <1>1, DecisionFits
  <1>3. CASE do = "overflow"
    <2>1. Closes(p, ErrorReply("overflow"))
      BY <1>3 DEF Decides
    <2>2. ErrorReply("overflow") \in ReplyRecords
      BY ErrorsTyped DEF Codes
    <2> QED
      BY <2>1, <2>2, ClosesTyped, ClosesSound
  <1>4. CASE do # "overflow"
    <2>1. Plans(p, label, do, code, ref)
      BY <1>4 DEF Decides
    <2> HIDE DEF do, code
    <2>2. SessionsTypeOK'
      BY <1>0, <1>2, <1>4, <2>1, PlansTyped DEF RequestPcs, WorkerPcs
    <2>3. CASE do # "settle"
      <3>1. Plans(p, "commit", do, code, ref)
        BY <2>1, <2>3
      <3>2. do \notin {"none", "settle"}
        BY <1>2, <2>3
      <3>3. SnapshotsCurrent'
        BY <3>1, <3>2, PlansSound
      <3> QED
        BY <2>2, <3>3
    <2>4. CASE do = "settle"
      <3>1. /\ pc'[p] = "save" /\ plan'[p] = [do |-> do, code |-> code, ref |-> ref]
            /\ snap'[p] = snap[p] /\ task'[p] = task[p]
        BY <2>1, <2>4 DEF TypeOK, SessionsTypeOK, Plans
      <3>2. plan'[p].do = "settle" /\ plan'[p].ref = ref
        BY <3>1, <2>4
      <3>3. SnapshotHonest(p)'
        BY <3>1 DEF SnapshotsCurrent, SnapshotHonest, Asked, Reading
      <3>4. PlanSound(p)' /\ HolderCurrent(p)'
        BY <1>2, <2>4, <3>1, <3>2
           DEF PlanSound, HolderCurrent, MovedBalance, MoveOf, Asked, RefKind
      <3>5. \A w \in Wallets : ~ HoldsWallet(p, w)'
        BY <3>1 DEF HoldsWallet
      <3>6. \A q \in Sessions \ {p} : /\ pc'[q] = pc[q] /\ task'[q] = task[q]
                                      /\ snap'[q] = snap[q] /\ plan'[q] = plan[q]
        BY <2>1 DEF TypeOK, SessionsTypeOK, Plans
      <3> QED
        BY <2>2, <3>3, <3>4, <3>5, <3>6, Undisturbed
    <2> QED
      BY <2>2, <2>3, <2>4
  <1> QED
    BY <1>3, <1>4

--------------------------------------------------------------------------------
(* The steps that write no committed row.                                    *)

\* A session that ends forgets its task, so tasks still name stored rows.
LEMMA ClosesKeepsTasks ==
    ASSUME TypeOK, NEW p \in Sessions, NEW rep, Closes(p, rep)
    PROVE  \A q \in Workers : task'[q] \in {task[q], None}
  BY DEF Closes, Leaves, TypeOK, SessionsTypeOK

\* A worker that keeps or drops its row keeps RowsHaveWallets.
LEMMA QuietStep ==
    ASSUME IInv, UNCHANGED << input, db, openReply >>, crashes' \in 0..MaxCrashes,
           SessionsTypeOK', SnapshotsCurrent',
           \A p \in Workers : task'[p] \in {task[p], None}
    PROVE  IInv'
  <1>1. TypeOK'
    BY DEF IInv, TypeOK, RowsTypeOK, db
  <1>2. LedgerReconciles'
    BY DEF IInv, LedgerReconciles, Chains, db
  <1>3. RowsHaveWallets'
    BY DEF IInv, RowsHaveWallets, Stored, IsOpen, db
  <1> QED
    BY <1>1, <1>2, <1>3 DEF IInv

\* Closing a call or a resumption.
LEMMA CloseStep ==
    ASSUME IInv, NEW p \in Sessions, NEW rep \in ReplyRecords, Closes(p, rep),
           UNCHANGED << input, db, openReply >>, crashes' \in 0..MaxCrashes
    PROVE  IInv'
  <1>1. SessionsTypeOK'
    BY ClosesTyped DEF IInv
  <1>2. SnapshotsCurrent'
    BY ClosesSound DEF IInv, db
  <1>3. \A q \in Workers : task'[q] \in {task[q], None}
    BY ClosesKeepsTasks DEF IInv
  <1> QED
    BY <1>1, <1>2, <1>3, QuietStep

\* Going on to a statement that settles nothing yet, or to a commit that moves
\* no money.
LEMMA PlanStep ==
    ASSUME IInv, NEW p \in Sessions, pc[p] # "idle",
           NEW label, p \in Requests => label \in RequestPcs,
           p \in Workers => label \in WorkerPcs \ {"idle"},
           label # "save", label \in Reading => pc[p] \in Reading,
           NEW do \in {"none", "settle", "loss", "reject", "pend", "retry"},
           label = "commit" => do \notin {"none", "settle"},
           NEW code \in Failures, NEW ref \in Requests \cup {None},
           Plans(p, label, do, code, ref),
           UNCHANGED << input, db, openReply, crashes >>
    PROVE  IInv'
  <1>1. SessionsTypeOK'
    BY PlansTyped DEF IInv
  <1>2. SnapshotsCurrent'
    BY PlansSound DEF IInv, db
  <1>3. \A q \in Workers : task'[q] \in {task[q], None}
    BY DEF Plans
  <1> QED
    BY <1>1, <1>2, <1>3, QuietStep DEF IInv, TypeOK

\* The switch on the kind (attempt, 354-414) keeps the invariant.
LEMMA DecideStep ==
    ASSUME IInv, NEW p \in Sessions, pc[p] \in Reading,
           NEW ref \in Requests \cup {None}, Decides(p, ref),
           UNCHANGED << input, db, openReply, crashes >>
    PROVE  IInv'
  <1>1. SessionsTypeOK' /\ SnapshotsCurrent'
    BY DecidesOK DEF IInv, db
  <1>2. \A q \in Workers : task'[q] \in {task[q], None}
    <2>1. \/ Closes(p, ErrorReply("overflow"))
          \/ UNCHANGED task
      BY DEF Decides, Plans
    <2> QED
      BY <2>1, ClosesKeepsTasks DEF IInv
  <1> QED
    BY <1>1, <1>2, QuietStep DEF IInv, TypeOK

\* Running the attempt again (Execute, 112-137) keeps the invariant.
LEMMA RetryStep ==
    ASSUME IInv, NEW p \in Sessions, RunsAgain(p),
           UNCHANGED << input, db, openReply, crashes >>
    PROVE  IInv'
  <1>1. SessionsTypeOK' /\ SnapshotsCurrent'
    BY RunsAgainTyped, RunsAgainSound DEF IInv, db
  <1>2. \A q \in Workers : task'[q] \in {task[q], None}
    <2>1. \/ Closes(p, ErrorReply("tooManyRetries"))
          \/ p \in Requests /\ Leaves(p, "byKey", reply[p])
      BY DEF RunsAgain
    <2>2. CASE p \in Requests /\ Leaves(p, "byKey", reply[p])
      BY <2>2 DEF Leaves, IInv, TypeOK, SessionsTypeOK
    <2> QED
      BY <2>1, <2>2, ClosesKeepsTasks DEF IInv
  <1> QED
    BY <1>1, <1>2, QuietStep DEF IInv, TypeOK

\* A session whose pc alone moves, or with its snapshot or its draft answer.
LEMMA ReplayStep ==
    ASSUME IInv, NEW r \in Requests, pc[r] \notin Reading, NEW t \in Stored, Replays(r, t),
           UNCHANGED << input, db, openReply, crashes >>
    PROVE  IInv'
  <1> DEFINE rep == Reply("ok", t, txs[t].status, txs[t].failure, txs[t].result, TRUE)
  <1>1. txs[t] \in Rows /\ t \in Requests
    BY DEF IInv, TypeOK, RowsTypeOK, Stored, TxIds
  <1>2. rep \in ReplyRecords
    BY <1>1 DEF Reply, ReplyRecords, Codes, Rows
  <1>3. CASE txs[t].result # Null
    BY <1>2, <1>3, CloseStep DEF Replays, Sessions, IInv, TypeOK
  <1>4. CASE txs[t].result = Null
    <2>1. /\ pc' = [pc EXCEPT ![r] = "replay"]
          /\ reply' = [reply EXCEPT ![r] = [rep EXCEPT !.code = "draft"]]
          /\ UNCHANGED << task, snap, plan, tries >>
      BY <1>4 DEF Replays
    <2>2. [rep EXCEPT !.code = "draft"] \in ReplyRecords
      BY <1>2 DEF ReplyRecords, Codes
    <2>3. SessionsTypeOK'
      <3>1. pc' \in [Sessions -> RequestPcs \cup WorkerPcs]
        BY <2>1 DEF IInv, TypeOK, SessionsTypeOK, RequestPcs
      <3>2. reply' \in [Requests -> ReplyRecords]
        BY <2>1, <2>2 DEF IInv, TypeOK, SessionsTypeOK
      <3>3. \A q \in Requests : pc'[q] \in RequestPcs /\ task'[q] = q
        BY <2>1 DEF IInv, TypeOK, SessionsTypeOK, RequestPcs, Sessions
      <3>4. \A q \in Workers : pc'[q] \in WorkerPcs /\ (task'[q] = None <=> pc'[q] = "idle")
        BY <2>1, SessionsAssumption DEF IInv, TypeOK, SessionsTypeOK, Sessions
      <3> QED
        BY <2>1, <3>1, <3>2, <3>3, <3>4 DEF IInv, TypeOK, SessionsTypeOK
    <2>4. SnapshotsCurrent'
      <3>1. pc'[r] = "replay"
        BY <2>1 DEF IInv, TypeOK, SessionsTypeOK, Sessions
      <3>2. SnapshotHonest(r)' /\ PlanSound(r)' /\ HolderCurrent(r)'
        BY <3>1 DEF SnapshotHonest, PlanSound, HolderCurrent, Reading
      <3>3. \A w \in Wallets : ~ HoldsWallet(r, w)'
        BY <3>1 DEF HoldsWallet
      <3>4. \A q \in Sessions \ {r} : /\ pc'[q] = pc[q] /\ task'[q] = task[q]
                                      /\ snap'[q] = snap[q] /\ plan'[q] = plan[q]
        BY <2>1 DEF IInv, TypeOK, SessionsTypeOK
      <3> QED
        BY <3>2, <3>3, <3>4, Undisturbed DEF IInv, Sessions, db
    <2> QED
      BY <2>1, <2>3, <2>4, QuietStep DEF IInv, TypeOK
  <1> QED
    BY <1>3, <1>4

--------------------------------------------------------------------------------
(* One lemma per action that only reads, or only moves its session.           *)

\* Refusing an unsupported kind keeps the invariant.
LEMMA RefuseKindStep ==
    ASSUME IInv, NEW r \in Requests, RefuseKind(r)
    PROVE  IInv'
  <1>1. ErrorReply("unsupportedKind") \in ReplyRecords
    BY ErrorsTyped DEF Codes
  <1>2. /\ Closes(r, ErrorReply("unsupportedKind"))
        /\ UNCHANGED << input, db, openReply >> /\ crashes' \in 0..MaxCrashes
    BY DEF RefuseKind, IInv, TypeOK
  <1> QED
    BY <1>1, <1>2, CloseStep DEF Sessions

\* What both lookups of resolveExisting do: go on, or answer from a row they found.
LEMMA LookupStep ==
    ASSUME IInv, NEW r \in Requests, pc[r] \in {"byKey", "byOp"},
           NEW label \in {"byOp", "wallet"},
           \/ Plans(r, label, "none", NoFailure, None)
           \/ \E t \in Stored : Replays(r, t)
           \/ Closes(r, ErrorReply("conflict")),
           UNCHANGED << input, db, openReply, crashes >>
    PROVE  IInv'
  <1>0. r \in Sessions /\ r \notin Workers /\ crashes' \in 0..MaxCrashes
    BY SessionsAssumption DEF Sessions, IInv, TypeOK
  <1>1. CASE Plans(r, label, "none", NoFailure, None)
    <2>1. /\ pc[r] # "idle" /\ label \in RequestPcs
          /\ label \notin Reading /\ label \notin {"save", "commit"}
      BY DEF RequestPcs, Reading
    <2>2. NoFailure \in Failures
      BY DEF Failures
    <2> QED
      BY <1>0, <1>1, <2>1, <2>2, PlanStep
  <1>2. CASE \E t \in Stored : Replays(r, t)
    BY <1>2, ReplayStep DEF Reading
  <1>3. CASE Closes(r, ErrorReply("conflict"))
    BY <1>0, <1>3, ErrorsTyped, CloseStep DEF Codes
  <1> QED
    BY <1>1, <1>2, <1>3

\* The lookup by key of resolveExisting keeps the invariant.
LEMMA FindByKeyStep ==
    ASSUME IInv, NEW r \in Requests, FindByKey(r)
    PROVE  IInv'
  <1>1. pc[r] \in {"byKey", "byOp"} /\ UNCHANGED << input, db, openReply, crashes >>
    BY DEF FindByKey
  <1>2. \/ Plans(r, "byOp", "none", NoFailure, None)
        \/ \E t \in Stored : Replays(r, t)
        \/ Closes(r, ErrorReply("conflict"))
    BY DEF FindByKey
  <1> QED
    BY <1>1, <1>2, LookupStep

\* The lookup by operation of resolveExisting keeps the invariant.
LEMMA FindByOpStep ==
    ASSUME IInv, NEW r \in Requests, FindByOp(r)
    PROVE  IInv'
  <1>1. pc[r] \in {"byKey", "byOp"} /\ UNCHANGED << input, db, openReply, crashes >>
    BY DEF FindByOp
  <1>2. \/ Plans(r, "wallet", "none", NoFailure, None)
        \/ \E t \in Stored : Replays(r, t)
        \/ Closes(r, ErrorReply("conflict"))
    BY DEF FindByOp
  <1> QED
    BY <1>1, <1>2, LookupStep

\* A replay that reads the wallet of the day keeps the invariant.
LEMMA ReplayCurrentStep ==
    ASSUME IInv, NEW r \in Requests, ReplayCurrent(r)
    PROVE  IInv'
  <1> DEFINE rep == [reply[r] EXCEPT !.code = "ok",
                                     !.balance = wallets[input[r].wallet].balance]
  <1>1. wallets[input[r].wallet].balance \in Amounts
    BY InputsTyped DEF IInv, TypeOK, RowsTypeOK, WalletRows
  <1>2. reply[r] \in ReplyRecords
    BY DEF IInv, TypeOK, SessionsTypeOK
  <1>3. rep \in ReplyRecords
    BY <1>1, <1>2 DEF ReplyRecords, Codes
  <1>4. /\ Closes(r, rep) /\ UNCHANGED << input, db, openReply >>
        /\ crashes' \in 0..MaxCrashes
    BY DEF ReplayCurrent, IInv, TypeOK
  <1> QED
    BY <1>3, <1>4, CloseStep DEF Sessions

\* Reading the wallet: the snapshot is the row of this moment.
LEMMA ReadWalletStep ==
    ASSUME IInv, NEW p \in Sessions, NEW w \in Wallets, w = Asked(p).wallet,
           pc[p] # "idle", wallets[w].version > 0,
           NEW label, label \in {"insert", "reference"}, p \in Workers => label = "reference",
           snap' = [snap EXCEPT ![p] = wallets[w]],
           pc' = [pc EXCEPT ![p] = label],
           UNCHANGED << input, db, task, plan, tries, reply, openReply, crashes >>
    PROVE  IInv'
  <1>1. SessionsTypeOK'
    <2>1. pc' \in [Sessions -> RequestPcs \cup WorkerPcs]
      BY DEF IInv, TypeOK, SessionsTypeOK, RequestPcs
    <2>2. snap' \in [Sessions -> WalletRows]
      BY DEF IInv, TypeOK, RowsTypeOK, SessionsTypeOK
    <2>3. \A q \in Requests : pc'[q] \in RequestPcs /\ task'[q] = q
      BY DEF IInv, TypeOK, SessionsTypeOK, RequestPcs, Sessions
    <2>4. \A q \in Workers : pc'[q] \in WorkerPcs /\ (task'[q] = None <=> pc'[q] = "idle")
      BY DEF IInv, TypeOK, SessionsTypeOK, WorkerPcs, Sessions
    <2> QED
      BY <2>1, <2>2, <2>3, <2>4 DEF IInv, TypeOK, SessionsTypeOK
  <1>2. SnapshotsCurrent'
    <2>1. pc'[p] = label /\ snap'[p] = wallets[w] /\ Asked(p)' = Asked(p)
      BY DEF IInv, TypeOK, SessionsTypeOK, Asked
    <2>2. SnapshotHonest(p)'
      <3>1. wallets[w] \in WalletRows
        BY DEF IInv, TypeOK, RowsTypeOK
      <3> QED
        BY <2>1, <3>1 DEF SnapshotHonest, db, WalletRows
    <2>3. PlanSound(p)' /\ HolderCurrent(p)' /\ \A v \in Wallets : ~ HoldsWallet(p, v)'
      BY <2>1 DEF PlanSound, HolderCurrent, HoldsWallet
    <2>4. \A q \in Sessions \ {p} : /\ pc'[q] = pc[q] /\ task'[q] = task[q]
                                    /\ snap'[q] = snap[q] /\ plan'[q] = plan[q]
      BY DEF IInv, TypeOK, SessionsTypeOK
    <2> QED
      BY <2>2, <2>3, <2>4, Undisturbed DEF IInv, db
  <1> QED
    BY <1>1, <1>2, QuietStep DEF IInv, TypeOK

\* Reading the wallet takes a snapshot that is the current row.
LEMMA FindWalletStep ==
    ASSUME IInv, NEW r \in Requests, FindWallet(r)
    PROVE  IInv'
  <1> DEFINE w == input[r].wallet
  <1>0. r \in Sessions /\ r \notin Workers /\ w \in Wallets /\ Asked(r) = input[r]
    BY SessionsAssumption, InputsTyped DEF Sessions, IInv, Asked, TypeOK, SessionsTypeOK
  <1>1. pc[r] = "wallet" /\ UNCHANGED << input, db, openReply, crashes >>
    BY DEF FindWallet
  <1>2. \/ \E code \in {"walletNotFound", "playerMismatch", "invalid"} :
                Closes(r, ErrorReply(code))
        \/ /\ IsOpen(w)
           /\ snap' = [snap EXCEPT ![r] = wallets[w]]
           /\ pc' = [pc EXCEPT ![r] = "insert"]
           /\ UNCHANGED << task, plan, tries, reply >>
    BY DEF FindWallet
  <1>3. CASE \E code \in {"walletNotFound", "playerMismatch", "invalid"} :
                Closes(r, ErrorReply(code))
    <2>1. PICK code \in {"walletNotFound", "playerMismatch", "invalid"} :
                Closes(r, ErrorReply(code))
      BY <1>3
    <2>2. ErrorReply(code) \in ReplyRecords
      BY ErrorsTyped DEF Codes
    <2> QED
      BY <1>0, <1>1, <2>1, <2>2, CloseStep DEF IInv, TypeOK
  <1>4. CASE /\ IsOpen(w)
             /\ snap' = [snap EXCEPT ![r] = wallets[w]]
             /\ pc' = [pc EXCEPT ![r] = "insert"]
             /\ UNCHANGED << task, plan, tries, reply >>
    BY <1>0, <1>1, <1>4, ReadWalletStep DEF IsOpen
  <1> QED
    BY <1>2, <1>3, <1>4

\* The insert of the PENDING row, its wait and its conflicts keep the invariant.
LEMMA InsertStep ==
    ASSUME IInv, NEW r \in Requests, Insert(r)
    PROVE  IInv'
  <1>0. /\ r \in Sessions /\ r \notin Workers /\ pc[r] = "insert"
        /\ pc[r] \in Reading /\ pc[r] # "idle"
        /\ UNCHANGED << input, db, openReply, crashes >>
    BY SessionsAssumption DEF Sessions, Reading, Insert
  <1>1. \/ RunsAgain(r)
        \/ Plans(r, "commit", "reject", "CURRENCY_MISMATCH", None)
        \/ Plans(r, "reference", "none", NoFailure, None)
        \/ Decides(r, None)
    BY DEF Insert
  <1>2. CASE RunsAgain(r)
    BY <1>0, <1>2, RetryStep
  <1>3. CASE Plans(r, "commit", "reject", "CURRENCY_MISMATCH", None)
    <2>1. "CURRENCY_MISMATCH" \in Failures /\ "commit" \in RequestPcs
      BY DEF Failures, FailureCodes, RequestPcs
    <2> QED
      BY <1>0, <1>3, <2>1, PlanStep
  <1>4. CASE Plans(r, "reference", "none", NoFailure, None)
    <2>1. NoFailure \in Failures /\ "reference" \in RequestPcs
      BY DEF Failures, RequestPcs
    <2> QED
      BY <1>0, <1>4, <2>1, PlanStep
  <1>5. CASE Decides(r, None)
    BY <1>0, <1>5, DecideStep
  <1> QED
    BY <1>1, <1>2, <1>3, <1>4, <1>5

\* From a reference to a commit that moves no money, or on to the reversal.
LEMMA OnwardStep ==
    ASSUME IInv, NEW p \in Sessions, pc[p] \in Reading,
           NEW label \in {"commit", "reversal"},
           NEW do \in {"none", "reject", "pend", "retry"}, label = "commit" => do # "none",
           NEW code \in Failures, NEW ref \in Requests \cup {None},
           Plans(p, label, do, code, ref),
           UNCHANGED << input, db, openReply, crashes >>
    PROVE  IInv'
  <1>1. pc[p] # "idle" /\ label \in RequestPcs /\ label \in WorkerPcs \ {"idle"}
    BY DEF Reading, RequestPcs, WorkerPcs
  <1>2. label # "save" /\ do \in {"none", "settle", "loss", "reject", "pend", "retry"}
        /\ (label = "commit" => do \notin {"none", "settle"})
    OBVIOUS
  <1> QED
    BY <1>1, <1>2, PlanStep

\* Looking up the reference keeps the invariant, whatever it decides.
LEMMA FindReferenceStep ==
    ASSUME IInv, NEW p \in Sessions, FindReference(p)
    PROVE  IInv'
  <1>0. pc[p] \in Reading /\ UNCHANGED << input, db, openReply, crashes >>
    BY DEF Reading, FindReference
  <1>1. \A t \in Requests : ReferenceFailure(Asked(p), input[t]) \in Failures
    BY DEF ReferenceFailure, Failures, FailureCodes
  <1>2. \/ \E status : Postpones(p, status)
        \/ \E t \in Requests : LET code == ReferenceFailure(Asked(p), input[t]) IN
              \/ Plans(p, "commit", "reject", code, None)
              \/ Plans(p, "reversal", "none", NoFailure, t)
              \/ Decides(p, t)
    BY DEF FindReference, Finds, Stored
  <1>3. CASE \E status : Postpones(p, status)
    <2>1. \/ Plans(p, "commit", "retry", NoFailure, None)
          \/ Plans(p, "commit", "reject", "REFERENCE_NOT_PROCESSABLE", None)
          \/ Plans(p, "commit", "pend", NoFailure, None)
      BY <1>3 DEF Postpones
    <2>2. NoFailure \in Failures /\ "REFERENCE_NOT_PROCESSABLE" \in Failures
      BY DEF Failures, FailureCodes
    <2> QED
      BY <1>0, <2>1, <2>2, OnwardStep
  <1>4. CASE \E t \in Requests : LET code == ReferenceFailure(Asked(p), input[t]) IN
              \/ Plans(p, "commit", "reject", code, None)
              \/ Plans(p, "reversal", "none", NoFailure, t)
              \/ Decides(p, t)
    <2>1. PICK t \in Requests :
              \/ Plans(p, "commit", "reject", ReferenceFailure(Asked(p), input[t]), None)
              \/ Plans(p, "reversal", "none", NoFailure, t)
              \/ Decides(p, t)
      BY <1>4
    <2>2. NoFailure \in Failures /\ ReferenceFailure(Asked(p), input[t]) \in Failures
      BY <1>1 DEF Failures
    <2>3. CASE Plans(p, "commit", "reject", ReferenceFailure(Asked(p), input[t]), None)
      BY <1>0, <2>2, <2>3, OnwardStep
    <2>4. CASE Plans(p, "reversal", "none", NoFailure, t)
      BY <1>0, <2>2, <2>4, OnwardStep
    <2>5. CASE Decides(p, t)
      BY <1>0, <2>5, DecideStep
    <2> QED
      BY <2>1, <2>3, <2>4, <2>5
  <1> QED
    BY <1>2, <1>3, <1>4

\* Looking up an earlier reversal keeps the invariant.
LEMMA FindReversalStep ==
    ASSUME IInv, NEW p \in Sessions, FindReversal(p)
    PROVE  IInv'
  <1>0. pc[p] \in Reading /\ UNCHANGED << input, db, openReply, crashes >>
    BY DEF Reading, FindReversal
  <1>1. \/ Plans(p, "commit", "reject", "REFERENCE_ALREADY_REVERSED", None)
        \/ Decides(p, plan[p].ref)
    BY DEF FindReversal
  <1>2. CASE Plans(p, "commit", "reject", "REFERENCE_ALREADY_REVERSED", None)
    <2>1. "REFERENCE_ALREADY_REVERSED" \in Failures
      BY DEF Failures, FailureCodes
    <2> QED
      BY <1>0, <1>2, <2>1, OnwardStep
  <1>3. CASE Decides(p, plan[p].ref)
    <2>1. plan[p].ref \in Requests \cup {None}
      BY DEF IInv, TypeOK, SessionsTypeOK, PlanRecords
    <2> QED
      BY <1>0, <1>3, <2>1, DecideStep
  <1> QED
    BY <1>1, <1>2, <1>3

\* The version check: what it lets through holds the row lock alone, and its
\* snapshot is the current row.
LEMMA SaveStep ==
    ASSUME IInv, NEW p \in Sessions, Save(p)
    PROVE  IInv'
  <1>0. /\ pc[p] = "save" /\ pc[p] # "idle"
        /\ UNCHANGED << input, db, openReply, crashes >>
    BY DEF Save
  <1>1. CASE RunsAgain(p)
    BY <1>0, <1>1, RetryStep
  <1>2. CASE /\ VersionMatches(p)
             /\ pc' = [pc EXCEPT ![p] = "commit"]
             /\ UNCHANGED << task, snap, plan, tries, reply >>
    <2>1. SessionsTypeOK'
      <3>1. pc' \in [Sessions -> RequestPcs \cup WorkerPcs]
        BY <1>2 DEF IInv, TypeOK, SessionsTypeOK, RequestPcs
      <3>2. \A r \in Requests : pc'[r] \in RequestPcs /\ task'[r] = r
        BY <1>2 DEF IInv, TypeOK, SessionsTypeOK, RequestPcs, Sessions
      <3>3. \A q \in Workers : pc'[q] \in WorkerPcs /\ (task'[q] = None <=> pc'[q] = "idle")
        BY <1>0, <1>2 DEF IInv, TypeOK, SessionsTypeOK, WorkerPcs, Sessions
      <3> QED
        BY <1>2, <3>1, <3>2, <3>3 DEF IInv, TypeOK, SessionsTypeOK
    <2>2. SnapshotsCurrent'
      <3>1. pc'[p] = "commit" /\ plan'[p] = plan[p] /\ snap'[p] = snap[p]
            /\ Asked(p)' = Asked(p)
        BY <1>0, <1>2 DEF IInv, TypeOK, SessionsTypeOK, Asked
      <3>2. SnapshotHonest(p)'
        BY <1>0, <3>1 DEF IInv, SnapshotsCurrent, SnapshotHonest, Reading, db
      <3>3. PlanSound(p)'
        BY <1>0, <1>2, <3>1
           DEF IInv, SnapshotsCurrent, PlanSound, MovedBalance, MoveOf, RefKind
      <3>4. HolderCurrent(p)'
        BY <1>0, <1>2, <3>1 DEF HolderCurrent, VersionMatches, db
      <3>5. \A q \in Sessions \ {p} : ~ HoldsWallet(q, Asked(p).wallet)
        BY DEF Save
      <3>6. \A q \in Sessions \ {p} : \A w \in Wallets :
                HoldsWallet(p, w)' => ~ HoldsWallet(q, w)
        BY <3>1, <3>5 DEF HoldsWallet
      <3>7. \A q \in Sessions \ {p} : /\ pc'[q] = pc[q] /\ task'[q] = task[q]
                                      /\ snap'[q] = snap[q] /\ plan'[q] = plan[q]
        BY <1>2 DEF IInv, TypeOK, SessionsTypeOK
      <3> QED
        BY <1>0, <3>2, <3>3, <3>4, <3>6, <3>7, Undisturbed DEF IInv, db
    <2> QED
      BY <1>0, <1>2, <2>1, <2>2, QuietStep DEF IInv, TypeOK
  <1> QED
    BY <1>1, <1>2 DEF Save

\* A lost connection keeps the invariant: its transaction leaves no trace.
LEMMA CrashStep ==
    ASSUME IInv, NEW p \in Sessions, Crash(p)
    PROVE  IInv'
  <1>1. ErrorReply("lost") \in ReplyRecords
    BY ErrorsTyped DEF Codes
  <1>2. crashes' \in 0..MaxCrashes
    BY BoundsAssumption DEF Crash, IInv, TypeOK
  <1>3. Closes(p, ErrorReply("lost")) /\ UNCHANGED << input, db, openReply >>
    BY DEF Crash
  <1> QED
    BY <1>1, <1>2, <1>3, CloseStep

\* A worker picks a row that is stored.
LEMMA ListStep ==
    ASSUME IInv, NEW p \in Workers, NEW t \in Requests, List(p, t)
    PROVE  IInv'
  <1>0. /\ p \in Sessions /\ pc[p] = "idle" /\ t \in Stored
        /\ UNCHANGED << input, db, snap, plan, tries, reply, openReply, crashes >>
    BY DEF Sessions, List, Stored
  <1>1. pc' = [pc EXCEPT ![p] = "lock"] /\ task' = [task EXCEPT ![p] = t]
    BY DEF List
  <1>2. SessionsTypeOK'
    <2>1. pc' \in [Sessions -> RequestPcs \cup WorkerPcs] /\ task' \in [Sessions -> Requests \cup {None}]
      BY <1>1 DEF IInv, TypeOK, SessionsTypeOK, WorkerPcs
    <2>2. \A r \in Requests : pc'[r] \in RequestPcs /\ task'[r] = r
      BY <1>1, SessionsAssumption DEF IInv, TypeOK, SessionsTypeOK, Sessions
    <2>3. \A q \in Workers : pc'[q] \in WorkerPcs /\ (task'[q] = None <=> pc'[q] = "idle")
      BY <1>1, SessionsAssumption DEF IInv, TypeOK, SessionsTypeOK, WorkerPcs, Sessions
    <2> QED
      BY <1>0, <2>1, <2>2, <2>3 DEF IInv, TypeOK, SessionsTypeOK
  <1>3. SnapshotsCurrent'
    <2>1. pc'[p] = "lock"
      BY <1>0, <1>1 DEF IInv, TypeOK, SessionsTypeOK
    <2>2. SnapshotHonest(p)' /\ PlanSound(p)' /\ HolderCurrent(p)'
      BY <2>1 DEF SnapshotHonest, PlanSound, HolderCurrent, Reading
    <2>3. \A w \in Wallets : ~ HoldsWallet(p, w)'
      BY <2>1 DEF HoldsWallet
    <2>4. \A q \in Sessions \ {p} : /\ pc'[q] = pc[q] /\ task'[q] = task[q]
                                    /\ snap'[q] = snap[q] /\ plan'[q] = plan[q]
      BY <1>0, <1>1 DEF IInv, TypeOK, SessionsTypeOK
    <2> QED
      BY <1>0, <2>2, <2>3, <2>4, Undisturbed DEF IInv, db
  <1>4. RowsHaveWallets'
    BY <1>0, <1>1 DEF IInv, RowsHaveWallets, TypeOK, SessionsTypeOK, Stored, IsOpen, db
  <1>5. TypeOK' /\ LedgerReconciles'
    BY <1>0, <1>2 DEF IInv, TypeOK, RowsTypeOK, LedgerReconciles, Chains, db
  <1> QED
    BY <1>3, <1>4, <1>5 DEF IInv

\* Locking the row of a worker keeps the invariant.
LEMMA LockRowStep ==
    ASSUME IInv, NEW p \in Workers, LockRow(p)
    PROVE  IInv'
  <1>0. /\ p \in Sessions /\ p \notin Requests /\ pc[p] = "lock"
        /\ UNCHANGED << input, db, openReply, crashes >>
    BY SessionsAssumption DEF Sessions, LockRow
  <1>1. CASE Plans(p, "resume", "none", NoFailure, None)
    <2>1. /\ pc[p] # "idle" /\ "resume" \in WorkerPcs \ {"idle"}
          /\ "resume" \notin Reading /\ NoFailure \in Failures
      BY <1>0 DEF WorkerPcs, Reading, Failures
    <2> QED
      BY <1>0, <1>1, <2>1, PlanStep
  <1>2. CASE Closes(p, ErrorReply("none"))
    <2>1. ErrorReply("none") \in ReplyRecords
      BY ErrorsTyped DEF Codes
    <2> QED
      BY <1>0, <1>2, <2>1, CloseStep DEF IInv, TypeOK
  <1> QED
    BY <1>1, <1>2 DEF LockRow

\* A worker reads a snapshot that is the current row.
LEMMA ResumeWalletStep ==
    ASSUME IInv, NEW p \in Workers, ResumeWallet(p)
    PROVE  IInv'
  <1> DEFINE w == Asked(p).wallet
  <1>0. p \in Sessions /\ pc[p] # "idle"
    BY DEF Sessions, ResumeWallet
  <1>1. task[p] \in Requests
    BY <1>0, TaskTyped DEF IInv
  <1>2. w \in Wallets
    BY <1>1, InputsTyped DEF Asked, IInv
  <1>3. wallets[w].version > 0
    BY <1>1, SessionsAssumption DEF IInv, RowsHaveWallets, IsOpen, Asked
  <1> QED
    BY <1>0, <1>2, <1>3, ReadWalletStep DEF ResumeWallet

--------------------------------------------------------------------------------
(* The actions that write rows.                                               *)

\* Expiring a row (ExpirePendingReference) moves no wallet.
LEMMA ExpireStep ==
    ASSUME IInv, NEW t \in Requests, Expire(t)
    PROVE  IInv'
  <1>0. /\ txs' = [txs EXCEPT ![t] = Expired(t)]
        /\ events' = [events EXCEPT ![t] = Append(@, Event("Expired", 0))]
        /\ UNCHANGED << input, wallets, ledger, pc, task, snap, plan, tries, reply,
                        openReply, crashes >>
    BY DEF Expire, session
  <1>1. t \in TxIds /\ txs[t] \in Rows
    BY DEF TxIds, IInv, TypeOK, RowsTypeOK
  <1>2. Expired(t) \in Rows
    BY <1>1 DEF Expired, Rows, Statuses, Terminal, Failures, FailureCodes
  <1>3. Event("Expired", 0) \in Events
    BY DEF Event, Events
  <1>4. TypeOK'
    <2>1. txs' \in [TxIds -> Rows]
      BY <1>0, <1>2 DEF IInv, TypeOK, RowsTypeOK
    <2>2. events' \in [TxIds -> Seq(Events)]
      BY <1>0, <1>1, <1>3 DEF IInv, TypeOK, RowsTypeOK
    <2> QED
      BY <1>0, <2>1, <2>2 DEF IInv, TypeOK, RowsTypeOK, SessionsTypeOK
  <1>5. LedgerReconciles'
    BY <1>0 DEF IInv, LedgerReconciles, Chains
  <1>6. SnapshotsCurrent'
    BY <1>0 DEF IInv, SnapshotsCurrent, SnapshotHonest, PlanSound, HolderCurrent, OneHolder,
                HoldsWallet, MovedBalance, MoveOf, RefKind, Asked
  <1>7. RowsHaveWallets'
    BY <1>0, <1>1 DEF IInv, RowsHaveWallets, Stored, IsOpen, Expired, Expire, Stale,
                      TypeOK, RowsTypeOK
  <1> QED
    BY <1>4, <1>5, <1>6, <1>7 DEF IInv

\* The rows of a new wallet have their types and its entry starts the chain.
LEMMA OpeningTyped ==
    ASSUME NEW w \in Wallets
    PROVE  /\ Opened(w) \in WalletRows /\ OpeningRow(w) \in Rows
           /\ OpeningEntries(w) \in Seq(Entries) /\ OpeningEvents(w) \in Seq(Events)
  <1>1. InitialOf[w] \in Amounts /\ InitialOf[w] \in Nat /\ 0 \in Amounts
    BY WalletsAssumption, MaxMinorAssumption DEF Amounts
  <1>2. Opened(w) \in WalletRows
    BY <1>1 DEF Opened, WalletRows
  <1>3. OpeningRow(w) \in Rows
    BY BoundsAssumption
       DEF OpeningRow, NoRow, Rows, Statuses, Terminal, Failures, Null, NoFailure
  <1>4. Entry(w, "CREDIT", InitialOf[w], 0) \in Entries
    BY <1>1 DEF Entry, Entries, Applied, TxIds
  <1>5. OpeningEntries(w) \in Seq(Entries)
    BY <1>4 DEF OpeningEntries
  <1>6. Event("Processed", 0) \in Events /\ Event("BalanceChanged", 1) \in Events
    BY DEF Event, Events
  <1>7. OpeningEvents(w) \in Seq(Events)
    BY <1>6 DEF OpeningEvents
  <1> QED
    BY <1>2, <1>3, <1>5, <1>7

\* A wallet with its opening entries reconciles, whatever the others hold.
LEMMA OpeningChains ==
    ASSUME NEW w \in Wallets, NEW entries, entries = OpeningEntries(w)
    PROVE  /\ \A i \in 1..Len(entries) :
                 LET e == entries[i] IN
                 /\ e.before = IF i = 1 THEN 0 ELSE entries[i - 1].after
                 /\ e.after = Applied(e.dir, e.before, e.amount)
           /\ Opened(w).balance = IF entries = <<>> THEN 0 ELSE entries[Len(entries)].after
  <1>1. InitialOf[w] \in Nat
    BY WalletsAssumption
  <1>2. CASE InitialOf[w] = 0
    BY <1>2 DEF OpeningEntries, Opened
  <1>3. CASE InitialOf[w] # 0
    <2>1. entries = << Entry(w, "CREDIT", InitialOf[w], 0) >>
      BY <1>3 DEF OpeningEntries
    <2>2. Len(entries) = 1 /\ entries # <<>> /\ entries[1] = Entry(w, "CREDIT", InitialOf[w], 0)
      BY <2>1
    <2>3. /\ entries[1].before = 0 /\ entries[1].after = InitialOf[w]
          /\ entries[1].after = Applied(entries[1].dir, entries[1].before, entries[1].amount)
      BY <1>1, <2>2 DEF Entry, Applied
    <2>4. \A i \in 1..Len(entries) : i = 1
      BY <2>2
    <2> QED
      BY <2>2, <2>3, <2>4 DEF Opened
  <1> QED
    BY <1>2, <1>3

\* Opening a wallet starts a chain, and no session has read that wallet yet.
LEMMA OpenWalletStep ==
    ASSUME IInv, NEW w \in Wallets, OpenWallet(w)
    PROVE  IInv'
  <1>0. UNCHANGED << input, pc, task, snap, plan, tries, reply, crashes >>
    BY DEF OpenWallet, session
  <1>1. CASE /\ openReply' = [openReply EXCEPT ![w] = "alreadyExists"]
             /\ UNCHANGED db
    <2>1. openReply' \in [Wallets -> {"unasked", "none", "ok", "alreadyExists"}]
      BY <1>1 DEF IInv, TypeOK
    <2>2. TypeOK'
      BY <1>0, <1>1, <2>1 DEF IInv, TypeOK, RowsTypeOK, SessionsTypeOK, db
    <2>3. LedgerReconciles'
      BY <1>1 DEF IInv, LedgerReconciles, Chains, db
    <2>4. SnapshotsCurrent'
      BY <1>0, <1>1 DEF IInv, SnapshotsCurrent, SnapshotHonest, PlanSound, HolderCurrent, OneHolder,
                HoldsWallet, MovedBalance, MoveOf, RefKind, Asked, db
    <2>5. RowsHaveWallets'
      BY <1>0, <1>1 DEF IInv, RowsHaveWallets, Stored, IsOpen, db
    <2> QED
      BY <2>2, <2>3, <2>4, <2>5 DEF IInv
  <1>2. CASE /\ ~ IsOpen(w)
             /\ openReply' = [openReply EXCEPT ![w] = "ok"]
             /\ wallets' = [wallets EXCEPT ![w] = Opened(w)]
             /\ txs'     = [txs EXCEPT ![w] = OpeningRow(w)]
             /\ ledger'  = [ledger EXCEPT ![w] = OpeningEntries(w)]
             /\ events'  = [events EXCEPT ![w] = OpeningEvents(w)]
    <2>0. /\ Opened(w) \in WalletRows /\ OpeningRow(w) \in Rows /\ w \in TxIds
          /\ OpeningEntries(w) \in Seq(Entries) /\ OpeningEvents(w) \in Seq(Events)
      BY OpeningTyped DEF TxIds
    <2>1. RowsTypeOK'
      BY <1>2, <2>0 DEF IInv, TypeOK, RowsTypeOK
    <2>2. openReply' \in [Wallets -> {"unasked", "none", "ok", "alreadyExists"}]
      BY <1>2 DEF IInv, TypeOK
    <2>3. TypeOK'
      BY <1>0, <2>1, <2>2 DEF IInv, TypeOK, SessionsTypeOK
    <2>4. LedgerReconciles'
      <3> SUFFICES ASSUME NEW v \in Wallets PROVE Chains(v)'
        BY DEF LedgerReconciles
      <3>1. CASE v # w
        <4>1. wallets'[v] = wallets[v] /\ ledger'[v] = ledger[v]
          BY <1>2, <3>1 DEF IInv, TypeOK, RowsTypeOK
        <4> QED
          BY <4>1 DEF IInv, LedgerReconciles, Chains
      <3>2. CASE v = w
        <4>1. wallets'[v] = Opened(w) /\ ledger'[v] = OpeningEntries(w)
          BY <1>2, <3>2 DEF IInv, TypeOK, RowsTypeOK
        <4> QED
          BY <4>1, OpeningChains DEF Chains
      <3> QED
        BY <3>1, <3>2
    <2>5. wallets[w].version = 0
      BY <1>2 DEF IsOpen, IInv, TypeOK, RowsTypeOK, WalletRows
    <2>6. \A v \in Wallets : v # w => wallets'[v] = wallets[v]
      BY <1>2 DEF IInv, TypeOK, RowsTypeOK
    <2>7. SnapshotsCurrent'
      <3>1. ASSUME NEW p \in Sessions
            PROVE  (SnapshotHonest(p) /\ PlanSound(p) /\ HolderCurrent(p))'
        <4>0. SnapshotHonest(p) /\ PlanSound(p) /\ HolderCurrent(p)
          BY DEF IInv, SnapshotsCurrent
        <4>1. Asked(p)' = Asked(p)
          BY <1>0 DEF Asked
        <4>2. PlanSound(p)'
          BY <1>0, <4>0, <4>1 DEF PlanSound, MovedBalance, MoveOf, RefKind
        <4>3. CASE pc[p] \notin Reading
          BY <1>0, <4>2, <4>3 DEF SnapshotHonest, HolderCurrent, Reading
        <4>4. CASE pc[p] \in Reading
          <5>1. task[p] \in Requests
            BY <4>4, TaskTyped DEF IInv, Reading
          <5>2. Asked(p).wallet \in Wallets
            BY <5>1, InputsTyped DEF IInv, Asked
          <5>3. snap[p] \in WalletRows
            BY DEF IInv, TypeOK, SessionsTypeOK
          <5>4. Asked(p).wallet # w
            BY <2>5, <4>0, <4>4, <5>3 DEF SnapshotHonest, WalletRows
          <5>5. wallets'[Asked(p).wallet] = wallets[Asked(p).wallet]
            BY <2>6, <5>2, <5>4
          <5> QED
            BY <1>0, <4>0, <4>1, <4>2, <5>5 DEF SnapshotHonest, HolderCurrent
        <4> QED
          BY <4>3, <4>4
      <3>2. OneHolder'
        BY <1>0 DEF IInv, SnapshotsCurrent, OneHolder, HoldsWallet, Asked
      <3> QED
        BY <3>1, <3>2 DEF SnapshotsCurrent
    <2>8. RowsHaveWallets'
      <3>1. \A v \in Wallets : IsOpen(v) => IsOpen(v)'
        BY <1>2, <2>6 DEF IsOpen
      <3>2. \A t \in Requests : txs'[t] = txs[t]
        BY <1>2, SessionsAssumption DEF IInv, TypeOK, RowsTypeOK, TxIds
      <3>3. Stored' = Stored
        BY <3>2 DEF Stored
      <3>4. \A t \in Stored : input[t].wallet \in Wallets
        BY InputsTyped DEF IInv, Stored
      <3> QED
        BY <1>0, <3>1, <3>3, <3>4 DEF IInv, RowsHaveWallets
    <2> QED
      BY <2>3, <2>4, <2>7, <2>8 DEF IInv
  <1> QED
    BY <1>1, <1>2 DEF OpenWallet, SamePurse

\* What a session commits has the type of a row, of events and of an answer, and
\* the row is stored.
LEMMA CommitTyped ==
    ASSUME IInv, NEW p \in Sessions, pc[p] = "commit"
    PROVE  /\ Outcome(p) \in Rows /\ Outcome(p).status # "ABSENT"
           /\ Announced(p) \in Seq(Events)
           /\ Answer(p) \in ReplyRecords
  <1>1. /\ task[p] \in Requests /\ plan[p] \in PlanRecords /\ snap[p] \in WalletRows
        /\ plan[p].do = "settle" => MovedBalance(p) \in Amounts
    BY TaskTyped DEF IInv, TypeOK, SessionsTypeOK, SnapshotsCurrent, PlanSound
  <1>2. snap[p].balance \in Amounts /\ snap[p].version \in Nat
        /\ plan[p].code \in Failures /\ plan[p].ref \in Requests \cup {None}
    BY <1>1 DEF WalletRows, PlanRecords
  <1>3. NoFailure \in Failures /\ Null \in Amounts \cup {Null} /\ 0 \in 0..MaxAttempts
    BY BoundsAssumption DEF Failures
  <1>4. Prior(p) \in Rows /\ Prior(p).status # "ABSENT"
    <2>1. CASE p \in Requests
      BY <1>3, <2>1 DEF Prior, NewRow, NoRow, Rows, Statuses
    <2>2. CASE p \in Workers
      <3>1. p \notin Requests
        BY <2>2, SessionsAssumption
      <3>2. txs[task[p]] \in Rows
        BY <1>1 DEF IInv, TypeOK, RowsTypeOK, TxIds
      <3>3. task[p] \in Stored
        BY <1>1, <2>2, SessionsAssumption DEF IInv, RowsHaveWallets
      <3> QED
        BY <3>1, <3>2, <3>3 DEF Prior, Stored
    <2> QED
      BY <2>1, <2>2 DEF Sessions
  <1>5. Resolved(p) \in Rows /\ Resolved(p).status # "ABSENT"
    <2>1. CASE plan[p].ref = None
      BY <1>4, <2>1 DEF Resolved
    <2>2. CASE plan[p].ref # None
      <3>1. Resolved(p) = [Prior(p) EXCEPT !.resolved = plan[p].ref, !.attempts = 0]
        BY <2>2 DEF Resolved
      <3> QED
        BY <1>2, <1>3, <1>4, <3>1 DEF Rows
    <2> QED
      BY <2>1, <2>2
  <1>6. Outcome(p) \in Rows /\ Outcome(p).status # "ABSENT"
    <2> DEFINE row == Resolved(p)
    <2>1. OneMore(row.attempts) \in 0..MaxAttempts
      BY <1>5, BoundsAssumption DEF OneMore, Rows
    <2>2. CASE plan[p].do = "settle"
      <3>1. Outcome(p) = [row EXCEPT !.status = "PROCESSED", !.result = MovedBalance(p)]
        BY <2>2 DEF Outcome
      <3> QED
        BY <1>1, <1>5, <2>2, <3>1 DEF Rows, Statuses, Terminal
    <2>3. CASE plan[p].do = "loss"
      <3>1. Outcome(p) = [row EXCEPT !.status = "PROCESSED", !.result = snap[p].balance]
        BY <2>3 DEF Outcome
      <3> QED
        BY <1>2, <1>5, <3>1 DEF Rows, Statuses, Terminal
    <2>4. CASE plan[p].do = "reject"
      <3>1. Outcome(p) = [row EXCEPT !.status = "REJECTED", !.failure = plan[p].code,
                                     !.result = snap[p].balance]
        BY <2>4 DEF Outcome
      <3> QED
        BY <1>2, <1>5, <3>1 DEF Rows, Statuses, Terminal
    <2>5. CASE plan[p].do = "pend"
      <3>1. Outcome(p) = [row EXCEPT !.status = "PENDING_REFERENCE"]
        BY <2>5 DEF Outcome
      <3> QED
        BY <1>5, <3>1 DEF Rows, Statuses
    <2>6. CASE plan[p].do \notin {"settle", "loss", "reject", "pend"}
      <3>1. Outcome(p) = [row EXCEPT !.attempts = OneMore(row.attempts)]
        BY <2>6 DEF Outcome
      <3> QED
        BY <1>5, <2>1, <3>1 DEF Rows
    <2> QED
      BY <2>2, <2>3, <2>4, <2>5, <2>6
  <1>7. Announced(p) \in Seq(Events)
    <2>1. /\ Event("Processed", 0) \in Events /\ Event("Rejected", 0) \in Events
          /\ Event("PendingReference", 0) \in Events
          /\ Event("BalanceChanged", MovedWallet(p).version) \in Events
      BY <1>2 DEF Event, Events, MovedWallet
    <2> QED
      BY <2>1 DEF Announced
  <1>8. Answer(p) \in ReplyRecords
    <2>1. CASE MeetsReversalIndex(p)
      BY <2>1, ErrorsTyped DEF Answer, Codes
    <2>2. CASE ~ MeetsReversalIndex(p)
      <3> DEFINE balance == IF plan[p].do = "settle" THEN MovedBalance(p) ELSE snap[p].balance
      <3>1. balance \in Amounts
        BY <1>1, <1>2
      <3>2. Answer(p) = Reply("ok", task[p], Outcome(p).status, Outcome(p).failure,
                              balance, FALSE)
        BY <2>2 DEF Answer
      <3>3. Outcome(p).status \in Statuses \cup {"ABSENT"} /\ Outcome(p).failure \in Failures
        BY <1>6 DEF Rows
      <3> QED
        BY <1>1, <3>1, <3>2, <3>3 DEF Reply, ReplyRecords, Codes
    <2> QED
      BY <2>1, <2>2
  <1> QED
    BY <1>6, <1>7, <1>8

\* Append keeps a sequence typed, keeps its entries and puts the new one last.
LEMMA AppendFacts ==
    ASSUME NEW S, NEW s \in Seq(S), NEW e \in S, NEW t, t = Append(s, e)
    PROVE  /\ Len(t) = Len(s) + 1 /\ t # <<>> /\ Len(s) \in Nat
           /\ t[Len(s) + 1] = e
           /\ \A i \in 1..Len(s) : t[i] = s[i]
  OBVIOUS

\* The entry of a settlement is an entry, and the row after it a wallet row.
LEMMA MovementTyped ==
    ASSUME IInv, NEW p \in Sessions, pc[p] = "commit", plan[p].do = "settle"
    PROVE  Movement(p) \in Entries /\ MovedWallet(p) \in WalletRows
  <1>1. task[p] \in Requests /\ snap[p] \in WalletRows /\ MovedBalance(p) \in Amounts
    BY TaskTyped DEF IInv, TypeOK, SessionsTypeOK, SnapshotsCurrent, PlanSound
  <1>2. snap[p].balance \in Amounts /\ snap[p].version + 1 \in Nat
    BY <1>1 DEF WalletRows
  <1>3. Asked(p).amount \in Amounts
    BY <1>1, InputsTyped DEF Asked, IInv
  <1>4. MoveOf(p) \in {"DEBIT", "CREDIT"} /\ task[p] \in TxIds
    BY <1>1 DEF MoveOf, Direction, TxIds
  <1>5. Applied(MoveOf(p), snap[p].balance, Asked(p).amount) \in Amounts
    BY <1>1 DEF MovedBalance
  <1>6. Movement(p) \in Entries
    BY <1>2, <1>3, <1>4, <1>5 DEF Movement, Entry, Entries
  <1>7. MovedWallet(p) \in WalletRows
    BY <1>1, <1>2 DEF MovedWallet, WalletRows
  <1> QED
    BY <1>6, <1>7

\* A settlement appends one entry that starts from the balance of the wallet and
\* ends at the balance it saves.
LEMMA SettlementChains ==
    ASSUME IInv, NEW p \in Sessions, pc[p] = "commit", plan[p].do = "settle",
           NEW w \in Wallets, w = Asked(p).wallet,
           wallets'[w] = MovedWallet(p), ledger'[w] = Append(ledger[w], Movement(p))
    PROVE  Chains(w)'
  <1> DEFINE old == ledger[w]
             new == ledger'[w]
             m   == Movement(p)
  <1>1. old \in Seq(Entries) /\ m \in Entries /\ Chains(w)
    BY MovementTyped DEF IInv, TypeOK, RowsTypeOK, LedgerReconciles
  <1>2. wallets[w].balance = snap[p].balance
    BY DEF IInv, SnapshotsCurrent, SnapshotHonest, HolderCurrent, Reading
  <1>3. /\ m.before = snap[p].balance
        /\ m.after = Applied(m.dir, m.before, m.amount)
        /\ m.after = MovedBalance(p)
    BY DEF Movement, Entry, MovedBalance
  <1>4. /\ Len(new) = Len(old) + 1 /\ new # <<>> /\ Len(old) \in Nat
        /\ new[Len(old) + 1] = m
        /\ \A i \in 1..Len(old) : new[i] = old[i]
    <2>1. new = Append(old, m)
      OBVIOUS
    <2> HIDE DEF old, new, m
    <2> QED
      BY <1>1, <2>1, AppendFacts
  <1>5. ASSUME NEW i \in 1..Len(new)
        PROVE  /\ new[i].before = IF i = 1 THEN 0 ELSE new[i - 1].after
               /\ new[i].after = Applied(new[i].dir, new[i].before, new[i].amount)
    <2> HIDE DEF old, new, m
    <2>1. CASE i # Len(old) + 1
      <3>1. i \in 1..Len(old) /\ (i # 1 => i - 1 \in 1..Len(old))
        BY <1>4, <2>1
      <3>2. new[i] = old[i] /\ (i # 1 => new[i - 1] = old[i - 1])
        BY <1>4, <3>1
      <3>3. /\ old[i].before = IF i = 1 THEN 0 ELSE old[i - 1].after
            /\ old[i].after = Applied(old[i].dir, old[i].before, old[i].amount)
        BY <1>1, <3>1 DEF Chains, old
      <3> QED
        BY <3>2, <3>3
    <2>2. CASE i = Len(old) + 1
      <3>1. new[i] = m
        BY <1>4, <2>2
      <3>2. CASE Len(old) = 0
        <4>1. old = <<>>
          BY <1>1, <3>2 DEF old
        <4>2. wallets[w].balance = 0
          BY <1>1, <4>1 DEF Chains, old
        <4>3. i = 1 /\ m.before = 0
          BY <1>2, <1>3, <2>2, <3>2, <4>2
        <4>4. new[i].before = m.before /\ new[i].after = m.after /\ new[i].dir = m.dir
              /\ new[i].amount = m.amount
          BY <3>1
        <4> QED
          BY <1>3, <4>3, <4>4
      <3>3. CASE Len(old) # 0
        <4>1. old # <<>> /\ i # 1 /\ i - 1 = Len(old) /\ Len(old) \in 1..Len(old)
          BY <1>1, <1>4, <2>2, <3>3
        <4>2. wallets[w].balance = old[Len(old)].after
          BY <1>1, <4>1 DEF Chains, old
        <4>3. new[i - 1] = old[Len(old)]
          BY <1>4, <4>1
        <4> QED
          BY <1>2, <1>3, <3>1, <4>1, <4>2, <4>3
      <3> QED
        BY <3>2, <3>3
    <2> QED
      BY <2>1, <2>2
  <1>6. wallets'[w].balance = new[Len(new)].after
    <2>1. wallets'[w].balance = MovedBalance(p)
      BY DEF MovedWallet
    <2> HIDE DEF old, new, m
    <2> QED
      BY <1>3, <1>4, <2>1
  <1> HIDE DEF m, old
  <1> QED
    BY <1>4, <1>5, <1>6 DEF Chains

\* COMMIT: a settlement moves the version, so that every other snapshot of its
\* wallet is stale from then on; the other outcomes leave the wallets alone.
LEMMA CommitStep ==
    ASSUME IInv, NEW p \in Sessions, Commit(p)
    PROVE  IInv'
  <1> DEFINE t == task[p]
             w == Asked(p).wallet
             ok == ~ MeetsReversalIndex(p)
             moves == ok /\ plan[p].do = "settle"
  <1>0. /\ pc[p] = "commit" /\ pc[p] \in Reading /\ UNCHANGED << input, openReply >>
        /\ t \in Requests /\ t \in TxIds /\ w \in Wallets
    BY TaskTyped, InputsTyped DEF Commit, Reading, IInv, Asked, TxIds
  <1>1. PICK rep \in ReplyRecords : Closes(p, rep)
    <2>1. Answer(p) \in ReplyRecords /\ ErrorReply("lost") \in ReplyRecords
      BY <1>0, CommitTyped, ErrorsTyped DEF Codes
    <2> QED
      BY <2>1 DEF Commit
  <1>2. crashes' \in 0..MaxCrashes
    BY BoundsAssumption DEF Commit, IInv, TypeOK
  <1>3. /\ wallets' = IF moves THEN [wallets EXCEPT ![w] = MovedWallet(p)] ELSE wallets
        /\ ledger' = IF moves THEN [ledger EXCEPT ![w] = Append(@, Movement(p))] ELSE ledger
        /\ txs' = IF ok THEN [txs EXCEPT ![t] = Outcome(p)] ELSE txs
        /\ events' = IF ok THEN [events EXCEPT ![t] = @ \o Announced(p)] ELSE events
    BY DEF Commit, Writes, MovesMoney
  <1>4. RowsTypeOK'
    <2>1. wallets' \in [Wallets -> WalletRows]
      BY <1>0, <1>3, MovementTyped DEF IInv, TypeOK, RowsTypeOK
    <2>2. txs' \in [TxIds -> Rows]
      BY <1>0, <1>3, CommitTyped DEF IInv, TypeOK, RowsTypeOK
    <2>3. ledger' \in [Wallets -> Seq(Entries)]
      BY <1>0, <1>3, MovementTyped DEF IInv, TypeOK, RowsTypeOK
    <2>4. events' \in [TxIds -> Seq(Events)]
      BY <1>0, <1>3, CommitTyped DEF IInv, TypeOK, RowsTypeOK
    <2> QED
      BY <2>1, <2>2, <2>3, <2>4 DEF RowsTypeOK
  <1>5. TypeOK'
    BY <1>0, <1>1, <1>2, <1>4, ClosesTyped DEF IInv, TypeOK
  <1>6. LedgerReconciles'
    <2> SUFFICES ASSUME NEW v \in Wallets PROVE Chains(v)'
      BY DEF LedgerReconciles
    <2>1. CASE moves /\ v = w
      <3>1. wallets'[v] = MovedWallet(p) /\ ledger'[v] = Append(ledger[v], Movement(p))
        BY <1>3, <2>1 DEF IInv, TypeOK, RowsTypeOK
      <3> QED
        BY <1>0, <2>1, <3>1, SettlementChains
    <2>2. CASE ~ (moves /\ v = w)
      <3>1. wallets'[v] = wallets[v] /\ ledger'[v] = ledger[v]
        BY <1>3, <2>2 DEF IInv, TypeOK, RowsTypeOK
      <3> QED
        BY <3>1 DEF IInv, LedgerReconciles, Chains
    <2> QED
      BY <2>1, <2>2
  <1>7. \A v \in Wallets : wallets'[v] = wallets[v] \/ (moves /\ v = w /\ wallets'[v] = MovedWallet(p))
    BY <1>3 DEF IInv, TypeOK, RowsTypeOK
  <1>8. SnapshotsCurrent'
    <2>1. CASE ~ moves
      <3>1. UNCHANGED << input, wallets >>
        BY <1>0, <1>3, <2>1
      <3> QED
        BY <1>1, <3>1, ClosesSound DEF IInv
    <2>2. CASE moves
      <3>1. pc'[p] \in {"done", "idle"}
        BY <1>1 DEF IInv, TypeOK, SessionsTypeOK, Closes, Leaves
      <3>2. \A q \in Sessions \ {p} : /\ pc'[q] = pc[q] /\ task'[q] = task[q]
                                      /\ snap'[q] = snap[q] /\ plan'[q] = plan[q]
        BY <1>1 DEF IInv, TypeOK, SessionsTypeOK, Closes, Leaves
      <3>3. SnapshotHonest(p)' /\ PlanSound(p)' /\ HolderCurrent(p)'
        BY <3>1 DEF SnapshotHonest, PlanSound, HolderCurrent, Reading
      <3>4. \A v \in Wallets : ~ HoldsWallet(p, v)'
        BY <3>1 DEF HoldsWallet
      <3>5. ASSUME NEW q \in Sessions \ {p}
            PROVE  (SnapshotHonest(q) /\ PlanSound(q) /\ HolderCurrent(q))'
        <4>0. SnapshotHonest(q) /\ PlanSound(q) /\ HolderCurrent(q)
          BY DEF IInv, SnapshotsCurrent
        <4>1. /\ pc'[q] = pc[q] /\ snap'[q] = snap[q] /\ plan'[q] = plan[q]
              /\ Asked(q)' = Asked(q)
          BY <1>0, <3>2 DEF Asked
        <4>2. PlanSound(q)'
          BY <1>0, <4>0, <4>1 DEF PlanSound, MovedBalance, MoveOf, RefKind
        <4>3. CASE pc[q] \notin Reading
          BY <4>1, <4>2, <4>3 DEF SnapshotHonest, HolderCurrent, Reading
        <4>4. CASE pc[q] \in Reading
          <5>1. Asked(q).wallet \in Wallets
            BY <4>4, TaskTyped, InputsTyped DEF IInv, Reading, Asked
          <5>2. CASE wallets'[Asked(q).wallet] = wallets[Asked(q).wallet]
            BY <4>0, <4>1, <4>2, <5>2 DEF SnapshotHonest, HolderCurrent
          <5>3. CASE Asked(q).wallet = w /\ wallets'[w] = MovedWallet(p)
            <6>1. /\ snap[p].version = wallets[w].version /\ snap[q].version \in Nat
                  /\ snap[p].version \in Nat
              BY <1>0, <2>2
                 DEF IInv, SnapshotsCurrent, HolderCurrent, TypeOK, SessionsTypeOK, WalletRows
            <6>2. wallets'[w].version = wallets[w].version + 1
              BY <5>3, <6>1 DEF MovedWallet
            <6>3. 0 < snap[q].version /\ snap[q].version <= wallets[w].version
              BY <4>0, <4>4, <5>3 DEF SnapshotHonest
            <6>4. SnapshotHonest(q)'
              BY <4>1, <5>3, <6>1, <6>2, <6>3 DEF SnapshotHonest
            <6>5. HolderCurrent(q)'
              <7>1. HoldsWallet(p, w)
                BY <1>0, <2>2 DEF HoldsWallet
              <7>2. ~ HoldsWallet(q, w)
                BY <1>0, <7>1 DEF IInv, SnapshotsCurrent, OneHolder
              <7> QED
                BY <4>1, <5>3, <7>2 DEF HolderCurrent, HoldsWallet
            <6> QED
              BY <4>2, <6>4, <6>5
          <5> QED
            BY <1>7, <5>1, <5>2, <5>3
        <4> QED
          BY <4>3, <4>4
      <3>6. OneHolder'
        <4> SUFFICES ASSUME NEW q \in Sessions, NEW o \in Sessions, NEW v \in Wallets,
                            HoldsWallet(q, v)', HoldsWallet(o, v)'
                     PROVE  q = o
          BY DEF OneHolder
        <4>1. q # p /\ o # p
          BY <3>4
        <4>2. HoldsWallet(q, v) /\ HoldsWallet(o, v)
          BY <1>0, <3>2, <4>1 DEF HoldsWallet, Asked
        <4> QED
          BY <4>2 DEF IInv, SnapshotsCurrent, OneHolder
      <3> QED
        BY <3>3, <3>5, <3>6 DEF SnapshotsCurrent
    <2> QED
      BY <2>1, <2>2
  <1>9. RowsHaveWallets'
    <2>1. \A v \in Wallets : IsOpen(v) => IsOpen(v)'
      <3>1. MovedWallet(p).version > 0
        BY <1>0 DEF IInv, SnapshotsCurrent, SnapshotHonest, MovedWallet, TypeOK,
                    SessionsTypeOK, WalletRows
      <3> QED
        BY <1>7, <3>1 DEF IsOpen
    <2>2. IsOpen(w)
      BY <1>0 DEF IInv, SnapshotsCurrent, SnapshotHonest, IsOpen, TypeOK, RowsTypeOK,
                  SessionsTypeOK, WalletRows
    <2>3. \A u \in Stored : input[u].wallet \in Wallets /\ IsOpen(input[u].wallet)
      BY InputsTyped DEF IInv, RowsHaveWallets, Stored
    <2>4. Stored \subseteq Stored' /\ Stored' \subseteq Stored \cup {t}
      BY <1>0, <1>3, CommitTyped DEF Stored, IInv, TypeOK, RowsTypeOK
    <2>5. \A u \in Stored' : IsOpen(input[u].wallet)'
      BY <1>0, <2>1, <2>2, <2>3, <2>4 DEF Asked
    <2>6. \A q \in Workers : task'[q] # None => task'[q] \in Stored'
      BY <1>1, <2>4, ClosesKeepsTasks DEF IInv, RowsHaveWallets
    <2> QED
      BY <2>5, <2>6 DEF RowsHaveWallets
  <1> QED
    BY <1>5, <1>6, <1>8, <1>9 DEF IInv

--------------------------------------------------------------------------------
(* The invariant.                                                             *)

\* The initial states satisfy the inductive invariant.
LEMMA InitIInv == Init => IInv
  <1> SUFFICES ASSUME Init PROVE IInv
    OBVIOUS
  <1>1. /\ NoWallet \in WalletRows /\ NoRow \in Rows /\ NoPlan \in PlanRecords
        /\ ErrorReply("none") \in ReplyRecords
    BY ErrorsTyped, MaxMinorAssumption, BoundsAssumption
       DEF NoWallet, WalletRows, Amounts, NoRow, Rows, Null, NoPlan, PlanRecords, Failures,
           Codes
  <1>2. \A w \in Wallets : /\ Opened(w) \in WalletRows /\ OpeningRow(w) \in Rows
                           /\ OpeningEntries(w) \in Seq(Entries)
                           /\ OpeningEvents(w) \in Seq(Events)
    BY OpeningTyped
  <1>3. Preopened \subseteq Wallets
    BY WalletsAssumption
  <1>4. RowsTypeOK
    <2>1. wallets \in [Wallets -> WalletRows] /\ txs \in [TxIds -> Rows]
      BY <1>1, <1>2, <1>3 DEF Init
    <2>2. ledger \in [Wallets -> Seq(Entries)] /\ events \in [TxIds -> Seq(Events)]
      BY <1>2, <1>3 DEF Init
    <2> QED
      BY <2>1, <2>2 DEF RowsTypeOK
  <1>5. SessionsTypeOK
    <2>1. pc \in [Sessions -> RequestPcs \cup WorkerPcs] /\ task \in [Sessions -> Requests \cup {None}]
      BY DEF Init, RequestPcs, WorkerPcs
    <2>2. \A r \in Requests : pc[r] \in RequestPcs /\ task[r] = r
      BY DEF Init, RequestPcs, Sessions
    <2>3. \A p \in Workers : pc[p] \in WorkerPcs /\ (task[p] = None <=> pc[p] = "idle")
      BY SessionsAssumption DEF Init, WorkerPcs, Sessions
    <2>4. /\ snap \in [Sessions -> WalletRows] /\ plan \in [Sessions -> PlanRecords]
          /\ tries \in [Requests -> 0..(MaxRetries - 1)] /\ reply \in [Requests -> ReplyRecords]
      BY <1>1, BoundsAssumption DEF Init
    <2> QED
      BY <2>1, <2>2, <2>3, <2>4 DEF SessionsTypeOK
  <1>6. TypeOK
    BY <1>4, <1>5, BoundsAssumption DEF Init, TypeOK
  <1>7. LedgerReconciles
    <2> SUFFICES ASSUME NEW w \in Wallets PROVE Chains(w)
      BY DEF LedgerReconciles
    <2>1. CASE w \in Preopened
      <3>1. wallets[w] = Opened(w) /\ ledger[w] = OpeningEntries(w)
        BY <2>1 DEF Init
      <3> QED
        BY <3>1, OpeningChains DEF Chains
    <2>2. CASE w \notin Preopened
      BY <2>2 DEF Init, Chains, NoWallet
    <2> QED
      BY <2>1, <2>2
  <1>8. SnapshotsCurrent
    BY DEF Init, SnapshotsCurrent, SnapshotHonest, PlanSound, HolderCurrent, OneHolder,
           HoldsWallet, Reading
  <1>9. RowsHaveWallets
    BY <1>3, SessionsAssumption DEF Init, RowsHaveWallets, Stored, NoRow, TxIds, Sessions
  <1> QED
    BY <1>6, <1>7, <1>8, <1>9 DEF IInv

\* Every step preserves the inductive invariant: one lemma per action.
LEMMA NextIInv == IInv /\ [Next]_vars => IInv'
  <1> SUFFICES ASSUME IInv, [Next]_vars PROVE IInv'
    OBVIOUS
  <1>1. CASE UNCHANGED vars
    BY <1>1 DEF vars, db, session, IInv, TypeOK, RowsTypeOK, SessionsTypeOK, LedgerReconciles,
                Chains, SnapshotsCurrent, SnapshotHonest, PlanSound, HolderCurrent, OneHolder,
                HoldsWallet, MovedBalance, MoveOf, RefKind, Asked, RowsHaveWallets, Stored, IsOpen
  <1>2. ASSUME NEW w \in Wallets, OpenWallet(w) PROVE IInv'
    BY <1>2, OpenWalletStep
  <1>3. ASSUME NEW r \in Requests, RequestStep(r) PROVE IInv'
    BY <1>3, RefuseKindStep, FindByKeyStep, FindByOpStep, ReplayCurrentStep, FindWalletStep,
       InsertStep DEF RequestStep
  <1>4. ASSUME NEW p \in Workers, WorkerStep(p) PROVE IInv'
    BY <1>4, LockRowStep, ResumeWalletStep, ListStep DEF WorkerStep
  <1>5. ASSUME NEW p \in Sessions, CommonStep(p) \/ Crash(p) PROVE IInv'
    BY <1>5, FindReferenceStep, FindReversalStep, SaveStep, CommitStep, CrashStep DEF CommonStep
  <1>6. ASSUME NEW t \in Requests, Expire(t) PROVE IInv'
    BY <1>6, ExpireStep
  <1> QED
    BY <1>1, <1>2, <1>3, <1>4, <1>5, <1>6 DEF Next, Rests

\* The inductive invariant holds in every reachable state.
LEMMA Invariant == Spec => []IInv
  BY InitIInv, NextIInv, PTL DEF Spec

\* No committed balance, result or entry leaves 0..MaxMinor, whatever snapshots the
\* sessions decided on, and every session holds what its statement needs
\* (wallet.go:107-148, wallet_repository.go:60-74).
THEOREM TypeCorrect == Spec => []TypeOK
  <1>1. IInv => TypeOK
    BY DEF IInv
  <1> QED
    BY <1>1, Invariant, PTL

\* The ledger of every wallet chains from zero to its balance: no settlement is
\* lost or overwritten, for any number of concurrent calls and workers
\* (process_wager_transaction.go:524-573).
THEOREM Reconciles == Spec => []LedgerReconciles
  <1>1. IInv => LedgerReconciles
    BY DEF IInv
  <1> QED
    BY <1>1, Invariant, PTL

\* A session decides on a wallet row that was committed, and the one settlement
\* that holds the row lock of a wallet still has its current row
\* (wallet_repository.go:60-74).
THEOREM SnapshotsAreSound == Spec => []SnapshotsSound
  <1>1. IInv => SnapshotsSound
    BY DEF IInv, SnapshotsSound
  <1> QED
    BY <1>1, Invariant, PTL

--------------------------------------------------------------------------------
(* What sessions know of rows.                                                *)

\* The row u is one that the operation in may be settled with.
Serves(u, in) ==
    /\ u \in Requests
    /\ txs[u].status = "PROCESSED"
    /\ input[u].op = in.ref
    /\ ReferenceFailure(in, input[u]) = NoFailure

\* The session has decided to move money and has not committed.
Settling(p) == pc[p] \in {"save", "commit"} /\ plan[p].do = "settle"

\* What the checks of attempt before the INSERT leave true of a request.
Admitted(p) ==
    /\ p \in Requests /\ pc[p] \in Reading => 
          ValidInput(input[p]) /\ PlayerOf[input[p].wallet] = input[p].player
    /\ \/ pc[p] \in {"resume", "reference", "reversal"} \/ Settling(p)
       \/ pc[p] = "commit" /\ plan[p].do = "loss"
       => Asked(p).cur = CurrencyOf[Asked(p).wallet]
    /\ pc[p] \in {"reference", "reversal", "resume"} => Asked(p).ref # None

\* Why a session may write what it plans, in terms that stay true.
PlanHonest(p) ==
    /\ pc[p] = "idle" => plan[p].ref = None
    /\ plan[p].ref # None => Asked(p).ref # None /\ Serves(plan[p].ref, Asked(p))
    /\ pc[p] = "reversal" => plan[p].ref # None /\ Asked(p).kind \in Reversals
    /\ Settling(p) => Asked(p).kind # "LOSS" /\ (Asked(p).ref # None => plan[p].ref # None)
    /\ pc[p] = "commit" =>
          /\ plan[p].do = "loss" => Asked(p).kind = "LOSS"
          /\ plan[p].do = "pend" => p \in Requests
          /\ plan[p].do = "retry" => p \in Workers
          /\ plan[p].do \in {"pend", "retry"} => plan[p].ref = None
          /\ plan[p].do = "pend" => /\ Asked(p).ref # None
                                    /\ Asked(p).cur = CurrencyOf[Asked(p).wallet]

\* Why a session may refuse, and why it may report the balance it does.
RefusalHonest(p) ==
    /\ pc[p] \in Reading => snap[p].balance \in BalancesOf(Asked(p).wallet)
    /\ pc[p] = "commit" /\ plan[p].do = "reject" =>
          /\ Justified(task[p], Asked(p),
                       [failure |-> plan[p].code, result |-> snap[p].balance])
          /\ \/ Asked(p).kind = "BET" \/ Asked(p).ref # None
             \/ Asked(p).cur # CurrencyOf[Asked(p).wallet]

\* What reply says of the row it names.
Durable(r) ==
    LET t == reply[r].tx
        row == txs[t]
    IN /\ t \in Requests /\ row.status # "ABSENT"
       /\ SameContent(input[t], input[r]) /\ input[t].key = input[r].key
       /\ reply[r].status \in Terminal =>
             /\ row.status = reply[r].status
             /\ row.failure = reply[r].failure
             /\ row.result \in {Null, reply[r].balance}

\* What a request has been told, or is about to be, is what the rows say.
ReplyHonest(r) ==
    /\ reply[r].code \in {"ok", "draft"} => Durable(r)
    /\ pc[r] = "replay" => reply[r].code = "draft" /\ reply[r].balance = Null
    /\ reply[r].code = "conflict" =>
            \E t \in Stored :
                /\ Clashes(r, t)
                /\ input[t].key # input[r].key \/ ~ SameContent(input[t], input[r])

\* Nobody else can insert what a request has inserted, or change the row a
\* worker has locked.
InsertHeld(q) ==
    HoldsInsert(q) =>
        /\ \A t \in Stored : ~ Clashes(q, t)
        /\ \A r \in Requests : HoldsInsert(r) /\ Clashes(q, r) => q = r

\* A worker has the row it resumes for itself, and the row still waits.
RowHeld(p) ==
    \A t \in Requests : HoldsRow(p, t) =>
        /\ txs[t].status = "PENDING_REFERENCE"
        /\ \A q \in Workers : HoldsRow(q, t) => p = q

\* Both kinds of lock hold what they are taken for.
Locks ==
    /\ \A q \in Requests : InsertHeld(q)
    /\ \A p \in Workers : RowHeld(p)

\* No settlement in flight reverses what another has reversed, unless its version
\* is already behind.
ReversalSeen(p) ==
    /\ Settling(p) /\ Asked(p).kind \in Reversals
    /\ \E t \in Requests : Reverses(t, plan[p].ref)
    => snap[p].version < wallets[Asked(p).wallet].version

\* All that a session has found out and relies on.
Knows(p) == Admitted(p) /\ PlanHonest(p) /\ RefusalHonest(p)

\* What a stored row has been through.
RowHonest(t) ==
    /\ txs[t].status # "PENDING"
    /\ txs[t].status = "PENDING_REFERENCE" =>
          /\ txs[t].resolved = None /\ txs[t].result = Null /\ txs[t].failure = NoFailure
          /\ input[t].ref # None /\ input[t].cur = CurrencyOf[input[t].wallet]
    /\ txs[t].status = "PROCESSED" =>
          /\ txs[t].resolved # None => Serves(txs[t].resolved, input[t])
          /\ input[t].kind \in Reversals => txs[t].resolved # None

\* No two rows reverse the same row.
ReversalsDiffer ==
    \A t, u, v \in Requests : Reverses(t, v) /\ Reverses(u, v) => t = u

\* A wallet nobody was told is open does not exist.
WalletHonest(w) ==
    /\ openReply[w] = "ok" =>
          /\ IsOpen(w) /\ txs[w] = OpeningRow(w)
          /\ InitialOf[w] # 0 => ledger[w] # << >>
    /\ openReply[w] # "ok" =>
          /\ wallets[w] = NoWallet /\ txs[w] = NoRow
          /\ ledger[w] = << >> /\ events[w] = << >>

\* What the database holds at any time.
RowsKnown ==
    /\ \A t \in Requests : RowHonest(t)
    /\ ReversalsDiffer
    /\ \A w \in Wallets : WalletHonest(w)

\* What sessions know, what they have said, and what is stored.
KInv ==
    /\ Locks
    /\ \A p \in Sessions : Knows(p) /\ ReversalSeen(p)
    /\ \A r \in Requests : ReplyHonest(r)
    /\ RowsKnown

--------------------------------------------------------------------------------
(* What no step takes back.                                                  *)

\* Entries are appended, and none changes.
LedgerGrows ==
    \A w \in Wallets :
        /\ Len(ledger'[w]) >= Len(ledger[w])
        /\ \A i \in 1..Len(ledger[w]) : ledger'[w][i] = ledger[w][i]

\* A row that has ended stays as it is, and no row goes away.
RowsFreeze ==
    \A t \in TxIds :
        /\ txs[t].status \in Terminal => txs'[t] = txs[t]
        /\ txs[t].status # "ABSENT" => txs'[t].status # "ABSENT"

\* No version goes back.
VersionsGrow == \A w \in Wallets : wallets[w].version <= wallets'[w].version

\* What every step does at most.
Grows == UNCHANGED input /\ LedgerGrows /\ RowsFreeze /\ VersionsGrow

\* The sessions other than p do not move.
Alone(p) ==
    /\ \A q \in Sessions \ {p} : /\ pc'[q] = pc[q] /\ task'[q] = task[q]
                                  /\ snap'[q] = snap[q] /\ plan'[q] = plan[q]
    /\ \A r \in Requests \ {p} : reply'[r] = reply[r]

\* The session q does not move.
Idles(q) ==
    /\ pc'[q] = pc[q] /\ task'[q] = task[q]
    /\ snap'[q] = snap[q] /\ plan'[q] = plan[q]

\* A row fit to be referred to stays so.
LEMMA ServesStable ==
    ASSUME Grows, NEW u, NEW in, Serves(u, in)
    PROVE  Serves(u, in)'
  BY DEF Grows, RowsFreeze, Serves, Terminal, TxIds

\* A balance that a wallet has had is one it has had.
LEMMA BalancesStable ==
    ASSUME TypeOK, TypeOK', Grows, NEW w \in Wallets
    PROVE  BalancesOf(w) \subseteq BalancesOf(w)'
  <1>1. /\ Len(ledger[w]) \in Nat /\ Len(ledger'[w]) \in Nat
        /\ Len(ledger'[w]) >= Len(ledger[w])
        /\ \A i \in 1..Len(ledger[w]) : ledger'[w][i] = ledger[w][i]
    BY DEF TypeOK, RowsTypeOK, Grows, LedgerGrows
  <1>2. \A i \in 1..Len(ledger[w]) : i \in 1..Len(ledger'[w])
    BY <1>1
  <1> QED
    BY <1>1, <1>2 DEF BalancesOf

\* The reasons of a refusal stay reasons.
LEMMA JustifiedStable ==
    ASSUME Grows, NEW t, NEW in, NEW row, Justified(t, in, row)
    PROVE  Justified(t, in, row)'
  <1>1. \A u \in Requests : txs[u].status \in Terminal => txs'[u] = txs[u]
    BY DEF Grows, RowsFreeze, TxIds
  <1>2. \A u \in Requests : Moved(u) => Moved(u)'
    BY <1>1 DEF Moved, KindOf, Terminal, Grows
  <1> QED
    BY <1>1, <1>2 DEF Justified, Grows, Terminal

\* What a session knows survives the steps of the others.
LEMMA KnowsStable ==
    ASSUME TypeOK, TypeOK', Grows, NEW q \in Sessions, Idles(q), Knows(q)
    PROVE  Knows(q)'
  <1>1. Asked(q)' = Asked(q)
    BY DEF Asked, Grows, Idles
  <1>2. Admitted(q)'
    BY <1>1 DEF Knows, Admitted, Settling, Grows, Idles
  <1>3. PlanHonest(q)'
    BY <1>1, ServesStable DEF Knows, PlanHonest, Settling, Idles
  <1>4. RefusalHonest(q)'
    <2>1. pc[q] \in Reading => Asked(q).wallet \in Wallets
      BY TaskTyped, InputsTyped DEF Asked, Reading
    <2>2. pc'[q] \in Reading => snap'[q].balance \in BalancesOf(Asked(q).wallet)'
      BY <1>1, <2>1, BalancesStable DEF Knows, RefusalHonest, Idles
    <2> QED
      BY <1>1, <2>2, JustifiedStable DEF Knows, RefusalHonest, Idles
  <1> QED
    BY <1>2, <1>3, <1>4 DEF Knows

\* What a caller was told stays true.
LEMMA ReplyStable ==
    ASSUME Grows, NEW r \in Requests, pc'[r] = pc[r], reply'[r] = reply[r], ReplyHonest(r)
    PROVE  ReplyHonest(r)'
  <1>1. /\ input' = input
        /\ \A t \in Requests : /\ txs[t].status \in Terminal => txs'[t] = txs[t]
                               /\ txs[t].status # "ABSENT" => txs'[t].status # "ABSENT"
    BY DEF Grows, RowsFreeze, TxIds
  <1>2. ASSUME Durable(r) PROVE Durable(r)'
    <2> DEFINE t == reply[r].tx
    <2>1. /\ t \in Requests /\ txs[t].status # "ABSENT"
          /\ SameContent(input[t], input[r]) /\ input[t].key = input[r].key
          /\ reply[r].status \in Terminal =>
                /\ txs[t].status = reply[r].status
                /\ txs[t].failure = reply[r].failure
                /\ txs[t].result \in {Null, reply[r].balance}
      BY <1>2 DEF Durable
    <2>2. reply[r].status \in Terminal => txs'[t] = txs[t]
      BY <1>1, <2>1
    <2> QED
      BY <1>1, <2>1, <2>2 DEF Durable
  <1>3. Stored \subseteq Stored'
    BY <1>1 DEF Stored
  <1> QED
    BY <1>1, <1>2, <1>3 DEF ReplyHonest, Clashes

--------------------------------------------------------------------------------
(* The steps that leave the database alone.                                  *)

\* Leaving the rows alone takes nothing back.
LEMMA QuietGrows ==
    ASSUME TypeOK, UNCHANGED << input, db >>
    PROVE  Grows
  <1>1. \A w \in Wallets : Len(ledger[w]) \in Nat /\ wallets[w].version \in Nat
    BY DEF TypeOK, RowsTypeOK, WalletRows
  <1> QED
    BY <1>1 DEF db, Grows, LedgerGrows, RowsFreeze, VersionsGrow

\* A step of one session that leaves the rows alone keeps the invariant if it
\* leaves that session honest and takes no lock that is held.
LEMMA QuietK ==
    ASSUME IInv, IInv', KInv, NEW p \in Sessions, Alone(p),
           UNCHANGED << input, db, openReply >>,
           Knows(p)', ReversalSeen(p)',
           p \in Requests => ReplyHonest(p)' /\ InsertHeld(p)',
           p \in Workers => RowHeld(p)'
    PROVE  KInv'
  <1>0. Grows /\ TypeOK /\ TypeOK'
    BY QuietGrows DEF IInv
  <1>1. \A q \in Sessions \ {p} : Idles(q)
    BY DEF Alone, Idles
  <1>2. \A q \in Sessions : Knows(q)' /\ ReversalSeen(q)'
    <2> SUFFICES ASSUME NEW q \in Sessions, q # p PROVE Knows(q)' /\ ReversalSeen(q)'
      OBVIOUS
    <2>1. Knows(q) /\ ReversalSeen(q)
      BY DEF KInv
    <2>2. Knows(q)'
      BY <1>0, <1>1, <2>1, KnowsStable
    <2>3. ReversalSeen(q)'
      BY <1>1, <2>1 DEF Idles, ReversalSeen, Settling, Asked, Reverses, db
    <2> QED
      BY <2>2, <2>3
  <1>3. \A r \in Requests : ReplyHonest(r)'
    BY <1>0, ReplyStable DEF Alone, KInv, Sessions
  <1>4. \A q \in Requests : InsertHeld(q)'
    <2> SUFFICES ASSUME NEW q \in Requests, q # p, HoldsInsert(q)'
                 PROVE  /\ \A t \in Stored' : ~ Clashes(q, t)'
                        /\ \A r \in Requests : HoldsInsert(r)' /\ Clashes(q, r)' => q = r
      BY DEF InsertHeld
    <2>1. HoldsInsert(q) /\ InsertHeld(q)
      BY DEF HoldsInsert, Alone, Sessions, KInv, Locks
    <2>2. Stored' = Stored /\ \A r, t \in Requests : Clashes(r, t)' = Clashes(r, t)
      BY DEF Stored, Clashes, db
    <2>3. \A t \in Stored' : ~ Clashes(q, t)'
      BY <2>1, <2>2 DEF InsertHeld, Stored
    <2>4. ASSUME NEW r \in Requests, HoldsInsert(r)', Clashes(q, r)' PROVE q = r
      <3>1. CASE r # p
        BY <2>1, <2>2, <2>4, <3>1 DEF InsertHeld, HoldsInsert, Alone, Sessions
      <3>2. CASE r = p
        <4>1. InsertHeld(r)'
          BY <3>2
        <4>2. Clashes(r, q)'
          BY <2>4 DEF Clashes
        <4> QED
          BY <2>4, <4>1, <4>2 DEF InsertHeld
      <3> QED
        BY <3>1, <3>2
    <2> QED
      BY <2>3, <2>4
  <1>5. \A q \in Workers : RowHeld(q)'
    <2> SUFFICES ASSUME NEW q \in Workers, q # p, NEW t \in Requests, HoldsRow(q, t)'
                 PROVE  /\ txs'[t].status = "PENDING_REFERENCE"
                        /\ \A r \in Workers : HoldsRow(r, t)' => q = r
      BY DEF RowHeld
    <2>1. HoldsRow(q, t) /\ RowHeld(q)
      BY DEF HoldsRow, Alone, Sessions, KInv, Locks
    <2>2. txs'[t].status = "PENDING_REFERENCE"
      BY <2>1 DEF RowHeld, db
    <2>3. ASSUME NEW r \in Workers, HoldsRow(r, t)' PROVE q = r
      <3>1. CASE r # p
        BY <2>1, <2>3, <3>1 DEF RowHeld, HoldsRow, Alone, Sessions
      <3>2. CASE r = p
        <4>1. RowHeld(r)'
          BY <3>2
        <4> QED
          BY <2>3, <4>1 DEF RowHeld
      <3> QED
        BY <3>1, <3>2
    <2> QED
      BY <2>2, <2>3
  <1>6. RowsKnown'
    BY DEF KInv, RowsKnown, RowHonest, Serves, ReversalsDiffer, Reverses, WalletHonest,
           IsOpen, db
  <1> QED
    BY <1>2, <1>3, <1>4, <1>5, <1>6 DEF KInv, Locks

\* What a session that leaves its attempt tells its caller, if anything.
TellsTruth(r, rep) ==
    /\ rep.code \in {"ok", "draft"} =>
          LET t == rep.tx
              row == txs[t]
          IN /\ t \in Requests /\ row.status # "ABSENT"
             /\ SameContent(input[t], input[r]) /\ input[t].key = input[r].key
             /\ rep.status \in Terminal =>
                   /\ row.status = rep.status
                   /\ row.failure = rep.failure
                   /\ row.result \in {Null, rep.balance}
    /\ rep.code = "conflict" =>
          \E t \in Stored :
             /\ Clashes(r, t)
             /\ input[t].key # input[r].key \/ ~ SameContent(input[t], input[r])

\* A session between two attempts knows nothing and holds nothing.
LEMMA LeavesEmpty ==
    ASSUME TypeOK, NEW p \in Sessions, NEW label \in {"done", "idle", "byKey"}, NEW rep,
           Leaves(p, label, rep)
    PROVE  /\ Alone(p) /\ Knows(p)' /\ ReversalSeen(p)'
           /\ ~ HoldsInsert(p)' /\ \A t : label = "idle" => ~ HoldsRow(p, t)'
           /\ pc'[p] = label /\ plan'[p] = NoPlan
  <1>1. pc'[p] = label /\ plan'[p] = NoPlan
    BY DEF Leaves, TypeOK, SessionsTypeOK
  <1>2. plan'[p].ref = None
    BY <1>1 DEF NoPlan
  <1>3. Alone(p)
    BY DEF Leaves, Alone, TypeOK, SessionsTypeOK
  <1>4. Knows(p)' /\ ReversalSeen(p)'
    BY <1>1, <1>2 DEF Knows, Admitted, PlanHonest, RefusalHonest, ReversalSeen, Settling, Reading
  <1>5. ~ HoldsInsert(p)' /\ \A t : label = "idle" => ~ HoldsRow(p, t)'
    BY <1>1 DEF HoldsInsert, HoldsRow, Sessions
  <1> QED
    BY <1>1, <1>3, <1>4, <1>5

\* Ending a call, a resumption or an attempt that will run again.
LEMMA LeavesK ==
    ASSUME IInv, IInv', KInv, NEW p \in Sessions, NEW label, NEW rep, Leaves(p, label, rep),
           p \in Workers => label = "idle",
           label \in {"done", "idle", "byKey"},
           p \in Requests => TellsTruth(p, rep),
           UNCHANGED << input, db, openReply >>
    PROVE  KInv'
  <1>1. /\ Alone(p) /\ Knows(p)' /\ ReversalSeen(p)'
        /\ ~ HoldsInsert(p)' /\ \A t : label = "idle" => ~ HoldsRow(p, t)'
        /\ pc'[p] = label
    BY LeavesEmpty DEF IInv
  <1>2. p \in Workers => RowHeld(p)'
    BY <1>1, SessionsAssumption DEF RowHeld
  <1>3. p \in Requests => InsertHeld(p)'
    BY <1>1 DEF InsertHeld
  <1>4. ASSUME p \in Requests PROVE ReplyHonest(p)'
    <2>1. reply'[p] = rep
      BY <1>4 DEF Leaves, IInv, TypeOK, SessionsTypeOK
    <2>2. TellsTruth(p, rep)
      BY <1>4
    <2>3. pc'[p] # "replay"
      BY <1>1
    <2> QED
      BY <2>1, <2>2, <2>3
         DEF TellsTruth, ReplyHonest, Durable, Stored, Clashes, db
  <1> QED
    BY <1>1, <1>2, <1>3, <1>4, QuietK

\* An error names no row.
LEMMA ErrorsTellNothing ==
    ASSUME NEW code \in Codes \ {"ok", "draft", "conflict"}, NEW r
    PROVE  TellsTruth(r, ErrorReply(code))
  BY DEF TellsTruth, ErrorReply, Reply, Codes

\* A request that ends in an answer keeps the invariant if the answer tells the
\* truth.
LEMMA ClosesK ==
    ASSUME IInv, IInv', KInv, NEW p \in Sessions, NEW rep, Closes(p, rep),
           p \in Requests => TellsTruth(p, rep),
           UNCHANGED << input, db, openReply >>
    PROVE  KInv'
  <1>1. Leaves(p, IF p \in Requests THEN "done" ELSE "idle", rep)
    BY DEF Closes
  <1> QED
    BY <1>1, LeavesK, SessionsAssumption

\* Starting over keeps what the last attempt left of an answer, nothing.
LEMMA RunsAgainK ==
    ASSUME IInv, IInv', KInv, NEW p \in Sessions, RunsAgain(p),
           UNCHANGED << input, db, openReply >>
    PROVE  KInv'
  <1>1. CASE p \in Requests /\ tries[p] + 1 < MaxRetries
    <2>1. Leaves(p, "byKey", reply[p])
      BY <1>1 DEF RunsAgain
    <2>2. ReplyHonest(p)
      BY <1>1 DEF KInv
    <2>3. TellsTruth(p, reply[p])
      BY <2>2 DEF ReplyHonest, TellsTruth, Durable
    <2> QED
      BY <1>1, <2>1, <2>3, LeavesK, SessionsAssumption
  <1>2. CASE ~ (p \in Requests /\ tries[p] + 1 < MaxRetries)
    <2>1. Closes(p, ErrorReply("tooManyRetries"))
      BY <1>2 DEF RunsAgain
    <2>2. TellsTruth(p, ErrorReply("tooManyRetries"))
      BY ErrorsTellNothing DEF Codes
    <2> QED
      BY <2>1, <2>2, ClosesK
  <1> QED
    BY <1>1, <1>2

\* The statements a session may go on to, and why.
MaySettle(p, ref) ==
    /\ Asked(p).kind # "LOSS" /\ (Asked(p).ref # None => ref # None)
    /\ Asked(p).kind \in Reversals => \A t \in Requests : ~ Reverses(t, ref)

\* A session may refuse with a code that its reference or the balance justifies.
MayRefuse(p, code) ==
    /\ Justified(task[p], Asked(p), [failure |-> code, result |-> snap[p].balance])
    /\ \/ Asked(p).kind = "BET" \/ Asked(p).ref # None
       \/ Asked(p).cur # CurrencyOf[Asked(p).wallet]

\* What a plan presupposes, whatever it plans.
MayPlan(p, label, do, code, ref) ==
    /\ label \notin {"replay", "idle"} /\ (label \in Reading => pc[p] \in Reading)
    /\ label = "save" => do = "settle"
    /\ label = "commit" => do # "settle"
    /\ ref # None => Asked(p).ref # None /\ Serves(ref, Asked(p))
    /\ label \in {"resume", "reference", "reversal", "save"} \/ do \in {"pend", "loss"} =>
          Asked(p).cur = CurrencyOf[Asked(p).wallet]
    /\ label \in {"resume", "reference", "reversal"} \/ do = "pend" => Asked(p).ref # None
    /\ label = "reversal" => ref # None /\ Asked(p).kind \in Reversals
    /\ label = "save" => MaySettle(p, ref)
    /\ label = "commit" =>
          /\ do = "loss" => Asked(p).kind = "LOSS"
          /\ do = "pend" => p \in Requests
          /\ do = "retry" => p \in Workers
          /\ do \in {"pend", "retry"} => ref = None
          /\ do = "reject" => MayRefuse(p, code)

\* What the lock that comes with the next statement presupposes.
MayHold(p, label) ==
    /\ p \in Requests /\ label \in {"reference", "reversal", "save", "commit"} =>
          \/ HoldsInsert(p)
          \/ /\ \A t \in Stored : ~ Clashes(p, t)
             /\ \A q \in Requests \ {p} : HoldsInsert(q) => ~ Clashes(p, q)
    /\ p \in Workers =>
          \/ HoldsRow(p, task[p])
          \/ /\ txs[task[p]].status = "PENDING_REFERENCE"
             /\ \A q \in Workers \ {p} : ~ HoldsRow(q, task[p])

\* A plan whose grounds are there keeps the invariant.
LEMMA PlansK ==
    ASSUME IInv, IInv', KInv, NEW p \in Sessions, pc[p] # "idle", NEW label, NEW do, NEW code, NEW ref,
           Plans(p, label, do, code, ref), MayPlan(p, label, do, code, ref), MayHold(p, label),
           UNCHANGED << input, db, openReply >>
    PROVE  KInv'
  <1>1. /\ pc'[p] = label /\ plan'[p] = [do |-> do, code |-> code, ref |-> ref]
        /\ snap'[p] = snap[p] /\ task'[p] = task[p]
        /\ plan'[p].do = do /\ plan'[p].code = code /\ plan'[p].ref = ref
    BY DEF Plans, IInv, TypeOK, SessionsTypeOK
  <1>2. Alone(p)
    BY DEF Plans, Alone, IInv, TypeOK, SessionsTypeOK
  <1>3. Asked(p)' = Asked(p) /\ UNCHANGED << input, wallets, txs, ledger >>
    BY <1>1 DEF Asked, db
  <1>4. Admitted(p)'
    BY <1>1, <1>3 DEF KInv, Knows, Admitted, Settling, MayPlan
  <1>5. PlanHonest(p)'
    BY <1>1, <1>3 DEF PlanHonest, Settling, MayPlan, MaySettle, Serves
  <1>6. RefusalHonest(p)'
    <2>1. pc'[p] \in Reading => snap'[p].balance \in BalancesOf(Asked(p).wallet)'
      BY <1>1, <1>3 DEF KInv, Knows, RefusalHonest, MayPlan, BalancesOf
    <2>2. ASSUME label = "commit", do = "reject"
          PROVE  Justified(task[p], Asked(p), [failure |-> code, result |-> snap[p].balance])'
      <3>1. Grows
        BY QuietGrows DEF IInv
      <3>2. Justified(task[p], Asked(p), [failure |-> code, result |-> snap[p].balance])
        BY <2>2 DEF MayPlan, MayRefuse
      <3> HIDE DEF IInv
      <3> QED
        BY <1>1, <1>3, <3>1, <3>2, JustifiedStable
    <2> QED
      BY <1>1, <1>3, <2>1, <2>2 DEF RefusalHonest, MayPlan, MayRefuse
  <1>7. ReversalSeen(p)'
    BY <1>1, <1>3 DEF ReversalSeen, Settling, MayPlan, MaySettle, Reverses
  <1>8. p \in Requests => ReplyHonest(p)'
    BY <1>1, <1>3 DEF KInv, ReplyHonest, Durable, Stored, Clashes, MayPlan, Plans
  <1>9. ASSUME p \in Requests PROVE InsertHeld(p)'
    <2>1. \A q \in Requests \ {p} : HoldsInsert(q)' = HoldsInsert(q)
      BY <1>2 DEF HoldsInsert, Alone, Sessions
    <2>2. Stored' = Stored /\ \A r, t \in Requests : Clashes(r, t)' = Clashes(r, t)
      BY <1>3 DEF Stored, Clashes
    <2>3. CASE HoldsInsert(p)
      BY <1>9, <2>1, <2>2, <2>3 DEF KInv, Locks, InsertHeld, Stored
    <2>4. CASE ~ HoldsInsert(p)
      BY <1>1, <1>9, <2>1, <2>2, <2>4 DEF InsertHeld, MayHold, HoldsInsert, Stored
    <2> QED
      BY <2>3, <2>4
  <1>10. ASSUME p \in Workers PROVE RowHeld(p)'
    <2>1. \A q \in Workers \ {p} : \A t : HoldsRow(q, t)' = HoldsRow(q, t)
      BY <1>2 DEF HoldsRow, Alone, Sessions
    <2>2. \A t : HoldsRow(p, t)' => t = task[p]
      BY <1>1 DEF HoldsRow
    <2>3. CASE HoldsRow(p, task[p])
      BY <1>3, <1>10, <2>1, <2>2, <2>3 DEF KInv, Locks, RowHeld
    <2>4. CASE ~ HoldsRow(p, task[p])
      BY <1>3, <1>10, <2>1, <2>2, <2>4 DEF RowHeld, MayHold
    <2> QED
      BY <2>3, <2>4
  <1> QED
    BY <1>2, <1>4, <1>5, <1>6, <1>7, <1>8, <1>9, <1>10, QuietK DEF Knows

\* What a decision says of the balance it was taken on (attempt, 354-414).
LEMMA DecisionMeans ==
    ASSUME NEW in, NEW refKind, NEW balance
    PROVE  LET d == Decision(in, refKind, balance) IN
           /\ d.do \in {"settle", "loss", "reject", "overflow"}
           /\ d.do = "loss" <=> in.kind = "LOSS"
           /\ d.do = "reject" =>
                 /\ ~ (in.amount <= balance)
                 /\ d.code \in {"INSUFFICIENT_BALANCE", "REVERSAL_INSUFFICIENT_BALANCE"}
                 /\ in.kind = "BET" \/ refKind \in {"WIN", "REFUND"}
  <1> DEFINE dir == Direction(in.kind, refKind)
  <1> SUFFICES ASSUME NEW d, d = Decision(in, refKind, balance)
               PROVE  /\ d.do \in {"settle", "loss", "reject", "overflow"}
                      /\ d.do = "loss" <=> in.kind = "LOSS"
                      /\ d.do = "reject" =>
                            /\ ~ (in.amount <= balance)
                            /\ d.code \in {"INSUFFICIENT_BALANCE", "REVERSAL_INSUFFICIENT_BALANCE"}
                            /\ in.kind = "BET" \/ refKind \in {"WIN", "REFUND"}
    OBVIOUS
  <1>0. d = Decision(in, refKind, balance)
    OBVIOUS
  <1>1. CASE in.kind = "LOSS"
    <2>1. d.do = "loss" /\ d.code = NoFailure
      BY <1>0, <1>1 DEF Decision
    <2> QED
      BY <1>1, <2>1
  <1>2. CASE in.kind # "LOSS" /\ dir = "DEBIT" /\ ~ Covered(balance, in.amount)
    <2>1. d.do = "reject" /\ d.code = InsufficientCode(in.kind)
      BY <1>0, <1>2 DEF Decision
    <2>2. in.kind = "BET" \/ refKind \in {"WIN", "REFUND"}
      BY <1>2 DEF Direction
    <2>3. ~ (in.amount <= balance)
      BY <1>2 DEF Covered
    <2> QED
      BY <1>2, <2>1, <2>2, <2>3 DEF InsufficientCode
  <1>3. CASE in.kind # "LOSS" /\ dir = "CREDIT" /\ Overflows(balance, in.amount)
    <2>1. d.do = "overflow"
      BY <1>0, <1>3 DEF Decision
    <2> QED
      BY <1>3, <2>1
  <1>4. CASE /\ in.kind # "LOSS"
             /\ ~ (dir = "DEBIT" /\ ~ Covered(balance, in.amount))
             /\ ~ (dir = "CREDIT" /\ Overflows(balance, in.amount))
    <2>1. d.do = "settle"
      BY <1>0, <1>4 DEF Decision
    <2> QED
      BY <1>4, <2>1
  <1> QED
    BY <1>1, <1>2, <1>3, <1>4

\* The decision is taken on facts that stay true until it is committed.
LEMMA DecidesK ==
    ASSUME IInv, IInv', KInv, NEW p \in Sessions, pc[p] \in Reading, NEW ref, Decides(p, ref),
           ref # None => Asked(p).ref # None /\ Serves(ref, Asked(p)),
           Asked(p).ref # None => ref # None,
           Asked(p).cur = CurrencyOf[Asked(p).wallet],
           Asked(p).kind \in Reversals => \A t \in Requests : ~ Reverses(t, ref),
           \A label : MayHold(p, label),
           UNCHANGED << input, db, openReply >>
    PROVE  KInv'
  <1> DEFINE do   == Decision(Asked(p), RefKind(ref), snap[p].balance).do
             code == Decision(Asked(p), RefKind(ref), snap[p].balance).code
  <1>0. pc[p] # "idle" /\ task[p] \in Requests
    BY TaskTyped DEF Reading, IInv
  <1>1. Asked(p).amount \in Int /\ snap[p].balance \in Int
    BY <1>0, InputsTyped, MaxMinorAssumption
       DEF Asked, IInv, TypeOK, SessionsTypeOK, WalletRows, Amounts
  <1>2. /\ do \in {"settle", "loss", "reject", "overflow"}
        /\ do = "loss" <=> Asked(p).kind = "LOSS"
        /\ do = "reject" =>
              /\ ~ (Asked(p).amount <= snap[p].balance)
              /\ code \in {"INSUFFICIENT_BALANCE", "REVERSAL_INSUFFICIENT_BALANCE"}
              /\ Asked(p).kind = "BET" \/ RefKind(ref) \in {"WIN", "REFUND"}
    BY DecisionMeans
  <1>3. CASE do = "overflow"
    <2>1. Closes(p, ErrorReply("overflow"))
      BY <1>3 DEF Decides
    <2> QED
      BY <2>1, ErrorsTellNothing, ClosesK DEF Codes
  <1>4. CASE do # "overflow"
    <2>1. Plans(p, IF do = "settle" THEN "save" ELSE "commit", do, code, ref)
      BY <1>4 DEF Decides
    <2>2. do = "reject" => MayRefuse(p, code)
      <3> SUFFICES ASSUME do = "reject" PROVE MayRefuse(p, code)
        OBVIOUS
      <3>1. Asked(p).kind = "BET" \/ ref # None
        BY <1>2, NoneAssumption DEF RefKind, Kinds
      <3>2. Asked(p).amount > snap[p].balance
        BY <1>1, <1>2
      <3> HIDE DEF do, code
      <3> QED
        BY <1>2, <3>1, <3>2 DEF MayRefuse, Justified
    <2> HIDE DEF do, code
    <2>3. MayPlan(p, IF do = "settle" THEN "save" ELSE "commit", do, code, ref)
      BY <1>2, <2>2 DEF MayPlan, MaySettle, Reading
    <2> QED
      BY <1>0, <2>1, <2>3, PlansK
  <1> QED
    BY <1>3, <1>4

--------------------------------------------------------------------------------
(* One lemma per action that leaves the database alone.                       *)

\* A kind that is not supported is refused before anything is read.
LEMMA RefuseKindK ==
    ASSUME IInv, IInv', KInv, NEW r \in Requests, RefuseKind(r)
    PROVE  KInv'
  <1>1. TellsTruth(r, ErrorReply("unsupportedKind"))
    BY ErrorsTellNothing DEF Codes
  <1> QED
    BY <1>1, ClosesK DEF RefuseKind, Sessions

\* An answer repeated from a stored row says what the row says.
LEMMA ReplaysK ==
    ASSUME IInv, IInv', KInv, NEW r \in Requests, pc[r] \in {"byKey", "byOp"},
           NEW t \in Stored, Replays(r, t),
           SameContent(input[t], input[r]), input[t].key = input[r].key,
           UNCHANGED << input, db, openReply >>
    PROVE  KInv'
  <1> DEFINE rep == Reply("ok", t, txs[t].status, txs[t].failure, txs[t].result, TRUE)
  <1>1. /\ rep.code = "ok" /\ rep.tx = t /\ rep.status = txs[t].status
        /\ rep.failure = txs[t].failure /\ rep.balance = txs[t].result
    BY DEF Reply
  <1>2. r \in Sessions /\ r \notin Workers /\ t \in Requests /\ txs[t].status # "ABSENT"
    BY SessionsAssumption DEF Sessions, Stored
  <1>3. CASE txs[t].result # Null
    <2>1. TellsTruth(r, rep)
      BY <1>1, <1>2 DEF TellsTruth
    <2>2. Closes(r, rep)
      BY <1>3 DEF Replays
    <2> QED
      BY <1>2, <2>1, <2>2, ClosesK
  <1>4. CASE txs[t].result = Null
    <2>1. /\ pc' = [pc EXCEPT ![r] = "replay"]
          /\ reply' = [reply EXCEPT ![r] = [rep EXCEPT !.code = "draft"]]
          /\ UNCHANGED << task, snap, plan, tries >>
      BY <1>4 DEF Replays
    <2>2. /\ pc'[r] = "replay" /\ reply'[r] = [rep EXCEPT !.code = "draft"] /\ Alone(r)
          /\ plan'[r] = plan[r]
      BY <1>2, <2>1 DEF IInv, TypeOK, SessionsTypeOK, Alone
    <2>3. /\ reply'[r].code = "draft" /\ reply'[r].tx = t /\ reply'[r].status = txs[t].status
          /\ reply'[r].failure = txs[t].failure /\ reply'[r].balance = Null
      BY <1>1, <1>4, <2>2 DEF Reply
    <2>4. /\ input' = input /\ txs' = txs /\ Asked(r)' = Asked(r)
      BY <2>1 DEF db, Asked
    <2>5. ReplyHonest(r)'
      BY <1>2, <1>4, <2>2, <2>3, <2>4 DEF ReplyHonest, Durable
    <2>6. Knows(r)'
      BY <1>2, <2>2, <2>4
         DEF KInv, Knows, Admitted, PlanHonest, RefusalHonest, Settling, Reading, Serves
    <2>7. ReversalSeen(r)' /\ InsertHeld(r)'
      BY <2>2 DEF ReversalSeen, Settling, InsertHeld, HoldsInsert
    <2> QED
      BY <1>2, <2>2, <2>5, <2>6, <2>7, QuietK
  <1> QED
    BY <1>3, <1>4

\* A conflict has a stored row to show for it.
LEMMA ConflictK ==
    ASSUME IInv, IInv', KInv, NEW r \in Requests, Closes(r, ErrorReply("conflict")),
           NEW t \in Stored, Clashes(r, t),
           input[t].key # input[r].key \/ ~ SameContent(input[t], input[r]),
           UNCHANGED << input, db, openReply >>
    PROVE  KInv'
  <1>1. TellsTruth(r, ErrorReply("conflict"))
    BY DEF TellsTruth, ErrorReply, Reply
  <1> QED
    BY <1>1, ClosesK DEF Sessions

\* Going on to the next lookup, or to the wallet.
LEMMA NextLookupK ==
    ASSUME IInv, IInv', KInv, NEW r \in Requests, pc[r] \in {"byKey", "byOp"},
           NEW label \in {"byOp", "wallet"}, Plans(r, label, "none", NoFailure, None),
           UNCHANGED << input, db, openReply >>
    PROVE  KInv'
  <1>1. r \in Sessions /\ r \notin Workers /\ pc[r] # "idle"
    BY SessionsAssumption DEF Sessions
  <1>2. MayPlan(r, label, "none", NoFailure, None) /\ MayHold(r, label)
    BY <1>1 DEF MayPlan, MayHold, Reading
  <1> QED
    BY <1>1, <1>2, PlansK

\* The lookup by key: an answer to repeat, a conflict, or the next lookup.
LEMMA FindByKeyK ==
    ASSUME IInv, IInv', KInv, NEW r \in Requests, FindByKey(r)
    PROVE  KInv'
  <1>1. pc[r] = "byKey" /\ UNCHANGED << input, db, openReply >>
    BY DEF FindByKey
  <1>2. CASE Plans(r, "byOp", "none", NoFailure, None)
    BY <1>1, <1>2, NextLookupK
  <1>3. ASSUME NEW t \in Stored, input[t].key = input[r].key,
               IF KeyMatches(r, t) THEN Replays(r, t)
               ELSE Closes(r, ErrorReply("conflict"))
        PROVE  KInv'
    <2>1. CASE KeyMatches(r, t)
      BY <1>1, <1>3, <2>1, ReplaysK DEF KeyMatches
    <2>2. CASE ~ KeyMatches(r, t)
      BY <1>1, <1>3, <2>2, ConflictK DEF KeyMatches, Clashes
    <2> QED
      BY <2>1, <2>2
  <1> QED
    BY <1>2, <1>3 DEF FindByKey

\* The lookup by operation: an answer to repeat, a conflict, or the wallet.
LEMMA FindByOpK ==
    ASSUME IInv, IInv', KInv, NEW r \in Requests, FindByOp(r)
    PROVE  KInv'
  <1>1. pc[r] = "byOp" /\ UNCHANGED << input, db, openReply >>
    BY DEF FindByOp
  <1>2. CASE Plans(r, "wallet", "none", NoFailure, None)
    BY <1>1, <1>2, NextLookupK
  <1>3. ASSUME NEW t \in Stored, input[t].op = input[r].op,
               IF OpMatches(r, t) THEN Replays(r, t)
               ELSE Closes(r, ErrorReply("conflict"))
        PROVE  KInv'
    <2>1. CASE OpMatches(r, t)
      BY <1>1, <1>3, <2>1, ReplaysK DEF OpMatches
    <2>2. CASE ~ OpMatches(r, t)
      BY <1>1, <1>3, <2>2, ConflictK DEF OpMatches, Clashes
    <2> QED
      BY <2>1, <2>2
  <1> QED
    BY <1>2, <1>3 DEF FindByOp

\* A replay without a stored result answers with the balance of the day; the rest
\* is the row's.
LEMMA ReplayCurrentK ==
    ASSUME IInv, IInv', KInv, NEW r \in Requests, ReplayCurrent(r)
    PROVE  KInv'
  <1> DEFINE rep == [reply[r] EXCEPT !.code = "ok",
                                     !.balance = wallets[input[r].wallet].balance]
  <1>1. ReplyHonest(r) /\ reply[r].code = "draft" /\ reply[r].balance = Null /\ Durable(r)
    BY DEF KInv, ReplyHonest, ReplayCurrent
  <1>2. /\ rep.code = "ok" /\ rep.tx = reply[r].tx /\ rep.status = reply[r].status
        /\ rep.failure = reply[r].failure
    BY DEF IInv, TypeOK, SessionsTypeOK, ReplyRecords
  <1>3. TellsTruth(r, rep)
    BY <1>1, <1>2 DEF TellsTruth, Durable
  <1> QED
    BY <1>3, ClosesK DEF ReplayCurrent, Sessions

\* A process that stops loses the answer and nothing else.
LEMMA CrashK ==
    ASSUME IInv, IInv', KInv, NEW p \in Sessions, Crash(p)
    PROVE  KInv'
  <1>1. TellsTruth(p, ErrorReply("lost"))
    BY ErrorsTellNothing DEF Codes
  <1> QED
    BY <1>1, ClosesK DEF Crash

\* The balance of an open wallet is one it has had, now.
LEMMA CurrentIsHistory ==
    ASSUME IInv, KInv, NEW w \in Wallets, IsOpen(w)
    PROVE  wallets[w].balance \in BalancesOf(w)
  <1>1. openReply[w] = "ok"
    BY DEF KInv, RowsKnown, WalletHonest, IsOpen, NoWallet
  <1>2. InitialOf[w] # 0 => ledger[w] # << >>
    BY <1>1 DEF KInv, RowsKnown, WalletHonest
  <1>3. /\ ledger[w] \in Seq(Entries)
        /\ wallets[w].balance = IF ledger[w] = <<>> THEN 0 ELSE ledger[w][Len(ledger[w])].after
    BY DEF IInv, TypeOK, RowsTypeOK, LedgerReconciles, Chains
  <1>4. CASE ledger[w] = << >>
    BY <1>2, <1>3, <1>4 DEF BalancesOf
  <1>5. CASE ledger[w] # << >>
    <2>1. Len(ledger[w]) \in 1..Len(ledger[w])
      BY <1>3, <1>5
    <2> QED
      BY <1>3, <1>5, <2>1 DEF BalancesOf
  <1> QED
    BY <1>4, <1>5

\* Reading the wallet.
LEMMA ReadWalletK ==
    ASSUME IInv, IInv', KInv, NEW p \in Sessions, pc[p] \in {"wallet", "resume"},
           Asked(p).wallet \in Wallets, IsOpen(Asked(p).wallet),
           NEW label, label = IF p \in Requests THEN "insert" ELSE "reference",
           p \in Requests => ValidInput(input[p]) /\ PlayerOf[input[p].wallet] = input[p].player,
           p \in Workers => pc[p] = "resume",
           snap' = [snap EXCEPT ![p] = wallets[Asked(p).wallet]],
           pc' = [pc EXCEPT ![p] = label],
           UNCHANGED << input, db, task, plan, tries, reply, openReply >>
    PROVE  KInv'
  <1>1. /\ pc'[p] = label /\ snap'[p] = wallets[Asked(p).wallet] /\ Alone(p)
        /\ Asked(p)' = Asked(p) /\ UNCHANGED << txs, ledger >>
    BY DEF IInv, TypeOK, SessionsTypeOK, Alone, Asked, db
  <1>2. Admitted(p)'
    BY <1>1, SessionsAssumption DEF KInv, Knows, Admitted, Settling, Sessions
  <1>3. PlanHonest(p)' /\ ReversalSeen(p)'
    BY <1>1 DEF KInv, Knows, PlanHonest, ReversalSeen, Settling, Serves
  <1>4. RefusalHonest(p)'
    BY <1>1, CurrentIsHistory DEF RefusalHonest, BalancesOf
  <1>5. p \in Requests => ReplyHonest(p)' /\ InsertHeld(p)'
    BY <1>1 DEF KInv, ReplyHonest, Durable, Stored, Clashes, InsertHeld, HoldsInsert
  <1>6. ASSUME p \in Workers PROVE RowHeld(p)'
    <2>1. \A q \in Workers : \A t : HoldsRow(q, t)' = HoldsRow(q, t)
      BY <1>1, <1>6, SessionsAssumption DEF HoldsRow, Alone, Sessions
    <2> QED
      BY <1>1, <1>6, <2>1 DEF KInv, Locks, RowHeld
  <1> QED
    BY <1>1, <1>2, <1>3, <1>4, <1>5, <1>6, QuietK DEF Knows

\* The wallet of a request is read, or the request is refused for it.
LEMMA FindWalletK ==
    ASSUME IInv, IInv', KInv, NEW r \in Requests, FindWallet(r)
    PROVE  KInv'
  <1> DEFINE w == input[r].wallet
  <1>0. /\ r \in Sessions /\ r \notin Workers /\ w \in Wallets /\ Asked(r) = input[r]
        /\ pc[r] = "wallet" /\ UNCHANGED << input, db, openReply >>
    BY SessionsAssumption, InputsTyped
       DEF Sessions, IInv, Asked, TypeOK, SessionsTypeOK, FindWallet
  <1>1. ASSUME NEW code \in {"walletNotFound", "playerMismatch", "invalid"},
               Closes(r, ErrorReply(code))
        PROVE  KInv'
    <2>1. TellsTruth(r, ErrorReply(code))
      BY ErrorsTellNothing DEF Codes
    <2> QED
      BY <1>0, <1>1, <2>1, ClosesK
  <1>2. CASE /\ IsOpen(w) /\ ValidInput(input[r]) /\ PlayerOf[w] = input[r].player
             /\ snap' = [snap EXCEPT ![r] = wallets[w]]
             /\ pc' = [pc EXCEPT ![r] = "insert"]
             /\ UNCHANGED << task, plan, tries, reply >>
    BY <1>0, <1>2, ReadWalletK
  <1> QED
    BY <1>1, <1>2 DEF FindWallet

\* The wallet of a row resumed is read: it is there, for rows have wallets.
LEMMA ResumeWalletK ==
    ASSUME IInv, IInv', KInv, NEW p \in Workers, ResumeWallet(p)
    PROVE  KInv'
  <1>0. p \in Sessions /\ p \notin Requests /\ pc[p] = "resume"
    BY SessionsAssumption DEF Sessions, ResumeWallet
  <1>1. task[p] \in Requests
    BY <1>0, TaskTyped DEF IInv
  <1>2. Asked(p).wallet \in Wallets /\ IsOpen(Asked(p).wallet)
    BY <1>1, InputsTyped, SessionsAssumption DEF Asked, IInv, RowsHaveWallets
  <1> QED
    BY <1>0, <1>2, ReadWalletK DEF ResumeWallet

\* The insert: from here on the call owns its operation and its key.
LEMMA InsertK ==
    ASSUME IInv, IInv', KInv, NEW r \in Requests, Insert(r)
    PROVE  KInv'
  <1>0. /\ r \in Sessions /\ r \notin Workers /\ pc[r] = "insert" /\ pc[r] \in Reading
        /\ pc[r] # "idle" /\ UNCHANGED << input, db, openReply >> /\ Asked(r) = input[r]
    BY SessionsAssumption DEF Sessions, Insert, Reading, Asked, IInv, TypeOK, SessionsTypeOK
  <1>1. CASE RunsAgain(r)
    BY <1>0, <1>1, RunsAgainK
  <1>2. CASE ~ \E t \in Stored : Clashes(r, t)
    <2>1. \A label : MayHold(r, label)
      BY <1>0, <1>2 DEF MayHold, Insert
    <2>2. CASE /\ CurrencyOf[input[r].wallet] # input[r].cur
               /\ Plans(r, "commit", "reject", "CURRENCY_MISMATCH", None)
      <3>1. MayRefuse(r, "CURRENCY_MISMATCH")
        BY <1>0, <2>2 DEF MayRefuse, Justified
      <3>2. MayPlan(r, "commit", "reject", "CURRENCY_MISMATCH", None)
        BY <1>0, <3>1 DEF MayPlan
      <3> QED
        BY <1>0, <2>1, <2>2, <3>2, PlansK
    <2>3. CASE /\ CurrencyOf[input[r].wallet] = input[r].cur /\ input[r].ref # None
               /\ Plans(r, "reference", "none", NoFailure, None)
      <3>1. MayPlan(r, "reference", "none", NoFailure, None)
        BY <1>0, <2>3 DEF MayPlan
      <3> QED
        BY <1>0, <2>1, <2>3, <3>1, PlansK
    <2>4. CASE /\ CurrencyOf[input[r].wallet] = input[r].cur /\ input[r].ref = None
               /\ Decides(r, None)
      <3>1. input[r].kind \notin Reversals
        BY <1>0, <2>4 DEF KInv, Knows, Admitted, ValidInput, RefAllowed
      <3> QED
        BY <1>0, <2>1, <2>4, <3>1, DecidesK
    <2>5. \/ /\ CurrencyOf[input[r].wallet] # input[r].cur
             /\ Plans(r, "commit", "reject", "CURRENCY_MISMATCH", None)
          \/ /\ CurrencyOf[input[r].wallet] = input[r].cur /\ input[r].ref # None
             /\ Plans(r, "reference", "none", NoFailure, None)
          \/ /\ CurrencyOf[input[r].wallet] = input[r].cur /\ input[r].ref = None
             /\ Decides(r, None)
      BY <1>2 DEF Insert
    <2> QED
      BY <2>2, <2>3, <2>4, <2>5
  <1> QED
    BY <1>1, <1>2 DEF Insert

\* A session past the insert or the row lock keeps what it holds.
LEMMA StillHolds ==
    ASSUME NEW p \in Sessions, pc[p] \in {"reference", "reversal", "save", "commit"}, NEW label
    PROVE  MayHold(p, label)
  BY SessionsAssumption DEF Sessions, MayHold, HoldsInsert, HoldsRow

\* A reference that is not settled: a call waits for it unless it is over, a worker
\* tries again.
LEMMA PostponesK ==
    ASSUME IInv, IInv', KInv, NEW p \in Sessions, pc[p] = "reference", NEW status,
           Postpones(p, status),
           status \in Terminal => 
               \/ p \in Workers
               \/ \E u \in Requests : /\ input[u].op = Asked(p).ref /\ txs[u].status \in Terminal
                                      /\ txs[u].status # "PROCESSED",
           UNCHANGED << input, db, openReply >>
    PROVE  KInv'
  <1>0. /\ pc[p] # "idle" /\ pc[p] \in Reading /\ MayHold(p, "commit")
        /\ Asked(p).ref # None /\ Asked(p).cur = CurrencyOf[Asked(p).wallet]
    BY StillHolds DEF Reading, KInv, Knows, Admitted
  <1>1. CASE p \in Workers
    <2>1. Plans(p, "commit", "retry", NoFailure, None)
      BY <1>1 DEF Postpones
    <2>2. MayPlan(p, "commit", "retry", NoFailure, None)
      BY <1>0, <1>1 DEF MayPlan
    <2> QED
      BY <1>0, <2>1, <2>2, PlansK
  <1>2. CASE p \notin Workers /\ status \in Terminal
    <2>1. Plans(p, "commit", "reject", "REFERENCE_NOT_PROCESSABLE", None)
      BY <1>2 DEF Postpones
    <2>2. MayRefuse(p, "REFERENCE_NOT_PROCESSABLE")
      BY <1>0, <1>2 DEF MayRefuse, Justified
    <2>3. MayPlan(p, "commit", "reject", "REFERENCE_NOT_PROCESSABLE", None)
      BY <1>0, <2>2 DEF MayPlan
    <2> QED
      BY <1>0, <2>1, <2>3, PlansK
  <1>3. CASE p \notin Workers /\ status \notin Terminal
    <2>1. Plans(p, "commit", "pend", NoFailure, None)
      BY <1>3 DEF Postpones
    <2>2. MayPlan(p, "commit", "pend", NoFailure, None)
      BY <1>0, <1>3 DEF MayPlan, Sessions
    <2> QED
      BY <1>0, <2>1, <2>2, PlansK
  <1> QED
    BY <1>1, <1>2, <1>3

\* The lookup of the reference, and the rules of validateReference.
LEMMA FindReferenceK ==
    ASSUME IInv, IInv', KInv, NEW p \in Sessions, FindReference(p)
    PROVE  KInv'
  <1>0. /\ pc[p] = "reference" /\ pc[p] # "idle" /\ pc[p] \in Reading
        /\ UNCHANGED << input, db, openReply >>
        /\ \A label : MayHold(p, label)
        /\ Asked(p).ref # None /\ Asked(p).cur = CurrencyOf[Asked(p).wallet]
    BY StillHolds DEF Reading, FindReference, KInv, Knows, Admitted
  <1>1. CASE Postpones(p, "ABSENT")
    BY <1>0, <1>1, PostponesK DEF Terminal
  <1>2. ASSUME NEW t \in Finds(p, Asked(p).ref),
               IF ~ Usable(p, t) THEN Postpones(p, StatusSeen(p, t))
               ELSE LET code == ReferenceFailure(Asked(p), input[t]) IN
                    IF code # NoFailure THEN Plans(p, "commit", "reject", code, None)
                    ELSE IF Asked(p).kind \in Reversals
                         THEN Plans(p, "reversal", "none", NoFailure, t)
                    ELSE Decides(p, t)
        PROVE  KInv'
    <2>0. t \in Requests /\ input[t].op = Asked(p).ref
      BY <1>2 DEF Finds, Stored
    <2>1. CASE ~ Usable(p, t)
      <3>1. StatusSeen(p, t) \in Terminal =>
              \/ p \in Workers
              \/ txs[t].status \in Terminal /\ txs[t].status # "PROCESSED"
        BY <2>1 DEF StatusSeen, Usable, Terminal, Sessions
      <3> QED
        BY <1>0, <1>2, <2>0, <2>1, <3>1, PostponesK
    <2>2. CASE Usable(p, t)
      <3> DEFINE code == ReferenceFailure(Asked(p), input[t])
      <3>0. txs[t].status = "PROCESSED"
        BY <2>2 DEF Usable, StatusSeen
      <3>1. CASE code # NoFailure
        <4>1. Plans(p, "commit", "reject", code, None)
          BY <1>2, <2>2, <3>1
        <4>2. \/ code = "REFERENCE_MISMATCH" /\ ~ Agrees(Asked(p), input[t])
              \/ /\ code = "REFERENCE_NOT_PROCESSABLE"
                 /\ input[t].kind \notin ReferableKinds(Asked(p).kind)
          BY <3>1 DEF ReferenceFailure
        <4> HIDE DEF code
        <4>3. MayRefuse(p, code)
          BY <1>0, <2>0, <3>0, <4>2 DEF MayRefuse, Justified, Terminal
        <4>4. MayPlan(p, "commit", "reject", code, None)
          BY <1>0, <4>3 DEF MayPlan
        <4> QED
          BY <1>0, <4>1, <4>4, PlansK
      <3>2. CASE code = NoFailure
        <4>1. Serves(t, Asked(p))
          BY <2>0, <3>0, <3>2 DEF Serves
        <4>2. CASE Asked(p).kind \in Reversals
          <5>1. Plans(p, "reversal", "none", NoFailure, t)
            BY <1>2, <2>2, <3>2, <4>2
          <5>2. MayPlan(p, "reversal", "none", NoFailure, t)
            BY <1>0, <2>0, <4>1, <4>2, SessionsAssumption DEF MayPlan
          <5> QED
            BY <1>0, <5>1, <5>2, PlansK
        <4>3. CASE Asked(p).kind \notin Reversals
          <5>1. Decides(p, t)
            BY <1>2, <2>2, <3>2, <4>3
          <5> QED
            BY <1>0, <2>0, <4>1, <4>3, <5>1, SessionsAssumption, DecidesK
        <4> QED
          BY <4>2, <4>3
      <3> QED
        BY <3>1, <3>2
    <2> QED
      BY <2>1, <2>2
  <1> QED
    BY <1>1, <1>2 DEF FindReference

\* The row a session will write is its own: nobody has inserted it, or nobody else
\* has locked it, and it is still pending.
LEMMA HeldRow ==
    ASSUME IInv, KInv, NEW p \in Sessions, pc[p] \in {"reference", "reversal", "save", "commit"}
    PROVE  /\ task[p] \in Requests
           /\ p \in Requests => task[p] = p /\ HoldsInsert(p) /\ txs[p].status = "ABSENT"
           /\ p \in Workers => /\ HoldsRow(p, task[p])
                               /\ txs[task[p]].status = "PENDING_REFERENCE"
           /\ txs[task[p]].status \in {"ABSENT", "PENDING_REFERENCE"}
  <1>0. task[p] \in Requests
    BY TaskTyped DEF IInv
  <1>1. CASE p \in Requests
    <2>1. task[p] = p /\ HoldsInsert(p)
      BY <1>1 DEF HoldsInsert, IInv, TypeOK, SessionsTypeOK
    <2>2. p \notin Stored
      BY <1>1, <2>1 DEF KInv, Locks, InsertHeld, Clashes
    <2> QED
      BY <1>0, <1>1, <2>1, <2>2, SessionsAssumption DEF Stored
  <1>2. CASE p \in Workers
    <2>1. HoldsRow(p, task[p])
      BY <1>2 DEF HoldsRow
    <2>2. txs[task[p]].status = "PENDING_REFERENCE"
      BY <1>0, <1>2, <2>1 DEF KInv, Locks, RowHeld
    <2> QED
      BY <1>0, <1>2, <2>1, <2>2, SessionsAssumption
  <1> QED
    BY <1>1, <1>2 DEF Sessions

\* The lookup of a reversal: what it finds is another operation on the same
\* reference, settled before.
LEMMA FindReversalK ==
    ASSUME IInv, IInv', KInv, NEW p \in Sessions, FindReversal(p)
    PROVE  KInv'
  <1> DEFINE v == plan[p].ref
  <1>0. /\ pc[p] = "reversal" /\ pc[p] # "idle" /\ pc[p] \in Reading
        /\ UNCHANGED << input, db, openReply >>
        /\ \A label : MayHold(p, label)
        /\ Asked(p).ref # None /\ Asked(p).cur = CurrencyOf[Asked(p).wallet]
        /\ v # None /\ Asked(p).kind \in Reversals /\ Serves(v, Asked(p))
    BY StillHolds DEF Reading, FindReversal, KInv, Knows, Admitted, PlanHonest
  <1>1. ASSUME NEW u \in Requests, Reverses(u, v),
               Plans(p, "commit", "reject", "REFERENCE_ALREADY_REVERSED", None)
        PROVE  KInv'
    <2>1. task[p] \in Requests /\ txs[task[p]].status # "PROCESSED"
      BY <1>0, HeldRow
    <2>2. u # task[p]
      BY <1>1, <2>1 DEF Reverses
    <2>3. Moved(u) /\ input[u].kind \in Reversals
      BY <1>1, SessionsAssumption DEF Reverses, Moved, KindOf, Reversals
    <2>4. input[u].ref = Asked(p).ref
      <3>1. Serves(v, input[u])
        BY <1>0, <1>1 DEF Reverses, KInv, RowsKnown, RowHonest
      <3> QED
        BY <1>0, <3>1 DEF Serves
    <2>5. MayRefuse(p, "REFERENCE_ALREADY_REVERSED")
      BY <1>0, <2>2, <2>3, <2>4 DEF MayRefuse, Justified
    <2>6. MayPlan(p, "commit", "reject", "REFERENCE_ALREADY_REVERSED", None)
      BY <1>0, <2>5 DEF MayPlan
    <2> QED
      BY <1>0, <1>1, <2>6, PlansK
  <1>2. ASSUME \A t \in Requests : ~ Reverses(t, v), Decides(p, v)
        PROVE  KInv'
    BY <1>0, <1>2, DecidesK
  <1> QED
    BY <1>1, <1>2 DEF FindReversal

\* A settlement that found its version goes on to COMMIT, one that did not starts over.
LEMMA SaveK ==
    ASSUME IInv, IInv', KInv, NEW p \in Sessions, Save(p)
    PROVE  KInv'
  <1>0. pc[p] = "save" /\ UNCHANGED << input, db, openReply >> /\ plan[p].do = "settle"
    BY DEF Save, IInv, SnapshotsCurrent, PlanSound
  <1>1. CASE RunsAgain(p)
    BY <1>0, <1>1, RunsAgainK
  <1>2. CASE /\ pc' = [pc EXCEPT ![p] = "commit"]
             /\ UNCHANGED << task, snap, plan, tries, reply >>
    <2>1. pc'[p] = "commit" /\ Alone(p) /\ Asked(p)' = Asked(p)
      BY <1>0, <1>2 DEF IInv, TypeOK, SessionsTypeOK, Alone, Asked
    <2>2. Knows(p)
      BY DEF KInv
    <2>3. Admitted(p)'
      BY <1>0, <1>2, <2>1, <2>2 DEF Knows, Admitted, Settling, Reading
    <2>4. PlanHonest(p)'
      BY <1>0, <1>2, <2>1, <2>2 DEF Knows, PlanHonest, Settling, Serves, db
    <2>5. RefusalHonest(p)'
      BY <1>0, <1>2, <2>1, <2>2 DEF Knows, RefusalHonest, Reading, BalancesOf, db
    <2>6. ReversalSeen(p)'
      BY <1>0, <1>2, <2>1 DEF KInv, ReversalSeen, Settling, Reverses, db
    <2>7. p \in Requests => ReplyHonest(p)' /\ InsertHeld(p)'
      BY <1>0, <1>2, <2>1
         DEF KInv, ReplyHonest, Durable, Stored, Clashes, Locks, InsertHeld, HoldsInsert, db
    <2>8. ASSUME p \in Workers PROVE RowHeld(p)'
      <3>1. \A q \in Workers : \A t : HoldsRow(q, t)' = HoldsRow(q, t)
        BY <1>0, <1>2, <2>1 DEF HoldsRow, Alone, Sessions
      <3> QED
        BY <1>0, <2>8, <3>1 DEF KInv, Locks, RowHeld, db
    <2> QED
      BY <1>0, <2>1, <2>3, <2>4, <2>5, <2>6, <2>7, <2>8, QuietK DEF Knows
  <1> QED
    BY <1>1, <1>2 DEF Save

\* A row taken from the list is not locked yet.
LEMMA ListK ==
    ASSUME IInv, IInv', KInv, NEW p \in Workers, NEW t \in Requests, List(p, t)
    PROVE  KInv'
  <1>0. p \in Sessions /\ p \notin Requests /\ pc[p] = "idle"
    BY SessionsAssumption DEF Sessions, List
  <1>1. /\ pc'[p] = "lock" /\ plan'[p] = plan[p] /\ Alone(p)
        /\ UNCHANGED << input, db, openReply >>
    BY <1>0 DEF List, IInv, TypeOK, SessionsTypeOK, Alone
  <1>2. plan[p].ref = None
    BY <1>0 DEF KInv, Knows, PlanHonest
  <1>3. Knows(p)' /\ ReversalSeen(p)' /\ RowHeld(p)'
    BY <1>1, <1>2
       DEF Knows, Admitted, PlanHonest, RefusalHonest, ReversalSeen, Settling, Reading,
           RowHeld, HoldsRow
  <1> QED
    BY <1>0, <1>1, <1>3, QuietK

\* The lock on a pending row is the worker's alone.
LEMMA LockRowK ==
    ASSUME IInv, IInv', KInv, NEW p \in Workers, LockRow(p)
    PROVE  KInv'
  <1>0. /\ p \in Sessions /\ p \notin Requests /\ pc[p] = "lock" /\ pc[p] # "idle"
        /\ UNCHANGED << input, db, openReply >> /\ task[p] \in Requests
    BY SessionsAssumption, TaskTyped DEF Sessions, LockRow, IInv
  <1>1. CASE ~ StillPending(task[p]) /\ Closes(p, ErrorReply("none"))
    BY <1>0, <1>1, ClosesK
  <1>2. CASE StillPending(task[p]) /\ Plans(p, "resume", "none", NoFailure, None)
    <2>1. Asked(p).ref # None /\ Asked(p).cur = CurrencyOf[Asked(p).wallet]
      BY <1>0, <1>2 DEF StillPending, KInv, RowsKnown, RowHonest, Asked
    <2>2. MayPlan(p, "resume", "none", NoFailure, None)
      BY <2>1 DEF MayPlan, Reading
    <2>3. MayHold(p, "resume")
      BY <1>0, <1>2 DEF MayHold, StillPending, LockRow
    <2> QED
      BY <1>0, <1>2, <2>2, <2>3, PlansK
  <1> QED
    BY <1>1, <1>2 DEF LockRow

--------------------------------------------------------------------------------
(* The steps that write.                                                      *)

\* The row as a session found it has no outcome yet.
LEMMA PriorMeans ==
    ASSUME IInv, KInv, NEW p \in Sessions, pc[p] = "commit"
    PROVE  /\ Prior(p) \in Rows /\ Prior(p).resolved = None
           /\ Prior(p).failure = NoFailure /\ Prior(p).result = Null
           /\ p \in Workers => Prior(p).status = "PENDING_REFERENCE"
  <1>1. /\ task[p] \in Requests
        /\ p \in Workers => txs[task[p]].status = "PENDING_REFERENCE"
    BY HeldRow
  <1>2. CASE p \in Requests
    <2>1. Prior(p) = NewRow
      BY <1>2 DEF Prior
    <2> QED
      BY <1>2, <2>1, SessionsAssumption, BoundsAssumption
         DEF NewRow, NoRow, Rows, Statuses, Failures, Null, NoFailure
  <1>3. CASE p \notin Requests
    <2>1. p \in Workers /\ Prior(p) = txs[task[p]] /\ txs[task[p]] \in Rows
      BY <1>1, <1>3 DEF Prior, Sessions, IInv, TypeOK, RowsTypeOK, TxIds
    <2> QED
      BY <1>1, <2>1 DEF KInv, RowsKnown, RowHonest
  <1> QED
    BY <1>2, <1>3

\* What a commit leaves in the row (process_wager_transaction.go:354-414, 535-560).
LEMMA OutcomeMeans ==
    ASSUME IInv, KInv, NEW p \in Sessions, pc[p] = "commit",
           NEW o, o = Outcome(p)
    PROVE  /\ o.resolved = plan[p].ref
           /\ plan[p].do \in {"settle", "loss", "reject", "pend", "retry"}
           /\ plan[p].do = "settle" => /\ o.status = "PROCESSED" /\ o.failure = NoFailure
                                      /\ o.result = MovedBalance(p)
           /\ plan[p].do = "loss"   => /\ o.status = "PROCESSED" /\ o.failure = NoFailure
                                      /\ o.result = snap[p].balance
           /\ plan[p].do = "reject" => /\ o.status = "REJECTED" /\ o.failure = plan[p].code
                                      /\ o.result = snap[p].balance
           /\ plan[p].do \in {"pend", "retry"} =>
                 /\ o.status = "PENDING_REFERENCE" /\ o.failure = NoFailure
                 /\ o.result = Null /\ plan[p].ref = None
  <1>1. /\ Prior(p) \in Rows /\ Prior(p).resolved = None
        /\ Prior(p).failure = NoFailure /\ Prior(p).result = Null
        /\ p \in Workers => Prior(p).status = "PENDING_REFERENCE"
    BY PriorMeans
  <1>2. /\ plan[p].do \in {"settle", "loss", "reject", "pend", "retry"}
        /\ plan[p].do = "retry" => p \in Workers
        /\ plan[p].do \in {"pend", "retry"} => plan[p].ref = None
    BY DEF IInv, TypeOK, SessionsTypeOK, PlanRecords, SnapshotsCurrent, PlanSound,
           KInv, Knows, PlanHonest
  <1>3. /\ Resolved(p) \in Rows
        /\ Resolved(p).resolved = plan[p].ref /\ Resolved(p).status = Prior(p).status
        /\ Resolved(p).failure = NoFailure /\ Resolved(p).result = Null
    <2>1. plan[p].ref \in Requests \cup {None} /\ 0 \in 0..MaxAttempts
      BY BoundsAssumption DEF IInv, TypeOK, SessionsTypeOK, PlanRecords
    <2>2. CASE plan[p].ref = None
      BY <1>1, <2>2 DEF Resolved
    <2>3. CASE plan[p].ref # None
      <3>1. Resolved(p) = [Prior(p) EXCEPT !.resolved = plan[p].ref, !.attempts = 0]
        BY <2>3 DEF Resolved
      <3> QED
        BY <1>1, <2>1, <3>1 DEF Rows
    <2> QED
      BY <2>2, <2>3
  <1>4. CASE plan[p].do = "settle"
    <2>1. o = [Resolved(p) EXCEPT !.status = "PROCESSED", !.result = MovedBalance(p)]
      BY <1>4 DEF Outcome
    <2> QED
      BY <1>3, <1>4, <2>1 DEF Rows
  <1>5. CASE plan[p].do = "loss"
    <2>1. o = [Resolved(p) EXCEPT !.status = "PROCESSED", !.result = snap[p].balance]
      BY <1>5 DEF Outcome
    <2> QED
      BY <1>3, <1>5, <2>1 DEF Rows
  <1>6. CASE plan[p].do = "reject"
    <2>1. o = [Resolved(p) EXCEPT !.status = "REJECTED", !.failure = plan[p].code,
                                  !.result = snap[p].balance]
      BY <1>6 DEF Outcome
    <2> QED
      BY <1>3, <1>6, <2>1 DEF Rows
  <1>7. CASE plan[p].do = "pend"
    <2>1. o = [Resolved(p) EXCEPT !.status = "PENDING_REFERENCE"]
      BY <1>7 DEF Outcome
    <2> QED
      BY <1>2, <1>3, <1>7, <2>1 DEF Rows
  <1>8. CASE plan[p].do = "retry"
    <2>1. o = [Resolved(p) EXCEPT !.attempts = OneMore(@)]
      BY <1>8 DEF Outcome
    <2> QED
      BY <1>1, <1>2, <1>3, <1>8, <2>1 DEF Rows
  <1> QED
    BY <1>2, <1>4, <1>5, <1>6, <1>7, <1>8

\* The version check has stopped the loser of two reversals before it gets here:
\* migration 0008 never refuses what the code commits.
LEMMA NeverMeetsIndex ==
    ASSUME IInv, KInv, NEW p \in Sessions, pc[p] = "commit"
    PROVE  ~ MeetsReversalIndex(p)
  <1> SUFFICES ASSUME MeetsReversalIndex(p) PROVE FALSE
    OBVIOUS
  <1>1. plan[p].do = "settle" /\ Asked(p).kind \in Reversals
        /\ \E t \in Requests : Reverses(t, plan[p].ref)
    BY DEF MeetsReversalIndex
  <1>2. snap[p].version < wallets[Asked(p).wallet].version
    BY <1>1 DEF KInv, ReversalSeen, Settling
  <1>3. snap[p].version = wallets[Asked(p).wallet].version
    BY <1>1 DEF IInv, SnapshotsCurrent, HolderCurrent
  <1>4. wallets[Asked(p).wallet].version \in Nat
    BY InputsTyped, HeldRow DEF Asked, IInv, TypeOK, RowsTypeOK, WalletRows
  <1> QED
    BY <1>2, <1>3, <1>4

\* What a commit changes, and where.
LEMMA CommitMeans ==
    ASSUME IInv, KInv, NEW p \in Sessions, Commit(p)
    PROVE  LET t == task[p]
               w == Asked(p).wallet
           IN /\ t \in Requests /\ t \in TxIds /\ t \notin Wallets
              /\ w \in Wallets /\ Asked(p) = input[t]
              /\ IsOpen(w) /\ pc[p] = "commit"
              /\ txs' = [txs EXCEPT ![t] = Outcome(p)]
              /\ events' = [events EXCEPT ![t] = @ \o Announced(p)]
              /\ \/ /\ plan[p].do = "settle"
                    /\ wallets' = [wallets EXCEPT ![w] = MovedWallet(p)]
                    /\ ledger' = [ledger EXCEPT ![w] = Append(@, Movement(p))]
                    /\ snap[p] = wallets[w]
                 \/ plan[p].do # "settle" /\ UNCHANGED << wallets, ledger >>
              /\ UNCHANGED << input, openReply >>
              /\ \E rep \in {Answer(p), ErrorReply("lost")} : Closes(p, rep)
  <1> DEFINE t == task[p]
             w == Asked(p).wallet
  <1>1. t \in Requests /\ pc[p] = "commit" /\ w \in Wallets
    BY HeldRow, InputsTyped DEF Commit, Asked, IInv
  <1>2. ~ MeetsReversalIndex(p)
    BY <1>1, NeverMeetsIndex
  <1>3. IsOpen(w) /\ (plan[p].do = "settle" => snap[p] = wallets[w])
    <2>1. /\ 0 < snap[p].version /\ snap[p].version <= wallets[w].version
          /\ snap[p].version = wallets[w].version => snap[p].balance = wallets[w].balance
      BY <1>1 DEF IInv, SnapshotsCurrent, SnapshotHonest, Reading
    <2>2. plan[p].do = "settle" => snap[p].version = wallets[w].version
      BY <1>1 DEF IInv, SnapshotsCurrent, HolderCurrent
    <2>3. snap[p] \in WalletRows /\ wallets[w] \in WalletRows
      BY <1>1 DEF IInv, TypeOK, RowsTypeOK, SessionsTypeOK
    <2>4. plan[p].do = "settle" => snap[p] = wallets[w]
      BY <2>1, <2>2, <2>3 DEF WalletRows
    <2> QED
      BY <2>1, <2>3, <2>4 DEF WalletRows, IsOpen
  <1>4. Writes(p) /\ UNCHANGED << input, openReply >>
        /\ \E rep \in {Answer(p), ErrorReply("lost")} : Closes(p, rep)
    BY DEF Commit
  <1>5. /\ txs' = [txs EXCEPT ![t] = Outcome(p)]
        /\ events' = [events EXCEPT ![t] = @ \o Announced(p)]
        /\ plan[p].do = "settle" =>
              /\ wallets' = [wallets EXCEPT ![w] = MovedWallet(p)]
              /\ ledger' = [ledger EXCEPT ![w] = Append(@, Movement(p))]
        /\ plan[p].do # "settle" => UNCHANGED << wallets, ledger >>
    BY <1>2, <1>4 DEF Writes, MovesMoney
  <1> QED
    BY <1>1, <1>3, <1>4, <1>5, SessionsAssumption DEF TxIds, Asked

\* A commit appends, and writes a row that was not final.
LEMMA CommitGrows ==
    ASSUME IInv, IInv', KInv, NEW p \in Sessions, Commit(p)
    PROVE  Grows
  <1> DEFINE t == task[p]
             w == Asked(p).wallet
  <1>1. /\ t \in TxIds /\ w \in Wallets /\ pc[p] = "commit"
        /\ txs' = [txs EXCEPT ![t] = Outcome(p)]
        /\ \/ /\ plan[p].do = "settle"
              /\ wallets' = [wallets EXCEPT ![w] = MovedWallet(p)]
              /\ ledger' = [ledger EXCEPT ![w] = Append(@, Movement(p))]
              /\ snap[p] = wallets[w]
           \/ plan[p].do # "settle" /\ UNCHANGED << wallets, ledger >>
        /\ input' = input
    BY CommitMeans
  <1>2. TypeOK
    BY DEF IInv
  <1>3. LedgerGrows
    <2> SUFFICES ASSUME NEW v \in Wallets
                 PROVE  /\ Len(ledger'[v]) >= Len(ledger[v])
                        /\ \A i \in 1..Len(ledger[v]) : ledger'[v][i] = ledger[v][i]
      BY DEF LedgerGrows
    <2>1. ledger[v] \in Seq(Entries) /\ Len(ledger[v]) \in Nat
      BY <1>2 DEF TypeOK, RowsTypeOK
    <2>2. CASE ledger'[v] = ledger[v]
      BY <2>1, <2>2
    <2>3. CASE plan[p].do = "settle" /\ ledger'[v] = Append(ledger[v], Movement(p))
      <3>1. Movement(p) \in Entries
        BY <1>1, <2>3, MovementTyped
      <3> QED
        BY <2>1, <2>3, <3>1, AppendFacts
    <2> QED
      BY <1>1, <1>2, <2>2, <2>3 DEF TypeOK, RowsTypeOK
  <1>4. RowsFreeze
    <2>1. txs[t].status \in {"ABSENT", "PENDING_REFERENCE"}
      BY <1>1, HeldRow
    <2>2. Outcome(p).status # "ABSENT"
      BY <1>1, CommitTyped
    <2>3. txs'[t] = Outcome(p) /\ \A u \in TxIds \ {t} : txs'[u] = txs[u]
      BY <1>1, <1>2 DEF TypeOK, RowsTypeOK
    <2> QED
      BY <2>1, <2>2, <2>3 DEF RowsFreeze, Terminal
  <1>5. VersionsGrow
    <2> SUFFICES ASSUME NEW v \in Wallets PROVE wallets[v].version <= wallets'[v].version
      BY DEF VersionsGrow
    <2>1. wallets[v].version \in Nat
      BY <1>2 DEF TypeOK, RowsTypeOK, WalletRows
    <2>2. CASE wallets'[v] = wallets[v]
      BY <2>1, <2>2
    <2>3. CASE wallets'[v] = MovedWallet(p) /\ snap[p] = wallets[v]
      BY <2>1, <2>3 DEF MovedWallet
    <2> QED
      BY <1>1, <1>2, <2>2, <2>3 DEF TypeOK, RowsTypeOK
  <1> QED
    BY <1>1, <1>3, <1>4, <1>5 DEF Grows

\* A row that a commit settles is one that may be settled so.
LEMMA OutcomeHonest ==
    ASSUME IInv, IInv', KInv, NEW p \in Sessions, Commit(p), NEW t, t = task[p]
    PROVE  RowHonest(t)'
  <1>1. /\ t \in Requests /\ t \in TxIds /\ Asked(p) = input[t] /\ pc[p] = "commit"
        /\ txs' = [txs EXCEPT ![t] = Outcome(p)] /\ input' = input
    BY CommitMeans
  <1>2. txs'[t] = Outcome(p)
    BY <1>1 DEF IInv, TypeOK, RowsTypeOK
  <1>3. Knows(p)
    BY DEF KInv
  <1>4. /\ txs'[t].resolved = plan[p].ref
        /\ plan[p].do \in {"settle", "loss", "reject", "pend", "retry"}
        /\ plan[p].do \in {"settle", "loss"} => txs'[t].status = "PROCESSED"
        /\ plan[p].do = "reject" => txs'[t].status = "REJECTED"
        /\ plan[p].do \in {"pend", "retry"} =>
              /\ txs'[t].status = "PENDING_REFERENCE" /\ txs'[t].failure = NoFailure
              /\ txs'[t].result = Null /\ plan[p].ref = None
    BY <1>1, <1>2, OutcomeMeans
  <1>5. p \in Workers => /\ input[t].ref # None
                         /\ input[t].cur = CurrencyOf[input[t].wallet]
    <2>1. p \in Workers => txs[t].status = "PENDING_REFERENCE"
      BY <1>1, HeldRow
    <2> QED
      BY <1>1, <2>1 DEF KInv, RowsKnown, RowHonest
  <1>6. ASSUME NEW u, u = plan[p].ref, u # None
        PROVE  Serves(u, input[t])'
    <2>1. Serves(u, input[t])
      BY <1>1, <1>3, <1>6 DEF Knows, PlanHonest
    <2>2. Grows
      BY CommitGrows
    <2> QED
      BY <1>1, <2>1, <2>2, ServesStable
  <1>7. input[t].kind \in Reversals => input[t].ref # None
    <2>1. p \in Requests => p = t /\ ValidInput(input[p])
      BY <1>1, <1>3, HeldRow DEF Knows, Admitted, Reading
    <2> QED
      BY <1>5, <2>1 DEF ValidInput, RefAllowed, Sessions
  <1>8. txs'[t].status # "PENDING"
    BY <1>4
  <1>9. ASSUME txs'[t].status = "PENDING_REFERENCE"
        PROVE  /\ txs'[t].resolved = None /\ txs'[t].result = Null /\ txs'[t].failure = NoFailure
               /\ input[t].ref # None /\ input[t].cur = CurrencyOf[input[t].wallet]
    <2>1. plan[p].do \in {"pend", "retry"}
      BY <1>4, <1>9
    <2>2. plan[p].do = "pend" => /\ Asked(p).ref # None
                                 /\ Asked(p).cur = CurrencyOf[Asked(p).wallet]
      BY <1>1, <1>3 DEF Knows, PlanHonest
    <2>3. plan[p].do = "retry" => p \in Workers
      BY <1>1, <1>3 DEF Knows, PlanHonest
    <2> QED
      BY <1>1, <1>4, <1>5, <2>1, <2>2, <2>3
  <1>10. ASSUME txs'[t].status = "PROCESSED", input[t].kind \in Reversals
         PROVE  plan[p].ref # None
    <2>1. plan[p].do \in {"settle", "loss"}
      BY <1>4, <1>10
    <2>2. plan[p].do # "loss"
      BY <1>1, <1>3, <1>10 DEF Knows, PlanHonest, Reversals
    <2> QED
      BY <1>1, <1>3, <1>7, <1>10, <2>1, <2>2 DEF Knows, PlanHonest, Settling
  <1> QED
    BY <1>1, <1>4, <1>6, <1>8, <1>9, <1>10 DEF RowHonest

\* The session that commits says what it wrote, or nothing.
LEMMA CommitSays ==
    ASSUME IInv, IInv', KInv, NEW p \in Requests, Commit(p)
    PROVE  ReplyHonest(p)'
  <1>0. p \in Sessions
    BY DEF Sessions
  <1>1. /\ pc[p] = "commit" /\ txs' = [txs EXCEPT ![task[p]] = Outcome(p)] /\ input' = input
        /\ task[p] \in TxIds
        /\ \E rep \in {Answer(p), ErrorReply("lost")} : Closes(p, rep)
    BY <1>0, CommitMeans
  <1>2. task[p] = p
    BY <1>0, <1>1, HeldRow
  <1>3. txs'[p] = Outcome(p) /\ txs'[p].status # "ABSENT"
    BY <1>0, <1>1, <1>2, CommitTyped DEF IInv, TypeOK, RowsTypeOK
  <1>4. pc'[p] = "done" /\ reply'[p] \in {Answer(p), ErrorReply("lost")}
    BY <1>1 DEF Closes, Leaves, IInv, TypeOK, SessionsTypeOK, Sessions
  <1>5. CASE reply'[p] = ErrorReply("lost")
    <2>1. reply'[p].code = "lost"
      BY <1>5 DEF ErrorReply, Reply
    <2> QED
      BY <1>4, <2>1 DEF ReplyHonest
  <1>6. CASE reply'[p] = Answer(p)
    <2>1. Answer(p) = Reply("ok", p, Outcome(p).status, Outcome(p).failure,
                            IF plan[p].do = "settle" THEN MovedBalance(p) ELSE snap[p].balance,
                            FALSE)
      BY <1>0, <1>1, <1>2, NeverMeetsIndex DEF Answer
    <2>2. /\ reply'[p].code = "ok" /\ reply'[p].tx = p
          /\ reply'[p].status = txs'[p].status /\ reply'[p].failure = txs'[p].failure
          /\ reply'[p].balance =
                IF plan[p].do = "settle" THEN MovedBalance(p) ELSE snap[p].balance
      BY <1>3, <1>6, <2>1 DEF Reply
    <2>3. txs'[p].status \in Terminal => txs'[p].result = reply'[p].balance
      BY <1>0, <1>1, <1>3, <2>2, OutcomeMeans DEF Terminal
    <2>4. Durable(p)'
      BY <1>1, <1>3, <2>2, <2>3 DEF Durable, SameContent
    <2> QED
      BY <1>4, <2>2, <2>4 DEF ReplyHonest
  <1> QED
    BY <1>4, <1>5, <1>6

\* A commit keeps the locks of the others: it writes a row that none of them holds.
LEMMA CommitLocks ==
    ASSUME IInv, IInv', KInv, NEW p \in Sessions, Commit(p), Alone(p),
           ~ HoldsInsert(p)', \A u : p \in Workers => ~ HoldsRow(p, u)'
    PROVE  Locks'
  <1> DEFINE t == task[p]
  <1>1. /\ t \in Requests /\ t \in TxIds /\ pc[p] = "commit" /\ input' = input
        /\ txs' = [txs EXCEPT ![t] = Outcome(p)]
    BY CommitMeans
  <1>2. /\ p \in Requests => t = p /\ HoldsInsert(p) /\ txs[p].status = "ABSENT"
        /\ p \in Workers => HoldsRow(p, t) /\ txs[t].status = "PENDING_REFERENCE"
    BY <1>1, HeldRow
  <1>3. \A u \in TxIds : u # t => txs'[u] = txs[u]
    BY <1>1 DEF IInv, TypeOK, RowsTypeOK
  <1>4. /\ \A q \in Requests : HoldsInsert(q)' => q # p /\ HoldsInsert(q)
        /\ \A u : \A q \in Workers : HoldsRow(q, u)' => q # p /\ HoldsRow(q, u)
    BY DEF Alone, HoldsInsert, HoldsRow, Sessions
  <1>5. ASSUME NEW q \in Requests PROVE InsertHeld(q)'
    <2> SUFFICES ASSUME HoldsInsert(q)'
                 PROVE  /\ \A u \in Stored' : ~ Clashes(q, u)'
                        /\ \A r \in Requests : HoldsInsert(r)' /\ Clashes(q, r)' => q = r
      BY DEF InsertHeld
    <2>1. HoldsInsert(q) /\ q # p /\ InsertHeld(q)
      BY <1>4 DEF KInv, Locks
    <2>2. \A u : Clashes(q, u)' = Clashes(q, u)
      BY <1>1 DEF Clashes
    <2>3. ASSUME NEW u \in Stored' PROVE ~ Clashes(q, u)
      <3>1. CASE u \in Stored
        BY <2>1, <3>1 DEF InsertHeld
      <3>2. CASE u \notin Stored
        <4>1. u = t /\ p \in Requests
          BY <1>1, <1>2, <1>3, <2>3, <3>2 DEF Stored, Sessions, TxIds
        <4> QED
          BY <1>2, <2>1, <4>1 DEF InsertHeld
      <3> QED
        BY <3>1, <3>2
    <2> QED
      BY <1>4, <2>1, <2>2, <2>3 DEF InsertHeld
  <1>6. ASSUME NEW q \in Workers PROVE RowHeld(q)'
    <2> SUFFICES ASSUME NEW u \in Requests, HoldsRow(q, u)'
                 PROVE  /\ txs'[u].status = "PENDING_REFERENCE"
                        /\ \A r \in Workers : HoldsRow(r, u)' => q = r
      BY DEF RowHeld
    <2>1. HoldsRow(q, u) /\ q # p /\ RowHeld(q)
      BY <1>4 DEF KInv, Locks
    <2>2. txs[u].status = "PENDING_REFERENCE" /\ u # t
      BY <1>2, <2>1 DEF RowHeld, Sessions
    <2> QED
      BY <1>3, <1>4, <2>1, <2>2 DEF RowHeld, TxIds
  <1> QED
    BY <1>5, <1>6 DEF Locks

\* A reversal that commits leaves every other one of its reference behind: they act
\* on the same wallet, and its version has moved.
LEMMA CommitOutrunsReversals ==
    ASSUME IInv, IInv', KInv, NEW p \in Sessions, Commit(p),
           NEW q \in Sessions, q # p, Idles(q)
    PROVE  ReversalSeen(q)'
  <1> DEFINE t == task[p]
  <1> SUFFICES ASSUME Settling(q)', Asked(q)'.kind \in Reversals,
                      NEW u \in Requests, Reverses(u, plan[q].ref)'
               PROVE  snap'[q].version < wallets'[Asked(q)'.wallet].version
    BY DEF ReversalSeen
  <1>1. /\ t \in Requests /\ t \in TxIds /\ pc[p] = "commit" /\ input' = input
        /\ Asked(p) = input[t] /\ txs' = [txs EXCEPT ![t] = Outcome(p)]
        /\ plan[p].do = "settle" =>
              /\ wallets' = [wallets EXCEPT ![Asked(p).wallet] = MovedWallet(p)]
              /\ snap[p] = wallets[Asked(p).wallet]
    BY CommitMeans
  <1>2. /\ Asked(q)' = Asked(q) /\ plan'[q] = plan[q] /\ snap'[q] = snap[q] /\ pc'[q] = pc[q]
        /\ Settling(q) /\ pc[q] \in Reading /\ pc[q] # "idle"
    BY <1>1 DEF Idles, Asked, Settling, Reading
  <1>3. Asked(q).wallet \in Wallets
    BY <1>2, TaskTyped, InputsTyped DEF Asked, IInv
  <1>4. /\ wallets[Asked(q).wallet].version \in Nat /\ wallets'[Asked(q).wallet].version \in Nat
        /\ snap[q].version \in Nat
        /\ wallets[Asked(q).wallet].version <= wallets'[Asked(q).wallet].version
    BY <1>3, CommitGrows
       DEF IInv, TypeOK, RowsTypeOK, SessionsTypeOK, WalletRows, Grows, VersionsGrow
  <1>5. CASE Reverses(u, plan[q].ref)
    <2>1. snap[q].version < wallets[Asked(q).wallet].version
      BY <1>2, <1>5 DEF KInv, ReversalSeen
    <2> QED
      BY <1>2, <1>4, <2>1
  <1>6. CASE ~ Reverses(u, plan[q].ref)
    <2>1. u = t
      BY <1>1, <1>2, <1>6 DEF Reverses, IInv, TypeOK, RowsTypeOK, TxIds
    <2>2. txs'[t] = Outcome(p)
      BY <1>1 DEF IInv, TypeOK, RowsTypeOK
    <2>3. /\ plan[p].ref = plan[q].ref /\ input[t].kind \in Reversals
          /\ Outcome(p).status = "PROCESSED"
      BY <1>1, <1>2, <2>1, <2>2, OutcomeMeans DEF Reverses
    <2>4. plan[p].do = "settle"
      <3>1. plan[p].do \in {"settle", "loss"}
        BY <1>1, <2>3, OutcomeMeans
      <3>2. plan[p].do # "loss"
        BY <1>1, <2>3 DEF KInv, Knows, PlanHonest, Reversals
      <3> QED
        BY <3>1, <3>2
    <2>5. plan[q].ref # None
      <3>1. p \in Requests => p = t /\ ValidInput(input[p])
        BY <1>1, HeldRow DEF KInv, Knows, Admitted, Reading
      <3>2. p \in Workers => input[t].ref # None
        <4>1. p \in Workers => txs[t].status = "PENDING_REFERENCE"
          BY <1>1, HeldRow
        <4> QED
          BY <1>1, <4>1 DEF KInv, RowsKnown, RowHonest
      <3>3. Asked(p).ref # None
        BY <1>1, <2>3, <3>1, <3>2 DEF ValidInput, RefAllowed, Sessions
      <3> QED
        BY <1>1, <2>3, <2>4, <3>3 DEF KInv, Knows, PlanHonest, Settling
    <2>6. Asked(p).wallet = Asked(q).wallet
      <3>1. Serves(plan[q].ref, Asked(p)) /\ Serves(plan[q].ref, Asked(q))
        BY <2>3, <2>5 DEF KInv, Knows, PlanHonest
      <3> QED
        BY <3>1 DEF Serves, ReferenceFailure, Agrees, NoFailure
    <2>7. wallets'[Asked(q).wallet].version = wallets[Asked(q).wallet].version + 1
      BY <1>1, <1>3, <2>4, <2>6 DEF MovedWallet, IInv, TypeOK, RowsTypeOK
    <2>8. snap[q].version <= wallets[Asked(q).wallet].version
      BY <1>2 DEF IInv, SnapshotsCurrent, SnapshotHonest
    <2> QED
      BY <1>2, <1>4, <2>7, <2>8
  <1> QED
    BY <1>5, <1>6

\* A row that a step does not write stays honest.
LEMMA RowStays ==
    ASSUME Grows, NEW u \in Requests, txs'[u] = txs[u], RowHonest(u)
    PROVE  RowHonest(u)'
  <1>1. input' = input
    BY DEF Grows
  <1>2. txs[u].status = "PROCESSED" /\ txs[u].resolved # None =>
            Serves(txs[u].resolved, input[u])'
    <2> SUFFICES ASSUME NEW v, v = txs[u].resolved,
                        txs[u].status = "PROCESSED", v # None
                 PROVE  Serves(v, input[u])'
      BY <1>1
    <2>1. Serves(v, input[u])
      BY DEF RowHonest
    <2> QED
      BY <1>1, <2>1, ServesStable
  <1> QED
    BY <1>1, <1>2 DEF RowHonest

\* A commit leaves honest rows, one reversal per operation and honest wallets.
LEMMA CommitRows ==
    ASSUME IInv, IInv', KInv, NEW p \in Sessions, Commit(p)
    PROVE  RowsKnown'
  <1> DEFINE w == Asked(p).wallet
  <1> SUFFICES ASSUME NEW t, t = task[p] PROVE RowsKnown'
    OBVIOUS
  <1>1. /\ t \in Requests /\ t \in TxIds /\ t \notin Wallets /\ w \in Wallets
        /\ Asked(p) = input[t] /\ IsOpen(w) /\ pc[p] = "commit"
        /\ txs' = [txs EXCEPT ![t] = Outcome(p)]
        /\ events' = [events EXCEPT ![t] = @ \o Announced(p)]
        /\ \/ /\ plan[p].do = "settle"
              /\ wallets' = [wallets EXCEPT ![w] = MovedWallet(p)]
              /\ ledger' = [ledger EXCEPT ![w] = Append(@, Movement(p))]
           \/ plan[p].do # "settle" /\ UNCHANGED << wallets, ledger >>
        /\ input' = input /\ openReply' = openReply
    BY CommitMeans
  <1>2. Grows
    BY CommitGrows
  <1>3. txs'[t] = Outcome(p) /\ \A u \in TxIds : u # t => txs'[u] = txs[u] /\ events'[u] = events[u]
    BY <1>1 DEF IInv, TypeOK, RowsTypeOK
  <1>4. \A u \in Requests : RowHonest(u)'
    <2>1. RowHonest(t)'
      BY OutcomeHonest
    <2> QED
      BY <1>2, <1>3, <2>1, RowStays DEF KInv, RowsKnown, TxIds
  <1>5. ReversalsDiffer'
    <2>1. \A u, v \in Requests : u # t => Reverses(u, v)' = Reverses(u, v)
      BY <1>1, <1>3 DEF Reverses, TxIds
    <2>2. ASSUME NEW u \in Requests, u # t, NEW v \in Requests, Reverses(u, v)', Reverses(t, v)'
          PROVE  FALSE
      <3>1. Reverses(u, v)
        BY <2>1, <2>2
      <3>2. /\ plan[p].ref = v /\ Asked(p).kind \in Reversals /\ Outcome(p).status = "PROCESSED"
        BY <1>1, <1>3, <2>2, OutcomeMeans DEF Reverses
      <3>3. plan[p].do \in {"settle", "loss"} /\ plan[p].do # "loss"
        BY <1>1, <3>2, OutcomeMeans DEF KInv, Knows, PlanHonest, Reversals
      <3>4. MeetsReversalIndex(p)
        BY <2>2, <3>1, <3>2, <3>3 DEF MeetsReversalIndex
      <3> QED
        BY <1>1, <3>4, NeverMeetsIndex
    <2> QED
      BY <2>1, <2>2 DEF KInv, RowsKnown, ReversalsDiffer
  <1>6. ASSUME NEW v \in Wallets PROVE WalletHonest(v)'
    <2>1. v # t /\ v \in TxIds /\ WalletHonest(v) /\ ledger[v] \in Seq(Entries)
          /\ ledger'[v] \in Seq(Entries) /\ wallets[v] \in WalletRows /\ wallets'[v] \in WalletRows
      BY <1>1, SessionsAssumption DEF KInv, RowsKnown, TxIds, IInv, TypeOK, RowsTypeOK
    <2>2. CASE openReply[v] = "ok"
      <3>1. IsOpen(v)'
        BY <1>2, <2>1, <2>2 DEF WalletHonest, IsOpen, Grows, VersionsGrow, WalletRows
      <3>2. ledger[v] # << >> => ledger'[v] # << >>
        BY <1>2, <2>1 DEF Grows, LedgerGrows
      <3> QED
        BY <1>1, <1>3, <2>1, <2>2, <3>1, <3>2 DEF WalletHonest
    <2>3. CASE openReply[v] # "ok"
      <3>1. v # w
        BY <1>1, <2>1, <2>3 DEF WalletHonest, IsOpen, NoWallet
      <3>2. wallets'[v] = wallets[v] /\ ledger'[v] = ledger[v]
        BY <1>1, <3>1 DEF IInv, TypeOK, RowsTypeOK
      <3> QED
        BY <1>1, <1>3, <2>1, <2>3, <3>2 DEF WalletHonest
    <2> QED
      BY <2>2, <2>3
  <1> QED
    BY <1>4, <1>5, <1>6 DEF RowsKnown

\* The writes and COMMIT keep KInv.
LEMMA CommitK ==
    ASSUME IInv, IInv', KInv, NEW p \in Sessions, Commit(p)
    PROVE  KInv'
  <1>1. PICK rep \in {Answer(p), ErrorReply("lost")} : Closes(p, rep)
    BY CommitMeans
  <1>2. /\ Alone(p) /\ Knows(p)' /\ ReversalSeen(p)'
        /\ ~ HoldsInsert(p)' /\ \A u : p \in Workers => ~ HoldsRow(p, u)'
    <2>1. Leaves(p, IF p \in Requests THEN "done" ELSE "idle", rep)
      BY <1>1 DEF Closes
    <2>2. CASE p \in Requests
      BY <2>1, <2>2, LeavesEmpty, SessionsAssumption DEF IInv
    <2>3. CASE p \notin Requests
      BY <2>1, <2>3, LeavesEmpty DEF IInv
    <2> QED
      BY <2>2, <2>3
  <1>3. Grows /\ TypeOK /\ TypeOK'
    BY CommitGrows DEF IInv
  <1>4. \A q \in Sessions \ {p} : Idles(q)
    BY <1>2 DEF Alone, Idles
  <1>5. \A q \in Sessions : Knows(q)' /\ ReversalSeen(q)'
    BY <1>2, <1>3, <1>4, KnowsStable, CommitOutrunsReversals DEF KInv
  <1>6. \A r \in Requests : ReplyHonest(r)'
    BY <1>2, <1>3, ReplyStable, CommitSays DEF Alone, KInv, Sessions
  <1>7. Locks'
    BY <1>2, CommitLocks
  <1>8. RowsKnown'
    BY CommitRows
  <1> QED
    BY <1>5, <1>6, <1>7, <1>8 DEF KInv

\* A step of nobody's session: it reverses nothing, stores nothing new, and keeps
\* off the rows that are locked.
LEMMA AsideK ==
    ASSUME IInv, IInv', KInv, Grows, UNCHANGED session,
           \A u \in Requests : \A v : Reverses(u, v)' => Reverses(u, v),
           Stored' \subseteq Stored,
           \A u \in Requests : \A q \in Workers : HoldsRow(q, u) => txs'[u] = txs[u],
           RowsKnown'
    PROVE  KInv'
  <1>0. TypeOK /\ TypeOK' /\ input' = input
    BY DEF IInv, Grows
  <1>1. \A q \in Sessions : Idles(q)
    BY DEF session, Idles
  <1>2. \A q \in Sessions : Knows(q)'
    BY <1>0, <1>1, KnowsStable DEF KInv
  <1>3. ASSUME NEW q \in Sessions PROVE ReversalSeen(q)'
    <2> SUFFICES ASSUME Settling(q)', Asked(q)'.kind \in Reversals,
                        NEW u \in Requests, Reverses(u, plan[q].ref)'
                 PROVE  snap'[q].version < wallets'[Asked(q)'.wallet].version
      BY DEF ReversalSeen
    <2>1. /\ Asked(q)' = Asked(q) /\ plan'[q] = plan[q] /\ snap'[q] = snap[q]
          /\ Settling(q) /\ pc[q] # "idle"
      BY <1>0, <1>1 DEF Idles, Asked, Settling
    <2>2. Asked(q).wallet \in Wallets
      BY <1>0, <2>1, TaskTyped, InputsTyped DEF Asked
    <2>3. snap[q].version < wallets[Asked(q).wallet].version
      <3>1. Reverses(u, plan[q].ref)
        BY <2>1 DEF Reverses
      <3> QED
        BY <2>1, <3>1 DEF KInv, ReversalSeen
    <2>4. /\ wallets[Asked(q).wallet].version \in Nat
          /\ wallets'[Asked(q).wallet].version \in Nat /\ snap[q].version \in Nat
          /\ wallets[Asked(q).wallet].version <= wallets'[Asked(q).wallet].version
      BY <1>0, <2>2 DEF TypeOK, RowsTypeOK, SessionsTypeOK, WalletRows, Grows, VersionsGrow
    <2> QED
      BY <2>1, <2>3, <2>4
  <1>4. \A r \in Requests : ReplyHonest(r)'
    BY <1>0, ReplyStable DEF session, KInv
  <1>5. Locks'
    <2>1. /\ \A q : HoldsInsert(q)' = HoldsInsert(q)
          /\ \A q, u : HoldsRow(q, u)' = HoldsRow(q, u) /\ Clashes(q, u)' = Clashes(q, u)
      BY <1>0 DEF session, HoldsInsert, HoldsRow, Clashes
    <2>2. \A q \in Requests : InsertHeld(q)'
      BY <2>1 DEF KInv, Locks, InsertHeld
    <2>3. \A q \in Workers : RowHeld(q)'
      BY <2>1 DEF KInv, Locks, RowHeld
    <2> QED
      BY <2>2, <2>3 DEF Locks
  <1> QED
    BY <1>2, <1>3, <1>4, <1>5 DEF KInv

\* An expiry takes nothing back: it writes a pending row that nobody has locked.
LEMMA ExpireGrows ==
    ASSUME TypeOK, NEW t \in Requests, Expire(t)
    PROVE  Grows
  <1>1. /\ txs' = [txs EXCEPT ![t] = Expired(t)] /\ txs[t].status = "PENDING_REFERENCE"
        /\ UNCHANGED << input, wallets, ledger >>
        /\ t \in TxIds
    BY DEF Expire, Stale, TxIds
  <1>2. txs'[t] = Expired(t) /\ \A u \in TxIds : u # t => txs'[u] = txs[u]
    BY <1>1 DEF TypeOK, RowsTypeOK
  <1>3. Expired(t).status = "FAILED"
    BY DEF Expired, TypeOK, RowsTypeOK, Rows, TxIds
  <1>4. \A w \in Wallets : Len(ledger[w]) \in Nat /\ wallets[w].version \in Nat
    BY DEF TypeOK, RowsTypeOK, WalletRows
  <1> QED
    BY <1>1, <1>2, <1>3, <1>4 DEF Grows, LedgerGrows, VersionsGrow, RowsFreeze, Terminal

\* An expiry keeps KInv.
LEMMA ExpireK ==
    ASSUME IInv, IInv', KInv, NEW t \in Requests, Expire(t)
    PROVE  KInv'
  <1>1. /\ txs' = [txs EXCEPT ![t] = Expired(t)]
        /\ events' = [events EXCEPT ![t] = Append(@, Event("Expired", 0))]
        /\ txs[t].status = "PENDING_REFERENCE" /\ \A q \in Workers : ~ HoldsRow(q, t)
        /\ UNCHANGED << input, wallets, ledger, session, openReply >>
        /\ t \in TxIds /\ t \notin Wallets
    BY SessionsAssumption DEF Expire, Stale, TxIds
  <1>2. /\ txs'[t] = Expired(t) /\ Expired(t).status = "FAILED"
        /\ \A u \in TxIds : u # t => txs'[u] = txs[u] /\ events'[u] = events[u]
    BY <1>1 DEF Expired, IInv, TypeOK, RowsTypeOK, Rows
  <1>3. Grows
    BY ExpireGrows DEF IInv
  <1>4. \A u \in Requests : \A v : Reverses(u, v)' => Reverses(u, v)
    BY <1>1, <1>2 DEF Reverses, TxIds
  <1>5. Stored' \subseteq Stored
    BY <1>1, <1>2 DEF Stored, TxIds
  <1>6. \A u \in Requests : \A q \in Workers : HoldsRow(q, u) => txs'[u] = txs[u]
    BY <1>1, <1>2 DEF TxIds
  <1>7. RowsKnown'
    <2>1. RowHonest(t)'
      BY <1>2 DEF RowHonest
    <2>2. \A u \in Requests : RowHonest(u)'
      BY <1>2, <1>3, <2>1, RowStays DEF KInv, RowsKnown, TxIds
    <2>3. ReversalsDiffer'
      BY <1>4 DEF KInv, RowsKnown, ReversalsDiffer
    <2>4. \A w \in Wallets : WalletHonest(w)'
      BY <1>1, <1>2 DEF KInv, RowsKnown, WalletHonest, IsOpen, TxIds
    <2> QED
      BY <2>2, <2>3, <2>4 DEF RowsKnown
  <1> QED
    BY <1>1, <1>3, <1>4, <1>5, <1>6, <1>7, AsideK

\* An opening takes nothing back: the wallet was not there.
LEMMA OpenWalletGrows ==
    ASSUME IInv, KInv, NEW w \in Wallets, OpenWallet(w)
    PROVE  Grows
  <1>0. TypeOK
    BY DEF IInv
  <1>1. CASE UNCHANGED db
    BY <1>0, <1>1, QuietGrows DEF OpenWallet
  <1>2. CASE /\ wallets' = [wallets EXCEPT ![w] = Opened(w)]
             /\ txs'     = [txs EXCEPT ![w] = OpeningRow(w)]
             /\ ledger'  = [ledger EXCEPT ![w] = OpeningEntries(w)]
    <2>1. wallets[w] = NoWallet /\ txs[w] = NoRow /\ ledger[w] = << >> /\ w \in TxIds
      BY DEF OpenWallet, KInv, RowsKnown, WalletHonest, TxIds
    <2>2. /\ \A v \in Wallets : v # w => wallets'[v] = wallets[v] /\ ledger'[v] = ledger[v]
          /\ wallets'[w] = Opened(w) /\ ledger'[w] = OpeningEntries(w)
          /\ \A t \in TxIds : t # w => txs'[t] = txs[t]
      BY <1>0, <1>2 DEF TypeOK, RowsTypeOK
    <2>3. \A v \in Wallets : Len(ledger[v]) \in Nat /\ wallets[v].version \in Nat
      BY <1>0 DEF TypeOK, RowsTypeOK, WalletRows
    <2>4. LedgerGrows
      <3>1. Len(ledger'[w]) \in Nat
        BY <2>2, OpeningTyped
      <3> QED
        BY <2>1, <2>2, <2>3, <3>1 DEF LedgerGrows
    <2>5. RowsFreeze
      BY <2>1, <2>2 DEF RowsFreeze, NoRow, Terminal
    <2>6. VersionsGrow
      BY <2>1, <2>2, <2>3 DEF VersionsGrow, NoWallet, Opened
    <2> QED
      BY <2>4, <2>5, <2>6 DEF Grows, OpenWallet
  <1> QED
    BY <1>1, <1>2 DEF OpenWallet

\* An opening, refused or not, keeps KInv.
LEMMA OpenWalletK ==
    ASSUME IInv, IInv', KInv, NEW w \in Wallets, OpenWallet(w)
    PROVE  KInv'
  <1>1. /\ Grows /\ UNCHANGED << input, session >> /\ w \notin Requests /\ w \in TxIds
        /\ openReply[w] = "none"
    BY OpenWalletGrows, SessionsAssumption DEF OpenWallet, TxIds
  <1>2. CASE UNCHANGED db /\ openReply' = [openReply EXCEPT ![w] = "alreadyExists"]
    <2>1. RowsKnown'
      <3>1. \A v \in Wallets : WalletHonest(v)'
        BY <1>1, <1>2 DEF KInv, RowsKnown, WalletHonest, IsOpen, db, IInv, TypeOK
      <3> QED
        BY <1>1, <1>2, <3>1
           DEF KInv, RowsKnown, RowHonest, Serves, ReversalsDiffer, Reverses, db
    <2> QED
      BY <1>1, <1>2, <2>1, AsideK DEF db, Reverses, Stored
  <1>3. CASE /\ wallets' = [wallets EXCEPT ![w] = Opened(w)]
             /\ txs'     = [txs EXCEPT ![w] = OpeningRow(w)]
             /\ ledger'  = [ledger EXCEPT ![w] = OpeningEntries(w)]
             /\ events'  = [events EXCEPT ![w] = OpeningEvents(w)]
             /\ openReply' = [openReply EXCEPT ![w] = "ok"]
    <2>1. /\ \A v \in Wallets : v # w =>
                /\ wallets'[v] = wallets[v] /\ ledger'[v] = ledger[v]
                /\ openReply'[v] = openReply[v]
          /\ wallets'[w] = Opened(w) /\ ledger'[w] = OpeningEntries(w)
          /\ txs'[w] = OpeningRow(w) /\ openReply'[w] = "ok"
          /\ \A t \in TxIds : t # w => txs'[t] = txs[t] /\ events'[t] = events[t]
      BY <1>1, <1>3 DEF IInv, TypeOK, RowsTypeOK
    <2>2. \A t \in Requests : txs'[t] = txs[t]
      BY <1>1, <2>1 DEF TxIds
    <2>3. WalletHonest(w)'
      BY <2>1 DEF WalletHonest, IsOpen, Opened, OpeningEntries
    <2>4. \A v \in Wallets : WalletHonest(v)'
      BY <2>1, <2>3 DEF KInv, RowsKnown, WalletHonest, IsOpen, TxIds
    <2>5. RowsKnown'
      BY <1>1, <2>2, <2>4
         DEF KInv, RowsKnown, RowHonest, Serves, ReversalsDiffer, Reverses
    <2> QED
      BY <1>1, <2>2, <2>5, AsideK DEF Reverses, Stored
  <1> QED
    BY <1>2, <1>3 DEF OpenWallet

--------------------------------------------------------------------------------
(* KInv holds, and no step takes anything back.                               *)

\* At the start nobody has read anything, and what is open was opened.
LEMMA InitKInv == Init => KInv
  <1> SUFFICES ASSUME Init PROVE KInv
    OBVIOUS
  <1>1. /\ \A p \in Sessions : pc[p] \in {"byKey", "idle"} /\ plan[p] = NoPlan
        /\ \A r \in Requests : pc[r] = "byKey" /\ reply[r].code = "none"
        /\ \A p \in Workers : pc[p] = "idle"
    BY SessionsAssumption DEF Init, Sessions, ErrorReply, Reply
  <1>2. \A t \in Requests : txs[t].status = "ABSENT"
    BY SessionsAssumption, WalletsAssumption DEF Init, TxIds, NoRow
  <1>3. Locks
    BY <1>1 DEF Locks, InsertHeld, RowHeld, HoldsInsert, HoldsRow
  <1>4. \A p \in Sessions : Knows(p) /\ ReversalSeen(p)
    BY <1>1 DEF Knows, Admitted, PlanHonest, RefusalHonest, ReversalSeen, Settling,
                Reading, NoPlan
  <1>5. \A r \in Requests : ReplyHonest(r)
    BY <1>1 DEF ReplyHonest
  <1>6. \A t \in Requests : RowHonest(t)
    BY <1>2 DEF RowHonest
  <1>7. ReversalsDiffer
    BY <1>2 DEF ReversalsDiffer, Reverses
  <1>8. ASSUME NEW w \in Wallets PROVE WalletHonest(w)
    <2>1. openReply[w] = "ok" <=> w \in Preopened
      BY DEF Init
    <2>2. CASE w \in Preopened
      <3>1. /\ wallets[w] = Opened(w) /\ txs[w] = OpeningRow(w)
            /\ ledger[w] = OpeningEntries(w)
        BY <2>2 DEF Init, TxIds
      <3> QED
        BY <2>1, <2>2, <3>1 DEF WalletHonest, IsOpen, Opened, OpeningEntries
    <2>3. CASE w \notin Preopened
      BY <2>1, <2>3 DEF WalletHonest, Init, TxIds
    <2> QED
      BY <2>2, <2>3
  <1> QED
    BY <1>3, <1>4, <1>5, <1>6, <1>7, <1>8 DEF KInv, RowsKnown

\* A step that writes no row is quiet, whatever else it does.
LEMMA NextQuietOr ==
    ASSUME [Next]_vars
    PROVE  \/ UNCHANGED << input, db >>
           \/ \E w \in Wallets : OpenWallet(w)
           \/ \E p \in Sessions : Commit(p)
           \/ \E t \in Requests : Expire(t)
  <1>1. \A r \in Requests : RequestStep(r) => UNCHANGED << input, db >>
    BY DEF RequestStep, RefuseKind, FindByKey, FindByOp, ReplayCurrent, FindWallet, Insert
  <1>2. \A p \in Workers : WorkerStep(p) => UNCHANGED << input, db >>
    BY DEF WorkerStep, LockRow, ResumeWallet, List
  <1>3. \A p \in Sessions : CommonStep(p) \/ Crash(p) =>
            Commit(p) \/ UNCHANGED << input, db >>
    BY DEF CommonStep, Crash, FindReference, FindReversal, Save
  <1>4. Rests \/ UNCHANGED vars => UNCHANGED << input, db >>
    BY DEF Rests, vars
  <1> QED
    BY <1>1, <1>2, <1>3, <1>4 DEF Next

\* No step takes anything back.
LEMMA NextGrows == IInv /\ IInv' /\ KInv /\ [Next]_vars => Grows
  <1> SUFFICES ASSUME IInv, IInv', KInv, [Next]_vars PROVE Grows
    OBVIOUS
  <1> QED
    BY NextQuietOr, QuietGrows, OpenWalletGrows, CommitGrows, ExpireGrows DEF IInv

\* Every step keeps KInv.
LEMMA NextKInv == IInv /\ IInv' /\ KInv /\ [Next]_vars => KInv'
  <1> SUFFICES ASSUME IInv, IInv', KInv, [Next]_vars PROVE KInv'
    OBVIOUS
  <1>1. CASE UNCHANGED vars
    <2>1. Grows
      BY <1>1, QuietGrows DEF vars, IInv
    <2>2. RowsKnown'
      BY <1>1 DEF vars, db, KInv, RowsKnown, RowHonest, Serves, ReversalsDiffer, Reverses,
                  WalletHonest, IsOpen
    <2> QED
      BY <1>1, <2>1, <2>2, AsideK DEF vars, db, Reverses, Stored
  <1>2. CASE \E r \in Requests : RequestStep(r)
    BY <1>2, RefuseKindK, FindByKeyK, FindByOpK, ReplayCurrentK, FindWalletK, InsertK
       DEF RequestStep
  <1>3. CASE \E p \in Workers : WorkerStep(p)
    BY <1>3, LockRowK, ResumeWalletK, ListK DEF WorkerStep
  <1>4. CASE \E p \in Sessions : CommonStep(p) \/ Crash(p)
    BY <1>4, FindReferenceK, FindReversalK, SaveK, CommitK, CrashK DEF CommonStep
  <1>5. CASE \E w \in Wallets : OpenWallet(w)
    BY <1>5, OpenWalletK
  <1>6. CASE \E t \in Requests : Expire(t)
    BY <1>6, ExpireK
  <1>7. CASE Rests
    BY <1>1, <1>7 DEF Rests
  <1> QED
    BY <1>1, <1>2, <1>3, <1>4, <1>5, <1>6, <1>7 DEF Next

\* KInv holds in every behaviour.
LEMMA KInvariant == Spec => []KInv
  BY InitKInv, NextKInv, Invariant, PTL DEF Spec

--------------------------------------------------------------------------------
(* What follows from KInv, or is kept on top of it.                           *)

\* OInv: the two statements about stored rows that need a step of their own, and
\* the wallets of a player.
PursesDiffer == \A v, w \in Wallets : IsOpen(v) /\ IsOpen(w) /\ SamePurse(v, w) => v = w

\* What the invariant of the sessions makes inductive beside it.
OInv == AppliedOnce /\ RejectionJustified /\ PursesDiffer

\* An insert owns its operation and its key until it commits, so no two rows share
\* either.
LEMMA CommitAppliedOnce ==
    ASSUME IInv, IInv', KInv, AppliedOnce, NEW p \in Sessions, Commit(p)
    PROVE  AppliedOnce'
  <1> DEFINE t == task[p]
  <1>1. /\ t \in Requests /\ t \in TxIds /\ pc[p] = "commit" /\ input' = input
        /\ txs' = [txs EXCEPT ![t] = Outcome(p)]
    BY CommitMeans
  <1>2. /\ p \in Requests => t = p /\ HoldsInsert(p) /\ InsertHeld(p)
        /\ p \in Workers => t \in Stored
    BY <1>1, HeldRow DEF KInv, Locks, Stored
  <1>3. Stored' \subseteq Stored \cup {t}
    BY <1>1 DEF Stored, IInv, TypeOK, RowsTypeOK, TxIds
  <1>4. \A u \in Stored : u # t => ~ Clashes(t, u)
    BY <1>2 DEF InsertHeld, AppliedOnce, Clashes, Sessions
  <1> QED
    BY <1>1, <1>3, <1>4 DEF AppliedOnce, Clashes

\* A refusal is written with its reason.
LEMMA CommitJustified ==
    ASSUME IInv, IInv', KInv, RejectionJustified, NEW p \in Sessions, Commit(p)
    PROVE  RejectionJustified'
  <1> SUFFICES ASSUME NEW u \in Requests, txs'[u].status = "REJECTED"
               PROVE  /\ Justified(u, input[u], txs[u])'
                      /\ txs'[u].result \in BalancesOf(input[u].wallet)'
    BY DEF RejectionJustified
  <1>1. /\ task[p] \in Requests /\ task[p] \in TxIds /\ pc[p] = "commit" /\ input' = input
        /\ Asked(p) = input[task[p]] /\ Asked(p).wallet \in Wallets
        /\ txs' = [txs EXCEPT ![task[p]] = Outcome(p)]
    BY CommitMeans
  <1>2. Grows /\ TypeOK /\ TypeOK' /\ input[u].wallet \in Wallets
    BY CommitGrows, InputsTyped DEF IInv
  <1>3. CASE u # task[p]
    <2>1. txs'[u] = txs[u]
      BY <1>1, <1>2, <1>3 DEF TypeOK, RowsTypeOK, TxIds
    <2>2. Justified(u, input[u], txs[u]) /\ txs[u].result \in BalancesOf(input[u].wallet)
      BY <2>1 DEF RejectionJustified
    <2>3. txs'[u].result \in BalancesOf(input[u].wallet)'
      BY <1>1, <1>2, <2>1, <2>2, BalancesStable
    <2> QED
      BY <1>1, <1>2, <2>1, <2>2, <2>3, JustifiedStable
  <1>4. CASE u = task[p]
    <2>1. txs'[u] = Outcome(p)
      BY <1>1, <1>2, <1>4 DEF TypeOK, RowsTypeOK
    <2>2. /\ plan[p].do = "reject" /\ txs'[u].failure = plan[p].code
          /\ txs'[u].result = snap[p].balance
      BY <1>1, <2>1, OutcomeMeans
    <2>3. Justified(u, input[u], [failure |-> plan[p].code, result |-> snap[p].balance])
          /\ snap[p].balance \in BalancesOf(input[u].wallet)
      BY <1>1, <1>4, <2>2 DEF KInv, Knows, RefusalHonest, Reading
    <2>4. Justified(u, input[u], txs'[u])
      BY <2>2, <2>3 DEF Justified
    <2>5. txs'[u].result \in BalancesOf(input[u].wallet)'
      BY <1>1, <1>2, <2>2, <2>3, BalancesStable
    <2> QED
      BY <1>1, <1>2, <2>4, <2>5, JustifiedStable
  <1> QED
    BY <1>3, <1>4

\* A commit opens no wallet.
LEMMA CommitPurses ==
    ASSUME IInv, IInv', KInv, PursesDiffer, NEW p \in Sessions, Commit(p)
    PROVE  PursesDiffer'
  <1> DEFINE w == Asked(p).wallet
  <1>1. /\ IsOpen(w) /\ w \in Wallets
        /\ \/ wallets' = [wallets EXCEPT ![w] = MovedWallet(p)]
           \/ wallets' = wallets
    BY CommitMeans
  <1> HIDE DEF w
  <1>2. \A v \in Wallets : v # w => wallets'[v] = wallets[v]
    BY <1>1 DEF IInv, TypeOK, RowsTypeOK
  <1>3. \A v \in Wallets : IsOpen(v)' => IsOpen(v)
    BY <1>1, <1>2 DEF IsOpen
  <1> QED
    BY <1>3 DEF PursesDiffer, SamePurse

\* The index of migration 0001 refuses a second wallet for a purse.
LEMMA OpenWalletO ==
    ASSUME IInv, IInv', KInv, OInv, NEW w \in Wallets, OpenWallet(w)
    PROVE  OInv'
  <1>1. \A t \in Requests : txs'[t] = txs[t]
    BY SessionsAssumption DEF OpenWallet, db, IInv, TypeOK, RowsTypeOK, TxIds
  <1>2. AppliedOnce'
    BY <1>1 DEF OInv, AppliedOnce, Stored, OpenWallet
  <1>3. Grows /\ TypeOK /\ TypeOK' /\ input' = input
    BY OpenWalletGrows DEF IInv, OpenWallet
  <1>4. RejectionJustified'
    <2> SUFFICES ASSUME NEW u \in Requests, txs[u].status = "REJECTED"
                 PROVE  /\ Justified(u, input[u], txs[u])'
                        /\ txs'[u].result \in BalancesOf(input[u].wallet)'
      BY <1>1 DEF RejectionJustified
    <2>1. Justified(u, input[u], txs[u]) /\ txs[u].result \in BalancesOf(input[u].wallet)
      BY DEF OInv, RejectionJustified
    <2>2. input[u].wallet \in Wallets
      BY <1>3, InputsTyped
    <2>3. txs'[u].result \in BalancesOf(input[u].wallet)'
      BY <1>1, <1>3, <2>1, <2>2, BalancesStable
    <2> QED
      BY <1>1, <1>3, <2>1, <2>3, JustifiedStable
  <1>5. PursesDiffer'
    <2>1. CASE UNCHANGED db
      BY <2>1 DEF OInv, PursesDiffer, SamePurse, IsOpen, db
    <2>2. CASE ~ \E v \in Wallets : IsOpen(v) /\ SamePurse(v, w)
      <3>1. \A v \in Wallets : v # w => IsOpen(v)' = IsOpen(v)
        BY <2>2 DEF OpenWallet, IsOpen, IInv, TypeOK, RowsTypeOK
      <3> QED
        BY <2>2, <3>1 DEF OInv, PursesDiffer, SamePurse
    <2> QED
      BY <2>1, <2>2 DEF OpenWallet
  <1> QED
    BY <1>2, <1>4, <1>5 DEF OInv

\* An expiry keeps OInv.
LEMMA ExpireO ==
    ASSUME IInv, IInv', KInv, OInv, NEW t \in Requests, Expire(t)
    PROVE  OInv'
  <1>1. /\ txs' = [txs EXCEPT ![t] = Expired(t)] /\ txs[t].status = "PENDING_REFERENCE"
        /\ UNCHANGED << input, wallets, ledger >> /\ t \in TxIds
    BY DEF Expire, Stale, TxIds
  <1>2. /\ txs'[t].status = "FAILED"
        /\ \A u \in Requests : u # t => txs'[u] = txs[u]
    BY <1>1 DEF Expired, IInv, TypeOK, RowsTypeOK, Rows, TxIds
  <1>3. Stored' \subseteq Stored
    BY <1>1, <1>2 DEF Stored
  <1>4. AppliedOnce'
    BY <1>1, <1>3 DEF OInv, AppliedOnce
  <1>5. Grows
    BY ExpireGrows DEF IInv
  <1>6. RejectionJustified'
    <2> SUFFICES ASSUME NEW u \in Requests, u # t, txs[u].status = "REJECTED"
                 PROVE  /\ Justified(u, input[u], txs[u])'
                        /\ txs'[u].result \in BalancesOf(input[u].wallet)'
      BY <1>2 DEF RejectionJustified
    <2>1. Justified(u, input[u], txs[u]) /\ txs[u].result \in BalancesOf(input[u].wallet)
      BY DEF OInv, RejectionJustified
    <2> QED
      BY <1>1, <1>2, <1>5, <2>1, JustifiedStable DEF BalancesOf
  <1>7. PursesDiffer'
    BY <1>1 DEF OInv, PursesDiffer, SamePurse, IsOpen
  <1> QED
    BY <1>4, <1>6, <1>7 DEF OInv

\* The rest writes nothing.
LEMMA QuietO ==
    ASSUME OInv, UNCHANGED << input, db >>
    PROVE  OInv'
  <1>1. AppliedOnce' /\ PursesDiffer'
    BY DEF OInv, AppliedOnce, Stored, PursesDiffer, SamePurse, IsOpen, db
  <1>2. \A u \in Requests : Justified(u, input[u], txs[u])' = Justified(u, input[u], txs[u])
    BY DEF Justified, Moved, KindOf, db
  <1>3. RejectionJustified'
    BY <1>2 DEF OInv, RejectionJustified, BalancesOf, db
  <1> QED
    BY <1>1, <1>3 DEF OInv

\* OInv holds in every behaviour.
LEMMA OInvariant == Spec => []OInv
  <1>1. Init => OInv
    <2> SUFFICES ASSUME Init PROVE OInv
      OBVIOUS
    <2>1. \A t \in Requests : txs[t].status = "ABSENT"
      BY SessionsAssumption, WalletsAssumption DEF Init, TxIds, NoRow
    <2>2. AppliedOnce /\ RejectionJustified
      BY <2>1 DEF AppliedOnce, RejectionJustified, Stored
    <2>3. \A w \in Wallets : IsOpen(w) => w \in Preopened
      BY DEF Init, IsOpen, NoWallet
    <2>4. PursesDiffer
      BY <2>3, WalletsAssumption DEF PursesDiffer, SamePurse
    <2> QED
      BY <2>2, <2>4 DEF OInv
  <1>2. IInv /\ IInv' /\ KInv /\ OInv /\ [Next]_vars => OInv'
    <2> SUFFICES ASSUME IInv, IInv', KInv, OInv, [Next]_vars PROVE OInv'
      OBVIOUS
    <2>1. ASSUME NEW p \in Sessions, Commit(p) PROVE OInv'
      BY <2>1, CommitAppliedOnce, CommitJustified, CommitPurses DEF OInv
    <2> QED
      BY <2>1, NextQuietOr, QuietO, OpenWalletO, ExpireO
  <1> QED
    BY <1>1, <1>2, Invariant, KInvariant, PTL DEF Spec

--------------------------------------------------------------------------------
(* The theorems.                                                              *)

\* A final row never changes, an entry is never changed or removed and a row never
\* disappears, whoever takes the step: a late worker, an expiry, a call run again.
THEOREM FinalStaysFinal == Spec => TerminalFrozen
  <1>1. Grows => /\ \A t \in TxIds :
                       /\ txs[t].status \in Terminal => txs'[t] = txs[t]
                       /\ txs[t].status # "ABSENT" => txs'[t].status # "ABSENT"
                 /\ \A w \in Wallets :
                       /\ Len(ledger'[w]) >= Len(ledger[w])
                       /\ \A i \in 1..Len(ledger[w]) : ledger'[w][i] = ledger[w][i]
    BY DEF Grows, RowsFreeze, LedgerGrows
  <1> QED
    BY <1>1, Invariant, KInvariant, NextGrows, PTL DEF Spec, TerminalFrozen

\* No operation and no key is stored twice, however the two lookups of a call
\* interleave with the commits of the same call sent again.
THEOREM StoredOnce == Spec => []AppliedOnce
  <1>1. OInv => AppliedOnce
    BY DEF OInv
  <1> QED
    BY <1>1, OInvariant, PTL

\* What a caller was told is in the database, and stays there.
THEOREM AnswersLast == Spec => []AnswersAreDurable
  <1>1. KInv => AnswersAreDurable
    BY DEF KInv, ReplyHonest, Durable, AnswersAreDurable
  <1> QED
    BY <1>1, KInvariant, PTL

\* A call told of a conflict met another call's row, never its own.
THEOREM ConflictsAreReal == Spec => []ConflictJustified
  <1>1. KInv => ConflictJustified
    BY DEF KInv, ReplyHonest, ConflictJustified
  <1> QED
    BY <1>1, KInvariant, PTL

\* A rejection decided on a snapshot is one that the committed history justifies.
THEOREM RejectionsHaveReasons == Spec => []RejectionJustified
  <1>1. OInv => RejectionJustified
    BY DEF OInv
  <1> QED
    BY <1>1, OInvariant, PTL

\* A player has one wallet per currency, and a refused opening leaves nothing.
THEOREM OneWalletPerPurse == Spec => []OnePurse
  <1>1. KInv /\ OInv => OnePurse
    BY DEF KInv, RowsKnown, WalletHonest, OInv, PursesDiffer, SamePurse, OnePurse
  <1> QED
    BY <1>1, KInvariant, OInvariant, PTL

\* No operation is reversed twice, and the version check sees to it before the index
\* of migration 0008 does.
THEOREM NeverReversedTwice == Spec => []ReversedOnce
  <1>1. IInv /\ KInv /\ OInv => ReversedOnce
    <2> SUFFICES ASSUME IInv, KInv, OInv PROVE ReversedOnce
      OBVIOUS
    <2>1. ASSUME NEW t \in Requests, Moved(t), input[t].kind \in Reversals
          PROVE  /\ txs[t].resolved \in Stored
                 /\ input[txs[t].resolved].op = input[t].ref
                 /\ Reverses(t, txs[t].resolved)
      <3>1. txs[t].status = "PROCESSED" /\ txs[t].resolved # None
        BY <2>1 DEF Moved, KInv, RowsKnown, RowHonest
      <3>2. Serves(txs[t].resolved, input[t])
        BY <3>1 DEF KInv, RowsKnown, RowHonest
      <3> QED
        BY <2>1, <3>1, <3>2 DEF Serves, Stored, Reverses
    <2>2. ASSUME NEW t \in Requests, NEW u \in Requests, Moved(t), Moved(u),
                 input[t].kind \in Reversals, input[u].kind \in Reversals,
                 input[t].ref = input[u].ref
          PROVE  t = u
      <3>1. txs[t].resolved = txs[u].resolved
        BY <2>1, <2>2 DEF OInv, AppliedOnce
      <3> QED
        BY <2>1, <2>2, <3>1 DEF KInv, RowsKnown, ReversalsDiffer, Stored
    <2> QED
      BY <2>2, NeverMeetsIndex DEF ReversedOnce
  <1> QED
    BY <1>1, Invariant, KInvariant, OInvariant, PTL
================================================================================
