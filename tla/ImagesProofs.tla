---------------------------- MODULE ImagesProofs ----------------------------
(***************************************************************************)
(* What Images guarantees for any number of nodes, images and downloads:   *)
(* its types, that progress never falls, and that what counts as complete  *)
(* is on the disks of the nodes, or was feigned by the last report of a    *)
(* pull that ended in an error.                                            *)
(***************************************************************************)
EXTENDS Images, TLAPS

States == FinalStates \cup {"", "downloading"}

Progress == [Node -> [Ref -> Missing .. Full]]

Version == [gen : 0 .. MaxGen, refs : SUBSET Ref, nodes : SUBSET Node, state : States,
            cond : Progress]

Worker == [pc : {"idle", "pull"}, todo : SUBSET Ref, canceled : BOOLEAN,
           err : {"", "failed", "downloadingCanceled"}]

Download == [pc : {"idle", "create", "polling"}, gen : 0 .. MaxGen,
             outcome : {"", "ok", "failed", "canceled"}]

-----------------------------------------------------------------------------
(***************************************************************************)
(* The inductive invariant, part by part.                                  *)
(***************************************************************************)
VersionsInv ==
    ims \in Seq(Version) /\ Len(ims) \in 1 .. MaxLag + 1

OthersInv ==
    /\ queue \subseteq Node /\ cancels \subseteq Node
    /\ wk \in [Node -> Worker]
    /\ ticks \subseteq Node \X Ref /\ stopping \subseteq Node
    /\ onDisk \subseteq Node \X Ref
    /\ poll \in Download
    /\ crossed \in BOOLEAN /\ overwritten \in BOOLEAN /\ lost \in BOOLEAN
    /\ feigned \subseteq (0 .. MaxGen) \X Node \X Ref /\ halted \in BOOLEAN
    /\ faults \in 0 .. MaxFaults

TypeInv == VersionsInv /\ OthersInv

\* The versions of one download differ in state and progress only, and none is
\* of a download to come.
OneObject == \A v, w \in Visible : v.gen = w.gen => v.refs = w.refs /\ v.nodes = w.nodes

NoObject == \A v \in Visible : v.gen = 0 => v.refs = {} /\ v.nodes = {}

NotBefore == \A v \in Visible : v.gen <= poll.gen /\ (poll.pc = "create" => v.gen < poll.gen)

PollInv ==
    /\ poll.pc = "polling" => im.gen = poll.gen /\ poll.gen > 0
    /\ poll.pc = "create" => poll.outcome = "" /\ poll.gen > 0

GenInv == OneObject /\ NoObject /\ NotBefore /\ PollInv

\* A worker that has met no error has pulled what it has not left to do.
Done(n) ==
    wk[n].pc = "pull" /\ wk[n].err = "" /\ Exists(im) =>
        \A r \in im.refs \ wk[n].todo : <<n, r>> \in onDisk

OnDisk(v) == \A n \in Node, r \in Ref : v.cond[n][r] = Full => Covered(v, n, r)

Answered ==
    poll.outcome = "ok" /\ im.gen = poll.gen => \A n \in im.nodes, r \in im.refs : Covered(im, n, r)

TruthInv == ~crossed => (\A v \in Visible : OnDisk(v)) /\ Answered /\ (\A n \in Node : Done(n))

IInv == TypeInv /\ GenInv /\ TruthInv

-----------------------------------------------------------------------------
(***************************************************************************)
(* The versions, as a set of which one is the stored object.               *)
(***************************************************************************)
LEMMA VersionSet ==
    ASSUME VersionsInv
    PROVE  im \in Visible /\ Visible \subseteq Version /\ im \in Version
BY SizeAssumption DEF VersionsInv, Visible, im

\* A write adds a version, which is the stored object from then on.
LEMMA WriteLemma ==
    ASSUME VersionsInv, NEW v \in Version, WriteIM(v)
    PROVE  VersionsInv' /\ im' = v /\ Visible' = Visible \cup {v}
<1>1. /\ ims \in Seq(Version) /\ Len(ims) \in Nat /\ Len(ims) <= MaxLag /\ Len(ims) >= 1
      /\ ims' = Append(ims, v)
  BY SizeAssumption DEF VersionsInv, WriteIM
<1>2. ims' \in Seq(Version) /\ Len(ims') = Len(ims) + 1
  BY <1>1
<1>3. \A i \in 1 .. Len(ims') : ims'[i] = IF i <= Len(ims) THEN ims[i] ELSE v
  BY <1>1
<1>4. DOMAIN ims = 1 .. Len(ims) /\ DOMAIN ims' = 1 .. Len(ims')
  BY <1>1, <1>2
<1>5. im' = v
  BY <1>1, <1>2, <1>3 DEF im
<1>6. Visible' = Visible \cup {v}
  <2>1. Visible' \subseteq Visible \cup {v}
    BY <1>1, <1>2, <1>3, <1>4 DEF Visible
  <2>2. Visible \subseteq Visible'
    BY <1>1, <1>2, <1>3, <1>4 DEF Visible
  <2>3. v \in Visible'
    BY <1>1, <1>2, <1>3, <1>4 DEF Visible
  <2> QED
    BY <2>1, <2>2, <2>3
<1> QED
  BY <1>1, <1>2, <1>5, <1>6, SizeAssumption DEF VersionsInv

\* A delivery drops the oldest version.
LEMMA DeliverLemma ==
    ASSUME VersionsInv, Len(ims) > 1, ims' = Tail(ims)
    PROVE  VersionsInv' /\ im' = im /\ Visible' \subseteq Visible
<1>1. ims \in Seq(Version) /\ Len(ims) \in Nat /\ Len(ims) <= MaxLag + 1
  BY SizeAssumption DEF VersionsInv
<1>2. ims' \in Seq(Version) /\ Len(ims') = Len(ims) - 1
  BY <1>1
<1>3. \A i \in 1 .. Len(ims') : ims'[i] = ims[i + 1]
  BY <1>1, <1>2
<1>4. DOMAIN ims = 1 .. Len(ims) /\ DOMAIN ims' = 1 .. Len(ims')
  BY <1>1, <1>2
<1>5. im' = im
  BY <1>1, <1>2, <1>3 DEF im
<1>6. Visible' \subseteq Visible
  BY <1>1, <1>2, <1>3, <1>4 DEF Visible
<1> QED
  BY <1>1, <1>2, <1>5, <1>6, SizeAssumption DEF VersionsInv

-----------------------------------------------------------------------------
(***************************************************************************)
(* What the nodes and the application service write.                       *)
(***************************************************************************)
\* The same object, with no less progress.
Update(v) ==
    /\ v \in Version
    /\ v.gen = im.gen /\ v.refs = im.refs /\ v.nodes = im.nodes
    /\ \A n \in Node, r \in Ref : v.cond[n][r] >= im.cond[n][r]

\* There are so many downloads.
LEMMA Downloads ==
    MaxGen \in Nat /\ Refs \subseteq SUBSET Ref
BY RefsAssumption

\* Sizes are ordered.
LEMMA Sizes ==
    /\ Missing \in Missing .. Full /\ Full \in Missing .. Full /\ Missing # Full
    /\ \A x \in Missing .. Full : x <= x /\ x <= Full
BY SizeAssumption DEF Missing

\* A state is patched into the stored object.
LEMMA SetStateUpdates ==
    ASSUME VersionsInv, NEW v, NEW s \in States
    PROVE  Update(SetState(v, s)) /\ SetState(v, s).cond = im.cond
<1>1. im \in Version
  BY VersionSet
<1>2. \A n \in Node, r \in Ref : im.cond[n][r] \in Missing .. Full
  BY <1>1 DEF Version, Progress
<1>3. [im EXCEPT !.state = s] \in Version
  BY <1>1 DEF Version
<1>4. Update(im)
  BY <1>1, <1>2, Sizes DEF Update
<1>5. Update([im EXCEPT !.state = s]) /\ [im EXCEPT !.state = s].cond = im.cond
  BY <1>1, <1>2, <1>3, Sizes DEF Update, Version
<1> QED
  BY <1>4, <1>5 DEF SetState

\* A report raises the progress of one image on one node.
LEMMA ReportUpdates ==
    ASSUME VersionsInv, NEW n \in Node, NEW r \in Ref, NEW offset \in Missing .. Full,
           im.cond[n][r] <= offset
    PROVE  /\ Update([im EXCEPT !.cond[n][r] = offset])
           /\ \A m \in Node, q \in Ref :
                [im EXCEPT !.cond[n][r] = offset].cond[m][q] =
                  IF m = n /\ q = r THEN offset ELSE im.cond[m][q]
<1> DEFINE cond == [im.cond EXCEPT ![n][r] = offset]
           new == [im EXCEPT !.cond = cond]
<1>1. im \in Version /\ im.cond \in Progress
  BY VersionSet DEF Version
<1>2. [im EXCEPT !.cond[n][r] = offset] = new
  BY <1>1 DEF Version
<1>3. cond \in Progress
  BY <1>1 DEF Progress
<1>4. \A m \in Node, q \in Ref : cond[m][q] = IF m = n /\ q = r THEN offset ELSE im.cond[m][q]
  BY <1>1 DEF Progress
<1>5. \A m \in Node, q \in Ref : cond[m][q] >= im.cond[m][q]
  BY <1>1, <1>4, Sizes DEF Progress
<1> HIDE DEF cond
<1>6. new \in Version /\ new.cond = cond /\ new.gen = im.gen /\ new.refs = im.refs
      /\ new.nodes = im.nodes
  BY <1>1, <1>3 DEF Version
<1> HIDE DEF new
<1>7. Update(new)
  BY <1>5, <1>6 DEF Update
<1>8. \A m \in Node, q \in Ref : new.cond[m][q] = IF m = n /\ q = r THEN offset ELSE im.cond[m][q]
  BY <1>4, <1>6
<1> QED
  BY <1>2, <1>7, <1>8

\* Whether a node that has finished takes an image for complete that it never
\* reported.
Silent(v, n, m, r) == m = n /\ n \in v.nodes /\ r \in v.refs /\ v.cond[n][r] = Missing

\* A node that fills in its images counts them as complete, and no other.
LEMMA FilledMeans ==
    ASSUME NEW v \in Version, NEW n \in Node
    PROVE  \A m \in Node, r \in Ref :
             Filled(v, n)[m][r] = IF Silent(v, n, m, r) THEN Full ELSE v.cond[m][r]
<1>1. v.cond \in Progress
  BY DEF Version
<1> QED
  BY <1>1 DEF Filled, Silent, Progress

\* A finished node completes the stored object with what it never reported.
LEMMA CompletedUpdates ==
    ASSUME VersionsInv, NEW v \in Version, NEW n \in Node
    PROVE  /\ Update(Completed(v, n))
           /\ \A m \in Node, r \in Ref :
                Completed(v, n).cond[m][r] = IF Silent(v, n, m, r) THEN Full ELSE im.cond[m][r]
<1> DEFINE new == Filled(v, n)
           cond == [m \in Node |-> [r \in Ref |->
                      IF new[m][r] # v.cond[m][r] THEN new[m][r] ELSE im.cond[m][r]]]
           stored == [im EXCEPT !.cond = cond]
<1>1. im \in Version /\ im.cond \in Progress
  BY VersionSet DEF Version
<1>2. \A m \in Node, r \in Ref : cond[m][r] = IF Silent(v, n, m, r) THEN Full ELSE im.cond[m][r]
  <2> SUFFICES ASSUME NEW m \in Node, NEW r \in Ref
               PROVE  cond[m][r] = IF Silent(v, n, m, r) THEN Full ELSE im.cond[m][r]
    OBVIOUS
  <2>1. new[m][r] = IF Silent(v, n, m, r) THEN Full ELSE v.cond[m][r]
    BY FilledMeans
  <2>2. Silent(v, n, m, r) => v.cond[m][r] # Full
    BY Sizes DEF Silent
  <2>3. cond[m][r] = IF new[m][r] # v.cond[m][r] THEN new[m][r] ELSE im.cond[m][r]
    OBVIOUS
  <2> QED
    BY <2>1, <2>2, <2>3
<1>3. cond \in Progress /\ \A m \in Node, r \in Ref : cond[m][r] >= im.cond[m][r]
  <2>1. \A m \in Node, r \in Ref : im.cond[m][r] \in Missing .. Full
    BY <1>1 DEF Progress
  <2>2. \A m \in Node, r \in Ref : cond[m][r] \in Missing .. Full /\ cond[m][r] >= im.cond[m][r]
    BY <1>2, <2>1, Sizes
  <2>3. cond = [m \in Node |-> [r \in Ref |-> cond[m][r]]]
    OBVIOUS
  <2> HIDE DEF cond
  <2> QED
    BY <2>2, <2>3 DEF Progress
<1>4. /\ \A m \in Node : cond[m] = [r \in Ref |-> IF new[m][r] # v.cond[m][r] THEN new[m][r]
                                               ELSE im.cond[m][r]]
      /\ stored = [im EXCEPT !.cond = [m \in Node |-> [r \in Ref |->
                                IF new[m][r] # v.cond[m][r] THEN new[m][r] ELSE @[m][r]]]]
  BY <1>1 DEF Version
<1>5. Completed(v, n) = IF Complete([v EXCEPT !.cond = new]) /\ v.state # "completed"
                        THEN [stored EXCEPT !.state = "completed"] ELSE stored
  BY <1>4 DEF Completed
<1> HIDE DEF cond
<1>6. stored \in Version /\ Update(stored) /\ stored.cond = cond
  BY <1>1, <1>3 DEF Version, Update
<1> HIDE DEF stored
<1>7. "completed" \in States
  BY DEF States, FinalStates
<1>8. LET done == [stored EXCEPT !.state = "completed"] IN Update(done) /\ done.cond = cond
  BY <1>6, <1>7 DEF Version, Update
<1>9. Update(Completed(v, n)) /\ Completed(v, n).cond = cond
  BY <1>5, <1>6, <1>8
<1> QED
  BY <1>2, <1>9

\* What a download creates.
Fresh(g, refs, nodes) == [NoIM EXCEPT !.gen = g, !.refs = refs, !.nodes = nodes]

\* The absence of an ImageManager is a version, too, and so is a new one.
LEMMA NewVersions ==
    /\ NoIM \in Version
    /\ \A g \in 1 .. MaxGen, refs \in Refs, nodes \in Ready :
         /\ Fresh(g, refs, nodes) \in Version /\ Fresh(g, refs, nodes).gen = g
         /\ \A n \in Node, r \in Ref : Fresh(g, refs, nodes).cond[n][r] = Missing
<1> DEFINE cond == [n \in Node |-> [r \in Ref |-> Missing]]
<1>1. MaxGen \in Nat /\ Refs \subseteq SUBSET Ref
  BY Downloads
<1>2. cond \in Progress /\ \A n \in Node, r \in Ref : cond[n][r] = Missing
  BY Sizes DEF Progress
<1>3. "" \in States
  BY DEF States
<1>4. NoIM = [gen |-> 0, refs |-> {}, nodes |-> {}, state |-> "", cond |-> cond]
  BY DEF NoIM
<1> HIDE DEF cond
<1>5. NoIM \in Version
  <2>1. 0 \in 0 .. MaxGen /\ {} \in SUBSET Ref /\ {} \in SUBSET Node
    BY <1>1
  <2> QED
    BY <1>2, <1>3, <1>4, <2>1 DEF Version
<1>6. ASSUME NEW g \in 1 .. MaxGen, NEW refs \in Refs, NEW nodes \in Ready
      PROVE  /\ Fresh(g, refs, nodes) \in Version /\ Fresh(g, refs, nodes).gen = g
             /\ \A n \in Node, r \in Ref : Fresh(g, refs, nodes).cond[n][r] = Missing
  <2>1. nodes \in SUBSET Node /\ refs \in SUBSET Ref /\ g \in 0 .. MaxGen
    BY <1>1, ReadyAssumption
  <2>2. NoIM.cond = cond
    BY <1>4
  <2> HIDE DEF NoIM
  <2> QED
    BY <1>2, <1>5, <2>1, <2>2 DEF Version, Fresh
<1> QED
  BY <1>5, <1>6

-----------------------------------------------------------------------------
(***************************************************************************)
(* Types.                                                                  *)
(***************************************************************************)
\* What the nodes do to their workers.
LEMMA WorkerTypes ==
    /\ Idle \in Worker
    /\ \A todo \in SUBSET Ref : [Idle EXCEPT !.pc = "pull", !.todo = todo] \in Worker
    /\ \A w \in Worker : /\ [w EXCEPT !.canceled = TRUE] \in Worker
                         /\ \A r \in Ref : [w EXCEPT !.todo = @ \ {r}] \in Worker
                         /\ \A r \in Ref, e \in {"", "failed", "downloadingCanceled"} :
                              [w EXCEPT !.todo = @ \ {r}, !.err = e] \in Worker
BY DEF Worker, Idle

\* Steps that write the stored object, or do not.
LEMMA WritesKeep ==
    ASSUME VersionsInv, UNCHANGED ims \/ \E v \in Version : WriteIM(v)
    PROVE  VersionsInv'
<1>1. CASE UNCHANGED ims
  BY <1>1 DEF VersionsInv
<1>2. CASE \E v \in Version : WriteIM(v)
  BY <1>2, WriteLemma
<1> QED
  BY <1>1, <1>2

\* What a step of a node writes is the stored object with another state or more
\* progress.
LEMMA NodeWrites ==
    ASSUME TypeInv, NEW n \in Node, NodeNext(n)
    PROVE  UNCHANGED ims \/ \E v : Update(v) /\ WriteIM(v)
<1> USE DEF TypeInv
<1>1. CASE Reconcile(n)
  <2>1. "downloading" \in States
    BY DEF States
  <2>2. UNCHANGED ims \/ \E v : WriteIM(SetState(v, "downloading"))
    BY <1>1 DEF Reconcile
  <2> QED
    BY <2>1, <2>2, SetStateUpdates
<1>2. CASE updateStatus(n)
  <2>1. wk[n].err \in States
    BY DEF OthersInv, Worker, States, FinalStates
  <2>2. \/ UNCHANGED ims
        \/ \E v \in Visible : WriteIM(Completed(v, n)) \/ WriteIM(SetState(v, wk[n].err))
    BY <1>2 DEF updateStatus
  <2> QED
    BY <2>1, <2>2, VersionSet, CompletedUpdates, SetStateUpdates
<1>3. ASSUME NEW r \in Ref, showProgress(n, r)
      PROVE  UNCHANGED ims \/ \E v : Update(v) /\ WriteIM(v)
  <2>1. PICK offset \in 1 .. Full + 1 :
          /\ Ahead(im, n, r, offset)
          /\ WriteIM([im EXCEPT !.cond[n][r] = offset])
    BY <1>3, SizeAssumption DEF showProgress
  <2>2. im.cond[n][r] \in Missing .. Full
    BY VersionSet DEF Version, Progress
  <2>3. offset \in Missing .. Full /\ im.cond[n][r] <= offset
    BY <2>1, <2>2, SizeAssumption DEF Ahead, Missing
  <2> QED
    BY <2>1, <2>3, ReportUpdates
<1>4. ASSUME NEW r \in Ref, PullImage(n, r)
      PROVE  UNCHANGED ims \/ \E v : Update(v) /\ WriteIM(v)
  <2>1. UNCHANGED ims \/ WriteIM([im EXCEPT !.cond[n][r] = Full])
    BY <1>4 DEF PullImage, ReportPulled
  <2>2. im.cond[n][r] \in Missing .. Full
    BY VersionSet DEF Version, Progress
  <2> QED
    BY <2>1, <2>2, Sizes, ReportUpdates
<1>5. ASSUME NEW r \in Ref, FetchLayers(n, r) \/ PullFails(n, r) \/ NotThere(n, r) \/ AbortPull(n, r)
      PROVE  UNCHANGED ims
  BY <1>5 DEF FetchLayers, PullFails, NotThere, AbortPull, EndsInError
<1>6. CASE cancel(n) \/ Crash(n) \/ Shutdown(n) \/ Exit(n)
  BY <1>6 DEF cancel, Crash, Shutdown, Exit, Restart
<1>7. ASSUME NEW r \in Ref, LastTick(n, r)
      PROVE  UNCHANGED ims \/ \E v : Update(v) /\ WriteIM(v)
  <2>1. UNCHANGED ims \/ WriteIM([im EXCEPT !.cond[n][r] = Full])
    BY <1>7 DEF LastTick, ReportPulled
  <2>2. im.cond[n][r] \in Missing .. Full
    BY VersionSet DEF Version, Progress
  <2> QED
    BY <2>1, <2>2, Sizes, ReportUpdates
<1> QED
  BY <1>1, <1>2, <1>3, <1>4, <1>5, <1>6, <1>7 DEF NodeNext

\* The download that begins is one of those to come.
LEMMA BegunGen ==
    ASSUME OthersInv, PollInv, poll.pc = "create"
    PROVE  poll.gen \in 1 .. MaxGen
<1>1. poll.gen \in 0 .. MaxGen
  BY DEF OthersInv, Download
<1>2. poll.gen > 0
  BY DEF PollInv
<1> QED
  BY <1>1, <1>2, Downloads

\* Every step keeps the versions.
LEMMA VersionsStep == ASSUME TypeInv, GenInv, [Next]_vars PROVE VersionsInv'
<1> USE DEF TypeInv
<1>1. CASE UNCHANGED vars
  BY <1>1, WritesKeep DEF vars
<1>2. CASE DeleteIM
  BY <1>2, WritesKeep, NewVersions DEF DeleteIM
<1>3. CASE Create
  <2>1. poll.gen \in 1 .. MaxGen
    <3>1. poll.gen \in 0 .. MaxGen
      BY DEF OthersInv, Download
    <3>2. poll.gen > 0
      BY <1>3 DEF GenInv, PollInv, Create
    <3> QED
      BY <3>1, <3>2, Downloads
  <2> QED
    BY <1>3, <2>1, WritesKeep, NewVersions DEF Create, Fresh
<1>4. CASE PollDownloadProgress
  BY <1>4, WritesKeep DEF PollDownloadProgress
<1>5. CASE CancelDownload
  <2>1. "downloadingCanceled" \in States
    BY DEF States, FinalStates
  <2> QED
    BY <1>5, <2>1, WritesKeep, SetStateUpdates DEF CancelDownload, Update
<1>6. CASE Deliver
  BY <1>6, DeliverLemma DEF Deliver
<1>7. ASSUME NEW n \in Node, NodeNext(n)
      PROVE  VersionsInv'
  BY <1>7, WritesKeep, NodeWrites DEF Update
<1> QED
  BY <1>1, <1>2, <1>3, <1>4, <1>5, <1>6, <1>7 DEF Next

\* Every step keeps the rest of the state in its type.
LEMMA OthersStep == ASSUME TypeInv, [Next]_vars PROVE OthersInv'
<1> USE DEF TypeInv
<1>1. CASE UNCHANGED vars
  BY <1>1 DEF vars, ghosts, node, OthersInv
<1>2. ASSUME Fault
      PROVE  faults' \in 0 .. MaxFaults
  BY <1>2, SizeAssumption DEF Fault, OthersInv
<1>3. CASE DeleteIM
  <2>1. poll' = [poll EXCEPT !.pc = "create", !.gen = @ + 1, !.outcome = ""] /\ poll.gen < MaxGen
    BY <1>3 DEF DeleteIM
  <2>2. poll' \in Download
    <3>1. poll \in Download /\ poll.gen \in 0 .. MaxGen
      BY DEF OthersInv, Download
    <3>2. poll.gen + 1 \in 0 .. MaxGen
      BY <2>1, <3>1, Downloads
    <3> QED
      BY <2>1, <3>1, <3>2 DEF Download
  <2> QED
    BY <1>3, <2>2 DEF DeleteIM, ghosts, node, OthersInv
<1>4. CASE Create
  <2>1. crossed' \in BOOLEAN
    BY <1>4 DEF Create, OthersInv
  <2>2. poll' \in Download
    BY <1>4 DEF Create, OthersInv, Download
  <2> QED
    BY <1>4, <2>1, <2>2 DEF Create, node, OthersInv
<1>5. CASE PollDownloadProgress
  <2>1. crossed' \in BOOLEAN /\ poll' \in Download
    BY <1>5 DEF PollDownloadProgress, OthersInv, Download
  <2> QED
    BY <1>5, <2>1 DEF PollDownloadProgress, node, OthersInv
<1>6. CASE CancelDownload
  BY <1>6 DEF CancelDownload, ghosts, node, OthersInv, Download
<1>7. CASE Deliver
  BY <1>7 DEF Deliver, preEnqueueCheckForUpdate, ghosts, node, OthersInv
<1>8. ASSUME NEW n \in Node, NodeNext(n)
      PROVE  OthersInv'
  <2>1. CASE Reconcile(n)
    <3>1. crossed' \in BOOLEAN
      BY <2>1 DEF Reconcile
    <3>2. overwritten' \in BOOLEAN
      BY <2>1 DEF Reconcile, OthersInv
    <3>3. \A v \in Visible : v.refs \in SUBSET Ref
      BY VersionSet DEF Version
    <3>4. wk' = wk \/ \E todo \in SUBSET Ref :
                        wk' = [wk EXCEPT ![n] = [Idle EXCEPT !.pc = "pull", !.todo = todo]]
      BY <2>1, <3>3 DEF Reconcile
    <3>5. wk' \in [Node -> Worker]
      BY <3>4, WorkerTypes DEF OthersInv
    <3>6. queue' \subseteq queue
      BY <2>1 DEF Reconcile
    <3> QED
      BY <2>1, <3>1, <3>2, <3>5, <3>6 DEF Reconcile, node, OthersInv
  <2>2. CASE updateStatus(n)
    <3>1. crossed' \in BOOLEAN
      BY <2>2 DEF updateStatus
    <3>2. wk' = [wk EXCEPT ![n] = Idle] /\ queue' \subseteq queue \cup {n}
      BY <2>2 DEF updateStatus, Return
    <3>3. wk' \in [Node -> Worker]
      BY <3>2, WorkerTypes DEF OthersInv
    <3> QED
      BY <2>2, <3>1, <3>2, <3>3 DEF updateStatus, node, OthersInv
  <2>3. ASSUME NEW r \in Ref, FetchLayers(n, r) \/ showProgress(n, r)
        PROVE  OthersInv'
    BY <2>3 DEF FetchLayers, showProgress, ghosts, node, OthersInv
  <2>4. ASSUME NEW r \in Ref, PullImage(n, r)
        PROVE  OthersInv'
    <3>1. wk' = [wk EXCEPT ![n] = [wk[n] EXCEPT !.todo = @ \ {r}]]
      BY <2>4 DEF PullImage
    <3>2. wk' \in [Node -> Worker]
      BY <3>1, WorkerTypes DEF OthersInv
    <3>3. lost' \in BOOLEAN
      BY <2>4 DEF PullImage, OthersInv
    <3>4. faults' \in 0 .. MaxFaults
      BY <1>2, <2>4 DEF PullImage, OthersInv
    <3> QED
      BY <2>4, <3>2, <3>3, <3>4 DEF PullImage, node, OthersInv
  <2>5. ASSUME NEW r \in Ref, PullFails(n, r) \/ NotThere(n, r) \/ AbortPull(n, r)
        PROVE  OthersInv'
    <3>1. PICK e \in {"", "failed", "downloadingCanceled"} : EndsInError(n, r, e)
      <4>1. FirstError(n) \in {"", "failed", "downloadingCanceled"}
        BY DEF OthersInv, Worker, FirstError
      <4> QED
        BY <2>5, <4>1 DEF PullFails, NotThere, AbortPull
    <3>2. wk' = [wk EXCEPT ![n] = [wk[n] EXCEPT !.todo = @ \ {r}, !.err = e]]
      BY <3>1 DEF EndsInError
    <3>3. wk' \in [Node -> Worker]
      <4>1. wk[n] \in Worker /\ wk \in [Node -> Worker]
        BY DEF OthersInv
      <4>2. [wk[n] EXCEPT !.todo = @ \ {r}, !.err = e] \in Worker
        BY <4>1, WorkerTypes
      <4> QED
        BY <3>2, <4>1, <4>2
    <3>4. faults' \in 0 .. MaxFaults
      BY <1>2, <2>5 DEF PullFails, NotThere, AbortPull, OthersInv
    <3>5. ticks' \subseteq Node \X Ref
      <4>1. ticks' = ticks \cup {<<n, r>>} /\ <<n, r>> \in Node \X Ref
        BY <3>1 DEF EndsInError
      <4> QED
        BY <4>1 DEF OthersInv
    <3> QED
      BY <3>1, <3>3, <3>4, <3>5 DEF EndsInError, ghosts, OthersInv
  <2>6. CASE cancel(n)
    <3>1. wk' = wk \/ wk' = [wk EXCEPT ![n] = [wk[n] EXCEPT !.canceled = TRUE]]
      BY <2>6 DEF cancel
    <3>2. wk' \in [Node -> Worker]
      <4>1. wk[n] \in Worker /\ wk \in [Node -> Worker]
        BY DEF OthersInv
      <4>2. [wk[n] EXCEPT !.canceled = TRUE] \in Worker
        BY <4>1, WorkerTypes
      <4> QED
        BY <3>1, <4>1, <4>2
    <3> QED
      BY <2>6, <3>2 DEF cancel, ghosts, node, OthersInv
  <2>7. CASE Crash(n) \/ Exit(n)
    <3>1. Restart(n) /\ faults' \in 0 .. MaxFaults
      BY <1>2, <2>7 DEF Crash, Exit, OthersInv
    <3>2. wk' \in [Node -> Worker]
      BY <3>1, WorkerTypes DEF Restart, OthersInv
    <3>3. ticks' \subseteq ticks /\ stopping' \subseteq stopping
      BY <3>1 DEF Restart
    <3> QED
      BY <3>1, <3>2, <3>3 DEF Restart, ghosts, OthersInv
  <2>8. CASE Shutdown(n)
    <3>1. wk' = wk \/ wk' = [wk EXCEPT ![n] = [wk[n] EXCEPT !.canceled = TRUE]]
      BY <2>8 DEF Shutdown
    <3>2. wk' \in [Node -> Worker]
      <4>1. wk[n] \in Worker /\ wk \in [Node -> Worker]
        BY DEF OthersInv
      <4>2. [wk[n] EXCEPT !.canceled = TRUE] \in Worker
        BY <4>1, WorkerTypes
      <4> QED
        BY <3>1, <4>1, <4>2
    <3>3. faults' \in 0 .. MaxFaults
      BY <1>2, <2>8 DEF Shutdown
    <3>4. halted' \in BOOLEAN
      BY <2>8 DEF Shutdown
    <3> QED
      BY <2>8, <3>2, <3>3, <3>4 DEF Shutdown, OthersInv
  <2>9. ASSUME NEW r \in Ref, LastTick(n, r)
        PROVE  OthersInv'
    <3>1. im.gen \in 0 .. MaxGen
      BY VersionSet DEF Version
    <3>2. feigned' \subseteq (0 .. MaxGen) \X Node \X Ref
      BY <2>9, <3>1 DEF LastTick, OthersInv
    <3> QED
      BY <2>9, <3>2 DEF LastTick, OthersInv
  <2> QED
    BY <1>8, <2>1, <2>2, <2>3, <2>4, <2>5, <2>6, <2>7, <2>8, <2>9 DEF NodeNext
<1> QED
  BY <1>1, <1>3, <1>4, <1>5, <1>6, <1>7, <1>8 DEF Next

-----------------------------------------------------------------------------
(***************************************************************************)
(* The versions of a download.                                             *)
(***************************************************************************)
\* Of the stored object there are other versions, or one less.
LEMMA GenKeeps ==
    ASSUME TypeInv, GenInv,
           poll' = poll \/ (poll'.pc = "idle" /\ poll'.gen = poll.gen),
           UNCHANGED ims \/ (\E v : Update(v) /\ WriteIM(v)) \/ (Len(ims) > 1 /\ ims' = Tail(ims))
    PROVE  GenInv'
<1>1. PICK v \in Version : /\ v.gen = im.gen /\ v.refs = im.refs /\ v.nodes = im.nodes
                           /\ Visible' \subseteq Visible \cup {v}
                           /\ im'.gen = im.gen
  <2>1. CASE UNCHANGED ims
    BY <2>1, VersionSet DEF TypeInv, Visible, im
  <2>2. CASE \E v : Update(v) /\ WriteIM(v)
    BY <2>2, WriteLemma DEF TypeInv, Update
  <2>3. CASE Len(ims) > 1 /\ ims' = Tail(ims)
    BY <2>3, DeliverLemma, VersionSet DEF TypeInv
  <2> QED
    BY <2>1, <2>2, <2>3
<1>2. im \in Visible
  BY VersionSet DEF TypeInv
<1>3. \A x \in Visible' : \E y \in Visible : x.gen = y.gen /\ x.refs = y.refs /\ x.nodes = y.nodes
  BY <1>1, <1>2
<1>4. OneObject'
  <2> SUFFICES ASSUME NEW x \in Visible', NEW w \in Visible', x.gen = w.gen
               PROVE  x.refs = w.refs /\ x.nodes = w.nodes
    BY DEF OneObject
  <2>1. PICK y \in Visible : x.gen = y.gen /\ x.refs = y.refs /\ x.nodes = y.nodes
    BY <1>3
  <2>2. PICK z \in Visible : w.gen = z.gen /\ w.refs = z.refs /\ w.nodes = z.nodes
    BY <1>3
  <2> QED
    BY <2>1, <2>2 DEF GenInv, OneObject
<1>5. NoObject'
  BY <1>3 DEF GenInv, NoObject
<1>6. NotBefore'
  BY <1>3 DEF GenInv, NotBefore
<1>7. PollInv'
  BY <1>1 DEF GenInv, PollInv
<1> QED
  BY <1>4, <1>5, <1>6, <1>7 DEF GenInv

\* What a step does to the poll, but for the steps that begin a download.
LEMMA PollSteps ==
    ASSUME TypeInv,
           \/ UNCHANGED vars \/ PollDownloadProgress \/ CancelDownload \/ Deliver
           \/ \E n \in Node : NodeNext(n)
    PROVE  poll' = poll \/ (poll'.pc = "idle" /\ poll'.gen = poll.gen)
<1>1. CASE UNCHANGED vars
  BY <1>1 DEF vars
<1>2. CASE PollDownloadProgress \/ CancelDownload
  BY <1>2 DEF PollDownloadProgress, CancelDownload, TypeInv, OthersInv, Download
<1>3. CASE Deliver
  BY <1>3 DEF Deliver
<1>4. ASSUME NEW n \in Node, NodeNext(n)
      PROVE  poll' = poll
  BY <1>4 DEF NodeNext, Reconcile, updateStatus, FetchLayers, showProgress, PullImage, PullFails, NotThere,
              AbortPull, EndsInError, LastTick, cancel, Crash, Shutdown, Exit, Restart
<1> QED
  BY <1>1, <1>2, <1>3, <1>4

\* The versions stay those of downloads that have begun.
LEMMA GenStep == ASSUME TypeInv, GenInv, [Next]_vars PROVE GenInv'
<1> USE DEF TypeInv
<1>1. CASE \/ UNCHANGED vars \/ PollDownloadProgress \/ CancelDownload \/ Deliver
           \/ \E n \in Node : NodeNext(n)
  <2>1. "downloadingCanceled" \in States
    BY DEF States, FinalStates
  <2>2. CASE UNCHANGED vars
    BY <1>1, <2>2, PollSteps, GenKeeps DEF vars
  <2>3. CASE PollDownloadProgress
    BY <1>1, <2>3, PollSteps, GenKeeps DEF PollDownloadProgress
  <2>4. CASE CancelDownload
    <3>1. \E v : WriteIM(SetState(v, "downloadingCanceled"))
      BY <2>4 DEF CancelDownload
    <3>2. \E v : Update(v) /\ WriteIM(v)
      BY <2>1, <3>1, SetStateUpdates
    <3> QED
      BY <1>1, <3>2, PollSteps, GenKeeps
  <2>5. CASE Deliver
    BY <1>1, <2>5, PollSteps, GenKeeps DEF Deliver
  <2>6. ASSUME NEW n \in Node, NodeNext(n)
        PROVE  GenInv'
    BY <1>1, <2>6, NodeWrites, PollSteps, GenKeeps
  <2> QED
    BY <1>1, <2>2, <2>3, <2>4, <2>5, <2>6
<1>2. CASE DeleteIM
  <2>1. poll.gen \in Nat /\ poll \in Download
    <3>1. poll.gen \in 0 .. MaxGen /\ poll \in Download
      BY DEF OthersInv, Download
    <3> QED
      BY <3>1, Downloads
  <2>2. \A w \in Visible : w.gen \in Nat /\ w.gen <= poll.gen
    <3>1. \A w \in Visible : w.gen \in 0 .. MaxGen
      BY VersionSet DEF Version
    <3> QED
      BY <3>1, Downloads DEF GenInv, NotBefore
  <2>5. poll'.gen = poll.gen + 1 /\ poll'.pc = "create" /\ poll'.outcome = ""
    BY <1>2, <2>1 DEF DeleteIM, Download
  <2>3. Visible' \subseteq Visible \cup {NoIM}
    <3>1. CASE WriteIM(NoIM)
      BY <3>1, NewVersions, WriteLemma
    <3>2. CASE UNCHANGED ims
      BY <3>2 DEF Visible
    <3> QED
      BY <1>2, <3>1, <3>2 DEF DeleteIM
  <2>4. NoIM.gen = 0 /\ NoIM.refs = {} /\ NoIM.nodes = {}
    BY DEF NoIM
  <2>10. /\ poll'.gen \in Nat /\ poll'.gen > 0
         /\ \A g \in Nat : g <= poll.gen => g < poll'.gen /\ g <= poll'.gen
    <3>1. \A k \in Nat : /\ k + 1 \in Nat /\ k + 1 > 0
                        /\ \A g \in Nat : g <= k => g < k + 1 /\ g <= k + 1
      OBVIOUS
    <3> QED
      BY <2>1, <2>5, <3>1, Zenon
  <2>6. NotBefore'
    <3>1. \A v \in Visible : v.gen < poll'.gen /\ v.gen <= poll'.gen
      BY <2>2, <2>10, Zenon
    <3>2. 0 <= poll'.gen /\ 0 < poll'.gen
      BY <2>10
    <3> QED
      BY <2>3, <2>4, <3>1, <3>2 DEF NotBefore
  <2>7. NoObject'
    BY <2>3, <2>4 DEF GenInv, NoObject
  <2>8. OneObject'
    BY <2>3, <2>4 DEF GenInv, OneObject, NoObject
  <2>9. PollInv'
    BY <2>5, <2>10 DEF PollInv
  <2> QED
    BY <2>6, <2>7, <2>8, <2>9 DEF GenInv
<1>3. CASE Create
  <2>1. poll.pc = "create" /\ poll.gen \in 1 .. MaxGen /\ poll \in Download
    <3>1. poll.gen \in 0 .. MaxGen /\ poll \in Download
      BY DEF OthersInv, Download
    <3>2. poll.gen > 0 /\ poll.pc = "create"
      BY <1>3 DEF GenInv, PollInv, Create
    <3> QED
      BY <3>1, <3>2, Downloads
  <2>2. CASE /\ poll' = [poll EXCEPT !.pc = "idle", !.outcome = "failed"]
             /\ UNCHANGED ims
    <3>1. poll'.pc = "idle" /\ poll'.gen = poll.gen
      BY <2>1, <2>2 DEF Download
    <3> QED
      BY <2>2, <3>1, GenKeeps
  <2>3. ASSUME NEW refs \in Refs, NEW nodes \in Ready, poll' = [poll EXCEPT !.pc = "polling"],
               WriteIM(Fresh(poll.gen, refs, nodes))
        PROVE  GenInv'
    <3>9. PICK new : new = Fresh(poll.gen, refs, nodes)
      OBVIOUS
    <3>1. new \in Version /\ new.gen = poll.gen
      BY <2>1, <3>9, NewVersions
    <3>2. Visible' = Visible \cup {new} /\ im' = new
      BY <2>3, <3>1, <3>9, WriteLemma
    <3>3. poll'.gen = poll.gen /\ poll'.pc = "polling"
      BY <2>1, <2>3 DEF Download
    <3>4. \A v \in Visible : v.gen \in Nat /\ v.gen < poll.gen
      <4>1. \A w \in Visible : w.gen \in 0 .. MaxGen
        BY VersionSet DEF Version
      <4> QED
        BY <2>1, <4>1, Downloads DEF GenInv, NotBefore
    <3>5. NotBefore'
      BY <2>1, <3>1, <3>2, <3>3, <3>4 DEF NotBefore
    <3>6. NoObject'
      BY <2>1, <3>1, <3>2 DEF GenInv, NoObject
    <3>7. OneObject'
      <4>1. \A v \in Visible : v.gen # new.gen
        BY <3>1, <3>4
      <4> QED
        BY <3>2, <4>1 DEF GenInv, OneObject
    <3>8. PollInv'
      BY <2>1, <3>1, <3>2, <3>3 DEF PollInv
    <3> QED
      BY <3>5, <3>6, <3>7, <3>8 DEF GenInv
  <2> QED
    BY <1>3, <2>2, <2>3 DEF Create, Fresh
<1> QED
  BY <1>1, <1>2, <1>3 DEF Next

\* What a step does to the stored object.
LEMMA ObjectMoves ==
    ASSUME TypeInv, GenInv, [Next]_vars
    PROVE  \/ im' = im \/ Update(im')
           \/ im'.gen # im.gen
<1> USE DEF TypeInv
<1>1. CASE UNCHANGED vars
  BY <1>1 DEF vars, im
<1>2. CASE DeleteIM
  <2>1. CASE UNCHANGED ims
    BY <2>1 DEF im
  <2>2. CASE WriteIM(NoIM) /\ Exists(im)
    <3>1. im' = NoIM
      BY <2>2, NewVersions, WriteLemma
    <3>2. NoIM.gen = 0
      BY DEF NoIM
    <3>3. im.gen \in 0 .. MaxGen
      BY VersionSet DEF Version
    <3> QED
      BY <2>2, <3>1, <3>2, <3>3, Downloads DEF Exists
  <2> QED
    BY <1>2, <2>1, <2>2 DEF DeleteIM
<1>3. CASE Create
  <2>1. poll.gen \in 1 .. MaxGen
    <3>1. poll.gen \in 0 .. MaxGen
      BY DEF OthersInv, Download
    <3>2. poll.gen > 0
      BY <1>3 DEF GenInv, PollInv, Create
    <3> QED
      BY <3>1, <3>2, Downloads
  <2>2. CASE UNCHANGED ims
    BY <2>2 DEF im
  <2>3. ASSUME NEW refs \in Refs, NEW nodes \in Ready, ~Exists(im),
               WriteIM(Fresh(poll.gen, refs, nodes))
        PROVE  im'.gen # im.gen
    <3>9. PICK new : new = Fresh(poll.gen, refs, nodes)
      OBVIOUS
    <3>1. new \in Version /\ new.gen = poll.gen
      BY <2>1, <3>9, NewVersions
    <3>2. WriteIM(new)
      BY <2>3, <3>9
    <3>3. im'.gen = poll.gen
      BY <3>1, <3>2, WriteLemma
    <3> QED
      BY <2>1, <2>3, <3>3 DEF Exists
  <2> QED
    BY <1>3, <2>2, <2>3 DEF Create, Fresh
<1>4. CASE PollDownloadProgress
  BY <1>4 DEF PollDownloadProgress, im
<1>5. ASSUME NEW v, Update(v), WriteIM(v)
      PROVE  Update(im')
  <2>1. im' = v
    BY <1>5, WriteLemma DEF Update
  <2> QED
    BY <1>5, <2>1
<1>6. CASE CancelDownload
  <2>1. "downloadingCanceled" \in States
    BY DEF States, FinalStates
  <2>2. \E v : WriteIM(SetState(v, "downloadingCanceled"))
    BY <1>6 DEF CancelDownload
  <2> QED
    BY <1>5, <2>1, <2>2, SetStateUpdates
<1>7. CASE Deliver
  BY <1>7, DeliverLemma DEF Deliver
<1>8. ASSUME NEW n \in Node, NodeNext(n)
      PROVE  im' = im \/ Update(im')
  BY <1>5, <1>8, NodeWrites DEF im
<1> QED
  BY <1>1, <1>2, <1>3, <1>4, <1>6, <1>7, <1>8 DEF Next

-----------------------------------------------------------------------------
(***************************************************************************)
(* What counts as complete is on disk.                                     *)
(***************************************************************************)
\* Layers are not removed, and what was feigned stays recorded.
DisksKeep == onDisk \subseteq onDisk' /\ feigned \subseteq feigned'

\* Versions whose progress is not ahead of the disks, of the same object.
LEMMA TruthKeeps ==
    ASSUME TruthInv, ~crossed, DisksKeep,
           \A v \in Visible' : v \in Visible \/ OnDisk(v)',
           im'.gen = im.gen, im'.refs = im.refs, im'.nodes = im.nodes,
           poll'.outcome = "ok" => poll.outcome = "ok" /\ poll'.gen = poll.gen,
           \A n \in Node : Done(n)'
    PROVE  TruthInv'
<1>1. \A v \in Visible' : OnDisk(v)'
  BY DEF TruthInv, OnDisk, Covered, DisksKeep
<1>2. Answered'
  BY DEF TruthInv, Answered, Covered, DisksKeep
<1> QED
  BY <1>1, <1>2 DEF TruthInv

\* A patched state says nothing of the progress.
LEMMA StateTruth ==
    ASSUME TypeInv, TruthInv, ~crossed, NEW v, NEW s \in States, DisksKeep,
           WriteIM(SetState(v, s))
    PROVE  /\ \A w \in Visible' : w \in Visible \/ OnDisk(w)'
           /\ im'.gen = im.gen /\ im'.refs = im.refs /\ im'.nodes = im.nodes
<1> USE DEF TypeInv
<1>1. PICK new : new = SetState(v, s) /\ Update(new) /\ new.cond = im.cond
  BY SetStateUpdates
<1>2. WriteIM(new)
  BY <1>1
<1>3. im' = new /\ Visible' = Visible \cup {new}
  BY <1>1, <1>2, WriteLemma DEF Update
<1>4. OnDisk(im)
  BY VersionSet DEF TruthInv
<1>5. OnDisk(new)'
  BY <1>1, <1>4 DEF OnDisk, Covered, DisksKeep, Update
<1> QED
  BY <1>1, <1>3, <1>5 DEF Update

\* A node that goes on with the object that is stored, and reports no more than
\* there is.
LEMMA DoneKeeps ==
    ASSUME ~crossed, TruthInv, NEW n \in Node, DisksKeep,
           im'.gen = im.gen, im'.refs = im.refs,
           wk'[n] = wk[n] \/ wk'[n] = Idle
    PROVE  Done(n)'
<1>1. CASE wk'[n] = Idle
  <2>1. Idle.pc # "pull"
    BY DEF Idle
  <2> QED
    BY <1>1, <2>1 DEF Done
<1>2. CASE wk'[n] = wk[n]
  <2>1. Done(n) /\ (Exists(im)' => Exists(im))
    BY DEF TruthInv, Exists
  <2> QED
    BY <1>2, <2>1 DEF Done, DisksKeep
<1> QED
  BY <1>1, <1>2

\* A report of what is on disk, or is recorded as feigned.
LEMMA ReportTruth ==
    ASSUME TypeInv, TruthInv, ~crossed, NEW n \in Node, NEW r \in Ref, NEW offset \in Missing .. Full,
           im.cond[n][r] <= offset, DisksKeep,
           offset = Full => <<n, r>> \in onDisk' \/ <<im.gen, n, r>> \in feigned',
           WriteIM([im EXCEPT !.cond[n][r] = offset])
    PROVE  /\ \A w \in Visible' : w \in Visible \/ OnDisk(w)'
           /\ im'.gen = im.gen /\ im'.refs = im.refs /\ im'.nodes = im.nodes
<1> USE DEF TypeInv
<1>5. PICK new : new = [im EXCEPT !.cond[n][r] = offset]
  OBVIOUS
<1>1. /\ Update(new) /\ WriteIM(new)
      /\ \A m \in Node, q \in Ref : new.cond[m][q] = IF m = n /\ q = r THEN offset ELSE im.cond[m][q]
  BY <1>5, ReportUpdates
<1>2. im' = new /\ Visible' = Visible \cup {new}
  BY <1>1, WriteLemma DEF Update
<1>3. OnDisk(im)
  BY VersionSet DEF TruthInv
<1>4. OnDisk(new)'
  BY <1>1, <1>3 DEF OnDisk, Covered, DisksKeep, Update
<1> QED
  BY <1>1, <1>2, <1>4 DEF Update

\* A node that has finished without an error completes the object of which it
\* pulled the images.
LEMMA CompletedTruth ==
    ASSUME TypeInv, GenInv, TruthInv, ~crossed, NEW n \in Node, NEW v \in Visible,
           Exists(v), Exists(im), ~Crossing(v), DisksKeep,
           wk[n].pc = "pull", wk[n].todo = {}, wk[n].err = "",
           WriteIM(Completed(v, n))
    PROVE  /\ \A w \in Visible' : w \in Visible \/ OnDisk(w)'
           /\ im'.gen = im.gen /\ im'.refs = im.refs /\ im'.nodes = im.nodes
<1> USE DEF TypeInv
<1>1. v \in Version /\ im \in Visible
  BY VersionSet
<1>8. PICK new : new = Completed(v, n)
  OBVIOUS
<1>2. /\ Update(new) /\ WriteIM(new)
      /\ \A m \in Node, r \in Ref : new.cond[m][r] = IF Silent(v, n, m, r) THEN Full ELSE im.cond[m][r]
  BY <1>1, <1>8, CompletedUpdates
<1>3. im' = new /\ Visible' = Visible \cup {new}
  BY <1>2, WriteLemma DEF Update
<1>4. v.refs = im.refs
  BY <1>1 DEF Crossing, GenInv, OneObject
<1>5. OnDisk(im) /\ Done(n)
  BY <1>1 DEF TruthInv
<1>6. \A m \in Node, r \in Ref : Silent(v, n, m, r) => <<m, r>> \in onDisk
  BY <1>4, <1>5 DEF Silent, Done
<1>7. OnDisk(new)'
  BY <1>2, <1>5, <1>6 DEF OnDisk, Covered, DisksKeep, Update
<1> QED
  BY <1>2, <1>3, <1>7 DEF Update

\* The steps of a node.
LEMMA NodeTruth ==
    ASSUME TypeInv, GenInv, TruthInv, NEW n \in Node, NodeNext(n)
    PROVE  TruthInv'
<1> USE DEF TypeInv
<1>1. SUFFICES ASSUME ~crossed' PROVE TruthInv'
  BY DEF TruthInv
<1>2. ~crossed /\ poll' = poll
  <2>1. CASE Reconcile(n)
    BY <1>1, <2>1 DEF Reconcile
  <2>2. CASE updateStatus(n)
    BY <1>1, <2>2 DEF updateStatus
  <2>3. ASSUME NEW r \in Ref, \/ FetchLayers(n, r) \/ showProgress(n, r) \/ PullImage(n, r)
                             \/ PullFails(n, r) \/ NotThere(n, r) \/ AbortPull(n, r) \/ LastTick(n, r)
        PROVE  ~crossed /\ poll' = poll
    <3>1. crossed' = crossed /\ poll' = poll
      BY <2>3 DEF FetchLayers, showProgress, PullImage, PullFails, NotThere, AbortPull, EndsInError, LastTick,
                  ghosts
    <3> QED
      BY <1>1, <3>1
  <2>4. CASE cancel(n) \/ Crash(n) \/ Shutdown(n) \/ Exit(n)
    BY <1>1, <2>4 DEF cancel, Crash, Shutdown, Exit, Restart, ghosts
  <2> QED
    BY <2>1, <2>2, <2>3, <2>4 DEF NodeNext
<1>0. DisksKeep
  BY DEF NodeNext, Reconcile, updateStatus, FetchLayers, showProgress, PullImage, PullFails, NotThere,
         AbortPull, EndsInError, LastTick, cancel, Crash, Shutdown, Exit, Restart, ghosts, node, DisksKeep
<1>3. ASSUME \A v \in Visible' : v \in Visible \/ OnDisk(v)',
             im'.gen = im.gen, im'.refs = im.refs, im'.nodes = im.nodes,
             \A m \in Node \ {n} : wk'[m] = wk[m], wk'[n] = wk[n] \/ wk'[n] = Idle \/ Done(n)'
      PROVE  TruthInv'
  <2>1. \A m \in Node : Done(m)'
    BY <1>0, <1>2, <1>3, DoneKeeps
  <2> QED
    BY <1>0, <1>2, <1>3, <2>1, TruthKeeps
<1>4. ASSUME ims' = ims
      PROVE  /\ \A v \in Visible' : v \in Visible \/ OnDisk(v)'
             /\ im'.gen = im.gen /\ im'.refs = im.refs /\ im'.nodes = im.nodes
  BY <1>4 DEF Visible, im
<1>5. CASE Reconcile(n)
  <2>1. "downloading" \in States
    BY DEF States
  <2>2. PICK v \in Visible :
          /\ ~Crossing(v)
          /\ \/ UNCHANGED <<ims, wk>>
             \/ /\ Exists(v) /\ wk' = [wk EXCEPT ![n] = [Idle EXCEPT !.pc = "pull", !.todo = v.refs]]
                /\ UNCHANGED ims \/ WriteIM(SetState(v, "downloading"))
    BY <1>1, <1>5 DEF Reconcile
  <2>4. /\ \A w \in Visible' : w \in Visible \/ OnDisk(w)'
        /\ im'.gen = im.gen /\ im'.refs = im.refs /\ im'.nodes = im.nodes
    BY <1>0, <1>2, <1>4, <2>1, <2>2, StateTruth
  <2>5. wk \in [Node -> Worker]
    BY DEF OthersInv
  <2>6. CASE wk' = wk
    BY <1>3, <2>4, <2>6
  <2>7. CASE Exists(v) /\ wk' = [wk EXCEPT ![n] = [Idle EXCEPT !.pc = "pull", !.todo = v.refs]]
    <3>1. [Idle EXCEPT !.pc = "pull", !.todo = v.refs].todo = v.refs
      BY DEF Idle
    <3>2. wk'[n].todo = v.refs /\ \A m \in Node \ {n} : wk'[m] = wk[m]
      BY <2>5, <2>7, <3>1
    <3>3. Exists(im)' => v.refs = im.refs
      BY <2>2, <2>4, <2>7, VersionSet DEF Exists, Crossing, GenInv, OneObject
    <3>4. Done(n)'
      BY <2>4, <3>2, <3>3 DEF Done
    <3> QED
      BY <1>3, <2>4, <3>2, <3>4
  <2> QED
    BY <2>2, <2>6, <2>7
<1>6. CASE updateStatus(n)
  <2>1. wk[n].err \in States /\ wk \in [Node -> Worker]
    BY DEF OthersInv, Worker, States, FinalStates
  <2>2. /\ wk[n].pc = "pull" /\ wk[n].todo = {}
        /\ wk' = [wk EXCEPT ![n] = Idle]
    BY <1>6 DEF updateStatus, Return
  <2>3. \/ UNCHANGED ims
        \/ \E v \in Visible :
             /\ ~Crossing(v) /\ Exists(v) /\ Exists(im)
             /\ IF wk[n].err = "" THEN WriteIM(Completed(v, n)) ELSE WriteIM(SetState(v, wk[n].err))
    BY <1>1, <1>6 DEF updateStatus
  <2>4. /\ \A w \in Visible' : w \in Visible \/ OnDisk(w)'
        /\ im'.gen = im.gen /\ im'.refs = im.refs /\ im'.nodes = im.nodes
    BY <1>0, <1>2, <1>4, <2>1, <2>2, <2>3, StateTruth, CompletedTruth
  <2>5. wk'[n] = Idle /\ \A m \in Node \ {n} : wk'[m] = wk[m]
    BY <2>1, <2>2
  <2> QED
    BY <1>3, <2>4, <2>5
<1>7. ASSUME NEW r \in Ref, showProgress(n, r)
      PROVE  TruthInv'
  <2>1. PICK offset \in IF <<n, r>> \in onDisk THEN {Full, Full + 1} ELSE 1 .. Full - 1 :
          Ahead(im, n, r, offset) /\ WriteIM([im EXCEPT !.cond[n][r] = offset])
    BY <1>7 DEF showProgress
  <2>2. im.cond[n][r] \in Missing .. Full
    BY VersionSet DEF Version, Progress
  <2>4. onDisk' = onDisk /\ wk' = wk
    BY <1>7 DEF showProgress, node
  <2>3. /\ offset \in Missing .. Full /\ im.cond[n][r] <= offset
        /\ offset = Full => <<n, r>> \in onDisk'
    BY <2>1, <2>2, <2>4, SizeAssumption DEF Ahead, Missing
  <2>5. /\ \A w \in Visible' : w \in Visible \/ OnDisk(w)'
        /\ im'.gen = im.gen /\ im'.refs = im.refs /\ im'.nodes = im.nodes
    BY <1>0, <1>2, <2>1, <2>3, ReportTruth
  <2> QED
    BY <1>3, <2>4, <2>5
<1>8. ASSUME NEW r \in Ref, PullImage(n, r)
      PROVE  TruthInv'
  <2>1. /\ <<n, r>> \in onDisk /\ onDisk' = onDisk
        /\ wk' = [wk EXCEPT ![n].todo = @ \ {r}]
        /\ UNCHANGED ims \/ WriteIM([im EXCEPT !.cond[n][r] = Full])
    BY <1>8 DEF PullImage, ReportPulled, node
  <2>2. im.cond[n][r] \in Missing .. Full
    BY VersionSet DEF Version, Progress
  <2>3. /\ \A w \in Visible' : w \in Visible \/ OnDisk(w)'
        /\ im'.gen = im.gen /\ im'.refs = im.refs /\ im'.nodes = im.nodes
    BY <1>0, <1>2, <1>4, <2>1, <2>2, Sizes, ReportTruth
  <2>4. wk \in [Node -> Worker]
    BY DEF OthersInv
  <2>5. /\ wk'[n].pc = wk[n].pc /\ wk'[n].err = wk[n].err /\ wk'[n].todo = wk[n].todo \ {r}
        /\ \A m \in Node \ {n} : wk'[m] = wk[m]
    BY <2>1, <2>4 DEF Worker
  <2>6. Done(n)'
    BY <1>2, <2>1, <2>3, <2>5 DEF TruthInv, Done, Exists
  <2> QED
    BY <1>3, <2>1, <2>3, <2>5, <2>6
<1>9. ASSUME NEW r \in Ref, FetchLayers(n, r)
      PROVE  TruthInv'
  <2>1. onDisk \subseteq onDisk' /\ UNCHANGED <<ims, wk>>
    BY <1>9 DEF FetchLayers
  <2> QED
    BY <1>3, <1>4, <2>1
<1>10. ASSUME NEW r \in Ref, PullFails(n, r) \/ NotThere(n, r) \/ AbortPull(n, r)
       PROVE  TruthInv'
  <2>1. FirstError(n) # ""
    BY DEF FirstError
  <2>2. PICK e : e # "" /\ EndsInError(n, r, e)
    BY <1>10, <2>1 DEF PullFails, NotThere, AbortPull
  <2>3. ims' = ims /\ wk \in [Node -> Worker] /\ wk' = [wk EXCEPT ![n].todo = @ \ {r}, ![n].err = e]
    BY <2>2 DEF EndsInError, OthersInv
  <2>4. wk'[n].err = e /\ \A m \in Node \ {n} : wk'[m] = wk[m]
    BY <2>3 DEF Worker
  <2>5. Done(n)'
    BY <2>2, <2>4 DEF Done
  <2> QED
    BY <1>3, <1>4, <2>3, <2>4, <2>5
<1>11. CASE cancel(n) \/ Shutdown(n)
  <2>1. UNCHANGED <<ims, onDisk>> /\ wk \in [Node -> Worker]
    BY <1>11 DEF cancel, Shutdown, node, OthersInv
  <2>2. CASE wk' = wk
    BY <1>3, <1>4, <2>1, <2>2
  <2>3. CASE wk' = [wk EXCEPT ![n].canceled = TRUE]
    <3>1. /\ wk'[n].pc = wk[n].pc /\ wk'[n].err = wk[n].err /\ wk'[n].todo = wk[n].todo
          /\ \A m \in Node \ {n} : wk'[m] = wk[m]
      BY <2>1, <2>3 DEF Worker
    <3>2. Done(n)'
      BY <1>2, <1>4, <2>1, <3>1 DEF TruthInv, Done, Exists
    <3> QED
      BY <1>3, <1>4, <2>1, <3>1, <3>2
  <2> QED
    BY <1>11, <2>2, <2>3 DEF cancel, Shutdown
<1>12. CASE Crash(n) \/ Exit(n)
  <2>1. UNCHANGED ims /\ wk' = [wk EXCEPT ![n] = Idle] /\ wk \in [Node -> Worker]
    BY <1>12 DEF Crash, Exit, Restart, OthersInv
  <2> QED
    BY <1>3, <1>4, <2>1
<1>13. ASSUME NEW r \in Ref, LastTick(n, r)
       PROVE  TruthInv'
  <2>1. wk' = wk
    BY <1>13 DEF LastTick
  <2>2. im.cond[n][r] \in Missing .. Full
    BY VersionSet DEF Version, Progress
  <2>3. /\ \A w \in Visible' : w \in Visible \/ OnDisk(w)'
        /\ im'.gen = im.gen /\ im'.refs = im.refs /\ im'.nodes = im.nodes
    <3>1. CASE UNCHANGED ims
      BY <1>4, <3>1
    <3>2. CASE /\ WriteIM([im EXCEPT !.cond[n][r] = Full])
               /\ <<n, r>> \in onDisk' \/ <<im.gen, n, r>> \in feigned'
      BY <1>0, <1>2, <2>2, <3>2, Sizes, ReportTruth
    <3> QED
      BY <1>13, <3>1, <3>2 DEF LastTick, ReportPulled
  <2> QED
    BY <1>3, <2>1, <2>3
<1> QED
  BY <1>5, <1>6, <1>7, <1>8, <1>9, <1>10, <1>11, <1>12, <1>13 DEF NodeNext

\* A poll that sees its object complete may say so.
LEMMA PollTruth ==
    ASSUME TypeInv, GenInv, TruthInv, PollDownloadProgress
    PROVE  TruthInv'
<1> USE DEF TypeInv
<1>1. SUFFICES ASSUME ~crossed' PROVE TruthInv'
  BY DEF TruthInv
<1>2. PICK v \in Visible :
        /\ ~Exists(v) \/ v.state = "failed" \/ Complete(v)
        /\ poll' = [poll EXCEPT !.pc = "idle",
                                !.outcome = IF Exists(v) /\ v.state # "failed" THEN "ok" ELSE "failed"]
        /\ crossed' = (crossed \/ Crossing(v)) /\ poll.pc = "polling"
  BY DEF PollDownloadProgress
<1>3. UNCHANGED <<ims, wk, onDisk, feigned>> /\ DisksKeep /\ Visible' = Visible /\ im' = im
  BY DEF PollDownloadProgress, node, DisksKeep, Visible, im
<1>4. ~crossed /\ ~Crossing(v)
  BY <1>1, <1>2
<1>5. \A w \in Visible' : OnDisk(w)'
  BY <1>3, <1>4 DEF TruthInv, OnDisk, Covered
<1>6. \A n \in Node : Done(n)'
  BY <1>3, <1>4, DoneKeeps
<1>7. ASSUME poll'.outcome = "ok"
      PROVE  \A n \in im.nodes, r \in im.refs : Covered(im, n, r)
  <2>1. Exists(v) /\ Complete(v)
    BY <1>2, <1>7 DEF OthersInv, Download
  <2>2. Exists(im) /\ v \in Version /\ im \in Visible
    BY <1>2, VersionSet DEF GenInv, PollInv, Exists
  <2>3. v.refs = im.refs /\ v.nodes = im.nodes /\ v.gen = im.gen
    BY <1>4, <2>1, <2>2 DEF Crossing, GenInv, OneObject
  <2>4. OnDisk(v)
    BY <1>4 DEF TruthInv
  <2>5. v.nodes \subseteq Node /\ v.refs \subseteq Ref
    BY <2>2 DEF Version
  <2> QED
    BY <2>1, <2>3, <2>4, <2>5 DEF Complete, OnDisk, Covered
<1>8. Answered'
  BY <1>3, <1>7 DEF Answered, Covered
<1> QED
  BY <1>5, <1>6, <1>8 DEF TruthInv

\* What counts as complete stays on the disks.
LEMMA TruthStep == ASSUME TypeInv, GenInv, TruthInv, [Next]_vars PROVE TruthInv'
<1> USE DEF TypeInv
<1>1. CASE UNCHANGED vars
  <2>1. /\ UNCHANGED <<ims, wk, onDisk, feigned, poll>> /\ crossed' = crossed
        /\ Visible' = Visible /\ im' = im
    BY <1>1 DEF vars, ghosts, node, Visible, im
  <2> QED
    BY <2>1 DEF TruthInv, OnDisk, Answered, Covered, Done, Exists
<1>2. CASE DeleteIM
  <2>1. SUFFICES ASSUME ~crossed PROVE TruthInv'
    BY <1>2 DEF DeleteIM, ghosts, TruthInv
  <2>2. poll'.outcome = "" /\ UNCHANGED <<wk, onDisk, feigned>> /\ DisksKeep
    BY <1>2 DEF DeleteIM, OthersInv, Download, node, ghosts, DisksKeep
  <2>3. Visible' \subseteq Visible \cup {NoIM} /\ im' \in {im, NoIM}
    <3>1. CASE WriteIM(NoIM)
      BY <3>1, NewVersions, WriteLemma
    <3>2. CASE UNCHANGED ims
      BY <3>2 DEF Visible, im
    <3> QED
      BY <1>2, <3>1, <3>2 DEF DeleteIM
  <2>4. PICK none : none = NoIM
    OBVIOUS
  <2>5. none.gen = 0 /\ \A n \in Node, r \in Ref : none.cond[n][r] # Full
    BY <2>4, Sizes DEF NoIM
  <2>6. \A v \in Visible' : OnDisk(v)'
    BY <2>1, <2>2, <2>3, <2>4, <2>5 DEF TruthInv, OnDisk, Covered
  <2>7. \A n \in Node : Done(n)'
    <3>1. CASE im' = im
      BY <2>1, <2>2, <3>1, DoneKeeps
    <3>2. CASE im'.gen = 0
      <4>1. ~Exists(im)'
        BY <3>2 DEF Exists
      <4> QED
        BY <4>1 DEF Done
    <3> QED
      BY <2>3, <2>4, <2>5, <3>1, <3>2
  <2> QED
    BY <2>2, <2>6, <2>7 DEF TruthInv, Answered
<1>3. CASE Create
  <2>1. SUFFICES ASSUME ~crossed' PROVE TruthInv'
    BY DEF TruthInv
  <2>2. poll.pc = "create" /\ poll.outcome = "" /\ poll \in Download /\ poll.gen \in 1 .. MaxGen
    <3>1. poll.gen \in 0 .. MaxGen /\ poll \in Download /\ poll.pc = "create"
      BY <1>3 DEF OthersInv, Download, Create
    <3>2. poll.gen > 0 /\ poll.outcome = ""
      BY <3>1 DEF GenInv, PollInv
    <3>3. poll.gen \in 1 .. MaxGen
      BY <3>1, BegunGen DEF GenInv
    <3> QED
      BY <3>1, <3>2, <3>3
  <2>3. UNCHANGED <<wk, onDisk, feigned>> /\ DisksKeep
    BY <1>3 DEF Create, node, DisksKeep
  <2>4. CASE /\ poll' = [poll EXCEPT !.pc = "idle", !.outcome = "failed"]
             /\ UNCHANGED <<ims, crossed>>
    <3>1. poll'.outcome = "failed" /\ Visible' = Visible /\ im' = im /\ ~crossed
      BY <2>1, <2>2, <2>4 DEF Download, Visible, im
    <3>2. \A n \in Node : Done(n)'
      BY <2>3, <3>1, DoneKeeps
    <3> QED
      BY <2>3, <3>1, <3>2, TruthKeeps
  <2>5. ASSUME NEW refs \in Refs, NEW nodes \in Ready, poll' = [poll EXCEPT !.pc = "polling"],
               crossed' = (crossed \/ cancels # {} \/ \E n \in Node : wk[n].pc # "idle"),
               WriteIM(Fresh(poll.gen, refs, nodes))
        PROVE  TruthInv'
    <3>1. PICK new : new = Fresh(poll.gen, refs, nodes)
      OBVIOUS
    <3>8. new \in Version /\ \A n \in Node, r \in Ref : new.cond[n][r] = Missing
      <4>1. poll.gen \in 1 .. MaxGen
        BY <2>2
      <4> QED
        BY <3>1, <4>1, NewVersions
    <3>9. WriteIM(new)
      BY <2>5, <3>1
    <3>2. /\ new \in Version /\ WriteIM(new)
          /\ \A n \in Node, r \in Ref : new.cond[n][r] = Missing
      BY <3>8, <3>9
    <3>3. Visible' = Visible \cup {new}
      BY <3>2, WriteLemma
    <3>4. ~crossed /\ \A n \in Node : wk[n].pc = "idle"
      BY <2>1, <2>5
    <3>5. poll'.outcome = ""
      BY <2>2, <2>5 DEF Download
    <3>6. \A v \in Visible' : OnDisk(v)'
      BY <2>3, <3>2, <3>3, <3>4, Sizes DEF TruthInv, OnDisk, Covered
    <3>7. \A n \in Node : Done(n)'
      BY <2>3, <3>4 DEF Done
    <3> QED
      BY <3>5, <3>6, <3>7 DEF TruthInv, Answered
  <2> QED
    BY <1>3, <2>4, <2>5 DEF Create, Fresh
<1>4. CASE PollDownloadProgress
  BY <1>4, PollTruth
<1>5. CASE CancelDownload
  <2>1. SUFFICES ASSUME ~crossed PROVE TruthInv'
    BY <1>5 DEF CancelDownload, ghosts, TruthInv
  <2>2. "downloadingCanceled" \in States
    BY DEF States, FinalStates
  <2>3. UNCHANGED wk /\ DisksKeep /\ poll'.outcome = "canceled"
    BY <1>5 DEF CancelDownload, OthersInv, Download, node, ghosts, DisksKeep
  <2>4. PICK v \in Visible : WriteIM(SetState(v, "downloadingCanceled"))
    BY <1>5 DEF CancelDownload
  <2>5. /\ \A w \in Visible' : w \in Visible \/ OnDisk(w)'
        /\ im'.gen = im.gen /\ im'.refs = im.refs /\ im'.nodes = im.nodes
    BY <2>1, <2>2, <2>3, <2>4, StateTruth
  <2>6. \A n \in Node : Done(n)'
    BY <2>1, <2>3, <2>5, DoneKeeps
  <2> QED
    BY <2>1, <2>3, <2>5, <2>6, TruthKeeps
<1>6. CASE Deliver
  <2>1. SUFFICES ASSUME ~crossed PROVE TruthInv'
    BY <1>6 DEF Deliver, ghosts, TruthInv
  <2>2. UNCHANGED <<wk, poll>> /\ DisksKeep /\ im' = im /\ Visible' \subseteq Visible
    BY <1>6, DeliverLemma DEF Deliver, node, ghosts, DisksKeep
  <2>3. \A n \in Node : Done(n)'
    BY <2>1, <2>2, DoneKeeps
  <2> QED
    BY <2>1, <2>2, <2>3, TruthKeeps
<1>7. ASSUME NEW n \in Node, NodeNext(n)
      PROVE  TruthInv'
  BY <1>7, NodeTruth
<1> QED
  BY <1>1, <1>2, <1>3, <1>4, <1>5, <1>6, <1>7 DEF Next
-----------------------------------------------------------------------------
(***************************************************************************)
(* The theorems.                                                           *)
(***************************************************************************)
\* There is no object, no download and no worker in the beginning.
LEMMA InitIInv == Init => IInv
<1> SUFFICES ASSUME Init PROVE IInv
  OBVIOUS
<1>1. NoIM \in Version /\ NoIM.gen = 0
  <2>1. NoIM.gen = 0
    BY DEF NoIM
  <2> QED
    BY <2>1, NewVersions
<1>2. Len(ims) = 1 /\ ims \in Seq(Version) /\ im = NoIM /\ Visible = {NoIM}
  <2>1. ims = <<NoIM>>
    BY DEF Init
  <2>2. Len(ims) = 1 /\ ims[1] = NoIM /\ DOMAIN ims = {1} /\ ims \in Seq(Version)
    BY <1>1, <2>1
  <2>3. im = NoIM
    BY <2>2 DEF im
  <2> QED
    BY <2>2, <2>3 DEF Visible
<1>3. VersionsInv
  BY <1>2, SizeAssumption DEF VersionsInv
<1>4. OthersInv
  <2>1. Idle \in Worker
    BY DEF Idle, Worker
  <2>2. 0 \in 0 .. MaxGen /\ 0 \in 0 .. MaxFaults
    BY SizeAssumption, Downloads
  <2>3. onDisk \subseteq Node \X Ref
    BY RefsAssumption DEF Init
  <2> QED
    BY <2>1, <2>2, <2>3 DEF Init, OthersInv, Download
<1>5. GenInv
  <2>1. NoIM.refs = {} /\ NoIM.nodes = {}
    BY DEF NoIM
  <2>2. poll.gen = 0 /\ poll.pc = "idle"
    BY DEF Init
  <2>3. OneObject /\ NoObject
    BY <1>2, <2>1 DEF OneObject, NoObject
  <2>4. NotBefore /\ PollInv
    BY <1>1, <1>2, <2>2 DEF NotBefore, PollInv
  <2> QED
    BY <2>3, <2>4 DEF GenInv
<1>6. TruthInv
  <2>1. \A n \in Node, r \in Ref : NoIM.cond[n][r] = Missing
    BY DEF NoIM
  <2>3. \A v \in Visible : OnDisk(v)
    BY <1>2, <2>1, Sizes DEF OnDisk
  <2>2. \A n \in Node : Done(n)
    BY DEF Init, Idle, Done
  <2> QED
    BY <2>2, <2>3 DEF Init, TruthInv, Answered
<1> QED
  BY <1>3, <1>4, <1>5, <1>6 DEF IInv, TypeInv

\* The inductive invariant: types, the versions of a download, and what their
\* progress says of the disks.
THEOREM Invariance == Spec => []IInv
<1>1. IInv /\ [Next]_vars => IInv'
  BY VersionsStep, OthersStep, GenStep, TruthStep DEF IInv, TypeInv
<1> QED
  BY <1>1, InitIInv, PTL DEF Spec

\* The types of the variables, for any nodes, images and downloads.
THEOREM TypeCorrect == Spec => []TypeOK
<1>1. IInv => TypeOK
  <2> SUFFICES ASSUME VersionsInv, OthersInv PROVE TypeOK
    BY DEF IInv, TypeInv
  <2>1. \A i \in DOMAIN ims : IsIM(ims[i])
    <3>1. \A v \in Version : IsIM(v)
      BY DEF Version, Progress, IsIM, States
    <3>2. \A i \in DOMAIN ims : ims[i] \in Version
      BY DEF VersionsInv
    <3> QED
      BY <3>1, <3>2
  <2>2. {crossed, overwritten, lost, halted} \subseteq BOOLEAN
    BY Zenon DEF OthersInv
  <2> QED
    BY <2>1, <2>2 DEF VersionsInv, OthersInv, TypeOK, Worker, Download
<1> QED
  BY <1>1, Invariance, PTL

\* Whatever crashes, is lost or read late: what counts as complete is on the
\* disk, unless the last report of a pull that ended in an error said so, or an
\* object was replaced under a node or a cache.
THEOREM TruthfulHolds == Spec => []Truthful
<1>1. IInv => Truthful
  BY VersionSet DEF IInv, TypeInv, TruthInv, OnDisk, Answered, Truthful
<1> QED
  BY <1>1, Invariance, PTL

\* No step of the nodes, the poll or the caches takes progress of an object back.
THEOREM ProgressKept == Spec => ProgressMonotone
<1>1. ASSUME IInv, [Next]_vars
      PROVE  [im.gen = im'.gen => \A n \in Node, r \in Ref : im'.cond[n][r] >= im.cond[n][r]]_vars
  <2>1. CASE im' = im
    <3>1. \A n \in Node, r \in Ref : im.cond[n][r] \in Int
      BY <1>1, VersionSet, Sizes DEF IInv, TypeInv, Version, Progress
    <3> QED
      BY <2>1, <3>1
  <2>2. CASE Update(im')
    BY <2>2 DEF Update
  <2> QED
    BY <1>1, <2>1, <2>2, ObjectMoves DEF IInv
<1> QED
  BY <1>1, Invariance, PTL DEF Spec, ProgressMonotone
=============================================================================
