------------------------------- MODULE Images -------------------------------
(***************************************************************************)
(* The download of an application's images.  The application service       *)
(* creates an ImageManager and polls its progress every second; an image   *)
(* service on every node reconciles it: one worker that pulls the images,  *)
(* reports what has arrived in the conditions of its node, and writes the  *)
(* state at the end.  A cancel is written into the state of the            *)
(* ImageManager and reaches the pull through a map of cancel functions.    *)
(*                                                                         *)
(* An ImageManager has the name of its application: a later download       *)
(* deletes the object and creates another of that name, whatever the nodes *)
(* are doing with the old one.  This module follows one name.              *)
(*                                                                         *)
(* A report is not the pull: the goroutine that reports a pull writes one  *)
(* last time after that has ended, in whatever way it has ended, and may   *)
(* outlive the worker that began it.                                       *)
(***************************************************************************)
EXTENDS Integers, Sequences, FiniteSets

CONSTANTS
    Node,       \* the nodes of the cluster
    Ref,        \* the images
    Refs,       \* the sets of images that a download may ask for
    MaxGen,     \* bound: downloads
    Never,      \* the images that are not to be pulled: policy Never, or none
    Ready,      \* the sets of nodes that may be ready when a download begins
    Full,       \* the size of an image, in steps of its progress
    MaxLag,     \* bound: versions a cache may be behind
    MaxFaults,  \* bound: failing calls and crashes
    MaxEvents   \* bound: downloads and faults together

ASSUME ReadyAssumption == Ready \subseteq (SUBSET Node) \ {{}}
ASSUME RefsAssumption == Refs \subseteq (SUBSET Ref) \ {{}} /\ Never \subseteq Ref /\ MaxGen \in Nat
ASSUME SizeAssumption == Full \in Nat \ {0} /\ MaxLag \in Nat \ {0} /\ MaxFaults \in Nat

VARIABLES
    ims,        \* versions of the ImageManager: the cached one first, the stored one last
    queue,      \* nodes with the ImageManager in their work queue
    cancels,    \* nodes with a cancel on its way to the map of cancel functions
    wk,         \* the worker of each node
    ticks,      \* pulls that ended in an error and report one last time
    stopping,   \* nodes with a process that was told to stop
    onDisk,     \* the images of which a node has all layers
    poll,       \* the download of the application service
    crossed,    \* ghost: an object was replaced under a worker, a cancel or a cache
    overwritten,\* ghost: a node that began wrote over a final state
    lost,       \* ghost: a report of a node was given up
    feigned,    \* ghost: images that were reported in full and not on the disk then
    halted,     \* ghost: a process that was told to stop was pulling
    faults

ghosts == <<crossed, overwritten, lost, feigned, halted>>
node == <<ticks, stopping, onDisk>>
vars == <<ims, queue, cancels, wk, node, poll, ghosts, faults>>

-----------------------------------------------------------------------------
(***************************************************************************)
(* The ImageManager.                                                       *)
(***************************************************************************)
Missing == -1

NoIM == [gen |-> 0, refs |-> {}, nodes |-> {}, state |-> "",
         cond |-> [n \in Node |-> [r \in Ref |-> Missing]]]

im == ims[Len(ims)]
Cached == Head(ims)
Exists(v) == v.gen > 0

\* Any cache is between the oldest and the newest of the versions.
Visible == {ims[i] : i \in DOMAIN ims}

WriteIM(v) ==
    /\ Len(ims) <= MaxLag
    /\ ims' = Append(ims, v)

FinalStates == {"failed", "downloadingCanceled", "completed"}

\* A cache has an object of which the name is taken by that of another download.
Crossing(v) == Exists(v) /\ Exists(im) /\ v.gen # im.gen

Complete(v) == \A n \in v.nodes, r \in v.refs : v.cond[n][r] = Full

Fault == faults < MaxFaults /\ poll.gen + faults < MaxEvents /\ faults' = faults + 1

\* A worker is in the map of cancel functions until it returns.
Idle == [pc |-> "idle", todo |-> {}, canceled |-> FALSE, err |-> ""]
Registered(n) == wk[n].pc # "idle"

-----------------------------------------------------------------------------
(***************************************************************************)
(* The application service.                                                *)
(***************************************************************************)
\* Create deletes the object of that name that it reads.
DeleteIM ==
    /\ poll.pc = "idle" /\ poll.gen < MaxGen /\ poll.gen + faults < MaxEvents
    /\ \E v \in Visible :
         IF Exists(v) /\ Exists(im) THEN WriteIM(NoIM) ELSE UNCHANGED ims
    /\ poll' = [poll EXCEPT !.pc = "create", !.gen = @ + 1, !.outcome = ""]
    /\ UNCHANGED <<queue, cancels, wk, node, ghosts, faults>>

\* The nodes that are ready get the images.  A name that is still taken is an error.
Create ==
    /\ poll.pc = "create"
    /\ IF Exists(im)
       THEN /\ poll' = [poll EXCEPT !.pc = "idle", !.outcome = "failed"]
            /\ UNCHANGED <<ims, crossed>>
       ELSE /\ \E refs \in Refs, nodes \in Ready :
                 WriteIM([NoIM EXCEPT !.gen = poll.gen, !.refs = refs, !.nodes = nodes])
            /\ poll' = [poll EXCEPT !.pc = "polling"]
            /\ crossed' = (crossed \/ cancels # {} \/ \E n \in Node : wk[n].pc # "idle")
    /\ UNCHANGED <<queue, cancels, wk, node, overwritten, lost, feigned, halted, faults>>

\* A tick of the poll that ends it: the slowest node decides.
PollDownloadProgress ==
    /\ poll.pc = "polling"
    /\ \E v \in Visible :
         /\ ~Exists(v) \/ v.state = "failed" \/ Complete(v)
         /\ poll' = [poll EXCEPT !.pc = "idle",
                                 !.outcome = IF Exists(v) /\ v.state # "failed" THEN "ok" ELSE "failed"]
         /\ crossed' = (crossed \/ Crossing(v))
    /\ UNCHANGED <<ims, queue, cancels, wk, node, overwritten, lost, feigned, halted, faults>>

\* The state is patched into the object that there is by now.
SetState(v, state) == IF state = v.state THEN im ELSE [im EXCEPT !.state = state]

\* UpdateStatus, and the end of the poll.  There has to be an object.
CancelDownload ==
    /\ poll.pc = "polling"
    /\ \E v \in Visible :
         /\ Exists(v) /\ Exists(im)
         /\ WriteIM(SetState(v, "downloadingCanceled"))
    /\ poll' = [poll EXCEPT !.pc = "idle", !.outcome = "canceled"]
    /\ UNCHANGED <<queue, cancels, wk, node, ghosts, faults>>

-----------------------------------------------------------------------------
(***************************************************************************)
(* The image service of a node.                                            *)
(***************************************************************************)
\* A returned error brings the key back.
Return(n, again) ==
    /\ wk' = [wk EXCEPT ![n] = Idle]
    /\ queue' = IF again THEN queue \cup {n} ELSE queue

\* The object is read and the cancel function registered.  A node that is not
\* the first to begin finds the state written.
Reconcile(n) ==
    /\ n \in queue /\ wk[n] = Idle /\ n \notin stopping
    /\ \E v \in Visible :
         /\ IF ~Exists(v)
            THEN queue' = queue \ {n} /\ UNCHANGED <<ims, wk, overwritten>>
            ELSE IF v.state = "downloading" \/ Exists(im)
            THEN /\ queue' = queue \ {n}
                 /\ wk' = [wk EXCEPT ![n] = [Idle EXCEPT !.pc = "pull", !.todo = v.refs]]
                 /\ IF v.state = "downloading"
                    THEN UNCHANGED <<ims, overwritten>>
                    ELSE /\ WriteIM(SetState(v, "downloading"))
                         /\ overwritten' = (overwritten \/ im.state \in FinalStates)
            ELSE UNCHANGED <<ims, queue, wk, overwritten>>
         /\ crossed' = (crossed \/ Crossing(v))
    /\ UNCHANGED <<cancels, node, poll, lost, feigned, halted, faults>>

Pulling(n, r) == wk[n].pc = "pull" /\ r \in wk[n].todo

\* Mutant: more than the size of the image is reported, too.
AheadUnlimited(v, n, r, offset) == v.cond[n][r] < offset

\* A report that is not ahead of the last one is dropped, and so is one beyond
\* the size of the image.
Ahead(v, n, r, offset) == v.cond[n][r] < offset /\ offset <= Full

FetchLayers(n, r) ==
    /\ Pulling(n, r) /\ r \notin Never
    /\ onDisk' = onDisk \cup {<<n, r>>}
    /\ UNCHANGED <<ims, queue, cancels, wk, ticks, stopping, poll, ghosts, faults>>

\* A tick.  Layers that several images share are counted for each of them.
showProgress(n, r) ==
    /\ Pulling(n, r) /\ r \notin Never /\ Exists(im)
    /\ \E offset \in IF <<n, r>> \in onDisk THEN {Full, Full + 1} ELSE 1 .. Full - 1 :
         /\ Ahead(im, n, r, offset)
         /\ WriteIM([im EXCEPT !.cond[n][r] = offset])
    /\ UNCHANGED <<queue, cancels, wk, node, poll, ghosts, faults>>

\* An image that was there before is reported at once.
ReportPulled(n, r) == WriteIM([im EXCEPT !.cond[n][r] = Full])

\* The image is unpacked, and the last tick says so, if it gets through.
PullImage(n, r) ==
    /\ Pulling(n, r) /\ <<n, r>> \in onDisk
    /\ wk' = [wk EXCEPT ![n].todo = @ \ {r}]
    /\ \/ /\ IF Exists(im) /\ Ahead(im, n, r, Full)
             THEN ReportPulled(n, r) ELSE UNCHANGED ims
          /\ UNCHANGED <<lost, faults>>
       \/ Fault /\ lost' = TRUE /\ UNCHANGED ims
    /\ UNCHANGED <<queue, cancels, node, poll, crossed, overwritten, feigned, halted>>

\* A pull that ends in an error is not waited for: it has a last report to come.
EndsInError(n, r, err) ==
    /\ Pulling(n, r)
    /\ wk' = [wk EXCEPT ![n].todo = @ \ {r}, ![n].err = err]
    /\ ticks' = ticks \cup {<<n, r>>}
    /\ UNCHANGED <<ims, queue, cancels, stopping, onDisk, poll, ghosts>>

FirstError(n) == IF wk[n].err = "" THEN "failed" ELSE wk[n].err

\* All attempts failed: the other images go on.
PullFails(n, r) == Fault /\ EndsInError(n, r, FirstError(n))

\* The error of looking for the image is still there when no pull replaced it.
NotThere(n, r) == r \in Never /\ <<n, r>> \notin onDisk /\ EndsInError(n, r, FirstError(n)) /\ UNCHANGED faults

AbortPull(n, r) == wk[n].canceled /\ EndsInError(n, r, "downloadingCanceled") /\ UNCHANGED faults

\* The last report calls every layer that it knows done.  It goes to whatever
\* object has the name by then, and to none when no layer is known.
LastTick(n, r) ==
    /\ <<n, r>> \in ticks
    /\ ticks' = ticks \ {<<n, r>>}
    /\ \/ /\ Exists(im) /\ Ahead(im, n, r, Full)
          /\ ReportPulled(n, r)
          /\ feigned' = IF <<n, r>> \in onDisk THEN feigned ELSE feigned \cup {<<im.gen, n, r>>}
       \/ UNCHANGED <<ims, feigned>>
    /\ UNCHANGED <<queue, cancels, wk, stopping, onDisk, poll, crossed, overwritten, lost, halted, faults>>

\* Mutant: whatever was never reported counts as complete.
FilledEverywhere(v, n) ==
    [m \in Node |-> [r \in Ref |-> IF r \in v.refs /\ v.cond[m][r] = Missing THEN Full ELSE v.cond[m][r]]]

\* Images of this node that were never reported count as complete.
Filled(v, n) ==
    IF n \notin v.nodes THEN v.cond
    ELSE [v.cond EXCEPT ![n] = [r \in Ref |-> IF r \in v.refs /\ @[r] = Missing THEN Full ELSE @[r]]]

\* Mutant: the conditions are written as they were read.
CompletedAsRead(v, n) ==
    LET new == [v EXCEPT !.cond = Filled(v, n)] IN
    IF Complete(new) THEN [new EXCEPT !.state = "completed"] ELSE [new EXCEPT !.state = im.state]

\* What the patch of a finished node makes of the stored object, when the
\* worker has read version v.
Completed(v, n) ==
    LET new == Filled(v, n)
        stored == [im EXCEPT !.cond = [m \in Node |-> [r \in Ref |->
                                        IF new[m][r] # v.cond[m][r] THEN new[m][r] ELSE @[m][r]]]] IN
    IF Complete([v EXCEPT !.cond = new]) /\ v.state # "completed"
    THEN [stored EXCEPT !.state = "completed"] ELSE stored

\* The error of the download is lost when its state could be written.
updateStatus(n) ==
    /\ wk[n].pc = "pull" /\ wk[n].todo = {}
    /\ \E v \in Visible :
         /\ crossed' = (crossed \/ Crossing(v))
         /\ IF Exists(v) /\ Exists(im)
            THEN /\ LET new == IF wk[n].err = "" THEN Completed(v, n) ELSE SetState(v, wk[n].err) IN
                    IF new = im THEN UNCHANGED ims ELSE WriteIM(new)
                 /\ Return(n, FALSE)
            ELSE Return(n, TRUE) /\ UNCHANGED ims
    /\ UNCHANGED <<cancels, node, poll, overwritten, lost, feigned, halted, faults>>

\* The cancel function is only there while the worker is at it.
cancel(n) ==
    /\ n \in cancels
    /\ cancels' = cancels \ {n}
    /\ wk' = IF Registered(n) THEN [wk EXCEPT ![n].canceled = TRUE] ELSE wk
    /\ UNCHANGED <<ims, queue, node, poll, ghosts, faults>>

-----------------------------------------------------------------------------
(***************************************************************************)
(* The caches, and the processes of the nodes.                             *)
(***************************************************************************)
\* Mutant: an object that somebody is at is not taken up again.
preEnqueueCheckForNew(v) == v.state = ""

preEnqueueCheckForCreate(v) == v.state \notin FinalStates

\* Mutant: only the nodes that have reported are cancelled.
preEnqueueCheckForReporters(v) ==
    IF v.state = "downloadingCanceled" THEN {n \in Node : \E r \in v.refs : v.cond[n][r] # Missing} ELSE {}

preEnqueueCheckForUpdate(v) == IF v.state = "downloadingCanceled" THEN Node ELSE {}

\* The next version reaches the caches; a new object is queued, an update is not.
Deliver ==
    /\ Len(ims) > 1
    /\ ims' = Tail(ims)
    /\ LET v == ims[2] IN
       /\ queue' = IF v.gen > Cached.gen /\ preEnqueueCheckForCreate(v) THEN Node ELSE queue
       /\ cancels' = IF Exists(v) /\ v.gen = Cached.gen
                     THEN cancels \cup preEnqueueCheckForUpdate(v) ELSE cancels
    /\ UNCHANGED <<wk, node, poll, ghosts, faults>>

\* A process that starts takes every object for a new one.
Restart(n) ==
    /\ wk' = [wk EXCEPT ![n] = Idle]
    /\ cancels' = cancels \ {n}
    /\ ticks' = {t \in ticks : t[1] # n} /\ stopping' = stopping \ {n}
    /\ queue' = IF Exists(Cached) /\ preEnqueueCheckForCreate(Cached) THEN queue \cup {n} ELSE queue \ {n}
    /\ UNCHANGED <<ims, onDisk, poll, ghosts>>

Crash(n) == Fault /\ Restart(n)

\* A signal to stop cancels the pulls like a cancel that somebody asked for.
Shutdown(n) ==
    /\ Fault
    /\ stopping' = stopping \cup {n}
    /\ wk' = IF Registered(n) THEN [wk EXCEPT ![n].canceled = TRUE] ELSE wk
    /\ halted' = (halted \/ Registered(n))
    /\ UNCHANGED <<ims, queue, cancels, ticks, onDisk, poll, crossed, overwritten, lost, feigned>>

\* The process ends, at the latest with the grace period or a second signal.
Exit(n) == n \in stopping /\ Restart(n) /\ UNCHANGED faults

-----------------------------------------------------------------------------
Init ==
    /\ ims = <<NoIM>>
    /\ queue = {} /\ cancels = {}
    /\ wk = [n \in Node |-> Idle]
    /\ ticks = {} /\ stopping = {} /\ onDisk \in SUBSET (Node \X Never)
    /\ poll = [pc |-> "idle", gen |-> 0, outcome |-> ""]
    /\ crossed = FALSE /\ overwritten = FALSE /\ lost = FALSE
    /\ feigned = {} /\ halted = FALSE
    /\ faults = 0

NodeNext(n) ==
    \/ Reconcile(n) \/ updateStatus(n)
    \/ \E r \in Ref : \/ FetchLayers(n, r) \/ showProgress(n, r) \/ PullImage(n, r)
                      \/ PullFails(n, r) \/ NotThere(n, r) \/ AbortPull(n, r) \/ LastTick(n, r)
    \/ cancel(n)
    \/ Crash(n) \/ Shutdown(n) \/ Exit(n)

Next ==
    \/ DeleteIM \/ Create \/ PollDownloadProgress \/ CancelDownload
    \/ Deliver
    \/ \E n \in Node : NodeNext(n)

Spec == Init /\ [][Next]_vars

\* Caches catch up, workers take their step, and the poll ticks.  A pull may
\* take for ever.
Fairness ==
    /\ WF_vars(Create) /\ WF_vars(PollDownloadProgress) /\ WF_vars(Deliver)
    /\ \A n \in Node :
         /\ WF_vars(Reconcile(n) \/ updateStatus(n))
         /\ WF_vars(cancel(n)) /\ WF_vars(Exit(n))
         /\ WF_vars(\E r \in Ref : AbortPull(n, r))

FairSpec == Spec /\ Fairness

-----------------------------------------------------------------------------
(***************************************************************************)
(* Properties.                                                             *)
(***************************************************************************)
IsIM(v) ==
    /\ DOMAIN v = {"gen", "refs", "nodes", "state", "cond"}
    /\ v.gen \in 0 .. MaxGen /\ v.refs \subseteq Ref /\ v.nodes \subseteq Node
    /\ v.state \in FinalStates \cup {"", "downloading"}
    /\ v.cond \in [Node -> [Ref -> Missing .. Full]]

\* The variables hold an ImageManager, the progress of its images and workers
\* at a place of their reconciliation.
TypeOK ==
    /\ Len(ims) \in 1 .. MaxLag + 1 /\ \A i \in DOMAIN ims : IsIM(ims[i])
    /\ queue \subseteq Node /\ cancels \subseteq Node
    /\ wk \in [Node -> [pc : {"idle", "pull"}, todo : SUBSET Ref, canceled : BOOLEAN,
                        err : {"", "failed", "downloadingCanceled"}]]
    /\ ticks \subseteq Node \X Ref /\ stopping \subseteq Node /\ onDisk \subseteq Node \X Ref
    /\ poll \in [pc : {"idle", "create", "polling"}, gen : 0 .. MaxGen,
                 outcome : {"", "ok", "failed", "canceled"}]
    /\ {crossed, overwritten, lost, halted} \subseteq BOOLEAN
    /\ feigned \subseteq (0 .. MaxGen) \X Node \X Ref
    /\ faults \in 0 .. MaxFaults

\* What object v says of an image on a node is so, or was only feigned.
Covered(v, n, r) == <<n, r>> \in onDisk \/ <<v.gen, n, r>> \in feigned

\* An image that counts as complete on a node is on its disk, and a download
\* that succeeded has its images on every node: crashes, lost reports and stale
\* reads do not break this.  The exceptions are images that the last report of
\* a pull called complete although that had failed, was cancelled or never
\* allowed (jobs.go:217, puller.go:148), and a node that was still busy with
\* the object of an earlier download, or whose cache still had it: it completes
\* the new one that has taken its name (image_controller.go:220).
Truthful ==
    ~crossed =>
        /\ \A n \in Node, r \in Ref : im.cond[n][r] = Full => Covered(im, n, r)
        /\ poll.outcome = "ok" /\ im.gen = poll.gen => \A n \in im.nodes, r \in im.refs : Covered(im, n, r)

\* The progress of an image on a node never falls, although a node that
\* crashed begins to pull again and patches are computed from old versions.
ProgressMonotone ==
    [][im.gen = im'.gen => \A n \in Node, r \in Ref : im'.cond[n][r] >= im.cond[n][r]]_vars

\* A node that is pulling when the cancel is written stops, however slow its
\* pull is and whatever the other node writes, unless the object is replaced.
CanceledStops ==
    \A n \in Node : im.state = "downloadingCanceled" /\ wk[n].pc = "pull" ~> wk[n] = Idle \/ crossed

\* The pulls of the nodes end.
PullsEnd == \A n \in Node : WF_vars(\E r \in Ref : FetchLayers(n, r) \/ PullImage(n, r) \/ NotThere(n, r))

\* A download ends when its pulls end, unless a node wrote over the failure of
\* another before the poll saw it, gave up a report, was told to stop while it
\* pulled, or the object was replaced under a busy node.
PollEnds ==
    PullsEnd => (poll.pc = "polling" ~> poll.pc # "polling" \/ crossed \/ overwritten \/ lost \/ halted)

\* Cancelled and polled downloads stop, with the exceptions just said
\* (image_controller.go:81, imagemanager.go:158).
DownloadsEnd == CanceledStops /\ PollEnds
=============================================================================
