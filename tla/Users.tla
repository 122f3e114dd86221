------------------------------- MODULE Users -------------------------------
(***************************************************************************)
(* The accounts of the cluster: the API handlers that create and delete a  *)
(* User, the user controller that gives it an LLDAP account, namespaces    *)
(* and charts and takes them away again, the part of the namespace         *)
(* controller that lets a deleted namespace go, and the controller that    *)
(* copies the base UserEnvs to every created user.                         *)
(*                                                                         *)
(* The user controller has one worker and reads users and namespaces from  *)
(* an informer cache that may be behind; its writes carry the version they *)
(* were computed from.  It restarts with an empty work queue, which the    *)
(* initial list fills through the predicate of the watch.                  *)
(***************************************************************************)
EXTENDS Naturals, FiniteSets

CONSTANTS User,        \* names; a deleted name can be used again
          App,         \* the charts of the system applications
          Admin,       \* the roles of new users: in the group of admins, or not
          MaxCreates,  \* bound: users created
          MaxEvents,   \* bound: deletes, edits, limits, config maps, restarts
                       \* and failing calls, together
          NotFound     \* LLDAP reports the deletion of a missing account so

ASSUME BoundsAssumption ==
    /\ User # {} /\ Admin \subseteq BOOLEAN
    /\ App # {} /\ "launcher" \notin App
    /\ MaxCreates \in Nat /\ MaxEvents \in Nat /\ NotFound \in BOOLEAN

Kind    == {"space", "system"}                   \* user-space-x, user-system-x
Phase   == {"none", "active", "terminating"}
Release == {"launcher"} \cup App                 \* charts in the user space
State   == {"", "Creating", "Created", "Failed", "Deleting"}

NoUser  == [gen |-> 0]
NoAcct  == [pw |-> 0, made |-> FALSE, admin |-> FALSE]
Account == [pw : 0..MaxCreates, made : BOOLEAN, admin : BOOLEAN]

UserObject ==
    [gen : 1..MaxCreates, edits : 0..MaxEvents, state : State, fin : BOOLEAN,
     deleting : BOOLEAN, pw : 0..MaxCreates, admin : BOOLEAN,
     synced : BOOLEAN, asked : BOOLEAN]
    
BaseKey == "configmap"                           \* the other key of the sync

CreateChain == <<"binding", "space", "system", "launcher", "waitBfl",
                 "sysapps", "waitWizard", "created">>
DeleteChain == <<"account", "bindings", "deleting", "uninstall", "clear",
                 "dropSpace", "dropSystem", "unbind", "waitGone", "finish">>
Pc == {"idle", "finalizer", "client", "sync", "mark", "creating", "admit",
       "failed", "rest"} \cup {CreateChain[i] : i \in 1..8}
                 \cup {DeleteChain[i] : i \in 1..10}

VARIABLES
    usr,      \* the User objects
    cached,   \* what the informer shows of them
    ns,       \* the phases of their two namespaces
    seen,     \* the namespaces and the binding that the informers show
    bound,    \* users with a GlobalRoleBinding
    rel,      \* the charts with a release record in each user space
    acct,     \* the accounts in LLDAP
    queue,    \* work queue of the user controller
    w,        \* its worker: what it does, for whom, and the object it read
    client,   \* it holds an LLDAP client
    req,      \* users that the API server is about to delete
    syncq,    \* work queue of the environment sync
    base,     \* the config map with the base environment is there
    envs,     \* users whose space holds the base UserEnvs
    created, events,                             \* bounds
    lost,     \* ghost: keys that the controller dropped with work to do
    leaked,   \* ghost: accounts left behind by a deletion
    missed,   \* ghost: namespaces and bindings that a deletion did not see
    torn      \* ghost: the user (its gen) whose installation of a chart was cut
              \* short and left a record; 0 if the chart is whole.  No code asks

users == <<usr, cached>>
space == <<ns, seen, rel>>
sync  == <<syncq, base, envs>>
ghost == <<lost, leaked, missed, torn>>
bounds == <<created, events>>
vars == <<users, space, bound, acct, queue, w, client, req, sync,
          bounds, ghost>>

Idle  == [pc |-> "idle", user |-> CHOOSE u \in User : TRUE, copy |-> NoUser]

Exists(u) == usr[u] # NoUser

\* The writer's copy is the current version.  Objects are compared as a whole
\* for their versions: edits counts the changes that could be undone, and an
\* update that changes nothing gives no new version.
Current(u, copy) == Exists(u) /\ usr[u] = copy

Init ==
    /\ usr = [u \in User |-> NoUser] /\ cached = usr
    /\ ns = [u \in User |-> [k \in Kind |-> "none"]]
    /\ seen = [u \in User |-> {}]
    /\ bound = {} /\ rel = [u \in User |-> {}]
    /\ acct = [u \in User |-> NoAcct]
    /\ queue = {} /\ w = Idle /\ client = FALSE
    /\ req = {}
    /\ syncq = {} /\ base \in BOOLEAN /\ envs = {}
    /\ created = 0 /\ events = 0
    /\ lost = {} /\ leaked = {} /\ missed = {}
    /\ torn = [u \in User |-> [c \in Release |-> 0]]

\* Events from outside and failing calls.
Event == events < MaxEvents /\ events' = events + 1 /\ UNCHANGED created
Fault == Event

-----------------------------------------------------------------------------
(* The API server and other writers of User objects. *)

createUser(u, admin) ==
    /\ created < MaxCreates /\ created' = created + 1
    /\ ~Exists(u)
    /\ usr' = [usr EXCEPT ![u] =
           [gen |-> created', edits |-> 0, state |-> "", fin |-> FALSE,
            deleting |-> FALSE, pw |-> created', admin |-> admin,
            synced |-> FALSE, asked |-> FALSE]]
    /\ UNCHANGED <<cached, space, bound, acct, queue, w, client, req,
                   sync, events, ghost>>

Served == <<cached, space, bound, acct, queue, w, client, sync, ghost>>

\* deleteUser reads the user, notes who asked with an update that fails if
\* the user changed since, so that the two are one step, refuses a user that is
\* being created ...
DeleteAnnotate(u) ==
    /\ Event
    /\ Exists(u) /\ u \notin req
    /\ usr' = [usr EXCEPT ![u].asked = TRUE]
    /\ req' = IF usr[u].state = "Creating" THEN req ELSE req \cup {u}
    /\ UNCHANGED Served

\* ... and deletes whatever has the name now.
Marked(o) == IF o.fin THEN [o EXCEPT !.deleting = TRUE] ELSE NoUser
DeleteSend(u) ==
    /\ u \in req
    /\ usr' = IF Exists(u) THEN [usr EXCEPT ![u] = Marked(@)] ELSE usr
    /\ req' = req \ {u}
    /\ UNCHANGED <<Served, bounds>>

\* The limits are annotations: the watch of the controller ignores them.
handleUpdateUserLimits(u) ==
    /\ Event
    /\ Exists(u)
    /\ usr' = [usr EXCEPT ![u].edits = @ + 1]
    /\ UNCHANGED <<req, Served>>

\* The groups are part of the Spec, edited by others.
EditGroups(u) ==
    /\ Event
    /\ Exists(u)
    /\ usr' = [usr EXCEPT ![u].admin = ~@, ![u].edits = @ + 1]
    /\ UNCHANGED <<req, Served>>

-----------------------------------------------------------------------------
(* Caches, watches and the restart of the process. *)

\* Mutant: the watch looks at the Spec alone.
EnqueuesEdits(old, new) ==
    \/ new = NoUser
    \/ old = NoUser /\ new.state # "Failed"
    \/ old # NoUser /\ new # NoUser
          /\ (old.gen # new.gen \/ old.admin # new.admin)

\* Mutant: the watch lets only deletions pass.
EnqueuesDeletions(old, new) ==
    \/ new = NoUser
    \/ old = NoUser /\ new.state # "Failed"
    \/ old # NoUser /\ new # NoUser /\ (old.gen # new.gen \/ new.deleting)

\* The predicate of the watch, from what the cache showed to what it shows.
Enqueues(old, new) ==
    \/ new = NoUser
    \/ old = NoUser /\ new.state # "Failed"
    \/ old # NoUser /\ new # NoUser
          /\ (old.gen # new.gen \/ new.deleting \/ old.admin # new.admin)

\* Mutant: the sync looks at the old object of an event.
CacheCatchesUpOld(u) ==
    /\ cached[u] # usr[u]
    /\ cached' = [cached EXCEPT ![u] = usr[u]]
    /\ LET key == IF Enqueues(cached[u], usr[u]) THEN {u} ELSE {}
       IN queue' = queue \cup key /\ lost' = lost \ key
    /\ syncq' = syncq \cup
           (IF cached[u] # NoUser /\ cached[u].state = "Created" THEN {u} ELSE {})
    /\ UNCHANGED <<usr, space, bound, acct, w, client, req, base, envs, bounds,
                   leaked, missed, torn>>

CacheCatchesUp(u) ==
    /\ cached[u] # usr[u]
    /\ cached' = [cached EXCEPT ![u] = usr[u]]
    /\ LET key == IF Enqueues(cached[u], usr[u]) THEN {u} ELSE {}
       IN queue' = queue \cup key /\ lost' = lost \ key
    /\ syncq' = syncq \cup
           IF Exists(u) /\ usr[u].state = "Created" THEN {u} ELSE {}
    /\ UNCHANGED <<usr, space, bound, acct, w, client, req, base,
                   envs, bounds, leaked, missed, torn>>

Present(u) == {k \in Kind : ns[u][k] # "none"} \cup
              IF u \in bound THEN {"binding"} ELSE {}

ResourcesSeen(u) ==
    /\ seen[u] # Present(u)
    /\ seen' = [seen EXCEPT ![u] = Present(u)]
    /\ UNCHANGED <<users, ns, rel, bound, acct, queue, w, client, req,
                   sync, bounds, ghost>>

\* Mutant: at the start only new users are taken up, and those being deleted.
ListedNew == {u \in User : Exists(u) /\ usr[u].state \notin {"Failed", "Creating"}}

\* At its start the process lists the users: those that failed are not
\* enqueued, not even for their deletion.
Listed == {u \in User : Exists(u) /\ usr[u].state # "Failed"}

\* The charts that the worker may be installing.  helm writes the record before
\* the chart, and an installation that fails or is killed leaves both as they
\* are: nothing is rolled back (helm.go:51).
Charts == CASE w.pc = "launcher" -> {"launcher"}
            [] w.pc = "sysapps"  -> App
            [] OTHER             -> {}
CutShort ==
    \/ UNCHANGED <<rel, torn>>
    \/ \E c \in Charts \ rel[w.user] :
         /\ rel' = [rel EXCEPT ![w.user] = @ \cup {c}]
         /\ torn' = [torn EXCEPT ![w.user][c] = usr[w.user].gen]

Restart ==
    /\ Event
    /\ cached' = usr /\ seen' = [u \in User |-> Present(u)]
    /\ queue' = Listed /\ w' = Idle /\ client' = FALSE
    /\ req' = {}
    /\ syncq' = {BaseKey} \cup
                {u \in User : Exists(u) /\ usr[u].state = "Created"}
    /\ lost' = {u \in User \ Listed : Exists(u) /\ usr[u].deleting}
    /\ CutShort
    /\ UNCHANGED <<usr, ns, bound, acct, base, envs, leaked,
                   missed>>

-----------------------------------------------------------------------------
(* The worker of the user controller.                                      *)

me == w.user
At(pc) == w.pc = pc
Goto(pc) == w' = IF pc = "idle" THEN Idle ELSE [w EXCEPT !.pc = pc]

Done    == w' = Idle /\ UNCHANGED queue
Requeue == w' = Idle /\ queue' = queue \cup {me}

After(chain, pc) == chain[1 + CHOOSE i \in DOMAIN chain : chain[i] = pc]

\* A call that may fail: succeed, or spend a fault on the other outcome.
NoFault == UNCHANGED bounds

Still == <<cached, seen, req, sync>>
NoWrite == UNCHANGED <<usr, ns, rel, bound, acct, client, ghost>>

Pick(u) ==
    /\ At("idle") /\ u \in queue
    /\ queue' = queue \ {u}
    /\ w' = LET o == cached[u] IN
            IF o = NoUser THEN Idle
            ELSE [user |-> u, copy |-> o, pc |-> IF o.deleting THEN "account"
                                               ELSE IF o.fin THEN "client"
                                               ELSE "finalizer"]
    /\ NoWrite /\ NoFault /\ UNCHANGED Still

\* Mutant: the finalizer is not written.
AddFinalizerNever ==
    /\ At("finalizer")
    /\ Goto("client")
    /\ NoWrite /\ NoFault /\ UNCHANGED <<queue, Still>>

\* An error of this update is dropped: the reconciler returns another one,
\* which is nil, and the key is not queued again.
AddFinalizer ==
    /\ At("finalizer")
    /\ \/ LET new == [w.copy EXCEPT !.fin = TRUE]
          IN /\ Current(me, w.copy)
             /\ usr' = [usr EXCEPT ![me] = new]
             /\ w' = [w EXCEPT !.pc = "client", !.copy = new]
             /\ NoFault /\ UNCHANGED <<queue, lost>>
       \/ /\ IF Current(me, w.copy) THEN Fault ELSE NoFault
          /\ lost' = IF Exists(me) /\ me \notin queue THEN lost \cup {me} ELSE lost
          /\ Done /\ UNCHANGED usr
    /\ UNCHANGED <<ns, rel, bound, acct, client, leaked, missed, torn, Still>>

GetClient ==
    /\ At("client")
    /\ \/ NoFault /\ client' = TRUE /\ Goto("sync") /\ UNCHANGED queue
       \/ ~client /\ Fault /\ Requeue /\ UNCHANGED client
    /\ UNCHANGED <<usr, ns, rel, bound, acct, ghost, Still>>

\* waitForSyncToLLDAP creates the account with the password of the object it
\* read and joins its group; of an account that is there only the group
\* changes.  A failure is tried again a second later.
Synced(joined) ==
    IF acct[me].made THEN [acct[me] EXCEPT !.admin = joined]
    ELSE [pw |-> w.copy.pw, made |-> TRUE, admin |-> joined]

waitForSyncToLLDAP ==
    /\ At("sync")
    /\ \/ NoFault /\ acct' = [acct EXCEPT ![me] = Synced(w.copy.admin)]
          /\ Goto("mark") /\ UNCHANGED queue
       \/ Fault /\ Requeue
          /\ acct' \in {acct, [acct EXCEPT ![me] = Synced(acct[me].admin)]}
    /\ UNCHANGED <<usr, ns, rel, bound, client, ghost, Still>>

\* The writes that get the latest object first, and try again on a conflict,
\* but always from the cache.
Update(new, next, else) ==
    \/ /\ Current(me, cached[me]) /\ NoFault
       /\ usr' = [usr EXCEPT ![me] = new]
       /\ Goto(next) /\ UNCHANGED queue
    \/ /\ IF Current(me, cached[me]) THEN Fault ELSE NoFault
       /\ queue' = queue \cup {me} /\ Goto(else) /\ UNCHANGED usr

MarkSynced ==
    /\ At("mark")
    /\ Update([usr[me] EXCEPT !.synced = TRUE, !.pw = 0],
              IF w.copy.state = "" THEN "creating"
              ELSE IF w.copy.state = "Creating" THEN "admit" ELSE "idle",
              "idle")
    /\ UNCHANGED <<ns, rel, bound, acct, client, ghost, Still>>

updateUserStatus(s, next) ==
    /\ Update([usr[me] EXCEPT !.state = s], next, "rest")
    /\ UNCHANGED <<ns, rel, bound, acct, client, ghost, Still>>

SetCreating == At("creating") /\ updateUserStatus("Creating", "admit")
SetCreated  == At("created") /\ updateUserStatus("Created", "rest")
\* Mutant: the state is misspelled.
SetFailedMisspelled == At("failed") /\ updateUserStatus("failed", "rest")

SetFailed   == At("failed") /\ updateUserStatus("Failed", "rest")

\* A wait takes seconds: in that time, it is taken, the caches show what the
\* worker wrote before.
Shown(u) == cached[u] = usr[u] /\ seen[u] = Present(u)

\* Mutant: the creation ends without the sleep.
RestNever == At("rest") /\ Done /\ NoWrite /\ NoFault /\ UNCHANGED Still

\* The creation ends with a sleep of a second.  It is assumed, and nothing in
\* the code ensures, that the caches have caught up by then.
Rest ==
    /\ At("rest")
    /\ Shown(me)
    /\ Done
    /\ NoWrite /\ NoFault /\ UNCHANGED Still

\* Pod capacity, the limits that were asked for, free memory.
Admit ==
    /\ At("admit")
    /\ Goto("binding") \/ Goto("failed")
    /\ NoWrite /\ NoFault /\ UNCHANGED <<queue, Still>>

\* Every step of the creation takes what is already there as made.
Made(pc) ==
    /\ At(pc) /\ Goto(After(CreateChain, pc))
    /\ NoFault /\ UNCHANGED <<usr, acct, client, queue, ghost, Still>>

createBinding ==
    Made("binding") /\ bound' = bound \cup {me} /\ UNCHANGED <<ns, rel>>

createNamespace(k) ==
    /\ Made(k) /\ UNCHANGED <<bound, rel>>
    /\ ns' = IF ns[me][k] = "none" THEN [ns EXCEPT ![me][k] = "active"] ELSE ns

\* A release record without an error, of whatever status, is an installed chart.
installLauncher ==
    /\ Made("launcher") /\ UNCHANGED <<bound, ns>>
    /\ rel' = [rel EXCEPT ![me] = @ \cup {"launcher"}]

checkLauncher ==
    Made("waitBfl") /\ Shown(me) /\ UNCHANGED <<bound, ns, rel>>

\* One chart after the other, and on when each has a record.
installSysApp(a) ==
    /\ At("sysapps") /\ a \in App \ rel[me]
    /\ rel' = [rel EXCEPT ![me] = @ \cup {a}]
    /\ NoFault /\ UNCHANGED <<usr, ns, bound, acct, client, queue, w, ghost,
                               Still>>

installSysApps ==
    Made("sysapps") /\ App \subseteq rel[me] /\ UNCHANGED <<bound, ns, rel>>

\* The wizard it looks at is the first of all namespaces, perhaps another
\* user's: that one runs says nothing about the charts of this user.
checkDesktopRunning == Made("waitWizard") /\ UNCHANGED <<bound, ns, rel>>

\* A call that fails, or a pod that does not run in time, fails the user.
CreateFails ==
    /\ \E i \in 1..7 : At(CreateChain[i])
    /\ IF At("waitBfl") \/ At("waitWizard") THEN NoFault ELSE Fault
    /\ Goto("failed")
    /\ CutShort
    /\ UNCHANGED <<usr, ns, bound, acct, client, lost, leaked, missed, queue,
                   Still>>

\* Mutant: the deletion forgets LLDAP.
DeleteAccountNever ==
    /\ At("account") /\ Goto("bindings")
    /\ NoWrite /\ NoFault /\ UNCHANGED <<queue, Still>>

\* waitForDeleteFromLLDAP stops at the first answer: only NotFound is an
\* error, every other failure counts as done.
DeleteAccount ==
    /\ At("account")
    /\ \/ /\ client /\ acct[me].made /\ NoFault
          /\ acct' = [acct EXCEPT ![me] = NoAcct] /\ leaked' = leaked \ {me}
          /\ Goto("bindings") /\ UNCHANGED queue
       \/ /\ client /\ acct[me].made /\ Fault
          /\ leaked' = leaked \cup {me}
          /\ Goto("bindings") /\ UNCHANGED <<acct, queue>>
       \/ /\ client /\ ~acct[me].made /\ NoFault
          /\ IF NotFound THEN Requeue ELSE Goto("bindings") /\ UNCHANGED queue
          /\ UNCHANGED <<acct, leaked>>
       \/ /\ ~client /\ NoFault
          /\ leaked' = IF acct[me].made THEN leaked \cup {me} ELSE leaked
          /\ Goto("bindings") /\ UNCHANGED <<acct, queue>>
    /\ UNCHANGED <<usr, ns, rel, bound, client, lost, missed, torn, Still>>

SetDeleting ==
    /\ At("deleting")
    /\ IF w.copy.state = "Deleting"
       THEN Goto("uninstall") /\ UNCHANGED <<usr, queue>> /\ NoFault
       ELSE Update([usr[me] EXCEPT !.state = "Deleting"], "uninstall",
                   "idle")
    /\ UNCHANGED <<ns, rel, bound, acct, client, ghost, Still>>

Removed(pc) ==
    /\ At(pc) /\ Goto(After(DeleteChain, pc))
    /\ NoFault /\ UNCHANGED <<usr, acct, client, queue, lost, leaked, Still>>

\* helm takes a release away with its record, whatever its status.
Uninstalled(c) ==
    /\ rel' = [rel EXCEPT ![me] = @ \ {c}]
    /\ torn' = [torn EXCEPT ![me][c] = 0]

deleteRoleBindings ==
    Removed("bindings") /\ UNCHANGED <<ns, bound, rel, missed, torn>>

uninstallSysApp(a) ==
    /\ At("uninstall") /\ a \in App \cap rel[me]
    /\ Uninstalled(a)
    /\ NoFault /\ UNCHANGED <<usr, ns, bound, acct, client, queue, w, lost,
                               leaked, missed, Still>>

uninstallSysApps ==
    /\ Removed("uninstall") /\ App \cap rel[me] = {}
    /\ UNCHANGED <<ns, bound, rel, missed, torn>>

clearLauncher ==
    /\ Removed("clear") /\ UNCHANGED <<ns, bound, missed>>
    /\ Uninstalled("launcher")

\* What the cache does not show is passed over.
Misses(x) == missed' = IF x \in seen[me] THEN missed \ {<<me, x>>}
                       ELSE IF x \in Present(me) THEN missed \cup {<<me, x>>}
                       ELSE missed

deleteNamespace(pc, k) ==
    /\ Removed(pc) /\ Misses(k) /\ UNCHANGED <<bound, rel, torn>>
    /\ ns' = IF k \in seen[me] /\ ns[me][k] = "active"
             THEN [ns EXCEPT ![me][k] = "terminating"] ELSE ns

deleteBinding ==
    /\ Removed("unbind") /\ Misses("binding") /\ UNCHANGED <<ns, rel, torn>>
    /\ bound' = IF "binding" \in seen[me] THEN bound \ {me} ELSE bound

DeleteFails ==
    /\ w.pc \in {"bindings", "uninstall", "clear", "dropSpace", "dropSystem",
                 "unbind"}
    /\ Fault /\ Requeue
    /\ NoWrite /\ UNCHANGED Still

\* Mutant: the deletion does not wait for the namespaces.
WaitGoneNever ==
    /\ At("waitGone") /\ Goto("finish")
    /\ NoWrite /\ NoFault /\ UNCHANGED <<queue, Still>>

\* The wait ends when the cache shows neither namespace, or after 5 minutes.
WaitGone ==
    /\ At("waitGone")
    /\ IF seen[me] \cap Kind = {} THEN Goto("finish") /\ UNCHANGED queue ELSE Requeue
    /\ NoWrite /\ NoFault /\ UNCHANGED Still

\* The finalizer goes on the version read at the start: after a pass that
\* wrote the status, and after any other write, it takes another pass.
RemoveFinalizer ==
    /\ At("finish")
    /\ IF Current(me, w.copy)
       THEN \/ usr' = [usr EXCEPT ![me] = NoUser] /\ Done /\ NoFault
            \/ Fault /\ Requeue /\ UNCHANGED usr
       ELSE Requeue /\ NoFault /\ UNCHANGED usr
    /\ UNCHANGED <<ns, rel, bound, acct, client, ghost, Still>>

Worker ==
    \/ AddFinalizer \/ GetClient \/ waitForSyncToLLDAP \/ MarkSynced
    \/ SetCreating \/ Admit \/ createBinding \/ createNamespace("space")
    \/ createNamespace("system") \/ installLauncher \/ checkLauncher
    \/ \E a \in App : installSysApp(a) \/ uninstallSysApp(a)
    \/ installSysApps \/ checkDesktopRunning \/ CreateFails
    \/ SetCreated \/ SetFailed \/ Rest
    \/ DeleteAccount \/ deleteRoleBindings \/ SetDeleting \/ uninstallSysApps
    \/ clearLauncher \/ deleteNamespace("dropSpace", "space")
    \/ deleteNamespace("dropSystem", "system") \/ deleteBinding \/ DeleteFails
    \/ WaitGone \/ RemoveFinalizer

-----------------------------------------------------------------------------
(* Namespaces that are being deleted, and the sync of the base UserEnvs.   *)

Outside == <<users, acct, bound, queue, w, client, req, bounds, lost,
             leaked>>

\* The namespace controller takes its finalizer off a deleted namespace, and
\* Kubernetes removes it with all that is in it.
NamespaceGone(u, k) ==
    /\ ns[u][k] = "terminating"
    /\ ns' = [ns EXCEPT ![u][k] = "none"]
    /\ rel' = IF k = "space" THEN [rel EXCEPT ![u] = {}] ELSE rel
    /\ torn' = IF k = "space"
               THEN [torn EXCEPT ![u] = [c \in Release |-> 0]] ELSE torn
    /\ envs' = IF k = "space" THEN envs \ {u} ELSE envs
    /\ UNCHANGED <<Outside, seen, syncq, base, missed>>

IsCreated(u) == cached[u] # NoUser /\ cached[u].state = "Created"
Room(u) == ns[u]["space"] = "active"

\* The creation in a namespace that is gone or going fails, and is tried again.
SyncOne(u) ==
    /\ u \in syncq
    /\ IsCreated(u) /\ base => Room(u)
    /\ syncq' = syncq \ {u}
    /\ envs' = IF IsCreated(u) /\ base THEN envs \cup {u} ELSE envs
    /\ UNCHANGED <<Outside, space, base, missed, torn>>

SyncAll ==
    /\ BaseKey \in syncq
    /\ LET todo == IF base THEN {u \in User : IsCreated(u)} ELSE {}
           done == {u \in todo : Room(u)}
       IN /\ envs' = envs \cup done
          /\ syncq' = IF done = todo THEN syncq \ {BaseKey} ELSE syncq
    /\ UNCHANGED <<Outside, space, base, missed, torn>>

PublishBase ==
    /\ Event
    /\ ~base /\ base' = TRUE /\ syncq' = syncq \cup {BaseKey}
    /\ UNCHANGED <<users, space, bound, acct, queue, w, client, req,
                   envs, ghost>>

Next ==
    \/ \E u \in User :
         \/ \E admin \in Admin : createUser(u, admin)
         \/ DeleteAnnotate(u) \/ DeleteSend(u)
         \/ handleUpdateUserLimits(u) \/ EditGroups(u)
         \/ CacheCatchesUp(u) \/ ResourcesSeen(u) \/ Pick(u) \/ SyncOne(u)
         \/ \E k \in Kind : NamespaceGone(u, k)
    \/ Worker \/ SyncAll \/ PublishBase \/ Restart

Spec == Init /\ [][Next]_vars

\* The worker and the informers do not stop; the queue is first in, first
\* out, so a key that stays in it is picked although the worker is busy
\* between; deleted namespaces go away.
FairSpec ==
    /\ Spec /\ WF_vars(Worker) /\ WF_vars(SyncAll)
    /\ \A u \in User :
         /\ WF_vars(CacheCatchesUp(u)) /\ WF_vars(ResourcesSeen(u))
         /\ SF_vars(Pick(u)) /\ WF_vars(SyncOne(u))
         /\ \A k \in Kind : WF_vars(NamespaceGone(u, k))

-----------------------------------------------------------------------------
(* Properties                                                              *)

\* Every variable keeps its shape, and what the worker reads is a version
\* that was written.
TypeOK ==
    /\ \A u \in User : usr[u] = NoUser \/ usr[u] \in UserObject
    /\ \A u \in User : cached[u] = NoUser \/ cached[u] \in UserObject
    /\ ns \in [User -> [Kind -> Phase]]
    /\ seen \in [User -> SUBSET (Kind \cup {"binding"})]
    /\ bound \subseteq User /\ rel \in [User -> SUBSET Release]
    /\ acct \in [User -> Account]
    /\ queue \subseteq User /\ w.pc \in Pc /\ w.user \in User
    /\ At("idle") <=> w.copy = NoUser
    /\ client \in BOOLEAN
    /\ req \subseteq User
    /\ syncq \subseteq User \cup {BaseKey}
    /\ base \in BOOLEAN /\ envs \subseteq User
    /\ lost \subseteq User /\ leaked \subseteq User
    /\ torn \in [User -> [Release -> 0..MaxCreates]]

Living(u) == Exists(u) /\ ~usr[u].deleting

\* A user that is shown as Created, and is not being deleted, has everything
\* handleUserCreation makes, also when its name was used before and when
\* deletions, restarts and stale reads fell between (user_controller.go:228).
AllIsMade ==
    \A u \in User : Living(u) /\ usr[u].state = "Created" =>
        /\ u \in bound /\ rel[u] = Release /\ acct[u].made
        /\ \A k \in Kind : ns[u][k] = "active"

\* Its charts are whole, but for those whose installation for this very user
\* was cut short, by a restart or an error: the record that is left passes for
\* the chart, and the user for Created (create.go:293 and :328).  What was cut
\* short for an earlier user of the name is never taken over.
ChartsAreWhole ==
    \A u \in User : Living(u) /\ usr[u].state = "Created" =>
        \A c \in Release : torn[u][c] \in {0, usr[u].gen}

\* It logs in with its own password, unless the account of a user of the same
\* name was left in LLDAP, which the deletion takes for done on every error
\* but NotFound, and leaves out without a client (user_controller.go:370).
AccountIsCurrent ==
    \A u \in User : Living(u) /\ usr[u].state = "Created" =>
        acct[u].pw = usr[u].gen \/ u \in leaked

\* A user whose finalizer is gone has left nothing, but for the account just
\* said and what the caches did not show to its deletion (delete.go:49).
RemovedLeavesNothing ==
    \A u \in User : ~Exists(u) =>
        /\ rel[u] = {} /\ {u} \X Present(u) \subseteq missed
        /\ acct[u].made => u \in leaked

\* A user is created once: no stale read of the worker takes a user that is
\* Created or Failed back, or from one to the other (user_controller.go:190).
Rank(s) == CASE s = "" -> 0 [] s = "Creating" -> 1
             [] s \in {"Created", "Failed"} -> 2 [] s = "Deleting" -> 3
CreatedOnce ==
    [][\A u \in User :
         Exists(u) /\ usr'[u] # NoUser /\ usr'[u].gen = usr[u].gen =>
             \/ usr'[u].state = usr[u].state
             \/ Rank(usr[u].state) < Rank(usr'[u].state)]_vars

\* A creation ends, unless the key was dropped: with the error of the update
\* that adds the finalizer (user_controller.go:137).
CreationEnds ==
    \A u \in User :
        Living(u) /\ usr[u].state \in {"", "Creating"}
            ~> ~Living(u) \/ usr[u].state \notin {"", "Creating"} \/ u \in lost

\* A deletion ends, through conflicts, restarts and failing calls, when LLDAP
\* does not report a missing account as NotFound: if it does, a deletion that
\* takes a second pass asks for ever (user_controller.go:372).  A restart
\* drops the key of a user in Failed (user_controller.go:90).
DeletionEnds ==
    \A u \in User :
        ~NotFound /\ Exists(u) /\ ~Living(u) ~> ~Exists(u) \/ Living(u) \/ u \in lost

\* Every created user gets the base UserEnvs, whether the config map or the
\* user comes first (userenv_sync_controller.go:69).
BaseReachesUsers ==
    \A u \in User :
        base /\ Living(u) /\ usr[u].state = "Created"
            ~> u \in envs \/ ~Living(u)

\* A change of the groups reaches LLDAP (user_controller.go:652).
GroupsFollow ==
    \A u \in User :
        Living(u) /\ usr[u].state = "Created" /\ acct[u].admin # usr[u].admin
            ~> ~Living(u) \/ acct[u].admin = usr[u].admin

\* A created user can work: it has everything, as whole as its installations
\* went, and its own account (user_controller.go:228 and :370).
CreatedIsComplete == AllIsMade /\ ChartsAreWhole /\ AccountIsCurrent

\* Creations and deletions end, with the exceptions just said
\* (user_controller.go:107).
RequestsEnd == CreationEnds /\ DeletionEnds

\* What others change reaches a created user: the base UserEnvs its
\* namespace, its groups LLDAP (userenv_sync_controller.go:69,
\* user_controller.go:652).
ChangesArrive == BaseReachesUsers /\ GroupsFollow
=============================================================================
