-------------------------- MODULE EnvironmentProofs --------------------------
(***************************************************************************)
(* What Environment guarantees for any users, sources, applications,       *)
(* values and bounds: its types, that a value to apply is deployed, to be  *)
(* deployed or marked, and that the controller applies nothing while a     *)
(* batch that holds the lease is writing.                                  *)
(***************************************************************************)
EXTENDS Environment, TLAPS

Content == [value : Value \cup {Empty}, status : {"own", "pending", "synced", "notFound"}]
Vars(a) == Refs[a] \cup FirstRefs[a] \cup {Own}
Env == UNION {[D -> Content] : D \in SUBSET (Name \cup {Own})}
Object == [env : Env, need : BOOLEAN, sync : BOOLEAN, present : BOOLEAN]
SourceSpec == [value : Value \cup {Empty, None}, default : Value \cup {Empty}]
Kinds == {"system", "user"}

-----------------------------------------------------------------------------
(***************************************************************************)
(* The inductive invariant, part by part.                                  *)
(***************************************************************************)
SourcesInv ==
    /\ src \in [Source -> SourceSpec] /\ srcQueue \subseteq Source
    /\ annotator \in [Kinds -> [source : Source \cup {<<>>}, todo : SUBSET App, failed : BOOLEAN]]
    /\ \A k \in Kinds : annotator[k].todo # {} => annotator[k].source \in Source

\* An AppEnv holds variables of its application, and some when it is present.
Fits(a, o) ==
    /\ o \in Object
    /\ DOMAIN o.env \subseteq Vars(a)
    /\ o.present <=> DOMAIN o.env # {}

AppEnvsInv ==
    /\ appEnv \in [App -> Seq(Object)]
    /\ \A a \in App : /\ Len(appEnv[a]) \in 1 .. MaxLag + 1
                      /\ \A i \in DOMAIN appEnv[a] : Fits(a, appEnv[a][i])

\* No AppEnv is deleted.
PresenceInv ==
    \A a \in App : \A i \in DOMAIN appEnv[a] : appEnv[a][i].present => Stored(a).present

IsWorker(w) ==
    /\ w \in [pc : {"idle", "apply", "trigger", "mark"}, app : App \cup {None}, obj : Object]
    /\ w.pc # "idle" => w.app \in App /\ Fits(w.app, w.obj) /\ w.obj.need

WorkersInv == appQueue \subseteq App /\ IsWorker(wk)

BatchesInv ==
    /\ lease \in [User -> {"free", "held", "expired"}]
    /\ batch \in [Handler -> [user : User \cup {None}, todo : SUBSET Name, value : Value \cup {Empty},
                              locks : BOOLEAN, safe : BOOLEAN]]
    /\ \A h \in Handler : batch[h].user # None => \A n \in batch[h].todo : <<batch[h].user, n>> \in Source

\* An operation is under way in the states that ask for one.
OpsInv ==
    /\ am \in [App -> State \cup {NoState}]
    /\ op = [a \in App |-> op[a]] /\ deployed = [a \in App |-> deployed[a]]
    /\ \A a \in App :
         /\ op[a] \in [pc : {"none", "get", "update", "upgrade"}, values : {op[a].values}, fresh : BOOLEAN]
         /\ op[a].pc = "none" => op[a] = NoOp
         /\ op[a].pc # "none" => am[a] \in {"installing", "upgrading", "applyingEnv"}

TypeInv == SourcesInv /\ AppEnvsInv /\ PresenceInv /\ WorkersInv /\ BatchesInv /\ OpsInv

\* The values that are deployed in the end are the stored ones, or an operation
\* has failed.
Arrives(a) ==
    \/ op[a].pc = "none" /\ ~Differs(a, deployed[a])
    \/ op[a].pc = "get"
    \/ op[a].pc \in {"update", "upgrade"} /\ ~Differs(a, op[a].values)
    \/ am[a] \in {"installFailed", "upgradeFailed", "applyEnvFailed"}

\* Before it clears NeedApply, an operation with the latest version has its values.
Knows(a) == op[a].pc = "update" /\ op[a].fresh => ~Differs(a, op[a].values)

\* What the worker marks as applied arrives.
Marks(a) == wk.pc = "mark" /\ wk.app = a /\ Stored(a).env = wk.obj.env => Arrives(a)

AppliedTo(a) ==
    /\ Knows(a)
    /\ a \notin blind => /\ Stored(a).present => Stored(a).need \/ Arrives(a)
                         /\ Marks(a)

AppliedInv == \A a \in App : AppliedTo(a)

\* A batch that has its user's variables and lease for itself.
Holds(h) == batch[h].locks /\ batch[h].safe

LeaseInv ==
    /\ \A h \in Handler : batch[h].safe => /\ batch[h].user \in User
                                           /\ \A g \in Handler \ {h} : batch[g].user # batch[h].user
    /\ \A h \in Handler : Holds(h) => lease[batch[h].user] = "held"
    /\ wk.pc = "trigger" => ~\E h \in Handler : Holds(h) /\ batch[h].user = Owner[wk.app]

IInv == TypeInv /\ AppliedInv /\ LeaseInv

-----------------------------------------------------------------------------
(***************************************************************************)
(* Objects, and the versions of an AppEnv.                                 *)
(***************************************************************************)
\* A map of some variables to their contents is the variables of an object.
LEMMA EnvIsMap ==
    ASSUME NEW D \in SUBSET (Name \cup {Own}), NEW e, e \in [D -> Content]
    PROVE  e \in Env
BY DEF Env

\* The variables of an object, read as a map.
LEMMA MapOfEnv ==
    ASSUME NEW e \in Env
    PROVE  DOMAIN e \in SUBSET (Name \cup {Own}) /\ e \in [DOMAIN e -> Content]
<1>1. PICK D \in SUBSET (Name \cup {Own}) : e \in [D -> Content]
  BY DEF Env
<1> QED
  BY <1>1

\* The object of no AppEnv.
LEMMA NoEnvFits ==
    ASSUME NEW a \in App
    PROVE  Fits(a, NoEnv) /\ ~NoEnv.present /\ DOMAIN NoEnv.env = {}
<1>1. <<>> \in [{} -> Content] /\ DOMAIN <<>> = {}
  OBVIOUS
<1>2. <<>> \in Env
  BY <1>1, EnvIsMap
<1> QED
  BY <1>1, <1>2 DEF Fits, NoEnv, Object

\* An AppEnv has a cached and a stored version.
LEMMA VersionsLemma ==
    ASSUME AppEnvsInv, NEW a \in App
    PROVE  /\ appEnv[a] \in Seq(Object) /\ Len(appEnv[a]) \in Nat \ {0}
           /\ Cached(a) = appEnv[a][1] /\ Stored(a) = appEnv[a][Len(appEnv[a])]
           /\ Fits(a, Cached(a)) /\ Fits(a, Stored(a))
<1>1. /\ appEnv[a] \in Seq(Object) /\ Len(appEnv[a]) \in 1 .. MaxLag + 1
      /\ \A i \in DOMAIN appEnv[a] : Fits(a, appEnv[a][i])
  BY DEF AppEnvsInv
<1>2. Len(appEnv[a]) \in Nat \ {0} /\ 1 \in DOMAIN appEnv[a] /\ Len(appEnv[a]) \in DOMAIN appEnv[a]
  BY <1>1, LagAssumption
<1>3. Cached(a) = appEnv[a][1] /\ Stored(a) = appEnv[a][Len(appEnv[a])]
  BY <1>1, <1>2 DEF Cached, Stored, Latest
<1> QED
  BY <1>1, <1>2, <1>3

\* The versions after a write: the last is the new one, and the others are
\* among those there were.
LEMMA WriteLemma ==
    ASSUME AppEnvsInv, PresenceInv, NEW a \in App, NEW o, Fits(a, o),
           Stored(a).present => o.present, WriteAppEnv(a, o)
    PROVE  /\ AppEnvsInv' /\ PresenceInv' /\ Stored(a)' = o
           /\ \A b \in App \ {a} : appEnv'[b] = appEnv[b] /\ Stored(b)' = Stored(b)
<1> DEFINE v == appEnv[a]
           kept == IF Len(v) > MaxLag THEN SubSeq(v, 1, MaxLag) ELSE v
<1>1. /\ v \in Seq(Object) /\ Len(v) \in Nat \ {0} /\ Len(v) \in 1 .. MaxLag + 1
      /\ \A i \in DOMAIN v : Fits(a, v[i])
  BY VersionsLemma DEF AppEnvsInv
<1>2. /\ kept \in Seq(Object) /\ Len(kept) \in 0 .. MaxLag
      /\ \A i \in 1 .. Len(kept) : i \in 1 .. Len(v) /\ kept[i] = v[i]
  BY <1>1, LagAssumption
<1>3. appEnv' = [appEnv EXCEPT ![a] = Append(kept, o)]
  BY DEF WriteAppEnv
<1>4. appEnv \in [App -> Seq(Object)] /\ o \in Object
  BY DEF AppEnvsInv, Fits
<1>5. /\ appEnv'[a] = Append(kept, o) /\ Append(kept, o) \in Seq(Object)
      /\ \A b \in App \ {a} : appEnv'[b] = appEnv[b]
      /\ appEnv' \in [App -> Seq(Object)]
  <2> HIDE DEF kept
  <2> QED
    BY <1>2, <1>3, <1>4
<1>6. /\ Len(appEnv'[a]) = Len(kept) + 1 /\ appEnv'[a][Len(kept) + 1] = o
      /\ DOMAIN appEnv'[a] = 1 .. Len(kept) + 1
      /\ \A i \in 1 .. Len(kept) : appEnv'[a][i] = kept[i]
  <2> HIDE DEF kept
  <2> QED
    BY <1>2, <1>4, <1>5
<1>7. Stored(a)' = o /\ \A b \in App \ {a} : Stored(b)' = Stored(b)
  BY <1>5, <1>6 DEF Stored, Latest
<1>8. \A i \in DOMAIN appEnv'[a] : \/ appEnv'[a][i] = o
                                   \/ \E j \in DOMAIN v : appEnv'[a][i] = v[j]
  <2> HIDE DEF kept
  <2> QED
    BY <1>1, <1>2, <1>6
<1>9. AppEnvsInv'
  <2> HIDE DEF kept
  <2>1. Len(appEnv'[a]) \in 1 .. MaxLag + 1
    BY <1>2, <1>6, LagAssumption
  <2>2. \A i \in DOMAIN appEnv'[a] : Fits(a, appEnv'[a][i])
    BY <1>1, <1>8
  <2> QED
    BY <1>5, <2>1, <2>2 DEF AppEnvsInv, Fits
<1>10. PresenceInv'
  <2>1. \A i \in DOMAIN appEnv'[a] : appEnv'[a][i].present => o.present
    BY <1>8 DEF PresenceInv
  <2> QED
    BY <1>5, <1>7, <2>1 DEF PresenceInv
<1> QED
  BY <1>5, <1>7, <1>9, <1>10

\* What a patch makes of an AppEnv is one, when the patch takes no variables away.
LEMMA MergedFits ==
    ASSUME NEW a \in App, NEW s, NEW base, NEW new, Fits(a, s), s.present, Fits(a, new),
           new.env # base.env => new.present
    PROVE  Fits(a, Merged(s, base, new)) /\ Merged(s, base, new).present
BY DEF Fits, Merged, Object

\* The values of env2 that have to be applied are among those of env1.
NoNews(a, env1, env2) ==
    \A v \in OnChange[a] \cap DOMAIN env2 :
        env2[v].status \in {"own", "synced"} => v \in DOMAIN env1 /\ env1[v] = env2[v]

\* Where nothing happens to an application and its AppEnv, its values arrive.
LEMMA AppliedToKept ==
    ASSUME NEW a \in App, AppliedTo(a), Stored(a)' = Stored(a),
           op'[a] = op[a], am'[a] = am[a], deployed'[a] = deployed[a],
           wk' = wk \/ wk'.pc # "mark" \/ wk'.app # a, a \notin blind' => a \notin blind
    PROVE  AppliedTo(a)'
BY DEF AppliedTo, Knows, Arrives, Marks, Differs

\* Leases and batches alone decide, as long as the controller does not pass them.
LEMMA LeaseKept ==
    ASSUME LeaseInv, UNCHANGED <<lease, batch>>, wk' = wk \/ wk'.pc # "trigger"
    PROVE  LeaseInv'
BY DEF LeaseInv, Holds

\* A patch keeps the types, and changes one AppEnv and its operation only.
LEMMA PatchTypes ==
    ASSUME AppEnvsInv, PresenceInv, OpsInv, NEW a \in App, NEW base, NEW new,
           Fits(a, new), new.env # base.env => new.present,
           PatchAppEnv(a, base, new), UNCHANGED <<am, deployed>>
    PROVE  /\ AppEnvsInv' /\ PresenceInv' /\ OpsInv'
           /\ Stored(a)' = Merged(Stored(a), base, new) /\ Stored(a).present /\ Stored(a)'.present
           /\ op'[a].pc = op[a].pc /\ op'[a].values = op[a].values /\ op'[a].fresh = FALSE
           /\ \A b \in App \ {a} : Stored(b)' = Stored(b) /\ op'[b] = op[b]
<1> DEFINE object == Merged(Stored(a), base, new)
<1>1. Stored(a).present /\ WriteAppEnv(a, object) /\ Outdate(a)
  BY DEF PatchAppEnv
<1>2. Fits(a, Stored(a))
  BY VersionsLemma
<1>3. Fits(a, object) /\ object.present
  BY <1>1, <1>2, MergedFits
<1>4. /\ AppEnvsInv' /\ PresenceInv' /\ Stored(a)' = object
      /\ \A b \in App \ {a} : Stored(b)' = Stored(b)
  <2> HIDE DEF object
  <2> QED
    BY <1>1, <1>3, WriteLemma
<1>5. /\ op' = [op EXCEPT ![a].fresh = FALSE] /\ op = [b \in App |-> op[b]]
      /\ \A b \in App : op[b] \in [pc : {"none", "get", "update", "upgrade"}, values : {op[b].values},
                                   fresh : BOOLEAN]
  BY <1>1 DEF Outdate, OpsInv
<1>6. /\ op'[a] = [op[a] EXCEPT !.fresh = FALSE] /\ \A b \in App \ {a} : op'[b] = op[b]
      /\ op' = [b \in App |-> op'[b]]
  BY <1>5
<1>7. op'[a] = [pc |-> op[a].pc, values |-> op[a].values, fresh |-> FALSE]
  BY <1>5, <1>6
<1>8. OpsInv'
  <2>1. /\ am' \in [App -> State \cup {NoState}] /\ deployed' = [b \in App |-> deployed'[b]]
    BY DEF OpsInv
  <2>2. ASSUME NEW b \in App
        PROVE  /\ op'[b] \in [pc : {"none", "get", "update", "upgrade"}, values : {op'[b].values},
                               fresh : BOOLEAN]
               /\ op'[b].pc = "none" => op'[b] = NoOp
               /\ op'[b].pc # "none" => am'[b] \in {"installing", "upgrading", "applyingEnv"}
    <3>1. CASE b = a
      <4>1. op[a].pc = "none" => op[a].values = <<>>
        BY DEF OpsInv, NoOp
      <4> QED
        BY <1>5, <1>7, <3>1, <4>1 DEF OpsInv, NoOp
    <3>2. CASE b # a
      BY <1>6, <3>2 DEF OpsInv
    <3> QED
      BY <3>1, <3>2
  <2> QED
    BY <1>6, <2>1, <2>2 DEF OpsInv
<1> QED
  BY <1>1, <1>3, <1>4, <1>6, <1>7, <1>8

\* Values still arrive after a step that brings no news.
LEMMA ArrivesKept ==
    ASSUME NEW a \in App, Arrives(a), NoNews(a, Stored(a).env, Stored(a)'.env),
           op'[a].pc = op[a].pc, op'[a].values = op[a].values, UNCHANGED <<am, deployed>>
    PROVE  Arrives(a)'
<1>1. ASSUME ~Differs(a, deployed[a])
      PROVE  ~Differs(a, deployed[a])'
  BY <1>1 DEF Differs, NoNews
<1>2. ASSUME ~Differs(a, op[a].values)
      PROVE  ~Differs(a, op[a].values)'
  BY <1>2 DEF Differs, NoNews
<1> QED
  BY <1>1, <1>2 DEF Arrives

\* A patch that misses no edit keeps NeedApply for what does not arrive.
LEMMA PatchApplied ==
    ASSUME AppEnvsInv, PresenceInv, OpsInv, AppliedInv, NEW a \in App, NEW base, NEW new,
           Fits(a, new), new.env # base.env => new.present,
           PatchAppEnv(a, base, new), UNCHANGED <<am, deployed>>,
           wk' = wk \/ wk'.pc # "mark",
           \/ Misses(Stored(a), base, new)
           \/ Stored(a)'.need
           \/ Stored(a)'.need = Stored(a).need /\ NoNews(a, Stored(a).env, Stored(a)'.env)
    PROVE  AppliedInv'
<1>1. /\ Stored(a)' = Merged(Stored(a), base, new) /\ Stored(a).present
      /\ op'[a].pc = op[a].pc /\ op'[a].values = op[a].values /\ op'[a].fresh = FALSE
      /\ \A b \in App \ {a} : Stored(b)' = Stored(b) /\ op'[b] = op[b]
  BY ZenonT(60), PatchTypes
<1>2. blind' = IF Misses(Stored(a), base, new) \/ Restores(a, Merged(Stored(a), base, new).env)
               THEN blind \cup {a} ELSE blind
  BY DEF PatchAppEnv
<1>3. ASSUME NEW b \in App \ {a}
      PROVE  AppliedTo(b)'
  BY <1>1, <1>2, AppliedToKept DEF AppliedInv
<1>4. AppliedTo(a)'
  <2>1. Knows(a)'
    BY <1>1 DEF Knows
  <2>2. ASSUME a \notin blind'
        PROVE  (Stored(a)'.need \/ Arrives(a)') /\ Marks(a)'
    <3>1. /\ a \notin blind /\ ~Misses(Stored(a), base, new)
          /\ ~Restores(a, Stored(a)'.env)
      BY <1>1, <1>2, <2>2
    <3>2. (Stored(a).need \/ Arrives(a)) /\ Marks(a)
      BY <1>1, <3>1 DEF AppliedInv, AppliedTo
    <3>3. Stored(a)'.need \/ Arrives(a)'
      BY <1>1, <3>1, <3>2, ArrivesKept
    <3>4. Marks(a)'
      <4>1. SUFFICES ASSUME wk'.pc = "mark", wk'.app = a, Stored(a)'.env = wk'.obj.env
                     PROVE  Arrives(a)'
        BY DEF Marks
      <4>2. wk' = wk
        BY <4>1
      <4>3. Stored(a).env = Stored(a)'.env /\ Arrives(a)
        BY <3>1, <3>2, <4>1, <4>2 DEF Restores, Marks
      <4>4. NoNews(a, Stored(a).env, Stored(a)'.env)
        BY <4>3 DEF NoNews
      <4> QED
        BY <1>1, <4>3, <4>4, ArrivesKept
    <3> QED
      BY <3>3, <3>4
  <2> QED
    BY <2>1, <2>2 DEF AppliedTo
<1> QED
  BY <1>3, <1>4 DEF AppliedInv

-----------------------------------------------------------------------------
(***************************************************************************)
(* Steps that leave the AppEnvs and the operations alone.                  *)
(***************************************************************************)
\* What the AppEnvs, the operations and their worker are is a matter of these
\* variables.
LEMMA AppsKept ==
    ASSUME AppEnvsInv, PresenceInv, OpsInv, AppliedInv, UNCHANGED <<appEnv, op, am, deployed, blind>>,
           wk' = wk \/ wk'.pc # "mark"
    PROVE  AppEnvsInv' /\ PresenceInv' /\ OpsInv' /\ AppliedInv'
<1>1. AppEnvsInv' /\ PresenceInv' /\ OpsInv'
  BY DEF AppEnvsInv, PresenceInv, OpsInv, Stored, Latest, Fits
<1>2. ASSUME NEW a \in App
      PROVE  AppliedTo(a)'
  <2>1. Stored(a)' = Stored(a)
    BY DEF Stored
  <2> QED
    BY <2>1, AppliedToKept DEF AppliedInv
<1> QED
  BY <1>1, <1>2 DEF AppliedInv

\* The worker of AppEnvs alone.
LEMMA WorkersKept ==
    ASSUME WorkersInv, UNCHANGED <<appQueue, wk>>
    PROVE  WorkersInv'
BY DEF WorkersInv, IsWorker, Fits

\* The batches alone.
LEMMA BatchesKept ==
    ASSUME BatchesInv, UNCHANGED <<lease, batch>>
    PROVE  BatchesInv'
BY DEF BatchesInv

\* The sources alone.
LEMMA SourcesKept ==
    ASSUME SourcesInv, UNCHANGED <<sources, annotator>>
    PROVE  SourcesInv'
BY DEF SourcesInv, sources

\* A source is written with values of its type.
LEMMA WriteSourceTypes ==
    ASSUME SourcesInv, NEW s \in Source, NEW spec \in SourceSpec, WriteSource(s, spec),
           UNCHANGED annotator
    PROVE  SourcesInv'
BY DEF SourcesInv, WriteSource

\* The same of a value that a request sets.
LEMMA SetValueTypes ==
    ASSUME SourcesInv, NEW s \in Source, NEW value \in Value \cup {Empty}, SetValue(s, value),
           UNCHANGED annotator
    PROVE  SourcesInv'
<1>1. CASE UNCHANGED sources
  BY <1>1, SourcesKept
<1>2. CASE WriteSource(s, [src[s] EXCEPT !.value = value])
  <2>1. [src[s] EXCEPT !.value = value] \in SourceSpec
    BY DEF SourcesInv, SourceSpec
  <2> QED
    BY <1>2, <2>1, WriteSourceTypes
<1> QED
  BY <1>1, <1>2 DEF SetValue

\* Requests on sources, and their controllers.
LEMMA SourceSteps ==
    ASSUME IInv, NEW s \in Source, SourceNext(s)
    PROVE  IInv'
<1> USE DEF IInv, TypeInv
<1>1. UNCHANGED <<appEnv, appQueue, wk, lease, batch, am, op, deployed, blind>>
  BY DEF SourceNext, CreateEnv, UpdateEnv, DeleteEnv, ReconcileSource, workers, helm, clients
<1>2. SourcesInv'
  <2>1. ASSUME NEW v \in Edit, CreateEnv(s, v)
        PROVE  SourcesInv'
    <3>1. [Spec0 EXCEPT !.value = v] \in SourceSpec
      BY SourceAssumption DEF Spec0, SourceSpec
    <3> QED
      BY <2>1, <3>1, WriteSourceTypes DEF CreateEnv, workers
  <2>2. ASSUME NEW v \in Edit, UpdateEnv(s, v)
        PROVE  SourcesInv'
    BY <2>2, SetValueTypes, SourceAssumption DEF UpdateEnv, workers
  <2>3. CASE DeleteEnv(s)
    <3>1. Spec0 \in SourceSpec
      BY DEF Spec0, SourceSpec
    <3> QED
      BY <2>3, <3>1, WriteSourceTypes DEF DeleteEnv, workers
  <2>4. CASE ReconcileSource(s)
    <3>1. References(s) \subseteq App /\ KindOf(s) \in Kinds
      BY DEF References, KindOf, Kinds
    <3> QED
      BY <2>4, <3>1 DEF ReconcileSource, SourcesInv
  <2> QED
    BY <2>1, <2>2, <2>3, <2>4 DEF SourceNext
<1> QED
  BY <1>1, <1>2, AppsKept, WorkersKept, BatchesKept, LeaseKept

\* The end of a lease is the end of what its batches have to themselves.
LEMMA ExpireLeaseStep ==
    ASSUME IInv, NEW u \in User, ExpireLease(u)
    PROVE  IInv'
<1> USE DEF IInv, TypeInv
<1>1. UNCHANGED <<src, srcQueue, annotator, appEnv, appQueue, wk, am, op, deployed, blind>>
  BY DEF ExpireLease, sources, workers, helm
<1>2. /\ lease' = [lease EXCEPT ![u] = "expired"]
      /\ batch' = [h \in Handler |-> IF batch[h].user = u THEN [batch[h] EXCEPT !.safe = FALSE] ELSE batch[h]]
  BY DEF ExpireLease
<1>3. \A h \in Handler : /\ batch'[h].user = batch[h].user /\ batch'[h].todo = batch[h].todo
                         /\ batch'[h].locks = batch[h].locks
                         /\ batch'[h].safe = (batch[h].safe /\ batch[h].user # u)
  BY <1>2 DEF BatchesInv
<1>4. BatchesInv'
  BY <1>2, <1>3 DEF BatchesInv
<1>5. LeaseInv'
  BY <1>1, <1>2, <1>3 DEF LeaseInv, Holds, BatchesInv
<1> QED
  BY <1>1, <1>4, <1>5, AppsKept, WorkersKept, SourcesKept DEF sources

\* A batch begins.
LEMMA StartBatchStep ==
    ASSUME IInv, NEW u \in User, NEW h \in Handler, NEW value \in Edit,
           NEW names \in SUBSET {s[2] : s \in {t \in Source : t[1] = u}},
           StartBatch(h, u, names, value)
    PROVE  IInv'
<1> USE DEF IInv, TypeInv
<1>1. UNCHANGED <<src, srcQueue, annotator, appEnv, appQueue, wk, am, op, deployed, blind>>
  BY DEF StartBatch, sources, workers, helm
<1>2. PICK locks \in BOOLEAN :
         /\ batch' = [g \in Handler |->
                       IF g = h THEN [user |-> u, todo |-> names, value |-> value,
                                      locks |-> locks, safe |-> BatchesOf(u) = {} /\ ~Passed(u)]
                       ELSE IF batch[g].user = u THEN [batch[g] EXCEPT !.safe = FALSE]
                       ELSE batch[g]]
         /\ IF locks THEN lease' = [lease EXCEPT ![u] = "held"] ELSE UNCHANGED lease
  BY DEF StartBatch, acquireUserEnvBatchLease
<1>3. names \in SUBSET Name /\ \A n \in names : <<u, n>> \in Source
  BY SourceAssumption
<1>4. /\ batch'[h].user = u /\ batch'[h].todo = names /\ batch'[h].value = value
      /\ batch'[h].locks = locks /\ batch'[h].safe = (BatchesOf(u) = {} /\ ~Passed(u))
  BY <1>2
<1>5. \A g \in Handler \ {h} :
         /\ batch'[g].user = batch[g].user /\ batch'[g].todo = batch[g].todo
         /\ batch'[g].locks = batch[g].locks
         /\ batch'[g].safe = (batch[g].safe /\ batch[g].user # u)
  BY <1>2 DEF BatchesInv
<1>6. BatchesInv'
  <2>1. lease' \in [User -> {"free", "held", "expired"}]
    BY <1>2 DEF BatchesInv
  <2>2. ASSUME NEW g \in Handler
        PROVE  batch'[g] \in [user : User \cup {None}, todo : SUBSET Name, value : Value \cup {Empty},
                              locks : BOOLEAN, safe : BOOLEAN]
    <3>1. CASE g = h
      BY <1>2, <1>3, <3>1, SourceAssumption
    <3>2. CASE g # h
      BY <1>2, <3>2 DEF BatchesInv
    <3> QED
      BY <3>1, <3>2
  <2>3. batch' \in [Handler -> [user : User \cup {None}, todo : SUBSET Name, value : Value \cup {Empty},
                                locks : BOOLEAN, safe : BOOLEAN]]
    BY <1>2, <2>2
  <2> QED
    BY <1>3, <1>4, <1>5, <2>1, <2>3 DEF BatchesInv
<1>7. LeaseInv'
  <2>1. batch'[h].safe => \A g \in Handler : batch[g].user # u
    BY <1>4 DEF BatchesOf
  <2>2. ASSUME NEW g \in Handler, batch'[g].safe
        PROVE  /\ batch'[g].user \in User
               /\ \A f \in Handler \ {g} : batch'[f].user # batch'[g].user
    <3>1. CASE g = h
      BY <1>4, <1>5, <2>1, <2>2, <3>1
    <3>2. CASE g # h
      <4>1. batch[g].safe /\ batch[g].user # u /\ batch'[g].user = batch[g].user
        BY <1>5, <2>2, <3>2
      <4>2. batch[g].user \in User /\ \A f \in Handler \ {g} : batch[f].user # batch[g].user
        BY <4>1 DEF LeaseInv
      <4>3. ASSUME NEW f \in Handler \ {g}
            PROVE  batch'[f].user # batch'[g].user
        BY <1>4, <1>5, <4>1, <4>2
      <4> QED
        BY <4>1, <4>2, <4>3
    <3> QED
      BY <3>1, <3>2
  <2>3. ASSUME NEW g \in Handler, Holds(g)'
        PROVE  lease'[batch'[g].user] = "held"
    <3>1. CASE g = h
      BY <1>2, <1>4, <2>3, <3>1 DEF Holds, BatchesInv
    <3>2. CASE g # h
      <4>1. Holds(g) /\ batch[g].user # u /\ batch'[g].user = batch[g].user
        BY <1>5, <2>3, <3>2 DEF Holds
      <4>2. lease[batch[g].user] = "held" /\ batch[g].user \in User
        BY <4>1 DEF LeaseInv, Holds
      <4>3. lease'[batch[g].user] = lease[batch[g].user]
        BY <1>2, <4>1, <4>2 DEF BatchesInv
      <4> QED
        BY <4>1, <4>2, <4>3
    <3> QED
      BY <3>1, <3>2
  <2>4. wk'.pc = "trigger" => ~\E g \in Handler : Holds(g)' /\ batch'[g].user = Owner[wk'.app]
    BY ZenonT(40), <1>1, <1>4, <1>5 DEF LeaseInv, Holds, Passed
  <2> QED
    BY <2>2, <2>3, <2>4 DEF LeaseInv
<1> QED
  BY <1>1, <1>6, <1>7, AppsKept, WorkersKept, SourcesKept DEF sources

\* A batch that ends takes the lease of its user away from no other that holds it.
LEMMA EndBatchLemma ==
    ASSUME BatchesInv, LeaseInv, NEW h \in Handler, batch[h].user # None, EndBatch(h), UNCHANGED wk
    PROVE  BatchesInv' /\ LeaseInv'
<1>1. batch' = [batch EXCEPT ![h] = IdleBatch] /\ batch[h].user \in User
  BY DEF EndBatch, BatchesInv
<1>2. /\ batch'[h] = IdleBatch /\ ~IdleBatch.safe /\ IdleBatch.user = None /\ ~IdleBatch.locks
      /\ \A g \in Handler \ {h} : batch'[g] = batch[g]
  BY <1>1 DEF BatchesInv, IdleBatch
<1>3. lease' = lease \/ lease' = [lease EXCEPT ![batch[h].user] = "free"]
  BY DEF EndBatch, releaseLease
<1>4. BatchesInv'
  <2>1. lease' \in [User -> {"free", "held", "expired"}]
    BY <1>1, <1>3 DEF BatchesInv
  <2>2. IdleBatch \in [user : User \cup {None}, todo : SUBSET Name, value : Value \cup {Empty},
                       locks : BOOLEAN, safe : BOOLEAN]
    BY DEF IdleBatch
  <2> QED
    BY <1>1, <1>2, <2>1, <2>2 DEF BatchesInv
<1>5. LeaseInv'
  <2>1. ASSUME NEW g \in Handler, batch'[g].safe
        PROVE  /\ g # h /\ batch[g].safe /\ batch'[g] = batch[g] /\ batch[g].user \in User
               /\ \A f \in Handler \ {g} : batch[f].user # batch[g].user
    BY <1>2, <2>1 DEF LeaseInv
  <2>2. ASSUME NEW g \in Handler, batch'[g].safe
        PROVE  /\ batch'[g].user \in User
               /\ \A f \in Handler \ {g} : batch'[f].user # batch'[g].user
    BY <1>2, <2>1, <2>2, SourceAssumption
  <2>3. ASSUME NEW g \in Handler, Holds(g)'
        PROVE  lease'[batch'[g].user] = "held"
    <3>1. g # h /\ batch'[g] = batch[g] /\ batch[g].user \in User /\ batch[h].user # batch[g].user
      BY <2>1, <2>3 DEF Holds
    <3>2. lease[batch[g].user] = "held"
      BY <2>3, <3>1 DEF LeaseInv, Holds
    <3> QED
      BY <1>3, <3>1, <3>2 DEF BatchesInv
  <2>4. wk'.pc = "trigger" => ~\E g \in Handler : Holds(g)' /\ batch'[g].user = Owner[wk'.app]
    BY <1>2 DEF LeaseInv, Holds
  <2> QED
    BY <2>2, <2>3, <2>4 DEF LeaseInv
<1> QED
  BY <1>4, <1>5

\* An iteration of a batch.
LEMMA BatchSteps ==
    ASSUME IInv, NEW h \in Handler, BatchStep(h)
    PROVE  IInv'
<1> USE DEF IInv, TypeInv
<1>1. UNCHANGED <<annotator, appEnv, appQueue, wk, am, op, deployed, blind>> /\ batch[h].user # None
  BY DEF BatchStep, workers, helm
<1>2. CASE /\ EndBatch(h)
           /\ \/ UNCHANGED sources
              \/ \E n \in batch[h].todo : SetValue(<<batch[h].user, n>>, batch[h].value)
  <2>1. SourcesInv'
    <3>1. ASSUME NEW n \in batch[h].todo, SetValue(<<batch[h].user, n>>, batch[h].value)
          PROVE  SourcesInv'
      <4>1. <<batch[h].user, n>> \in Source /\ batch[h].value \in Value \cup {Empty}
        BY <1>1 DEF BatchesInv
      <4> QED
        BY <1>1, <3>1, <4>1, SetValueTypes
    <3> QED
      BY <1>1, <1>2, <3>1, SourcesKept
  <2> QED
    BY <1>1, <1>2, <2>1, AppsKept, WorkersKept, EndBatchLemma
<1>3. ASSUME NEW n \in batch[h].todo, SetValue(<<batch[h].user, n>>, batch[h].value),
             batch' = [batch EXCEPT ![h].todo = @ \ {n}], UNCHANGED lease
      PROVE  IInv'
  <2>1. <<batch[h].user, n>> \in Source /\ batch[h].value \in Value \cup {Empty}
    BY <1>1 DEF BatchesInv
  <2>2. SourcesInv'
    BY <1>1, <1>3, <2>1, SetValueTypes
  <2>3. \A g \in Handler : /\ batch'[g].user = batch[g].user /\ batch'[g].todo \subseteq batch[g].todo
                           /\ batch'[g].locks = batch[g].locks /\ batch'[g].safe = batch[g].safe
    BY <1>3 DEF BatchesInv
  <2>4. BatchesInv'
    BY <1>3, <2>3 DEF BatchesInv
  <2>5. LeaseInv'
    BY <1>1, <1>3, <2>3 DEF LeaseInv, Holds
  <2> QED
    BY <1>1, <2>2, <2>4, <2>5, AppsKept, WorkersKept
<1> QED
  BY <1>2, <1>3 DEF BatchStep

-----------------------------------------------------------------------------
(***************************************************************************)
(* Requests on an application.                                             *)
(***************************************************************************)
\* An operation that has begun is yet to read the values.
LEMMA StartTypes ==
    ASSUME OpsInv, NEW a \in App, StartOp(a), UNCHANGED deployed,
           NEW st \in {"installing", "upgrading", "applyingEnv"}, am' = [am EXCEPT ![a] = st]
    PROVE  /\ OpsInv' /\ op'[a].pc = "get" /\ ~op'[a].fresh
           /\ \A b \in App \ {a} : op'[b] = op[b] /\ am'[b] = am[b]
<1>1. /\ op' = [op EXCEPT ![a] = [pc |-> "get", values |-> <<>>, fresh |-> FALSE]]
      /\ op = [b \in App |-> op[b]]
  BY DEF StartOp, OpsInv
<1>2. /\ op'[a] = [pc |-> "get", values |-> <<>>, fresh |-> FALSE]
      /\ op' = [b \in App |-> op'[b]] /\ \A b \in App \ {a} : op'[b] = op[b]
  BY <1>1
<1>3. /\ am' \in [App -> State \cup {NoState}] /\ am'[a] = st
      /\ \A b \in App \ {a} : am'[b] = am[b]
  BY DEF OpsInv, State
<1>4. OpsInv'
  <2>1. ASSUME NEW b \in App
        PROVE  /\ op'[b] \in [pc : {"none", "get", "update", "upgrade"}, values : {op'[b].values},
                               fresh : BOOLEAN]
               /\ op'[b].pc = "none" => op'[b] = NoOp
               /\ op'[b].pc # "none" => am'[b] \in {"installing", "upgrading", "applyingEnv"}
    <3>1. CASE b = a
      <4>1. op'[b].pc = "get" /\ op'[b].values = <<>> /\ op'[b].fresh = FALSE
        BY <1>2, <3>1
      <4>2. op'[b] = [pc |-> op'[b].pc, values |-> op'[b].values, fresh |-> op'[b].fresh]
        BY <1>2, <3>1
      <4> HIDE <1>2
      <4> QED
        BY <1>3, <3>1, <4>1, <4>2
    <3>2. CASE b # a
      BY <1>2, <1>3, <3>2 DEF OpsInv
    <3> QED
      BY <3>1, <3>2
  <2> QED
    BY <1>2, <1>3, <2>1 DEF OpsInv
<1> QED
  BY <1>2, <1>3, <1>4

\* Whatever else the step does to the AppEnv, its values are to be read.
LEMMA StartApplied ==
    ASSUME AppliedInv, NEW a \in App, op'[a].pc = "get", UNCHANGED deployed,
           \A b \in App \ {a} : Stored(b)' = Stored(b) /\ op'[b] = op[b] /\ am'[b] = am[b],
           wk' = wk \/ wk'.pc # "mark" \/ wk'.app = a, blind' = blind \/ blind' = blind \cup {a}
    PROVE  AppliedInv'
<1>1. ASSUME NEW b \in App \ {a}
      PROVE  AppliedTo(b)'
  BY AppliedToKept DEF AppliedInv
<1>2. AppliedTo(a)'
  BY DEF AppliedTo, Knows, Arrives, Marks
<1> QED
  BY <1>1, <1>2 DEF AppliedInv

\* The variables that a request declares are those of an AppEnv.
LEMMA DeclaredFits ==
    ASSUME NEW a \in App, NEW names \in SUBSET Name, names \subseteq Vars(a)
    PROVE  LET o == [NoEnv EXCEPT !.env = Declared(names), !.present = TRUE] IN
           Fits(a, o) /\ o.present
<1>1. Declared(names) \in [names \cup {Own} -> Content]
  BY DEF Declared, Content, Pending
<1>2. Declared(names) \in Env /\ DOMAIN Declared(names) = names \cup {Own}
  BY <1>1, EnvIsMap
<1> QED
  BY <1>2 DEF Fits, NoEnv, Object, Vars

\* What an installation or an upgrade makes of the AppEnv.
LEMMA ApplyAppEnvTypes ==
    ASSUME AppEnvsInv, PresenceInv, NEW a \in App, NEW names \in SUBSET Name, names \subseteq Vars(a),
           ApplyAppEnv(a, names)
    PROVE  /\ AppEnvsInv' /\ PresenceInv' /\ \A b \in App \ {a} : Stored(b)' = Stored(b)
           /\ blind' = blind \/ blind' = blind \cup {a}
<1> DEFINE base == Cached(a)
           added == names \ DOMAIN base.env
           new == [base EXCEPT !.env = [v \in DOMAIN @ \cup added |->
                                          IF v \in added THEN Pending ELSE base.env[v]]]
<1>1. Fits(a, base) /\ Fits(a, Stored(a)) /\ (base.present => Stored(a).present)
  <2>1. 1 \in DOMAIN appEnv[a]
    BY VersionsLemma
  <2> QED
    BY <2>1, VersionsLemma DEF PresenceInv
<1>2. CASE ~base.present
  <2> DEFINE o == [NoEnv EXCEPT !.env = Declared(names), !.present = TRUE]
  <2>1. Fits(a, o) /\ o.present
    BY DeclaredFits
  <2>2. WriteAppEnv(a, o) /\ UNCHANGED blind
    BY <1>2 DEF ApplyAppEnv
  <2> QED
    BY <2>1, <2>2, WriteLemma
<1>3. CASE base.present /\ added = {}
  BY <1>3 DEF ApplyAppEnv, AppEnvsInv, PresenceInv, Stored, Latest, Fits
<1>4. CASE base.present /\ added # {}
  <2>1. Fits(a, new) /\ new.present
    <3>1. base.env \in [DOMAIN base.env -> Content] /\ DOMAIN base.env \in SUBSET (Name \cup {Own})
      BY <1>1, MapOfEnv DEF Fits, Object
    <3>2. new.env \in [DOMAIN base.env \cup added -> Content]
      <4> DEFINE env == [v \in DOMAIN base.env \cup added |->
                           IF v \in added THEN Pending ELSE base.env[v]]
      <4>1. Pending \in Content
        BY DEF Content, Pending
      <4>2. env \in [DOMAIN base.env \cup added -> Content]
        BY <3>1, <4>1
      <4>3. new.env = env
        BY <1>1 DEF Fits, Object
      <4> QED
        BY <4>2, <4>3
    <3>3. new.env \in Env /\ DOMAIN new.env = DOMAIN base.env \cup added
      <4> HIDE DEF new
      <4> QED
        BY <3>1, <3>2, EnvIsMap
    <3>4. /\ new = [env |-> new.env, need |-> base.need, sync |-> base.sync, present |-> base.present]
          /\ {base.need, base.sync, base.present} \subseteq BOOLEAN
      BY <1>1 DEF Fits, Object
    <3> HIDE DEF new, added
    <3>5. new.present = base.present /\ new \in Object
      BY <3>3, <3>4 DEF Object
    <3>6. DOMAIN new.env \subseteq Vars(a) /\ DOMAIN new.env # {}
      BY <1>1, <1>4, <3>3 DEF Fits, added
    <3> QED
      BY <1>4, <3>5, <3>6 DEF Fits
  <2>2. /\ WriteAppEnv(a, Merged(Stored(a), base, new))
        /\ blind' = blind \/ blind' = blind \cup {a}
    BY <1>4 DEF ApplyAppEnv
  <2>3. Fits(a, Merged(Stored(a), base, new)) /\ Merged(Stored(a), base, new).present
    <3> HIDE DEF new
    <3> QED
      BY <1>1, <1>4, <2>1, MergedFits
  <2> HIDE DEF new
  <2> QED
    BY <2>2, <2>3, WriteLemma
<1> QED
  BY <1>2, <1>3, <1>4

\* The user's own variable is edited.
LEMMA UpdateAppEnvStep ==
    ASSUME IInv, NEW a \in App, NEW value \in Edit, updateAppEnv(a, value)
    PROVE  IInv'
<1> USE DEF IInv, TypeInv
<1> DEFINE base == Cached(a)
           new == [base EXCEPT !.env[Own].value = value, !.need = @ \/ Own \in OnChange[a]]
<1>1. /\ PatchAppEnv(a, base, new) /\ base.present /\ base.env[Own].value # value
      /\ UNCHANGED <<sources, annotator, appQueue, wk, lease, batch, am, deployed>>
  BY DEF updateAppEnv, workers
<1>2. Fits(a, base) /\ Fits(a, Stored(a))
  BY VersionsLemma
<1>3. base.env \in [DOMAIN base.env -> Content] /\ DOMAIN base.env \in SUBSET (Name \cup {Own})
  BY <1>2, MapOfEnv DEF Fits, Object
<1> DEFINE env == [base.env EXCEPT ![Own].value = value]
           need == base.need \/ Own \in OnChange[a]
<1>4. /\ new = [env |-> env, need |-> need, sync |-> base.sync, present |-> base.present]
      /\ base.need \in BOOLEAN /\ base.sync \in BOOLEAN /\ base.present \in BOOLEAN
  <2> DEFINE edited == [base EXCEPT !.env[Own].value = value]
  <2>1. base \in [env : Env, need : BOOLEAN, sync : BOOLEAN, present : BOOLEAN]
    BY <1>2 DEF Fits, Object
  <2>2. edited = [env |-> env, need |-> base.need, sync |-> base.sync, present |-> base.present]
    BY <2>1
  <2>3. new = [edited EXCEPT !.need = need]
    <3>1. edited.need = base.need
      BY <2>2
    <3> QED
      BY <2>1, <3>1
  <2> QED
    <3> HIDE DEF edited, need, env, new
    <3> QED
      BY <2>1, <2>2, <2>3
<1>5. /\ env \in [DOMAIN base.env -> Content]
      /\ \A v \in DOMAIN base.env \ {Own} : env[v] = base.env[v]
  <2>1. ASSUME Own \in DOMAIN base.env
        PROVE  [base.env[Own] EXCEPT !.value = value] \in Content
    BY <1>3, <2>1, SourceAssumption DEF Content
  <2> QED
    BY <1>3, <2>1
<1> HIDE DEF env, need
<1>6. Fits(a, new) /\ new.present
  <2>1. env \in Env /\ DOMAIN env = DOMAIN base.env
    BY <1>3, <1>5, EnvIsMap
  <2>2. need \in BOOLEAN
    BY DEF need
  <2>3. new \in Object /\ new.present /\ new.env = env
    BY <1>1, <1>4, <2>1, <2>2 DEF Object
  <2> QED
    BY <1>2, <2>1, <2>3 DEF Fits
<1> HIDE DEF new
<1>7. /\ AppEnvsInv' /\ PresenceInv' /\ OpsInv' /\ Stored(a)' = Merged(Stored(a), base, new)
  BY <1>1, <1>6, PatchTypes
<1>8. ASSUME ~Misses(Stored(a), base, new)
      PROVE  \/ Stored(a)'.need
             \/ Stored(a)'.need = Stored(a).need /\ NoNews(a, Stored(a).env, Stored(a)'.env)
  <2>1. CASE Own \in OnChange[a]
    <3>1. need = TRUE
      BY <2>1 DEF need
    <3>2. new.need = TRUE
      BY <1>4, <3>1
    <3>3. base.need => Stored(a).need
      BY <1>8, <3>2 DEF Misses
    <3>4. Stored(a)'.need = IF new.need # base.need THEN new.need ELSE Stored(a).need
      BY <1>7 DEF Merged
    <3>5. Stored(a).need \in BOOLEAN
      BY <1>2 DEF Fits, Object
    <3>6. Stored(a)'.need = TRUE
      BY <1>4, <3>2, <3>3, <3>4, <3>5
    <3> QED
      BY <3>6
  <2>2. CASE Own \notin OnChange[a]
    <3>1. need = base.need
      BY <1>4, <2>2 DEF need
    <3>2. new.need = base.need /\ new.env = env
      BY <1>4, <3>1
    <3>3. Stored(a)'.need = Stored(a).need
      BY <1>7, <3>2 DEF Merged
    <3>4. Stored(a)'.env = Stored(a).env \/ (Stored(a).env = base.env /\ Stored(a)'.env = env)
      BY <1>7, <1>8, <3>2 DEF Merged, Misses
    <3>5. NoNews(a, Stored(a).env, Stored(a)'.env)
      BY <1>5, <2>2, <3>4 DEF NoNews
    <3> QED
      BY <3>3, <3>5
  <2> QED
    BY <2>1, <2>2
<1>9. AppliedInv'
  BY <1>1, <1>6, <1>8, PatchApplied
<1> QED
  BY <1>1, <1>7, <1>9, WorkersKept, BatchesKept, SourcesKept, LeaseKept

\* The requests that begin an operation.
LEMMA RequestSteps ==
    ASSUME IInv, NEW a \in App, Install(a) \/ Upgrade(a) \/ appApplyEnv(a)
    PROVE  IInv'
<1> USE DEF IInv, TypeInv
<1>1. /\ StartOp(a) /\ UNCHANGED <<sources, annotator, appQueue, wk, lease, batch, deployed>>
      /\ \E st \in {"installing", "upgrading", "applyingEnv"} : am' = [am EXCEPT ![a] = st]
  BY DEF Install, Upgrade, appApplyEnv, workers
<1>2. /\ OpsInv' /\ op'[a].pc = "get"
      /\ \A b \in App \ {a} : op'[b] = op[b] /\ am'[b] = am[b]
  BY <1>1, StartTypes
<1>3. /\ AppEnvsInv' /\ PresenceInv' /\ \A b \in App \ {a} : Stored(b)' = Stored(b)
      /\ blind' = blind \/ blind' = blind \cup {a}
  <2>1. /\ FirstRefs[a] \in SUBSET Name /\ FirstRefs[a] \subseteq Vars(a)
        /\ Refs[a] \in SUBSET Name /\ Refs[a] \subseteq Vars(a)
    BY AppAssumption DEF Vars
  <2>2. CASE Install(a)
    BY <2>1, <2>2, ApplyAppEnvTypes DEF Install
  <2>3. CASE Upgrade(a)
    BY <2>1, <2>3, ApplyAppEnvTypes DEF Upgrade
  <2>4. CASE appApplyEnv(a)
    BY <2>4 DEF appApplyEnv, AppEnvsInv, PresenceInv, Stored, Latest, Fits
  <2> QED
    BY <2>2, <2>3, <2>4
<1>4. AppliedInv'
  BY <1>1, <1>2, <1>3, StartApplied
<1> QED
  BY <1>1, <1>2, <1>3, <1>4, WorkersKept, BatchesKept, SourcesKept, LeaseKept

-----------------------------------------------------------------------------
(***************************************************************************)
(* The helm operation.                                                     *)
(***************************************************************************)
\* An operation that goes on is that of a state that asks for one.
LEMMA OpGoesOn ==
    ASSUME OpsInv, NEW a \in App, op[a].pc # "none", UNCHANGED <<am, deployed>>, NEW r,
           r \in [pc : {"update", "upgrade"}, values : {r.values}, fresh : BOOLEAN],
           op' = [op EXCEPT ![a] = r]
    PROVE  /\ OpsInv' /\ op'[a] = r /\ \A b \in App \ {a} : op'[b] = op[b]
<1>1. op = [b \in App |-> op[b]]
  BY DEF OpsInv
<1>2. op'[a] = r /\ op' = [b \in App |-> op'[b]] /\ \A b \in App \ {a} : op'[b] = op[b]
  BY <1>1
<1>3. ASSUME NEW b \in App
      PROVE  /\ op'[b] \in [pc : {"none", "get", "update", "upgrade"}, values : {op'[b].values},
                            fresh : BOOLEAN]
             /\ op'[b].pc = "none" => op'[b] = NoOp
             /\ op'[b].pc # "none" => am'[b] \in {"installing", "upgrading", "applyingEnv"}
  <2>1. CASE b = a
    BY <1>2, <2>1 DEF OpsInv
  <2>2. CASE b # a
    BY <1>2, <2>2 DEF OpsInv
  <2> QED
    BY <2>1, <2>2
<1> QED
  BY <1>2, <1>3 DEF OpsInv

\* The operation reads the values that are stored.
LEMMA AddEnvironmentVariablesStep ==
    ASSUME IInv, NEW a \in App, AddEnvironmentVariables(a)
    PROVE  IInv'
<1> USE DEF IInv, TypeInv
<1> DEFINE vals == [v \in DOMAIN Stored(a).env |-> Stored(a).env[v].value]
           next == IF Stored(a).need THEN "update" ELSE "upgrade"
           r == [pc |-> next, values |-> vals, fresh |-> TRUE]
<1>1. /\ op[a].pc = "get" /\ op' = [op EXCEPT ![a] = r]
      /\ UNCHANGED <<sources, workers, lease, batch, appEnv, am, deployed, blind>>
  BY DEF AddEnvironmentVariables, clients
<1>2. ~Differs(a, vals)
  BY DEF Differs
<1>3. next \in {"update", "upgrade"}
  OBVIOUS
<1>4. r.values = vals /\ r.pc = next /\ r \in [pc : {"update", "upgrade"}, values : {r.values}, fresh : BOOLEAN]
  <2> HIDE DEF vals, next
  <2> QED
    BY <1>3
<1> HIDE DEF vals, next, r
<1>5. OpsInv' /\ op'[a] = r /\ \A b \in App \ {a} : op'[b] = op[b]
  BY <1>1, <1>4, OpGoesOn
<1>6. \A b \in App : Stored(b)' = Stored(b)
  BY <1>1 DEF Stored
<1>7. ~Differs(a, op[a].values)'
  BY <1>2, <1>4, <1>5, <1>6 DEF Differs
<1>8. AppliedTo(a)'
  BY <1>3, <1>4, <1>5, <1>7 DEF AppliedTo, Knows, Arrives, Marks
<1>9. AppliedInv'
  <2>1. ASSUME NEW b \in App \ {a}
        PROVE  AppliedTo(b)'
    BY <1>1, <1>5, <1>6, AppliedToKept DEF AppliedInv, workers
  <2> QED
    BY <1>8, <2>1 DEF AppliedInv
<1>10. AppEnvsInv' /\ PresenceInv'
  BY <1>1 DEF AppEnvsInv, PresenceInv, Stored, Latest, Fits
<1> QED
  BY <1>1, <1>5, <1>9, <1>10, WorkersKept, BatchesKept, SourcesKept, LeaseKept DEF workers

\* The operation clears NeedApply of the version that it has read.
LEMMA ClearNeedApplyStep ==
    ASSUME IInv, NEW a \in App, ClearNeedApply(a)
    PROVE  IInv'
<1> USE DEF IInv, TypeInv
<1> DEFINE r == [pc |-> "upgrade", values |-> op[a].values, fresh |-> op[a].fresh]
           o == [Stored(a) EXCEPT !.need = FALSE]
<1>1. /\ op[a].pc = "update" /\ op' = [op EXCEPT ![a].pc = "upgrade"]
      /\ IF op[a].fresh THEN WriteAppEnv(a, o) ELSE UNCHANGED appEnv
      /\ UNCHANGED <<sources, workers, lease, batch, am, deployed, blind>>
  BY DEF ClearNeedApply, clients
<1>2. op[a] \in [pc : {"none", "get", "update", "upgrade"}, values : {op[a].values}, fresh : BOOLEAN]
  BY DEF OpsInv
<1>3. op' = [op EXCEPT ![a] = r]
  <2>1. [op[a] EXCEPT !.pc = "upgrade"] = r
    BY <1>2
  <2> HIDE DEF r
  <2> QED
    BY <1>1, <2>1
<1>4. /\ r.pc = "upgrade" /\ r.values = op[a].values
      /\ r \in [pc : {"update", "upgrade"}, values : {r.values}, fresh : BOOLEAN]
  BY <1>2
<1> HIDE DEF r
<1>5. OpsInv' /\ op'[a] = r /\ \A b \in App \ {a} : op'[b] = op[b]
  BY <1>1, <1>3, <1>4, OpGoesOn
<1>6. /\ AppEnvsInv' /\ PresenceInv' /\ Stored(a)'.env = Stored(a).env
      /\ ~op[a].fresh => Stored(a)' = Stored(a)
      /\ \A b \in App \ {a} : Stored(b)' = Stored(b)
  <2>1. CASE op[a].fresh
    <3>1. Fits(a, Stored(a))
      BY VersionsLemma
    <3>2. Fits(a, o) /\ o.env = Stored(a).env /\ o.present = Stored(a).present
      BY <3>1 DEF Fits, Object
    <3> HIDE DEF o
    <3> QED
      BY <1>1, <2>1, <3>2, WriteLemma
  <2>2. CASE ~op[a].fresh
    BY <1>1, <2>2 DEF AppEnvsInv, PresenceInv, Stored, Latest, Fits
  <2> QED
    BY <2>1, <2>2
<1>7. AppliedTo(a)'
  <2>1. Differs(a, op[a].values)' => Differs(a, op[a].values)
    BY <1>4, <1>5, <1>6 DEF Differs
  <2>2. AppliedTo(a)
    BY DEF AppliedInv
  <2>3. CASE op[a].fresh
    BY <1>1, <1>4, <1>5, <2>1, <2>2, <2>3 DEF AppliedTo, Knows, Arrives, Marks
  <2>4. CASE ~op[a].fresh
    <3>1. Arrives(a) => Arrives(a)'
      BY <1>1, <1>4, <1>5, <2>1 DEF Arrives
    <3> QED
      BY <1>1, <1>4, <1>5, <1>6, <2>2, <2>4, <3>1 DEF AppliedTo, Knows, Marks, workers
  <2> QED
    BY <2>3, <2>4
<1>8. AppliedInv'
  <2>1. ASSUME NEW b \in App \ {a}
        PROVE  AppliedTo(b)'
    BY <1>1, <1>5, <1>6, AppliedToKept DEF AppliedInv, workers
  <2> QED
    BY <1>7, <2>1 DEF AppliedInv
<1> QED
  BY <1>1, <1>5, <1>6, <1>8, WorkersKept, BatchesKept, SourcesKept, LeaseKept DEF workers

\* Steps of an application that leave its AppEnv alone.
LEMMA StoredKept ==
    ASSUME AppEnvsInv, PresenceInv, UNCHANGED appEnv
    PROVE  AppEnvsInv' /\ PresenceInv' /\ \A b \in App : Stored(b)' = Stored(b)
BY DEF AppEnvsInv, PresenceInv, Stored, Latest, Fits

\* The release has the values that the operation has read.
LEMMA ApplyEnvStep ==
    ASSUME IInv, NEW a \in App, ApplyEnv(a)
    PROVE  IInv'
<1> USE DEF IInv, TypeInv
<1>1. /\ op[a].pc = "upgrade" /\ op' = [op EXCEPT ![a] = NoOp]
      /\ UNCHANGED <<sources, workers, lease, batch, appEnv, blind>>
      /\ \/ /\ am' = [am EXCEPT ![a] = "initializing"]
            /\ deployed' = [deployed EXCEPT ![a] = op[a].values]
         \/ /\ am' = [am EXCEPT ![a] = FailedState(@)]
            /\ UNCHANGED deployed
  BY DEF ApplyEnv, clients
<1>2. op = [b \in App |-> op[b]] /\ deployed = [b \in App |-> deployed[b]] /\ am \in [App -> State \cup {NoState}]
  BY DEF OpsInv
<1>3. am[a] \in {"installing", "upgrading", "applyingEnv"}
  BY <1>1 DEF OpsInv
<1>4. FailedState(am[a]) \in {"installFailed", "upgradeFailed", "applyEnvFailed"}
  BY <1>3 DEF FailedState
<1>5. /\ op'[a] = NoOp /\ op' = [b \in App |-> op'[b]] /\ deployed' = [b \in App |-> deployed'[b]]
      /\ am' \in [App -> State \cup {NoState}]
      /\ \A b \in App \ {a} : op'[b] = op[b] /\ am'[b] = am[b] /\ deployed'[b] = deployed[b]
      /\ am'[a] \in {"installFailed", "upgradeFailed", "applyEnvFailed"} \/ deployed'[a] = op[a].values
  BY <1>1, <1>2, <1>4 DEF State
<1>6. OpsInv'
  <2>1. ASSUME NEW b \in App
        PROVE  /\ op'[b] \in [pc : {"none", "get", "update", "upgrade"}, values : {op'[b].values},
                              fresh : BOOLEAN]
               /\ op'[b].pc = "none" => op'[b] = NoOp
               /\ op'[b].pc # "none" => am'[b] \in {"installing", "upgrading", "applyingEnv"}
    <3>1. CASE b = a
      <4>1. op'[b] = NoOp
        BY <1>5, <3>1
      <4>2. NoOp.pc = "none" /\ NoOp \in [pc : {"none", "get", "update", "upgrade"},
                                         values : {NoOp.values}, fresh : BOOLEAN]
        BY DEF NoOp
      <4> HIDE <1>5
      <4> QED
        BY <4>1, <4>2
    <3>2. CASE b # a
      BY <1>5, <3>2 DEF OpsInv
    <3> QED
      BY <3>1, <3>2
  <2> QED
    BY <1>5, <2>1 DEF OpsInv
<1>7. AppEnvsInv' /\ PresenceInv' /\ \A b \in App : Stored(b)' = Stored(b)
  BY <1>1, StoredKept
<1>8. AppliedTo(a)'
  <2>1. Arrives(a) => Arrives(a)'
    <3>1. SUFFICES ASSUME Arrives(a), am'[a] \notin {"installFailed", "upgradeFailed", "applyEnvFailed"}
                   PROVE  op'[a].pc = "none" /\ ~Differs(a, deployed[a])'
      BY DEF Arrives
    <3>2. ~Differs(a, op[a].values)
      BY <1>1, <1>3, <3>1 DEF Arrives
    <3> QED
      BY <1>5, <1>7, <3>1, <3>2 DEF Differs, NoOp
  <2>2. Knows(a)'
    BY <1>5 DEF Knows, NoOp
  <2> QED
    BY <1>1, <1>7, <2>1, <2>2 DEF AppliedInv, AppliedTo, Marks, workers
<1>9. AppliedInv'
  <2>1. ASSUME NEW b \in App \ {a}
        PROVE  AppliedTo(b)'
    BY <1>1, <1>5, <1>7, AppliedToKept DEF AppliedInv, workers
  <2> QED
    BY <1>8, <2>1 DEF AppliedInv
<1> QED
  BY <1>1, <1>6, <1>7, <1>9, WorkersKept, BatchesKept, SourcesKept, LeaseKept DEF workers

\* What comes up is no operation's any more.
LEMMA InitializedStep ==
    ASSUME IInv, NEW a \in App, Initialized(a)
    PROVE  IInv'
<1> USE DEF IInv, TypeInv
<1>1. /\ am[a] = "initializing" /\ am' = [am EXCEPT ![a] = "running"]
      /\ UNCHANGED <<sources, workers, lease, batch, appEnv, op, deployed, blind>>
  BY DEF Initialized, clients
<1>2. /\ am' \in [App -> State \cup {NoState}] /\ am'[a] = "running"
      /\ \A b \in App \ {a} : am'[b] = am[b]
  BY <1>1 DEF OpsInv, State
<1>3. op[a].pc = "none"
  BY <1>1 DEF OpsInv
<1>4. OpsInv'
  BY <1>1, <1>2, <1>3 DEF OpsInv
<1>5. AppEnvsInv' /\ PresenceInv' /\ \A b \in App : Stored(b)' = Stored(b)
  BY <1>1, StoredKept
<1>6. AppliedTo(a)'
  <2>1. Arrives(a) => Arrives(a)'
    BY <1>1, <1>3, <1>5 DEF Arrives, Differs
  <2> QED
    BY <1>1, <1>3, <1>5, <2>1 DEF AppliedInv, AppliedTo, Knows, Marks, workers
<1>7. AppliedInv'
  <2>1. ASSUME NEW b \in App \ {a}
        PROVE  AppliedTo(b)'
    BY <1>1, <1>2, <1>5, AppliedToKept DEF AppliedInv, workers
  <2> QED
    BY <1>6, <2>1 DEF AppliedInv
<1> QED
  BY <1>1, <1>4, <1>5, <1>7, WorkersKept, BatchesKept, SourcesKept, LeaseKept DEF workers

-----------------------------------------------------------------------------
(***************************************************************************)
(* The controllers.                                                        *)
(***************************************************************************)
\* A patch of the annotation hides nothing.
LEMMA AnnotationPatch ==
    ASSUME AppEnvsInv, PresenceInv, OpsInv, AppliedInv, NEW a \in App, NEW base, NEW new,
           Fits(a, new), new.env = base.env, new.need = base.need,
           PatchAppEnv(a, base, new), UNCHANGED <<am, deployed, wk>>
    PROVE  AppEnvsInv' /\ PresenceInv' /\ OpsInv' /\ AppliedInv'
<1>1. /\ AppEnvsInv' /\ PresenceInv' /\ OpsInv' /\ Stored(a)' = Merged(Stored(a), base, new)
  BY PatchTypes
<1>2. Stored(a)'.need = Stored(a).need /\ Stored(a)'.env = Stored(a).env
  BY <1>1 DEF Merged
<1>3. NoNews(a, Stored(a).env, Stored(a)'.env)
  BY <1>2 DEF NoNews
<1> QED
  BY <1>1, <1>2, <1>3, PatchApplied

\* The cached version, with the annotation or without.
LEMMA CachedFits ==
    ASSUME AppEnvsInv, NEW a \in App, NEW sync \in BOOLEAN
    PROVE  LET o == [Cached(a) EXCEPT !.sync = sync] IN
           Fits(a, o) /\ o.env = Cached(a).env /\ o.need = Cached(a).need
<1>1. Fits(a, Cached(a))
  BY VersionsLemma
<1> QED
  BY <1>1 DEF Fits, Object

\* The controller of a source annotates an AppEnv, or fails to.
LEMMA AnnotateStep ==
    ASSUME IInv, NEW a \in App, NEW k \in DOMAIN annotator, annotateAppEnvForSync(k, a)
    PROVE  IInv'
<1> USE DEF IInv, TypeInv
<1>1. /\ UNCHANGED <<lease, batch, src, appQueue, wk, am, deployed>>
      /\ a \in annotator[k].todo
      /\ \/ PatchAppEnv(a, [Cached(a) EXCEPT !.sync = FALSE], [Cached(a) EXCEPT !.sync = TRUE])
         \/ UNCHANGED <<appEnv, op, blind>>
  BY DEF annotateAppEnvForSync, clients
<1>2. \E failed : \/ /\ annotator' = [annotator EXCEPT ![k] = IdleAnnotator]
                     /\ srcQueue' = KeysAfter(annotator[k].source, failed)
                  \/ /\ annotator' = [annotator EXCEPT ![k].todo = @ \ {a}, ![k].failed = failed]
                     /\ failed \in BOOLEAN /\ UNCHANGED srcQueue
  <2>1. annotator[k].failed \in BOOLEAN
    BY DEF SourcesInv
  <2> QED
    BY <2>1 DEF annotateAppEnvForSync
<1>3. SourcesInv'
  <2>1. k \in Kinds /\ annotator[k].source \in Source
    BY <1>1 DEF SourcesInv
  <2>2. ASSUME NEW failed, annotator' = [annotator EXCEPT ![k] = IdleAnnotator],
               srcQueue' = KeysAfter(annotator[k].source, failed)
        PROVE  SourcesInv'
    BY <1>1, <2>1, <2>2 DEF SourcesInv, KeysAfter, IdleAnnotator
  <2>3. ASSUME NEW failed \in BOOLEAN, UNCHANGED srcQueue,
               annotator' = [annotator EXCEPT ![k].todo = @ \ {a}, ![k].failed = failed]
        PROVE  SourcesInv'
    <3>1. [[annotator[k] EXCEPT !.todo = @ \ {a}] EXCEPT !.failed = failed]
            \in [source : Source \cup {<<>>}, todo : SUBSET App, failed : BOOLEAN]
      BY <2>1 DEF SourcesInv
    <3>2. annotator' \in [Kinds -> [source : Source \cup {<<>>}, todo : SUBSET App, failed : BOOLEAN]]
      BY <2>1, <2>3, <3>1 DEF SourcesInv
    <3>3. \A j \in Kinds : annotator'[j].todo # {} => annotator'[j].source \in Source
      BY <2>1, <2>3 DEF SourcesInv
    <3> QED
      BY <1>1, <2>3, <3>2, <3>3 DEF SourcesInv
  <2> QED
    BY <1>2, <2>2, <2>3
<1>4. AppEnvsInv' /\ PresenceInv' /\ OpsInv' /\ AppliedInv'
  <2>1. CASE PatchAppEnv(a, [Cached(a) EXCEPT !.sync = FALSE], [Cached(a) EXCEPT !.sync = TRUE])
    <3> DEFINE base == [Cached(a) EXCEPT !.sync = FALSE]
               new == [Cached(a) EXCEPT !.sync = TRUE]
    <3>1. Fits(a, new) /\ new.env = base.env /\ new.need = base.need
      BY CachedFits
    <3> QED
      BY <1>1, <2>1, <3>1, AnnotationPatch
  <2>2. CASE UNCHANGED <<appEnv, op, blind>>
    BY <1>1, <2>2, AppsKept
  <2> QED
    BY <1>1, <2>1, <2>2
<1> QED
  BY <1>1, <1>3, <1>4, WorkersKept, BatchesKept, LeaseKept

\* The controller of AppEnvs takes the annotation off, or fails to.
LEMMA ClearSyncStep ==
    ASSUME IInv, NEW a \in App, clearSyncAnnotation(a)
    PROVE  IInv'
<1> USE DEF IInv, TypeInv
<1>1. /\ UNCHANGED <<sources, lease, batch, annotator, wk, am, deployed>>
      /\ appQueue' \subseteq appQueue
      /\ \/ PatchAppEnv(a, Cached(a), [Cached(a) EXCEPT !.sync = FALSE])
         \/ UNCHANGED <<appEnv, op, blind>>
  BY DEF clearSyncAnnotation, clients
<1>2. AppEnvsInv' /\ PresenceInv' /\ OpsInv' /\ AppliedInv'
  <2>1. CASE PatchAppEnv(a, Cached(a), [Cached(a) EXCEPT !.sync = FALSE])
    <3> DEFINE new == [Cached(a) EXCEPT !.sync = FALSE]
    <3>1. Fits(a, new) /\ new.env = Cached(a).env /\ new.need = Cached(a).need
      BY CachedFits
    <3> QED
      BY <1>1, <2>1, <3>1, AnnotationPatch
  <2>2. CASE UNCHANGED <<appEnv, op, blind>>
    BY <1>1, <2>2, AppsKept
  <2> QED
    BY <1>1, <2>1, <2>2
<1>3. WorkersInv'
  BY <1>1 DEF WorkersInv, IsWorker, Fits
<1> QED
  BY <1>1, <1>2, <1>3, BatchesKept, SourcesKept, LeaseKept

\* A reference has a value of its type, or none.
LEMMA ReferredType ==
    ASSUME SourcesInv, NEW u, NEW n
    PROVE  Referred(u, n) \in Value \cup {Empty, None}
<1> DEFINE present == {s \in Source : s[2] = n /\ s[1] \in {u, System} /\ SourceExists(src[s])}
           first == CHOOSE s \in present : <<u, n>> \in present => s[1] = u
<1>1. CASE present = {}
  BY <1>1 DEF Referred
<1>2. CASE present # {}
  <2>1. \E s \in present : <<u, n>> \in present => s[1] = u
    BY <1>2
  <2>2. first \in present
    <3> HIDE DEF present
    <3> QED
      BY <2>1
  <2>3. first \in Source /\ src[first].value # None
    <3> HIDE DEF first
    <3> QED
      BY <2>2 DEF SourceExists
  <2>4. src[first] \in SourceSpec
    <3> HIDE DEF first
    <3> QED
      BY <2>3 DEF SourcesInv
  <2>5. GetEffectiveValue(src[first]) \in Value \cup {Empty}
    <3> HIDE DEF first
    <3> QED
      BY <2>3, <2>4 DEF GetEffectiveValue, SourceSpec
  <2>6. Referred(u, n) = GetEffectiveValue(src[first])
    BY <1>2 DEF Referred
  <2> QED
    BY <2>5, <2>6
<1> QED
  BY <1>1, <1>2

\* What the controller makes of the variables: those that need not be applied
\* are as they were, or have lost their source.
LEMMA SyncedLemma ==
    ASSUME SourcesInv, AppEnvsInv, NEW a \in App
    PROVE  LET base == Cached(a)
               new == Synced(a) IN
           /\ Fits(a, new) /\ (new.env # base.env => new.present)
           /\ base.need => new.need
           /\ ~new.need => NoNews(a, base.env, new.env)
           /\ new.env = base.env => new.need = base.need
<1> DEFINE base == Cached(a)
           env == [v \in DOMAIN base.env |-> SyncedVar(a, v)]
           changed == \E v \in OnChange[a] \cap DOMAIN env : env[v].status = "synced" /\ env[v] # base.env[v]
           need == base.need \/ changed
           new == Synced(a)
<1>1. Fits(a, base)
  BY VersionsLemma
<1>2. base.env \in [DOMAIN base.env -> Content] /\ DOMAIN base.env \in SUBSET (Name \cup {Own})
  BY <1>1, MapOfEnv DEF Fits, Object
<1>3. ASSUME NEW v \in DOMAIN base.env
      PROVE  /\ SyncedVar(a, v) \in Content
             /\ SyncedVar(a, v).status = "own" => SyncedVar(a, v) = base.env[v]
  <2>1. Referred(Owner[a], v) \in Value \cup {Empty, None}
    BY ReferredType
  <2>2. base.env[v] \in Content
    BY <1>2
  <2>3. CASE v = Own
    BY <2>2, <2>3 DEF SyncedVar
  <2>4. CASE v # Own /\ Referred(Owner[a], v) = None
    BY <2>2, <2>4 DEF SyncedVar, Content
  <2>5. CASE v # Own /\ Referred(Owner[a], v) # None
    BY <2>1, <2>5 DEF SyncedVar, Content
  <2> QED
    BY <2>3, <2>4, <2>5
<1>4. env \in [DOMAIN base.env -> Content] /\ DOMAIN env = DOMAIN base.env
  BY <1>3
<1>5. /\ new = [env |-> env, need |-> need, sync |-> base.sync, present |-> base.present]
      /\ base.need \in BOOLEAN /\ base.sync \in BOOLEAN /\ base.present \in BOOLEAN
  <2> DEFINE edited == [base EXCEPT !.env = env]
  <2>1. base \in [env : Env, need : BOOLEAN, sync : BOOLEAN, present : BOOLEAN]
    BY <1>1 DEF Fits, Object
  <2> HIDE DEF env
  <2>2. edited = [env |-> env, need |-> base.need, sync |-> base.sync, present |-> base.present]
    BY <2>1
  <2>3. new = [base EXCEPT !.env = env, !.need = @ \/ changed]
    BY DEF Synced, env
  <2> HIDE DEF changed
  <2>4. new = [edited EXCEPT !.need = need]
    BY <2>1, <2>2, <2>3
  <2> QED
    <3> HIDE DEF edited, need, new
    <3> QED
      BY <2>1, <2>2, <2>4
<1>6. need \in BOOLEAN
  OBVIOUS
<1>7. env # base.env => base.present
  <2>1. CASE DOMAIN base.env = {}
    <3> HIDE DEF env
    <3> QED
      BY <1>2, <1>4, <2>1
  <2>2. CASE DOMAIN base.env # {}
    BY <1>1, <2>2 DEF Fits
  <2> QED
    BY <2>1, <2>2
<1>8. ~need => NoNews(a, base.env, env)
  <2>1. SUFFICES ASSUME ~changed, NEW v \in OnChange[a] \cap DOMAIN env, env[v].status \in {"own", "synced"}
                 PROVE  v \in DOMAIN base.env /\ base.env[v] = env[v]
    BY DEF NoNews
  <2> QED
    BY <1>3, <1>4, <2>1
<1>9. env = base.env => ~changed
  <2> HIDE DEF env
  <2> QED
    OBVIOUS
<1>10. env \in Env
  <2> HIDE DEF env
  <2> QED
    BY <1>2, <1>4, EnvIsMap
<1> HIDE DEF env, new
<1>11. /\ new \in Object /\ new.env = env /\ new.present = base.present /\ new.need = need
  <2> HIDE DEF need
  <2> QED
    BY <1>5, <1>6, <1>10 DEF Object
<1> QED
  BY <1>1, <1>4, <1>5, <1>7, <1>8, <1>9, <1>11 DEF Fits, new

\* The controller of AppEnvs copies the values, or fails to.
LEMMA SyncStep ==
    ASSUME IInv, NEW a \in App, syncEnvValues(a)
    PROVE  IInv'
<1> USE DEF IInv, TypeInv
<1> DEFINE base == Cached(a)
           new == Synced(a)
           obj == IF new = base THEN base ELSE Merged(Stored(a), base, new)
<1>1. /\ UNCHANGED <<sources, lease, batch, annotator, am, deployed>>
      /\ appQueue' \subseteq appQueue
      /\ \/ /\ IF new = base THEN UNCHANGED <<appEnv, op, blind>> ELSE PatchAppEnv(a, base, new)
            /\ wk' = IF obj.need THEN [pc |-> "apply", app |-> a, obj |-> obj] ELSE wk
         \/ UNCHANGED <<appEnv, op, blind, wk>>
  BY DEF syncEnvValues, clients
<1>2. Fits(a, base) /\ Fits(a, Stored(a))
  BY VersionsLemma
<1>3. /\ Fits(a, new) /\ (new.env # base.env => new.present)
      /\ base.need => new.need
      /\ ~new.need => NoNews(a, base.env, new.env)
      /\ new.env = base.env => new.need = base.need
  BY SyncedLemma
<1> HIDE DEF new, base
<1>4. CASE UNCHANGED <<appEnv, op, blind>> /\ (wk' = wk \/ (obj = base /\ obj.need /\ wk' = [pc |-> "apply", app |-> a, obj |-> obj]))
  <2>1. (wk' = wk \/ wk'.pc # "mark") /\ (wk' = wk \/ wk'.pc # "trigger")
    BY <1>4
  <2>2. AppEnvsInv' /\ PresenceInv' /\ OpsInv' /\ AppliedInv'
    BY <1>1, <1>4, <2>1, AppsKept
  <2>3. WorkersInv'
    <3>1. CASE wk' = wk
      BY <1>1, <3>1 DEF WorkersInv, IsWorker, Fits
    <3>2. CASE obj = base /\ obj.need /\ wk' = [pc |-> "apply", app |-> a, obj |-> obj]
      <4> HIDE DEF obj
      <4>1. wk'.app = a /\ wk'.obj = base /\ wk'.pc = "apply" /\ base \in Object
        BY <1>2, <3>2 DEF Fits
      <4>2. wk' \in [pc : {"idle", "apply", "trigger", "mark"}, app : App \cup {None}, obj : Object]
        BY <3>2, <4>1
      <4> QED
        BY <1>1, <1>2, <3>2, <4>1, <4>2 DEF WorkersInv, IsWorker, Fits
    <3> QED
      BY <1>4, <3>1, <3>2
  <2> QED
    BY <1>1, <2>1, <2>2, <2>3, BatchesKept, SourcesKept, LeaseKept
<1>5. CASE /\ PatchAppEnv(a, base, new) /\ new # base
           /\ wk' = IF obj.need THEN [pc |-> "apply", app |-> a, obj |-> obj] ELSE wk
  <2>1. wk' = wk \/ (obj.need /\ wk' = [pc |-> "apply", app |-> a, obj |-> obj])
    BY <1>5
  <2>2. (wk' = wk \/ wk'.pc # "mark") /\ (wk' = wk \/ wk'.pc # "trigger")
    BY <2>1
  <2>3. /\ AppEnvsInv' /\ PresenceInv' /\ OpsInv' /\ Stored(a)' = Merged(Stored(a), base, new)
        /\ Stored(a).present
    BY <1>1, <1>3, <1>5, PatchTypes
  <2>4. ASSUME ~Misses(Stored(a), base, new)
        PROVE  \/ Stored(a)'.need
               \/ Stored(a)'.need = Stored(a).need /\ NoNews(a, Stored(a).env, Stored(a)'.env)
    <3>1. /\ Stored(a)'.need = IF new.need # base.need THEN new.need ELSE Stored(a).need
          /\ Stored(a)'.env = IF new.env # base.env THEN new.env ELSE Stored(a).env
      BY <2>3 DEF Merged
    <3>2. base.need \in BOOLEAN /\ new.need \in BOOLEAN /\ Stored(a).need \in BOOLEAN
      BY <1>2, <1>3 DEF Fits, Object
    <3>3. CASE new.env = base.env
      <4>1. Stored(a)'.need = Stored(a).need /\ Stored(a)'.env = Stored(a).env
        BY <1>3, <3>1, <3>3
      <4> QED
        BY <4>1 DEF NoNews
    <3>4. CASE new.env # base.env /\ new.need
      <4>1. base.need => Stored(a).need
        BY <2>4, <3>4 DEF Misses
      <4> QED
        BY <3>1, <3>2, <3>4, <4>1
    <3>5. CASE new.env # base.env /\ ~new.need
      <4>1. Stored(a).env = base.env
        BY <2>4, <3>5 DEF Misses
      <4>2. Stored(a)'.need = Stored(a).need
        BY <1>3, <3>1, <3>2, <3>5
      <4> QED
        BY <1>3, <3>1, <3>5, <4>1, <4>2
    <3> QED
      BY <3>3, <3>4, <3>5
  <2>5. AppliedInv'
    BY <1>1, <1>3, <1>5, <2>2, <2>4, PatchApplied
  <2>6. WorkersInv'
    <3>1. CASE wk' = wk
      BY <1>1, <3>1 DEF WorkersInv, IsWorker, Fits
    <3>2. CASE obj.need /\ wk' = [pc |-> "apply", app |-> a, obj |-> obj]
      <4>1. Fits(a, obj)
        <5>1. Fits(a, Merged(Stored(a), base, new))
          BY <1>2, <1>3, <2>3, MergedFits
        <5> QED
          BY <1>5, <5>1
      <4> HIDE DEF obj
      <4>2. wk'.app = a /\ wk'.obj = obj /\ wk'.pc = "apply" /\ obj \in Object
        BY <3>2, <4>1 DEF Fits
      <4>3. wk' \in [pc : {"idle", "apply", "trigger", "mark"}, app : App \cup {None}, obj : Object]
        BY <3>2, <4>2
      <4> QED
        BY <1>1, <3>2, <4>1, <4>2, <4>3 DEF WorkersInv, IsWorker, Fits
    <3> QED
      BY <2>1, <3>1, <3>2
  <2> QED
    BY <1>1, <2>2, <2>3, <2>5, <2>6, BatchesKept, SourcesKept, LeaseKept
<1> QED
  BY <1>1, <1>4, <1>5

\* A worker without a key.
LEMMA IdleIsWorker == IsWorker(IdleWorker) /\ IdleWorker.pc = "idle"
<1>1. NoEnv \in Object
  <2>1. <<>> \in [{} -> Content]
    OBVIOUS
  <2>2. <<>> \in Env
    BY <2>1, EnvIsMap
  <2> QED
    BY <2>2 DEF NoEnv, Object
<1> QED
  BY <1>1 DEF IsWorker, IdleWorker

\* The worker gives its key back.
LEMMA RequeueTypes ==
    ASSUME WorkersInv, NEW a \in App, Requeue(a)
    PROVE  WorkersInv' /\ wk'.pc = "idle"
<1>1. wk' = IdleWorker /\ appQueue' = appQueue \cup {a}
  BY DEF Requeue
<1>2. IsWorker(wk')
  BY <1>1, IdleIsWorker
<1> QED
  BY <1>1, <1>2, IdleIsWorker DEF WorkersInv, IsWorker, Fits

\* The worker goes on with its AppEnv.
LEMMA WorkerGoesOn ==
    ASSUME WorkersInv, NEW pc \in {"trigger", "mark"}, wk.pc # "idle", UNCHANGED appQueue,
           wk' = [wk EXCEPT !.pc = pc]
    PROVE  WorkersInv' /\ wk'.pc = pc /\ wk'.app = wk.app
<1>1. IsWorker(wk)
  BY DEF WorkersInv
<1>2. wk'.pc = pc /\ wk'.app = wk.app /\ wk'.obj = wk.obj
  BY <1>1 DEF IsWorker
<1>3. wk' \in [pc : {"idle", "apply", "trigger", "mark"}, app : App \cup {None}, obj : Object]
  BY <1>1 DEF IsWorker
<1> QED
  BY <1>1, <1>2, <1>3 DEF WorkersInv, IsWorker, Fits

\* The controller looks at the lease.
LEMMA PostponeStep ==
    ASSUME IInv, NEW a \in App, PostponeApply(a)
    PROVE  IInv'
<1> USE DEF IInv, TypeInv
<1>1. /\ wk.pc = "apply" /\ wk.app = a
      /\ UNCHANGED <<sources, lease, batch, am, op, deployed, appEnv, annotator, blind>>
      /\ \/ Requeue(a)
         \/ ~isLeaseActive(Owner[a]) /\ wk' = [wk EXCEPT !.pc = "trigger"] /\ UNCHANGED appQueue
  BY DEF PostponeApply, clients, helm
<1>2. CASE Requeue(a)
  <2>1. WorkersInv' /\ wk'.pc = "idle"
    BY <1>2, RequeueTypes
  <2> QED
    BY <1>1, <2>1, AppsKept, BatchesKept, SourcesKept, LeaseKept
<1>3. CASE ~isLeaseActive(Owner[a]) /\ wk' = [wk EXCEPT !.pc = "trigger"] /\ UNCHANGED appQueue
  <2>1. WorkersInv' /\ wk'.pc = "trigger" /\ wk'.app = a
    BY <1>1, <1>3, WorkerGoesOn
  <2>2. \A h \in Handler : Holds(h) => batch[h].user # Owner[a]
    BY <1>3 DEF LeaseInv, isLeaseActive
  <2>3. LeaseInv'
    BY <1>1, <2>1, <2>2 DEF LeaseInv, Holds
  <2> QED
    BY <1>1, <2>1, <2>3, AppsKept, BatchesKept, SourcesKept
<1> QED
  BY <1>1, <1>2, <1>3

\* The controller asks for the operation, or gives the key back.
LEMMA TriggerStep ==
    ASSUME IInv, NEW a \in App, triggerApplyEnv(a)
    PROVE  IInv'
<1> USE DEF IInv, TypeInv
<1>1. /\ wk.pc = "trigger" /\ wk.app = a
      /\ UNCHANGED <<sources, lease, batch, appEnv, annotator, deployed, blind>>
      /\ \/ /\ am' = [am EXCEPT ![a] = "applyingEnv"] /\ StartOp(a)
            /\ wk' = [wk EXCEPT !.pc = "mark"] /\ UNCHANGED appQueue
         \/ Requeue(a) /\ UNCHANGED <<am, op>>
  BY DEF triggerApplyEnv, clients
<1>2. CASE Requeue(a) /\ UNCHANGED <<am, op>>
  <2>1. WorkersInv' /\ wk'.pc = "idle"
    BY <1>2, RequeueTypes
  <2> QED
    BY <1>1, <1>2, <2>1, AppsKept, BatchesKept, SourcesKept, LeaseKept
<1>3. CASE /\ am' = [am EXCEPT ![a] = "applyingEnv"] /\ StartOp(a)
           /\ wk' = [wk EXCEPT !.pc = "mark"] /\ UNCHANGED appQueue
  <2>1. WorkersInv' /\ wk'.pc = "mark" /\ wk'.app = a
    BY <1>1, <1>3, WorkerGoesOn
  <2>2. /\ OpsInv' /\ op'[a].pc = "get"
        /\ \A b \in App \ {a} : op'[b] = op[b] /\ am'[b] = am[b]
    BY <1>1, <1>3, StartTypes
  <2>3. AppEnvsInv' /\ PresenceInv' /\ \A b \in App : Stored(b)' = Stored(b)
    BY <1>1, StoredKept
  <2>4. AppliedInv'
    BY <1>1, <2>1, <2>2, <2>3, StartApplied
  <2> QED
    BY <1>1, <2>1, <2>2, <2>3, <2>4, BatchesKept, SourcesKept, LeaseKept
<1> QED
  BY <1>1, <1>2, <1>3

\* The controller clears NeedApply, or gives the key back.
LEMMA MarkStep ==
    ASSUME IInv, NEW a \in App, markEnvApplied(a)
    PROVE  IInv'
<1> USE DEF IInv, TypeInv
<1> DEFINE base == wk.obj
           new == [wk.obj EXCEPT !.need = FALSE]
<1>1. /\ wk.pc = "mark" /\ wk.app = a
      /\ UNCHANGED <<sources, lease, batch, annotator, am, deployed>>
      /\ \/ PatchAppEnv(a, base, new) /\ wk' = IdleWorker /\ UNCHANGED appQueue
         \/ Requeue(a) /\ UNCHANGED <<appEnv, op, blind>>
  BY DEF markEnvApplied, clients
<1>2. Fits(a, base) /\ base.need
  BY <1>1 DEF WorkersInv, IsWorker
<1>3. Fits(a, new) /\ new.env = base.env /\ new.need = FALSE
  BY <1>2 DEF Fits, Object
<1> HIDE DEF base, new
<1>4. CASE Requeue(a) /\ UNCHANGED <<appEnv, op, blind>>
  <2>1. WorkersInv' /\ wk'.pc = "idle"
    BY <1>4, RequeueTypes
  <2> QED
    BY <1>1, <1>4, <2>1, AppsKept, BatchesKept, SourcesKept, LeaseKept
<1>5. CASE PatchAppEnv(a, base, new) /\ wk' = IdleWorker /\ UNCHANGED appQueue
  <2>1. WorkersInv' /\ wk'.pc = "idle"
    <3>1. IsWorker(wk') /\ wk'.pc = "idle"
      BY <1>5, IdleIsWorker
    <3> QED
      BY <1>5, <3>1 DEF WorkersInv, IsWorker, Fits
  <2>2. /\ AppEnvsInv' /\ PresenceInv' /\ OpsInv' /\ Stored(a)' = Merged(Stored(a), base, new)
        /\ op'[a].pc = op[a].pc /\ op'[a].values = op[a].values /\ op'[a].fresh = FALSE
        /\ \A b \in App \ {a} : Stored(b)' = Stored(b) /\ op'[b] = op[b]
    <3>1. Fits(a, new) /\ (new.env # base.env => new.present) /\ PatchAppEnv(a, base, new)
      BY <1>3, <1>5
    <3>2. UNCHANGED <<am, deployed>>
      BY <1>1
    <3> QED
      BY <3>1, <3>2, PatchTypes
  <2>3. /\ a \notin blind' => a \notin blind /\ ~Misses(Stored(a), base, new)
        /\ \A b \in App : b \notin blind' => b \notin blind
    BY <1>5 DEF PatchAppEnv
  <2>4. AppliedTo(a)'
    <3>1. ASSUME a \notin blind'
          PROVE  Arrives(a)'
      <4>1. Stored(a).env = base.env
        BY <1>2, <1>3, <2>3, <3>1 DEF Misses
      <4>2. Arrives(a)
        BY <1>1, <2>3, <3>1, <4>1 DEF AppliedInv, AppliedTo, Marks, base
      <4>3. NoNews(a, Stored(a).env, Stored(a)'.env)
        BY <1>3, <2>2 DEF Merged, NoNews
      <4> QED
        BY <1>1, <2>2, <4>2, <4>3, ArrivesKept
    <3> QED
      BY <2>1, <2>2, <3>1 DEF AppliedTo, Knows, Marks
  <2>5. AppliedInv'
    <3>1. ASSUME NEW b \in App \ {a}
          PROVE  AppliedTo(b)'
      BY <1>1, <2>1, <2>2, <2>3, AppliedToKept DEF AppliedInv
    <3> QED
      BY <2>4, <3>1 DEF AppliedInv
  <2> QED
    BY <1>1, <2>1, <2>2, <2>5, BatchesKept, SourcesKept, LeaseKept
<1> QED
  BY <1>1, <1>4, <1>5

-----------------------------------------------------------------------------
(***************************************************************************)
(* The caches, and the process.                                            *)
(***************************************************************************)
\* The cache receives a version.
LEMMA DeliverStep ==
    ASSUME IInv, NEW a \in App, DeliverAppEnv(a)
    PROVE  IInv'
<1> USE DEF IInv, TypeInv
<1> DEFINE v == appEnv[a]
<1>1. /\ Len(v) > 1 /\ appEnv' = [appEnv EXCEPT ![a] = Tail(v)] /\ appQueue' = appQueue \cup {a}
      /\ UNCHANGED <<sources, lease, batch, am, op, deployed, annotator, wk, blind>>
  BY DEF DeliverAppEnv, clients, helm
<1>2. v \in Seq(Object) /\ Len(v) \in 1 .. MaxLag + 1 /\ Len(v) \in Nat
  BY VersionsLemma DEF AppEnvsInv
<1>3. /\ Tail(v) \in Seq(Object) /\ Len(Tail(v)) = Len(v) - 1 /\ DOMAIN Tail(v) = 1 .. Len(v) - 1
      /\ \A i \in 1 .. Len(v) - 1 : Tail(v)[i] = v[i + 1]
  BY <1>1, <1>2
<1>4. /\ appEnv'[a] = Tail(v) /\ appEnv' \in [App -> Seq(Object)]
      /\ \A b \in App \ {a} : appEnv'[b] = appEnv[b]
  BY <1>1, <1>3 DEF AppEnvsInv
<1>5. /\ Len(Tail(v)) \in 1 .. MaxLag + 1 /\ Tail(v)[Len(v) - 1] = v[Len(v)]
      /\ \A i \in DOMAIN Tail(v) : \E j \in DOMAIN v : Tail(v)[i] = v[j]
  BY <1>1, <1>2, <1>3, LagAssumption
<1>6. Stored(a)' = Stored(a) /\ \A b \in App : Stored(b)' = Stored(b)
  BY <1>3, <1>4, <1>5 DEF Stored, Latest
<1>7. AppEnvsInv'
  <2>1. \A i \in DOMAIN appEnv'[a] : Fits(a, appEnv'[a][i])
    BY <1>4, <1>5 DEF AppEnvsInv
  <2> QED
    BY SMTT(30), <1>4, <1>5, <2>1 DEF AppEnvsInv, Fits
<1>8. PresenceInv'
  <2>1. \A i \in DOMAIN appEnv'[a] : appEnv'[a][i].present => Stored(a).present
    BY <1>4, <1>5 DEF PresenceInv
  <2> QED
    BY <1>4, <1>6, <2>1 DEF PresenceInv
<1>9. AppliedInv'
  <2>1. ASSUME NEW b \in App
        PROVE  AppliedTo(b)'
    BY <1>1, <1>6, AppliedToKept DEF AppliedInv
  <2> QED
    BY <2>1 DEF AppliedInv
<1>10. OpsInv' /\ WorkersInv'
  BY <1>1 DEF OpsInv, WorkersInv, IsWorker, Fits
<1> QED
  BY <1>1, <1>7, <1>8, <1>9, <1>10, BatchesKept, SourcesKept, LeaseKept

\* A new process begins with what is stored, and its operations read again.
LEMMA RestartStep ==
    ASSUME IInv, Restart
    PROVE  IInv'
<1> USE DEF IInv, TypeInv
<1>1. /\ appEnv' = [a \in App |-> <<Stored(a)>>]
      /\ srcQueue' = {s \in Source : SourceExists(src[s])}
      /\ appQueue' = {a \in App : Stored(a).present}
      /\ annotator' = [k \in DOMAIN annotator |-> IdleAnnotator]
      /\ wk' = IdleWorker
      /\ batch' = [h \in Handler |-> IdleBatch]
      /\ op' = [a \in App |-> IF op[a] = NoOp THEN NoOp
                              ELSE [pc |-> "get", values |-> <<>>, fresh |-> FALSE]]
      /\ UNCHANGED <<src, lease, am, deployed, blind>>
  BY DEF Restart
<1>2. SourcesInv'
  BY <1>1 DEF SourcesInv, IdleAnnotator
<1>3. \A a \in App : Fits(a, Stored(a)) /\ Stored(a) \in Object
  BY VersionsLemma DEF Fits
<1>4. \A a \in App : /\ appEnv'[a] = <<Stored(a)>> /\ Len(appEnv'[a]) = 1 /\ DOMAIN appEnv'[a] = {1}
                     /\ appEnv'[a][1] = Stored(a)
  BY <1>1
<1>5. \A a \in App : Stored(a)' = Stored(a)
  BY <1>4 DEF Stored, Latest
<1>6. AppEnvsInv'
  <2>1. appEnv' \in [App -> Seq(Object)]
    BY <1>1, <1>3
  <2> QED
    BY <1>3, <1>4, <2>1, LagAssumption DEF AppEnvsInv, Fits
<1>7. PresenceInv'
  BY <1>4, <1>5 DEF PresenceInv
<1>8. WorkersInv' /\ wk'.pc = "idle"
  <2>1. IsWorker(wk') /\ wk'.pc = "idle"
    BY <1>1, IdleIsWorker
  <2> QED
    BY <1>1, <2>1 DEF WorkersInv, IsWorker, Fits
<1>9. BatchesInv' /\ LeaseInv'
  <2>1. IdleBatch \in [user : User \cup {None}, todo : SUBSET Name, value : Value \cup {Empty},
                       locks : BOOLEAN, safe : BOOLEAN]
    BY DEF IdleBatch
  <2>2. BatchesInv'
    BY <1>1, <2>1 DEF BatchesInv, IdleBatch
  <2>3. LeaseInv'
    BY <1>1, <1>8 DEF LeaseInv, Holds, IdleBatch
  <2> QED
    BY <2>2, <2>3
<1>10. ASSUME NEW a \in App
       PROVE  \/ op'[a] = NoOp /\ op[a] = NoOp
              \/ op[a].pc # "none" /\ op'[a] = [pc |-> "get", values |-> <<>>, fresh |-> FALSE]
  BY <1>1 DEF OpsInv
<1>11. OpsInv'
  <2>1. ASSUME NEW a \in App
        PROVE  /\ op'[a] \in [pc : {"none", "get", "update", "upgrade"}, values : {op'[a].values},
                              fresh : BOOLEAN]
               /\ op'[a].pc = "none" => op'[a] = NoOp
               /\ op'[a].pc # "none" => am'[a] \in {"installing", "upgrading", "applyingEnv"}
    <3>1. CASE op'[a] = op[a]
      BY <1>1, <3>1 DEF OpsInv
    <3>2. CASE op[a].pc # "none" /\ op'[a] = [pc |-> "get", values |-> <<>>, fresh |-> FALSE]
      <4>1. op'[a].pc = "get" /\ op'[a].values = <<>> /\ op'[a].fresh = FALSE
        BY <3>2
      <4>2. op'[a] = [pc |-> op'[a].pc, values |-> op'[a].values, fresh |-> op'[a].fresh]
        BY <3>2
      <4>3. am'[a] \in {"installing", "upgrading", "applyingEnv"}
        BY <1>1, <3>2 DEF OpsInv
      <4> QED
        BY <4>1, <4>2, <4>3
    <3> QED
      BY <1>10, <3>1, <3>2
  <2>2. op' = [a \in App |-> op'[a]] /\ deployed' = [a \in App |-> deployed'[a]]
    BY <1>1 DEF OpsInv
  <2> QED
    BY <1>1, <2>1, <2>2 DEF OpsInv
<1>12. AppliedInv'
  <2>1. ASSUME NEW a \in App
        PROVE  AppliedTo(a)'
    <3>1. CASE op'[a] = op[a]
      BY <1>1, <1>5, <1>8, <3>1, AppliedToKept DEF AppliedInv
    <3>2. CASE op'[a] = [pc |-> "get", values |-> <<>>, fresh |-> FALSE]
      <4>1. op'[a].pc = "get"
        BY <3>2
      <4> QED
        BY <1>8, <4>1 DEF AppliedTo, Knows, Arrives, Marks
    <3> QED
      BY <1>10, <3>1, <3>2
  <2> QED
    BY <2>1 DEF AppliedInv
<1> QED
  BY <1>2, <1>6, <1>7, <1>8, <1>9, <1>11, <1>12

-----------------------------------------------------------------------------
(***************************************************************************)
(* The theorems.                                                           *)
(***************************************************************************)
\* An object with some variables.
LEMMA PresentFits ==
    ASSUME NEW a \in App, NEW e \in Env, DOMAIN e \subseteq Vars(a), DOMAIN e # {}
    PROVE  LET o == [NoEnv EXCEPT !.env = e, !.present = TRUE] IN
           Fits(a, o) /\ o.present /\ o.env = e
BY DEF Fits, NoEnv, Object

\* The variables of an application at rest are those it was installed with.
LEMMA InitIInv == Init => IInv
<1> SUFFICES ASSUME Init PROVE IInv
  OBVIOUS
<1> DEFINE env(a) == [v \in DOMAIN Declared(FirstRefs[a]) |-> InitialVar(a, v)]
           first(a) == [NoEnv EXCEPT !.env = env(a), !.present = TRUE]
<1>1. PICK installed \in SUBSET App :
         /\ src = [s \in Source |->
                    IF s \in Systems \/ \E a \in installed : s \in Base /\ s[1] = Owner[a]
                    THEN [value |-> Empty, default |-> Default[s[2]]] ELSE Spec0]
         /\ appEnv = [a \in App |-> <<IF a \in installed THEN first(a) ELSE NoEnv>>]
         /\ deployed = [a \in App |-> IF a \in installed
                                       THEN [v \in DOMAIN env(a) |-> env(a)[v].value] ELSE <<>>]
         /\ am = [a \in App |-> IF a \in installed THEN "running" ELSE NoState]
  BY DEF Init
<1>2. /\ srcQueue = {} /\ appQueue = {}
      /\ annotator = [k \in Kinds |-> IdleAnnotator]
      /\ wk = IdleWorker /\ lease = [u \in User |-> "free"]
      /\ batch = [h \in Handler |-> IdleBatch] /\ op = [a \in App |-> NoOp] /\ blind = {}
  BY DEF Init, Kinds
<1>3. SourcesInv
  <2>1. ASSUME NEW s \in Source
        PROVE  [value |-> Empty, default |-> Default[s[2]]] \in SourceSpec /\ Spec0 \in SourceSpec
    BY SourceAssumption, AppAssumption DEF SourceSpec, Spec0
  <2>2. src \in [Source -> SourceSpec]
    BY <1>1, <2>1
  <2> QED
    BY <1>2, <2>2 DEF SourcesInv, IdleAnnotator
<1>4. ASSUME NEW a \in App
      PROVE  /\ env(a) \in [FirstRefs[a] \cup {Own} -> Content]
             /\ Fits(a, first(a)) /\ first(a).present /\ first(a).env = env(a)
  <2>1. DOMAIN Declared(FirstRefs[a]) = FirstRefs[a] \cup {Own} /\ FirstRefs[a] \in SUBSET Name
    BY AppAssumption DEF Declared
  <2>2. ASSUME NEW v \in FirstRefs[a] \cup {Own}
        PROVE  InitialVar(a, v) \in Content
    <3>1. Referred(Owner[a], v) \in Value \cup {Empty, None}
      BY <1>3, ReferredType
    <3> QED
      BY <3>1 DEF InitialVar, Content
  <2>3. env(a) \in [FirstRefs[a] \cup {Own} -> Content]
    BY <2>1, <2>2
  <2>4. env(a) \in Env /\ DOMAIN env(a) = FirstRefs[a] \cup {Own}
    BY <2>1, <2>3, EnvIsMap
  <2> HIDE DEF env
  <2> QED
    BY <2>1, <2>3, <2>4, PresentFits DEF Vars
<1>5. ASSUME NEW a \in App
      PROVE  /\ appEnv[a] \in Seq(Object) /\ Len(appEnv[a]) = 1 /\ DOMAIN appEnv[a] = {1}
             /\ Stored(a) = appEnv[a][1] /\ Fits(a, appEnv[a][1])
             /\ a \in installed => Stored(a).env = env(a)
             /\ a \notin installed => ~Stored(a).present
  <2> DEFINE o == IF a \in installed THEN first(a) ELSE NoEnv
  <2>1. Fits(a, o) /\ o \in Object /\ (a \in installed => o.env = env(a)) /\ (a \notin installed => ~o.present)
    <3> HIDE DEF first, env
    <3> QED
      BY <1>4, NoEnvFits DEF Fits
  <2>2. appEnv[a] = <<o>>
    BY <1>1
  <2> HIDE DEF o, first, env
  <2>3. /\ appEnv[a] \in Seq(Object) /\ Len(appEnv[a]) = 1 /\ DOMAIN appEnv[a] = {1}
        /\ appEnv[a][1] = o
    BY <2>1, <2>2
  <2>4. Stored(a) = o
    BY <2>3 DEF Stored, Latest
  <2> QED
    BY <2>1, <2>3, <2>4
<1> HIDE DEF first
<1>6. AppEnvsInv /\ PresenceInv
  <2>1. appEnv \in [App -> Seq(Object)]
    BY <1>1, <1>5
  <2>2. 1 \in 1 .. MaxLag + 1
    BY LagAssumption
  <2>3. AppEnvsInv
    BY <1>5, <2>1, <2>2 DEF AppEnvsInv
  <2>4. PresenceInv
    BY <1>5 DEF PresenceInv
  <2> QED
    BY <2>3, <2>4
<1>7. WorkersInv
  BY <1>2, IdleIsWorker DEF WorkersInv
<1>8. BatchesInv /\ LeaseInv
  <2>1. IdleBatch \in [user : User \cup {None}, todo : SUBSET Name, value : Value \cup {Empty},
                       locks : BOOLEAN, safe : BOOLEAN]
    BY DEF IdleBatch
  <2> QED
    BY <1>2, <2>1, IdleIsWorker DEF BatchesInv, LeaseInv, Holds, IdleBatch
<1>9. OpsInv
  <2>1. NoOp.pc = "none" /\ NoOp \in [pc : {"none", "get", "update", "upgrade"},
                                      values : {NoOp.values}, fresh : BOOLEAN]
    BY DEF NoOp
  <2>2. am \in [App -> State \cup {NoState}]
    BY <1>1 DEF State
  <2>3. deployed = [a \in App |-> deployed[a]]
    BY <1>1
  <2> QED
    BY <1>2, <2>1, <2>2, <2>3 DEF OpsInv
<1>10. AppliedInv
  <2>1. ASSUME NEW a \in App
        PROVE  AppliedTo(a)
    <3>1. op[a].pc = "none"
      BY <1>2 DEF NoOp
    <3>2. a \in installed => ~Differs(a, deployed[a])
      BY <1>1, <1>5 DEF Differs
    <3>3. wk.pc = "idle"
      BY <1>2, IdleIsWorker
    <3> QED
      BY <1>5, <3>1, <3>2, <3>3 DEF AppliedTo, Knows, Arrives, Marks
  <2> QED
    BY <2>1 DEF AppliedInv
<1> QED
  BY <1>3, <1>6, <1>7, <1>8, <1>9, <1>10 DEF IInv, TypeInv

\* Every step keeps the invariant.
LEMMA NextIInv == IInv /\ [Next]_vars => IInv'
<1> SUFFICES ASSUME IInv, [Next]_vars PROVE IInv'
  OBVIOUS
<1>1. CASE UNCHANGED vars
  <2>1. UNCHANGED <<sources, appEnv, annotator, appQueue, wk, lease, batch, am, op, deployed, blind>>
    BY <1>1 DEF vars, workers, clients, helm
  <2> QED
    BY <2>1, AppsKept, WorkersKept, BatchesKept, SourcesKept, LeaseKept DEF IInv, TypeInv
<1>2. ASSUME NEW s \in Source, SourceNext(s)
      PROVE  IInv'
  BY <1>2, SourceSteps
<1>3. ASSUME NEW u \in User, UserNext(u)
      PROVE  IInv'
  BY <1>3, ExpireLeaseStep, StartBatchStep DEF UserNext
<1>4. ASSUME NEW a \in App, AppNext(a)
      PROVE  IInv'
  <2>1. CASE Controller(a)
    BY <2>1, ClearSyncStep, SyncStep, PostponeStep, TriggerStep, MarkStep DEF Controller
  <2>2. CASE Helm(a)
    BY <2>2, AddEnvironmentVariablesStep, ClearNeedApplyStep, ApplyEnvStep, InitializedStep DEF Helm
  <2> QED
    BY <1>4, <2>1, <2>2, UpdateAppEnvStep, RequestSteps, AnnotateStep, DeliverStep DEF AppNext
<1>5. ASSUME NEW h \in Handler, BatchStep(h)
      PROVE  IInv'
  BY <1>5, BatchSteps
<1> QED
  BY <1>1, <1>2, <1>3, <1>4, <1>5, RestartStep DEF Next

\* The invariant that all that follows rests on.
THEOREM Invariance == Spec => []IInv
BY InitIInv, NextIInv, PTL DEF Spec

\* The objects are of their API types, no cache is further behind than MaxLag,
\* and the workers hold what their step of the reconciliation needs.
THEOREM TypeCorrect == Spec => []TypeOK
<1>1. IInv => TypeOK
  <2> SUFFICES ASSUME IInv PROVE TypeOK
    OBVIOUS
  <2> USE DEF IInv, TypeInv
  <2>1. ASSUME NEW a \in App, NEW o, Fits(a, o)
        PROVE  EnvObject(a, o)
    <3>1. o.env \in [DOMAIN o.env -> Content]
      BY <2>1, MapOfEnv DEF Fits, Object
    <3>2. /\ DOMAIN o = {"env", "need", "sync", "present"}
          /\ o.need \in BOOLEAN /\ o.sync \in BOOLEAN /\ o.present \in BOOLEAN
      BY <2>1 DEF Fits, Object
    <3> QED
      BY <2>1, <3>1, <3>2 DEF Fits, EnvObject, Content, Vars
  <2>2. \A s \in Source : IsSpec(src[s])
    BY DEF SourcesInv, SourceSpec, IsSpec
  <2>3. \A a \in App : /\ Len(appEnv[a]) \in 1 .. MaxLag + 1
                       /\ \A i \in DOMAIN appEnv[a] : EnvObject(a, appEnv[a][i])
    BY <2>1 DEF AppEnvsInv
  <2>4. /\ srcQueue \subseteq Source /\ appQueue \subseteq App
        /\ \A k \in DOMAIN annotator : annotator[k].todo \subseteq App
    BY DEF SourcesInv, WorkersInv
  <2>5. /\ wk.pc \in {"idle", "apply", "trigger", "mark"} /\ wk.app \in App \cup {None}
        /\ wk.pc # "idle" => wk.app \in App /\ EnvObject(wk.app, wk.obj) /\ wk.obj.need
    BY <2>1 DEF WorkersInv, IsWorker
  <2>6. lease \in [User -> {"free", "held", "expired"}]
    BY DEF BatchesInv
  <2>7. am \in [App -> State \cup {NoState}] /\ \A a \in App : op[a].pc \in {"none", "get", "update", "upgrade"}
    BY DEF OpsInv
  <2> QED
    BY <2>2, <2>3, <2>4, <2>5, <2>6, <2>7 DEF TypeOK
<1> QED
  BY <1>1, Invariance, PTL

\* A value to apply on change that is not deployed has NeedApply, an operation
\* that deploys it, or a failure to show: through requests, patches from
\* caches, conflicts, crashes and retries, but for AppEnvs in blind.
THEOREM ValuesApplied == Spec => []AppliedOrPending
<1>1. IInv => AppliedOrPending
  BY DEF IInv, AppliedInv, AppliedTo, Arrives, AppliedOrPending
<1> QED
  BY <1>1, Invariance, PTL

\* The controller asks for no operation while a batch writes under its lease.
THEOREM BatchesUndisturbed == Spec => NoApplyWithinBatch
<1>1. ASSUME IInv, [Next]_vars
      PROVE  [wk.pc = "trigger" /\ wk'.pc = "mark" =>
                ~\E h \in Handler : batch[h].user = Owner[wk.app] /\ batch[h].locks /\ batch[h].safe]_vars
  BY <1>1 DEF IInv, LeaseInv, Holds
<1> QED
  BY <1>1, Invariance, PTL DEF Spec, NoApplyWithinBatch
=============================================================================
