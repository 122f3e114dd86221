---------------------------- MODULE UsersProofs ----------------------------
(***************************************************************************)
(* Proofs about Users, for every set of users and every value of the       *)
(* bounds: the type invariant, that a created user is complete, that a     *)
(* removed one leaves nothing, and that no step takes a user back.         *)
(*                                                                         *)
(* The worker acts on a copy that the informer had, and the informer may   *)
(* be behind.  The argument orders the versions of an object: the copy is  *)
(* never newer than the cache, nor the cache than the object, and a user   *)
(* with a finalizer only goes when the worker takes it off.  So the object *)
(* the worker acts on is still the one it read, though not as it read it.  *)
(***************************************************************************)
EXTENDS Users, TLAPS

DeletePc == {DeleteChain[i] : i \in 1..10}
MakePc   == {CreateChain[i] : i \in 1..8}

\* Shapes, with what bounds the counters of an object.
ObjectTypes ==
    /\ usr \in [User -> UserObject \cup {NoUser}]
    /\ cached \in [User -> UserObject \cup {NoUser}]
    /\ w \in [pc : Pc, user : User, copy : UserObject \cup {NoUser}]
    /\ At("idle") <=> w.copy = NoUser
    /\ created \in 0..MaxCreates /\ events \in 0..MaxEvents
    /\ \A u \in User :
         /\ Exists(u) => usr[u].gen <= created /\ usr[u].edits <= events
         /\ cached[u] # NoUser => cached[u].gen <= created
    /\ w.copy # NoUser => w.copy.gen <= created

SpaceTypes ==
    /\ ns \in [User -> [Kind -> Phase]]
    /\ seen \in [User -> SUBSET (Kind \cup {"binding"})]
    /\ bound \subseteq User /\ rel \in [User -> SUBSET Release]
    /\ acct \in [User -> Account]

OtherTypes ==
    /\ queue \subseteq User /\ client \in BOOLEAN /\ req \subseteq User
    /\ syncq \subseteq User \cup {BaseKey}
    /\ base \in BOOLEAN /\ envs \subseteq User
    /\ lost \subseteq User /\ leaked \subseteq User

Types == ObjectTypes /\ SpaceTypes /\ OtherTypes

\* An object without the finalizer is as it was made.
Sound(o) ==
    /\ o.pw \in {0, o.gen}
    /\ ~o.fin => o.pw = o.gen /\ o.state = "" /\ ~o.deleting

AllSound ==
    /\ \A u \in User : Exists(u) => Sound(usr[u])
    /\ \A u \in User : cached[u] # NoUser => Sound(cached[u])
    /\ w.copy # NoUser => Sound(w.copy)

\* Nothing of an object is taken back but its groups, and they count.
Grows(old, new) ==
    /\ old.edits <= new.edits
    /\ old.edits = new.edits => old.admin = new.admin
    /\ old.fin => new.fin
    /\ old.deleting => new.deleting
    /\ old.synced => new.synced
    /\ old.asked => new.asked
    /\ new.pw \in {old.pw, 0}
    /\ new.state = old.state \/ Rank(old.state) < Rank(new.state)

Before(old, new) ==
    \/ old.gen < new.gen
    \/ old.gen = new.gen /\ Grows(old, new)

IsOf(o, u) == Exists(u) /\ usr[u].gen = o.gen

\* The copy of the worker, the cache and the object, in this order.
Versions ==
    /\ \A u \in User :
         Exists(u) /\ cached[u] # NoUser => Before(cached[u], usr[u])
    /\ w.copy # NoUser /\ Exists(me) => Before(w.copy, usr[me])
    /\ w.copy # NoUser /\ cached[me] # NoUser =>
         /\ w.copy.gen <= cached[me].gen
         /\ w.copy.deleting => Before(w.copy, cached[me])
    /\ w.copy # NoUser /\ IsOf(w.copy, me) => cached[me] # NoUser

\* What has the finalizer stays until the worker takes it off, and then no
\* key asks for another pass on the same copy.
Pinned ==
    /\ w.copy # NoUser /\ w.copy.fin => IsOf(w.copy, me)
    /\ w.copy # NoUser /\ w.copy.deleting /\ cached[me] = w.copy => me \notin queue
    /\ \A u \in User : cached[u] # NoUser /\ cached[u].fin
            /\ (~cached[u].deleting \/ u \in queue) => IsOf(cached[u], u)

\* Where the worker can be, with which copy.
Passes ==
    /\ w.pc \in DeletePc => w.copy.deleting
    /\ w.pc \notin DeletePc \cup {"idle"} => ~w.copy.deleting
    /\ w.pc \notin {"idle", "finalizer"} => w.copy.fin
    /\ w.pc = "creating" => w.copy.state = ""

Deciding == {"finalizer", "client", "sync", "mark", "creating"}
Writing == MakePc \cup {"admit", "failed"}

\* The state the worker decides on is the one the user has.
States ==
    /\ w.pc \in Deciding /\ IsOf(w.copy, me) => w.copy.state = usr[me].state
    /\ w.pc \in Writing => usr[me].state = "Creating"
    /\ \A u \in User :
         /\ cached[u] # NoUser /\ ~cached[u].deleting /\ IsOf(cached[u], u)
         /\ ~(w.user = u /\ w.pc \in Writing \cup {"rest"})
         => cached[u].state = usr[u].state

\* Nothing of a user is there but what is known to be left.
Clean(u) ==
    /\ rel[u] = {} /\ {u} \X Present(u) \subseteq missed
    /\ acct[u].made => u \in leaked

Fresh == \A u \in User : ~Exists(u) \/ ~usr[u].fin => Clean(u)

\* A namespace only goes with its user, and where the informers show it.
Terminating ==
    \A u \in User, k \in Kind :
        /\ ns[u][k] = "terminating" => k \in seen[u] /\ Exists(u) /\ usr[u].deleting
        /\ <<u, k>> \in missed => ns[u][k] # "terminating"

Accounts ==
    /\ \A u \in User :
         /\ acct[u].made /\ u \notin leaked => Exists(u) /\ acct[u].pw = usr[u].gen
         /\ Exists(u) /\ ~usr[u].deleting /\ usr[u].pw = 0 => acct[u].made
         /\ cached[u] # NoUser /\ ~cached[u].deleting /\ cached[u].pw = 0
                => acct[u].made
    /\ w.copy # NoUser /\ ~w.copy.deleting /\ w.copy.pw = 0 => acct[me].made
    /\ w.pc \in Writing \cup {"mark", "creating"} => acct[me].made

\* What the creation has made, by the place it has got to.
Making ==
    Living(me) =>
        /\ At("space") \/ w.pc \in MakePc \ {"binding"} => me \in bound
        /\ w.pc \in MakePc \ {"binding", "space"} => ns[me]["space"] = "active"
        /\ w.pc \in MakePc \ {"binding", "space", "system"}
                => ns[me]["system"] = "active"
        /\ w.pc \in {"waitBfl", "sysapps", "waitWizard", "created"}
                => "launcher" \in rel[me]
        /\ w.pc \in {"waitWizard", "created"} => App \subseteq rel[me]

Handled(k) ==
    ns[me][k] # "none" => <<me, k>> \in missed \/ k \in seen[me]

\* What the deletion has removed, by the place it has got to.
Removing ==
    /\ w.pc \in DeletePc \ {"account"} /\ acct[me].made => me \in leaked
    /\ w.pc \in {"clear", "dropSpace", "dropSystem", "unbind", "waitGone", "finish"}
            => App \cap rel[me] = {}
    /\ w.pc \in {"dropSpace", "dropSystem", "unbind", "waitGone", "finish"}
            => "launcher" \notin rel[me]
    /\ w.pc \in {"dropSystem", "unbind", "waitGone", "finish"} => Handled("space")
    /\ w.pc \in {"unbind", "waitGone", "finish"} => Handled("system")
    /\ w.pc \in {"waitGone", "finish"} /\ me \in bound => <<me, "binding">> \in missed
    /\ w.pc = "finish" => \A k \in Kind : ns[me][k] # "none" => <<me, k>> \in missed

IInv ==
    /\ Types /\ AllSound /\ Versions /\ Pinned /\ Passes /\ States
    /\ Fresh /\ Terminating /\ Accounts /\ Making /\ Removing /\ AllIsMade

-----------------------------------------------------------------------------
(* Objects and their versions.                                             *)

\* No user is not an object.
LEMMA NoUserIsNone == NoUser \notin UserObject
BY DEF NoUser, UserObject

\* What an object holds.
LEMMA Fields ==
    ASSUME NEW o \in UserObject
    PROVE  /\ o.gen \in Nat \ {0} /\ o.edits \in Nat /\ o.state \in State
           /\ o.edits <= MaxEvents /\ o.gen <= MaxCreates
           /\ o.fin \in BOOLEAN /\ o.deleting \in BOOLEAN /\ o.pw \in Nat
           /\ o.admin \in BOOLEAN /\ o.synced \in BOOLEAN /\ o.asked \in BOOLEAN
BY BoundsAssumption DEF UserObject

\* Ranks are numbers.
LEMMA RankType == ASSUME NEW s \in State PROVE Rank(s) \in Nat
BY DEF Rank, State

\* A user that is being deleted is in its last state.
LEMMA DeletingLast ==
    ASSUME NEW s \in State
    PROVE  s = "Deleting" \/ Rank(s) < Rank("Deleting")
<1>1. Rank("Deleting") = 3
  BY DEF Rank
<1>2. CASE s = ""
  <2>1. Rank(s) = 0
    BY <1>2 DEF Rank
  <2> QED
    BY <1>1, <2>1
<1>3. CASE s = "Creating"
  BY <1>1, <1>3 DEF Rank
<1>4. CASE s \in {"Created", "Failed"}
  BY <1>1, <1>4 DEF Rank
<1> QED
  BY <1>2, <1>3, <1>4 DEF State

\* An object is its own version.
LEMMA GrowsSelf == ASSUME NEW o \in UserObject PROVE Grows(o, o)
BY Fields DEF Grows

\* Growing is transitive ...
LEMMA GrowsOn ==
    ASSUME NEW a \in UserObject, NEW b \in UserObject, NEW c \in UserObject,
           Grows(a, b), Grows(b, c)
    PROVE  Grows(a, c)
<1>1. a.edits <= c.edits /\ (a.edits = c.edits => a.admin = c.admin)
  BY Fields DEF Grows
<1>2. c.state = a.state \/ Rank(a.state) < Rank(c.state)
  <2>1. Rank(a.state) \in Nat /\ Rank(b.state) \in Nat /\ Rank(c.state) \in Nat
    BY Fields, RankType
  <2> QED
    BY <2>1 DEF Grows
<1> QED
  BY <1>1, <1>2 DEF Grows

\* ... and so is the order of versions.
LEMMA BeforeOn ==
    ASSUME NEW a \in UserObject, NEW b \in UserObject, NEW c \in UserObject,
           Before(a, b), Before(b, c)
    PROVE  Before(a, c)
BY GrowsOn, Fields DEF Before

\* Two objects with the same fields are the same.
LEMMA SameObject ==
    ASSUME NEW a \in UserObject, NEW b \in UserObject,
           a.gen = b.gen, a.edits = b.edits, a.state = b.state, a.fin = b.fin,
           a.deleting = b.deleting, a.pw = b.pw, a.admin = b.admin,
           a.synced = b.synced, a.asked = b.asked
    PROVE  a = b
BY DEF UserObject

\* No version comes back.
LEMMA BeforeBoth ==
    ASSUME NEW a \in UserObject, NEW b \in UserObject,
           Before(a, b), Before(b, a)
    PROVE  a = b
<1>1. a.gen = b.gen /\ Grows(a, b) /\ Grows(b, a)
  BY Fields DEF Before
<1>2. a.edits = b.edits /\ a.admin = b.admin
  BY <1>1, Fields DEF Grows
<1>3. a.fin = b.fin /\ a.deleting = b.deleting /\ a.synced = b.synced /\ a.asked = b.asked
  BY <1>1, Fields DEF Grows
<1>4. a.pw = b.pw
  BY <1>1, Fields DEF Grows
<1>5. a.state = b.state
  BY <1>1, Fields, RankType DEF Grows
<1> QED
  BY <1>1, <1>2, <1>3, <1>4, <1>5, SameObject

\* A later version of an object, written on the way.
Onward(old, new) ==
    /\ new \in UserObject /\ new.gen = old.gen
    /\ Grows(old, new) /\ Sound(new)

\* The annotation of the one who asked for the deletion.
LEMMA AskedOnward ==
    ASSUME NEW o \in UserObject, Sound(o)
    PROVE  LET n == [o EXCEPT !.asked = TRUE]
           IN  /\ Onward(o, n) /\ n.edits = o.edits /\ n.fin = o.fin
               /\ n.state = o.state /\ n.pw = o.pw /\ n.deleting = o.deleting
<1> DEFINE n == [o EXCEPT !.asked = TRUE]
<1>1. n \in UserObject
  BY DEF UserObject
<1>2. /\ n.gen = o.gen /\ n.edits = o.edits /\ n.fin = o.fin /\ n.state = o.state
      /\ n.pw = o.pw /\ n.deleting = o.deleting
      /\ n.synced = o.synced /\ n.admin = o.admin /\ n.asked
  BY DEF UserObject
<1> HIDE DEF n
<1>3. Grows(o, n)
  BY <1>2, Fields DEF Grows
<1>4. Sound(n)
  BY <1>2, Fields DEF Sound
<1> QED
  BY <1>1, <1>2, <1>3, <1>4 DEF Onward, n

\* The mark of a deletion that waits for the finalizer.
LEMMA DeletingOnward ==
    ASSUME NEW o \in UserObject, Sound(o), o.fin
    PROVE  LET n == [o EXCEPT !.deleting = TRUE]
           IN  /\ Onward(o, n) /\ n.edits = o.edits /\ n.fin = o.fin
               /\ n.state = o.state /\ n.pw = o.pw /\ n.deleting
<1> DEFINE n == [o EXCEPT !.deleting = TRUE]
<1>1. n \in UserObject
  BY DEF UserObject
<1>2. /\ n.gen = o.gen /\ n.edits = o.edits /\ n.fin = o.fin /\ n.state = o.state
      /\ n.pw = o.pw /\ n.deleting
      /\ n.synced = o.synced /\ n.admin = o.admin /\ n.asked = o.asked
  BY DEF UserObject
<1> HIDE DEF n
<1>3. Grows(o, n)
  BY <1>2, Fields DEF Grows
<1>4. Sound(n)
  BY <1>2, Fields DEF Sound
<1> QED
  BY <1>1, <1>2, <1>3, <1>4 DEF Onward, n

\* The limits.
LEMMA LimitsOnward ==
    ASSUME NEW o \in UserObject, Sound(o), o.edits + 1 <= MaxEvents
    PROVE  LET n == [o EXCEPT !.edits = @ + 1]
           IN  /\ Onward(o, n) /\ n.edits = o.edits + 1 /\ n.fin = o.fin
               /\ n.state = o.state /\ n.pw = o.pw /\ n.deleting = o.deleting
<1> DEFINE n == [o EXCEPT !.edits = @ + 1]
<1>1. n \in UserObject
  <2>1. o.edits + 1 \in 0..MaxEvents
    BY Fields, BoundsAssumption
  <2> QED
    BY <2>1 DEF UserObject
<1>2. /\ n.gen = o.gen /\ n.edits = o.edits + 1 /\ n.fin = o.fin /\ n.state = o.state
      /\ n.pw = o.pw /\ n.deleting = o.deleting
      /\ n.synced = o.synced /\ n.admin = o.admin /\ n.asked = o.asked
  BY DEF UserObject
<1> HIDE DEF n
<1>3. Grows(o, n)
  BY <1>2, Fields DEF Grows
<1>4. Sound(n)
  BY <1>2, Fields DEF Sound
<1> QED
  BY <1>1, <1>2, <1>3, <1>4 DEF Onward, n

\* The groups.
LEMMA GroupsOnward ==
    ASSUME NEW o \in UserObject, Sound(o), o.edits + 1 <= MaxEvents
    PROVE  LET n == [o EXCEPT !.admin = ~@, !.edits = @ + 1]
           IN  /\ Onward(o, n) /\ n.edits = o.edits + 1 /\ n.fin = o.fin
               /\ n.state = o.state /\ n.pw = o.pw /\ n.deleting = o.deleting
<1> DEFINE n == [o EXCEPT !.admin = ~@, !.edits = @ + 1]
<1>1. n \in UserObject
  <2> DEFINE b == [o EXCEPT !.edits = @ + 1]
  <2>1. o.edits + 1 \in 0..MaxEvents
    BY Fields, BoundsAssumption
  <2>2. b \in UserObject
    BY <2>1 DEF UserObject
  <2>3. n = [b EXCEPT !.admin = ~b.admin]
    BY DEF UserObject
  <2> HIDE DEF n, b
  <2> QED
    BY <2>2, <2>3 DEF UserObject
<1>2. /\ n.gen = o.gen /\ n.edits = o.edits + 1 /\ n.fin = o.fin /\ n.state = o.state
      /\ n.pw = o.pw /\ n.deleting = o.deleting
      /\ n.synced = o.synced /\ n.admin = ~o.admin /\ n.asked = o.asked
  BY DEF UserObject
<1> HIDE DEF n
<1>3. Grows(o, n)
  BY <1>2, Fields DEF Grows
<1>4. Sound(n)
  BY <1>2, Fields DEF Sound
<1> QED
  BY <1>1, <1>2, <1>3, <1>4 DEF Onward, n

\* The finalizer.
LEMMA FinalizerOnward ==
    ASSUME NEW o \in UserObject, Sound(o)
    PROVE  LET n == [o EXCEPT !.fin = TRUE]
           IN  /\ Onward(o, n) /\ n.edits = o.edits /\ n.fin
               /\ n.state = o.state /\ n.pw = o.pw /\ n.deleting = o.deleting
<1> DEFINE n == [o EXCEPT !.fin = TRUE]
<1>1. n \in UserObject
  BY DEF UserObject
<1>2. /\ n.gen = o.gen /\ n.edits = o.edits /\ n.fin /\ n.state = o.state
      /\ n.pw = o.pw /\ n.deleting = o.deleting
      /\ n.synced = o.synced /\ n.admin = o.admin /\ n.asked = o.asked
  BY DEF UserObject
<1> HIDE DEF n
<1>3. Grows(o, n)
  BY <1>2, Fields DEF Grows
<1>4. Sound(n)
  BY <1>2, Fields DEF Sound
<1> QED
  BY <1>1, <1>2, <1>3, <1>4 DEF Onward, n

\* The mark of the synchronisation.
LEMMA SyncedOnward ==
    ASSUME NEW o \in UserObject, Sound(o), o.fin
    PROVE  LET n == [o EXCEPT !.synced = TRUE, !.pw = 0]
           IN  /\ Onward(o, n) /\ n.edits = o.edits /\ n.fin = o.fin
               /\ n.state = o.state /\ n.pw = 0 /\ n.deleting = o.deleting
<1> DEFINE n == [o EXCEPT !.synced = TRUE, !.pw = 0]
<1>1. n \in UserObject
  <2> DEFINE b == [o EXCEPT !.synced = TRUE]
  <2>1. 0 \in 0..MaxCreates
    BY BoundsAssumption
  <2>2. b \in UserObject
    BY DEF UserObject
  <2>3. n = [b EXCEPT !.pw = 0]
    BY DEF UserObject
  <2> HIDE DEF n, b
  <2> QED
    BY <2>1, <2>2, <2>3 DEF UserObject
<1>2. /\ n.gen = o.gen /\ n.edits = o.edits /\ n.fin = o.fin /\ n.state = o.state
      /\ n.pw = 0 /\ n.deleting = o.deleting
      /\ n.synced /\ n.admin = o.admin /\ n.asked = o.asked
  BY DEF UserObject
<1> HIDE DEF n
<1>3. Grows(o, n)
  BY <1>2, Fields DEF Grows
<1>4. Sound(n)
  BY <1>2, Fields DEF Sound
<1> QED
  BY <1>1, <1>2, <1>3, <1>4 DEF Onward, n

\* The states.
LEMMA StateOnward ==
    ASSUME NEW o \in UserObject, Sound(o), o.fin, NEW s \in State,
           s = o.state \/ Rank(o.state) < Rank(s)
    PROVE  LET n == [o EXCEPT !.state = s]
           IN  /\ Onward(o, n) /\ n.edits = o.edits /\ n.fin = o.fin
               /\ n.state = s /\ n.pw = o.pw /\ n.deleting = o.deleting
<1> DEFINE n == [o EXCEPT !.state = s]
<1>1. n \in UserObject
  BY DEF UserObject
<1>2. /\ n.gen = o.gen /\ n.edits = o.edits /\ n.fin = o.fin /\ n.state = s
      /\ n.pw = o.pw /\ n.deleting = o.deleting
      /\ n.synced = o.synced /\ n.admin = o.admin /\ n.asked = o.asked
  BY DEF UserObject
<1> HIDE DEF n
<1>3. Grows(o, n)
  BY <1>2, Fields DEF Grows
<1>4. Sound(n)
  BY <1>2, Fields DEF Sound
<1> QED
  BY <1>1, <1>2, <1>3, <1>4 DEF Onward, n

-----------------------------------------------------------------------------
(* The order of the copies, through steps that write the same object on.   *)

USE DEF me, At

\* The worker that has nothing to do.
LEMMA IdleIsWorker ==
    /\ Idle.pc = "idle" /\ Idle.copy = NoUser /\ Idle.user \in User
    /\ Idle \in [pc : Pc, user : User, copy : UserObject \cup {NoUser}]
<1>1. Idle.user \in User
  BY BoundsAssumption DEF Idle
<1> QED
  BY <1>1 DEF Idle, Pc

\* Objects that are there change to later versions.
Moves ==
    \A u \in User : \/ usr'[u] = usr[u]
                    \/ Exists(u) /\ Onward(usr[u], usr'[u])

\* The worker goes on with the same copy, or ends.
Keeps ==
    /\ \/ w' = Idle
       \/ w'.user = w.user /\ w'.copy = w.copy
    /\ \/ queue' = queue
       \/ /\ queue' = queue \cup {me} /\ w.copy # NoUser /\ w.copy.fin
          /\ w' = Idle \/ ~w.copy.deleting

Order == AllSound /\ Versions /\ Pinned

\* What Types says of the objects and the worker.
LEMMA TypesFacts ==
    ASSUME Types
    PROVE  /\ me \in User
           /\ w.copy # NoUser => w.copy \in UserObject
           /\ At("idle") <=> w.copy = NoUser
           /\ \A u \in User : Exists(u) => usr[u] \in UserObject
           /\ \A u \in User : cached[u] # NoUser => cached[u] \in UserObject
BY DEF Types, ObjectTypes, Exists

\* Later versions keep the order, and so does a step of the worker.
LEMMA MovesOrder ==
    ASSUME Types, Order, Moves, cached' = cached, Keeps
    PROVE  Order'
<1> USE TypesFacts, IdleIsWorker
<1>1. \A u \in User : /\ Exists(u) <=> Exists(u)'
                      /\ Exists(u) => /\ usr'[u] \in UserObject /\ Before(usr[u], usr'[u])
                                      /\ usr'[u].gen = usr[u].gen /\ Sound(usr'[u])
  <2> TAKE u \in User
  <2>1. CASE usr'[u] = usr[u]
    BY <2>1, GrowsSelf DEF Exists, Before, Order, AllSound
  <2>2. CASE Exists(u) /\ Onward(usr[u], usr'[u])
    BY <2>2, NoUserIsNone DEF Exists, Before, Onward
  <2> QED
    BY <2>1, <2>2 DEF Moves
<1>2. w'.copy # NoUser => /\ w'.copy = w.copy /\ w'.user = w.user
                          /\ w.copy.deleting => queue' = queue
  BY DEF Keeps
<1>3. AllSound'
  BY <1>1, <1>2 DEF AllSound, Order, Exists
<1>4. Versions'
  <2>1. ASSUME NEW o \in UserObject, NEW u \in User, Exists(u), Before(o, usr[u])
        PROVE  Before(o, usr'[u])
    BY <1>1, <2>1, BeforeOn
  <2> QED
    BY <1>1, <1>2, <2>1 DEF Versions, Order, IsOf
<1>5. Pinned'
  <2>1. ASSUME w.copy # NoUser, w.copy.fin, cached[me] # NoUser, cached[me].fin
        PROVE  IsOf(cached[me], me)
    <3>1. IsOf(w.copy, me) /\ w.copy.gen <= cached[me].gen /\ Before(cached[me], usr[me])
      BY <2>1 DEF Order, Pinned, Versions, IsOf
    <3>2. cached[me].gen <= usr[me].gen
      BY <3>1, <2>1, Fields DEF Before, IsOf
    <3> QED
      BY <3>1, <3>2, <2>1, Fields DEF IsOf
  <2>2. \A u \in User : cached[u] # NoUser /\ cached[u].fin
            /\ (~cached[u].deleting \/ u \in queue') => IsOf(cached[u], u)
    BY <2>1 DEF Order, Pinned, Keeps
  <2>3. \A o : \A u \in User : IsOf(o, u) => IsOf(o, u)'
    BY <1>1 DEF IsOf
  <2> QED
    BY <1>2, <2>2, <2>3 DEF Order, Pinned
<1> QED
  BY <1>3, <1>4, <1>5 DEF Order

-----------------------------------------------------------------------------
(* The worker.                                                             *)

\* The places of a creation follow each other.
LEMMA Creation ==
    /\ After(CreateChain, "binding") = "space"
    /\ After(CreateChain, "space") = "system"
    /\ After(CreateChain, "system") = "launcher"
    /\ After(CreateChain, "launcher") = "waitBfl"
    /\ After(CreateChain, "waitBfl") = "sysapps"
    /\ After(CreateChain, "sysapps") = "waitWizard"
    /\ After(CreateChain, "waitWizard") = "created"
<1>1. ASSUME NEW i \in 1..7
      PROVE  After(CreateChain, CreateChain[i]) = CreateChain[1 + i]
  <2>1. DOMAIN CreateChain = 1..8
    BY DEF CreateChain
  <2>2. /\ CreateChain[1] = "binding" /\ CreateChain[2] = "space"
        /\ CreateChain[3] = "system" /\ CreateChain[4] = "launcher"
        /\ CreateChain[5] = "waitBfl" /\ CreateChain[6] = "sysapps"
        /\ CreateChain[7] = "waitWizard" /\ CreateChain[8] = "created"
    BY DEF CreateChain
  <2>3. \A k \in 1..8 : CreateChain[k] = CreateChain[i] => k = i
    BY <1>1, <2>2
  <2>4. (CHOOSE k \in DOMAIN CreateChain : CreateChain[k] = CreateChain[i]) = i
    BY <1>1, <2>1, <2>3
  <2> QED
    BY <2>4 DEF After
<1> QED
  BY <1>1 DEF CreateChain

\* So do those of a deletion.
LEMMA Deletion ==
    /\ After(DeleteChain, "bindings") = "deleting"
    /\ After(DeleteChain, "uninstall") = "clear"
    /\ After(DeleteChain, "clear") = "dropSpace"
    /\ After(DeleteChain, "dropSpace") = "dropSystem"
    /\ After(DeleteChain, "dropSystem") = "unbind"
    /\ After(DeleteChain, "unbind") = "waitGone"
<1>1. ASSUME NEW i \in 1..9
      PROVE  After(DeleteChain, DeleteChain[i]) = DeleteChain[1 + i]
  <2>1. DOMAIN DeleteChain = 1..10
    BY DEF DeleteChain
  <2>2. /\ DeleteChain[1] = "account" /\ DeleteChain[2] = "bindings"
        /\ DeleteChain[3] = "deleting" /\ DeleteChain[4] = "uninstall"
        /\ DeleteChain[5] = "clear" /\ DeleteChain[6] = "dropSpace"
        /\ DeleteChain[7] = "dropSystem" /\ DeleteChain[8] = "unbind"
        /\ DeleteChain[9] = "waitGone" /\ DeleteChain[10] = "finish"
    BY DEF DeleteChain
  <2>3. \A k \in 1..10 : DeleteChain[k] = DeleteChain[i] => k = i
    BY <1>1, <2>2
  <2>4. (CHOOSE k \in DOMAIN DeleteChain : DeleteChain[k] = DeleteChain[i]) = i
    BY <1>1, <2>1, <2>3
  <2> QED
    BY <2>4 DEF After
<1> QED
  BY <1>1 DEF DeleteChain

\* The places, by their names.
LEMMA Places ==
    /\ MakePc = {"binding", "space", "system", "launcher", "waitBfl", "sysapps",
                 "waitWizard", "created"}
    /\ DeletePc = {"account", "bindings", "deleting", "uninstall", "clear",
                   "dropSpace", "dropSystem", "unbind", "waitGone", "finish"}
    /\ Pc = {"idle", "finalizer", "client", "sync", "mark", "creating", "admit",
             "failed", "rest"} \cup MakePc \cup DeletePc
<1>1. MakePc = {"binding", "space", "system", "launcher", "waitBfl", "sysapps",
                "waitWizard", "created"}
  <2>1. 1..8 = {1, 2, 3, 4, 5, 6, 7, 8}
    OBVIOUS
  <2> QED
    BY <2>1 DEF MakePc, CreateChain
<1>2. DeletePc = {"account", "bindings", "deleting", "uninstall", "clear",
                  "dropSpace", "dropSystem", "unbind", "waitGone", "finish"}
  <2>1. 1..10 = {1, 2, 3, 4, 5, 6, 7, 8, 9, 10}
    OBVIOUS
  <2> QED
    BY <2>1 DEF DeletePc, DeleteChain
<1> QED
  BY <1>1, <1>2 DEF Pc, MakePc, DeletePc

IsWorker(x) ==
    /\ x \in [pc : Pc, user : User, copy : UserObject \cup {NoUser}]
    /\ x.pc = "idle" <=> x.copy = NoUser

\* A step of the worker to another place keeps what it holds.
LEMMA GotoLemma ==
    ASSUME Types, w.pc # "idle", NEW p \in Pc, Goto(p)
    PROVE  /\ IsWorker(w') /\ w'.pc = p
           /\ p = "idle" => w' = Idle
           /\ p # "idle" => w'.user = w.user /\ w'.copy = w.copy
BY IdleIsWorker DEF Goto, Types, ObjectTypes, IsWorker

\* It ends with its step.
LEMMA IdleLemma ==
    ASSUME w' = Idle
    PROVE  IsWorker(w') /\ w'.pc = "idle" /\ w'.copy = NoUser /\ w'.user \in User
BY IdleIsWorker DEF IsWorker

\* The user that the worker has taken on, once it has the finalizer.
LEMMA Here ==
    ASSUME Types, Order, Passes, w.pc \notin {"idle", "finalizer"}
    PROVE  /\ me \in User /\ w.copy \in UserObject /\ usr[me] \in UserObject
           /\ Exists(me) /\ usr[me].gen = w.copy.gen /\ usr[me].fin
           /\ Grows(w.copy, usr[me]) /\ Sound(usr[me]) /\ Sound(w.copy)
           /\ w.pc \in DeletePc => usr[me].deleting /\ w.copy.deleting
<1>1. /\ me \in User /\ w.copy # NoUser /\ w.copy \in UserObject /\ w.copy.fin
      /\ w.pc \in DeletePc => w.copy.deleting
  BY TypesFacts DEF Passes
<1>2. Exists(me) /\ usr[me].gen = w.copy.gen /\ usr[me] \in UserObject
  BY <1>1, TypesFacts DEF Order, Pinned, IsOf
<1>3. Grows(w.copy, usr[me]) /\ Sound(usr[me]) /\ Sound(w.copy)
  BY <1>1, <1>2, Fields DEF Order, Versions, AllSound, Before
<1> QED
  BY <1>1, <1>2, <1>3 DEF Grows

\* What a step that takes nothing of a user's space has to show.
Advances ==
    /\ Moves /\ Keeps
    /\ UNCHANGED <<cached, ns, seen, rel, bound, acct, leaked, missed>>
    /\ \A u \in User : Exists(u) =>
         usr'[u].pw = usr[u].pw \/ acct[u].made
    /\ w'.pc \in Writing \cup {"mark", "creating"} => acct[w'.user].made

\* With the places of the worker and the states, that is all.
LEMMA Advance ==
    ASSUME IInv, Advances, Types', Passes', States', Making', Removing', AllIsMade'
    PROVE  IInv'
<1> USE TypesFacts DEF IInv
<1>1. Order'
  BY MovesOrder DEF Order, Advances
<1>2. \A u \in User : /\ Exists(u) <=> Exists(u)'
                      /\ Exists(u) => /\ usr'[u].gen = usr[u].gen
                                      /\ usr[u].fin => usr'[u].fin
                                      /\ usr[u].deleting => usr'[u].deleting
  <2> TAKE u \in User
  <2>1. CASE usr'[u] = usr[u]
    BY <2>1 DEF Exists
  <2>2. CASE Exists(u) /\ Onward(usr[u], usr'[u])
    BY <2>2, NoUserIsNone DEF Exists, Onward, Grows
  <2> QED
    BY <2>1, <2>2 DEF Advances, Moves
<1>3. Fresh'
  BY <1>2 DEF Fresh, Clean, Present, Advances
<1>4. Terminating'
  BY <1>2 DEF Terminating, Advances
<1>5. Accounts'
  <2>1. w'.copy # NoUser => w'.copy = w.copy /\ w'.user = w.user
    BY IdleIsWorker DEF Advances, Keeps
  <2> QED
    BY <1>2, <2>1 DEF Accounts, Advances
<1> QED
  BY <1>1, <1>3, <1>4, <1>5 DEF Order

\* Steps that change neither objects nor what is made for the users.
Quiet ==
    /\ Keeps /\ IsWorker(w')
    /\ UNCHANGED <<usr, cached, ns, seen, rel, bound, acct, leaked, missed>>
    /\ UNCHANGED <<req, syncq, base, envs>>
    /\ NoFault \/ Fault
    /\ client' \in BOOLEAN /\ lost' \subseteq User

\* They keep the types ...
LEMMA QuietTypes ==
    ASSUME Types, Quiet
    PROVE  Types'
<1> USE TypesFacts
<1>1. created' \in 0..MaxCreates /\ events' \in 0..MaxEvents /\ created' = created
      /\ events <= events'
  BY BoundsAssumption DEF Quiet, NoFault, Fault, Event, Types, ObjectTypes, bounds
<1>2. w'.copy # NoUser => w'.copy = w.copy
  BY IdleIsWorker DEF Quiet, Keeps
<1>3. \A u \in User : usr'[u].edits <= events <=> usr[u].edits <= events
  BY DEF Quiet
<1>4. ObjectTypes'
  <2>1. \A u \in User : Exists(u) => usr[u].edits <= events'
    BY <1>1, Fields, BoundsAssumption DEF Types, ObjectTypes
  <2> QED
    BY <1>1, <1>2, <2>1 DEF Types, ObjectTypes, Quiet, IsWorker, Exists
<1>5. SpaceTypes'
  BY DEF Types, SpaceTypes, Quiet
<1>6. OtherTypes'
  BY DEF Types, OtherTypes, Quiet, Keeps
<1> QED
  BY <1>4, <1>5, <1>6 DEF Types

\* ... and the invariant, with the place and the state of the worker.
LEMMA QuietStep ==
    ASSUME IInv, Quiet, Passes', States', Making', Removing',
           w'.pc \in Writing \cup {"mark", "creating"} => acct[w'.user].made
    PROVE  IInv'
<1>1. Types'
  BY QuietTypes DEF IInv
<1>2. Advances
  <2>1. usr' = usr
    BY DEF Quiet
  <2>2. Moves
    BY <2>1 DEF Moves
  <2> QED
    BY <2>2 DEF Advances, Quiet
<1>3. AllIsMade'
  BY DEF IInv, AllIsMade, Living, Exists, Quiet
<1> QED
  BY <1>1, <1>2, <1>3, Advance

\* The worker ends with what it knew of the states.
LEMMA EndStep ==
    ASSUME IInv, Quiet, w' = Idle,
           w.pc \in Writing \cup {"rest"} => cached[me] = usr[me]
    PROVE  IInv'
<1> USE IdleLemma, Places
<1>1. Passes' /\ Making' /\ Removing'
  BY DEF Passes, Making, Removing
<1>2. States'
  BY DEF States, IInv, Quiet, Deciding, Writing, IsOf, Exists
<1>3. w'.pc \notin Writing \cup {"mark", "creating"}
  BY DEF Writing
<1> QED
  BY <1>1, <1>2, <1>3, QuietStep

-----------------------------------------------------------------------------
(* Steps that write nothing.                                               *)

\* A step that ends and asks for another pass.
LEMMA RequeueKeeps ==
    ASSUME IInv, w.pc \notin {"idle", "finalizer"}, Requeue
    PROVE  Keeps /\ IsWorker(w') /\ w' = Idle
BY IdleLemma, Here, NoUserIsNone DEF IInv, Passes, Requeue, Keeps, Order

\* A step to another place that asks for nothing.
LEMMA GotoKeeps ==
    ASSUME IInv, w.pc # "idle", NEW p \in Pc, p # "idle", Goto(p), queue' = queue
    PROVE  Keeps /\ IsWorker(w') /\ w'.pc = p /\ w'.user = w.user /\ w'.copy = w.copy
BY GotoLemma DEF IInv, Keeps

\* The places that need nothing more than the one before.
Easy(p, q) ==
    \/ p = "client" /\ q = "sync"
    \/ p = "admit" /\ q \in {"binding", "failed"}
    \/ p \in MakePc \ {"created"} /\ q = "failed"
    \/ p = "waitBfl" /\ q = "sysapps"
    \/ p = "waitWizard" /\ q = "created"
    \/ p = "bindings" /\ q = "deleting"
    \/ p = "deleting" /\ q = "uninstall"

\* A step to such a place.
LEMMA WalkStep ==
    ASSUME IInv, Quiet, NEW q, w'.pc = q, w'.user = w.user, w'.copy = w.copy,
           Easy(w.pc, q)
    PROVE  IInv'
<1> USE Places
<1>1. Passes'
  BY DEF IInv, Passes, Easy
<1>2. States'
  BY DEF IInv, States, Easy, Deciding, Writing, IsOf, Exists, Quiet
<1>3. Making'
  BY DEF IInv, Making, Easy, Living, Exists, Quiet
<1>4. Removing'
  BY DEF IInv, Removing, Easy, Handled, Quiet
<1>5. w'.pc \in Writing \cup {"mark", "creating"} => acct[w'.user].made
  BY DEF IInv, Accounts, Easy, Writing
<1> QED
  BY <1>1, <1>2, <1>3, <1>4, <1>5, QuietStep

\* The client of LLDAP is there, or the pass is tried again.
LEMMA GetClientStep == ASSUME IInv, GetClient PROVE IInv'
<1> USE Places DEF GetClient
<1>1. /\ UNCHANGED <<usr, cached, ns, seen, rel, bound, acct, leaked, missed>>
      /\ UNCHANGED <<req, syncq, base, envs>>
      /\ NoFault \/ Fault
      /\ client' \in BOOLEAN /\ lost' \subseteq User
  BY DEF ghost, Still, sync, IInv, Types, OtherTypes
<1>2. CASE Goto("sync") /\ queue' = queue
  <2>1. w'.pc = "sync" /\ w'.user = w.user /\ w'.copy = w.copy /\ Quiet
    BY <1>1, <1>2, GotoKeeps DEF Quiet
  <2> QED
    BY <2>1, WalkStep DEF Easy
<1>3. CASE Requeue
  <2>1. w' = Idle /\ Quiet
    BY <1>1, <1>3, RequeueKeeps DEF Quiet
  <2> QED
    BY <2>1, EndStep DEF Writing
<1> QED
  BY <1>2, <1>3


\* What steps that write nothing leave alone.
LEMMA StillQuiet ==
    ASSUME IInv, NoWrite, Still' = Still, NoFault \/ Fault, Keeps, IsWorker(w')
    PROVE  Quiet
BY DEF NoWrite, Still, sync, ghost, Quiet, IInv, Types, OtherTypes

\* The user is let in, or fails.
LEMMA AdmitStep == ASSUME IInv, Admit PROVE IInv'
<1> USE Places DEF Admit
<1>1. PICK q \in {"binding", "failed"} : Goto(q)
  OBVIOUS
<1>2. queue' = queue /\ NoWrite /\ Still' = Still /\ NoFault
  OBVIOUS
<1>3. w'.pc = q /\ w'.user = w.user /\ w'.copy = w.copy /\ Quiet
  BY <1>1, <1>2, GotoKeeps, StillQuiet
<1> QED
  BY <1>1, <1>3, WalkStep DEF Easy

\* The creation ends, when the caches show what it wrote.
LEMMA RestStep == ASSUME IInv, Rest PROVE IInv'
<1> USE Places DEF Rest
<1>1. w' = Idle /\ queue' = queue /\ NoWrite /\ Still' = Still /\ NoFault
  BY DEF Done
<1>2. Quiet
  BY <1>1, IdleLemma, StillQuiet DEF Keeps
<1>3. cached[me] = usr[me]
  BY DEF Shown
<1> QED
  BY <1>1, <1>2, <1>3, EndStep

\* A step of the deletion fails.
LEMMA DeleteFailsStep == ASSUME IInv, DeleteFails PROVE IInv'
<1> USE Places DEF DeleteFails
<1>1. Requeue /\ NoWrite /\ Still' = Still /\ Fault
  OBVIOUS
<1>2. w' = Idle /\ Quiet
  BY <1>1, RequeueKeeps, StillQuiet
<1> QED
  BY <1>2, EndStep DEF Writing

\* The rolebindings are in the namespaces.
LEMMA BindingsStep == ASSUME IInv, deleteRoleBindings PROVE IInv'
<1> USE Places DEF deleteRoleBindings, Removed
<1>1. Goto("deleting") /\ queue' = queue
  BY Deletion
<1>2. NoWrite /\ Still' = Still /\ NoFault
  BY DEF NoWrite, ghost
<1>3. w'.pc = "deleting" /\ w'.user = w.user /\ w'.copy = w.copy /\ Quiet
  BY <1>1, <1>2, GotoKeeps, StillQuiet
<1> QED
  BY <1>3, WalkStep DEF Easy

\* The launcher runs.
LEMMA LauncherRunsStep == ASSUME IInv, checkLauncher PROVE IInv'
<1> USE Places DEF checkLauncher, Made
<1>1. Goto("sysapps") /\ queue' = queue
  BY Creation
<1>2. NoWrite /\ Still' = Still /\ NoFault
  BY DEF NoWrite
<1>3. w'.pc = "sysapps" /\ w'.user = w.user /\ w'.copy = w.copy /\ Quiet
  BY <1>1, <1>2, GotoKeeps, StillQuiet
<1> QED
  BY <1>3, WalkStep DEF Easy

\* The desktop runs.
LEMMA DesktopRunsStep == ASSUME IInv, checkDesktopRunning PROVE IInv'
<1> USE Places DEF checkDesktopRunning, Made
<1>1. Goto("created") /\ queue' = queue
  BY Creation
<1>2. NoWrite /\ Still' = Still /\ NoFault
  BY DEF NoWrite
<1>3. w'.pc = "created" /\ w'.user = w.user /\ w'.copy = w.copy /\ Quiet
  BY <1>1, <1>2, GotoKeeps, StillQuiet
<1> QED
  BY <1>3, WalkStep DEF Easy

\* The namespaces are not shown any more, or the pass is tried again.
LEMMA WaitGoneStep == ASSUME IInv, WaitGone PROVE IInv'
<1> USE Places DEF WaitGone
<1>1. NoWrite /\ Still' = Still /\ NoFault
  OBVIOUS
<1>2. CASE seen[me] \cap Kind = {} /\ Goto("finish") /\ queue' = queue
  <2>1. w'.pc = "finish" /\ w'.user = w.user /\ w'.copy = w.copy /\ Quiet
    BY <1>1, <1>2, GotoKeeps, StillQuiet
  <2>2. Passes'
    BY <2>1 DEF IInv, Passes
  <2>3. States'
    BY <2>1 DEF IInv, States, Deciding, Writing, IsOf, Exists, Quiet
  <2>4. Making'
    BY <2>1 DEF Making
  <2>5. Removing'
    <3>1. \A k \in Kind : ns[me][k] # "none" => <<me, k>> \in missed
      BY <1>2 DEF IInv, Removing, Handled, Kind
    <3> QED
      BY <2>1, <3>1 DEF IInv, Removing, Handled, Quiet
  <2>6. w'.pc \notin Writing \cup {"mark", "creating"}
    BY <2>1 DEF Writing
  <2> QED
    BY <2>1, <2>2, <2>3, <2>4, <2>5, <2>6, QuietStep
<1>3. CASE Requeue
  <2>1. w' = Idle /\ Quiet
    BY <1>1, <1>3, RequeueKeeps, StillQuiet
  <2> QED
    BY <2>1, EndStep DEF Writing
<1> QED
  BY <1>2, <1>3

-----------------------------------------------------------------------------
(* Steps that write an object.                                             *)

\* A new version of an object, and what else a write may change.
Writes(u, new) ==
    /\ Exists(u) /\ Onward(usr[u], new) /\ usr' = [usr EXCEPT ![u] = new]
    /\ new.pw = usr[u].pw \/ acct[u].made
    /\ new.edits <= events' /\ created' = created
    /\ events' \in events..MaxEvents
    /\ UNCHANGED <<cached, ns, seen, rel, bound, acct, leaked, missed>>
    /\ UNCHANGED <<syncq, base, envs>>
    /\ client' \in BOOLEAN /\ lost' \subseteq User /\ req' \subseteq User
    /\ Keeps /\ IsWorker(w')

\* Such a step, with the places of the worker and the states.
LEMMA WriteStep ==
    ASSUME IInv, NEW u \in User, NEW new, Writes(u, new),
           Passes', States', Making', Removing', AllIsMade',
           w'.pc \in Writing \cup {"mark", "creating"} => acct[w'.user].made
    PROVE  IInv'
<1> USE TypesFacts DEF Writes
<1>0. Types /\ usr \in [User -> UserObject \cup {NoUser}]
  BY DEF IInv, Types, ObjectTypes
<1>1. /\ usr'[u] = new /\ \A v \in User \ {u} : usr'[v] = usr[v]
      /\ usr' \in [User -> UserObject \cup {NoUser}]
  BY <1>0 DEF Onward
<1>2. Moves
  BY <1>1 DEF Moves
<1>3. Advances
  BY <1>1, <1>2 DEF Advances
<1>4. ObjectTypes'
  <2>1. created' \in 0..MaxCreates /\ events' \in 0..MaxEvents /\ events <= events'
    BY <1>0, BoundsAssumption DEF Types, ObjectTypes
  <2>2. \A v \in User : usr'[v] # NoUser =>
            usr'[v].gen <= created' /\ usr'[v].edits <= events'
    <3> TAKE v \in User
    <3>1. CASE v = u
      BY <1>0, <1>1, <3>1 DEF Onward, Types, ObjectTypes
    <3>2. CASE v # u
      <4>1. Exists(v) => usr[v].edits <= events /\ usr[v].gen <= created
        BY <1>0 DEF Types, ObjectTypes
      <4> QED
        BY <1>0, <1>1, <2>1, <3>2, <4>1, Fields, BoundsAssumption DEF Types, ObjectTypes, Exists
    <3> QED
      BY <3>1, <3>2
  <2>3. w'.copy # NoUser => w'.copy = w.copy
    BY IdleIsWorker DEF Keeps
  <2> QED
    BY <1>0, <1>1, <2>1, <2>2, <2>3 DEF Types, ObjectTypes, IsWorker, Exists
<1>5. SpaceTypes' /\ OtherTypes'
  BY <1>0 DEF Types, SpaceTypes, OtherTypes, Keeps
<1>6. Types'
  BY <1>4, <1>5 DEF Types
<1> QED
  BY <1>3, <1>6, Advance

\* A write that makes no user Created leaves them complete.
LEMMA WriteComplete ==
    ASSUME IInv, NEW u \in User, NEW new, Writes(u, new),
           new.state = "Created" => usr[u].state = "Created"
    PROVE  AllIsMade'
<1>1. /\ usr \in [User -> UserObject \cup {NoUser}] /\ usr[u] \in UserObject
      /\ usr'[u] = new /\ \A v \in User \ {u} : usr'[v] = usr[v]
  BY TypesFacts DEF IInv, Types, ObjectTypes, Writes
<1>2. new.deleting \/ ~usr[u].deleting
  BY DEF Writes, Onward, Grows
<1> QED
  BY <1>1, <1>2 DEF Writes, IInv, AllIsMade, Living, Exists

\* A write of the worker: it gets through, or it fails.
LEMMA UpdateLemma ==
    ASSUME IInv, w.pc \notin {"idle", "finalizer"},
           NEW new, NEW next \in Pc, NEW else \in {"idle", "rest"},
           Update(new, next, else), else = "rest" => ~w.copy.deleting,
           Onward(usr[me], new), new.edits = usr[me].edits,
           new.pw = usr[me].pw \/ acct[me].made,
           UNCHANGED <<ns, rel, bound, acct, client, ghost, Still>>
    PROVE  \/ /\ Writes(me, new) /\ cached[me] = usr[me] /\ w'.pc = next
              /\ next # "idle" => w'.user = w.user /\ w'.copy = w.copy
              /\ next = "idle" => w' = Idle
           \/ /\ Quiet /\ else = "idle" /\ w' = Idle
           \/ /\ Quiet /\ else = "rest" /\ w'.pc = "rest"
              /\ w'.user = w.user /\ w'.copy = w.copy
<1> USE Places
<1>1. /\ UNCHANGED <<cached, ns, seen, rel, bound, acct, leaked, missed>>
      /\ UNCHANGED <<req, syncq, base, envs>>
      /\ client' \in BOOLEAN /\ lost' \subseteq User /\ req' \subseteq User
  BY DEF ghost, Still, sync, IInv, Types, OtherTypes
<1>2. me \in User /\ Exists(me) /\ usr[me] \in UserObject /\ w.copy # NoUser /\ w.copy.fin
  BY Here, NoUserIsNone DEF IInv, Order, Passes
<1>3. CASE /\ Current(me, cached[me]) /\ NoFault
           /\ usr' = [usr EXCEPT ![me] = new]
           /\ Goto(next) /\ UNCHANGED queue
  <2>1. cached[me] = usr[me]
    BY <1>3 DEF Current
  <2>2. /\ IsWorker(w') /\ w'.pc = next
        /\ next = "idle" => w' = Idle
        /\ next # "idle" => w'.user = w.user /\ w'.copy = w.copy
    BY <1>3, GotoLemma DEF IInv
  <2>3. Keeps
    BY <1>3, <2>2 DEF Keeps
  <2>4. /\ created' = created /\ events' = events /\ events \in Nat
        /\ new.edits <= events'
    BY <1>2, <1>3, BoundsAssumption DEF NoFault, bounds, IInv, Types, ObjectTypes
  <2>5. events' \in events..MaxEvents
    BY <2>4, BoundsAssumption DEF IInv, Types, ObjectTypes
  <2>6. Writes(me, new)
    BY <1>1, <1>2, <1>3, <2>2, <2>3, <2>4, <2>5 DEF Writes
  <2> QED
    BY <2>1, <2>2, <2>6
<1>4. CASE /\ IF Current(me, cached[me]) THEN Fault ELSE NoFault
           /\ queue' = queue \cup {me} /\ Goto(else) /\ UNCHANGED usr
  <2>1. /\ IsWorker(w') /\ w'.pc = else
        /\ else = "idle" => w' = Idle
        /\ else # "idle" => w'.user = w.user /\ w'.copy = w.copy
    BY <1>4, GotoLemma DEF IInv
  <2>2. Keeps
    BY <1>2, <1>4, <2>1 DEF Keeps
  <2>3. Quiet
    BY <1>1, <1>4, <2>1, <2>2 DEF Quiet
  <2> QED
    BY <2>1, <2>3
<1> QED
  BY <1>3, <1>4 DEF Update

\* A write of the creation that fails is rested on.
LEMMA RestOn ==
    ASSUME IInv, Quiet, w.pc \in {"creating", "failed", "created"},
           w'.pc = "rest", w'.user = w.user, w'.copy = w.copy
    PROVE  IInv'
<1> USE Places
<1>1. Passes' /\ Making' /\ Removing'
  BY DEF IInv, Passes, Making, Removing
<1>2. States'
  BY DEF IInv, States, Deciding, Writing, IsOf, Exists, Quiet
<1>3. w'.pc \notin Writing \cup {"mark", "creating"}
  BY DEF Writing
<1> QED
  BY <1>1, <1>2, <1>3, QuietStep

\* The user is marked as known to LLDAP.
LEMMA MarkSyncedStep == ASSUME IInv, MarkSynced PROVE IInv'
<1> USE Places
<1> DEFINE new == [usr[me] EXCEPT !.synced = TRUE, !.pw = 0]
           next == IF w.copy.state = "" THEN "creating"
                   ELSE IF w.copy.state = "Creating" THEN "admit" ELSE "idle"
<1>1. w.pc = "mark" /\ Update(new, next, "idle")
      /\ UNCHANGED <<ns, rel, bound, acct, client, ghost, Still>>
  BY DEF MarkSynced
<1>2. /\ usr[me] \in UserObject /\ Sound(usr[me]) /\ usr[me].fin /\ me \in User
      /\ usr[me].gen = w.copy.gen /\ acct[me].made
  BY <1>1, Here DEF IInv, Order, Accounts
<1>3. /\ Onward(usr[me], new) /\ new.edits = usr[me].edits
      /\ new.state = usr[me].state /\ new.deleting = usr[me].deleting
  BY <1>2, SyncedOnward
<1>4. next \in Pc
  OBVIOUS
<1> HIDE DEF new
<1>5. CASE /\ Writes(me, new) /\ cached[me] = usr[me] /\ w'.pc = next
           /\ next # "idle" => w'.user = w.user /\ w'.copy = w.copy
           /\ next = "idle" => w' = Idle
  <2>1. usr'[me] = new /\ \A v \in User \ {me} : usr'[v] = usr[v]
    BY <1>2, <1>5 DEF Writes, IInv, Types, ObjectTypes
  <2>2. AllIsMade'
    BY <1>2, <1>3, <1>5, WriteComplete
  <2>3. Passes' /\ Making' /\ Removing'
    BY <1>1, <1>5, IdleLemma DEF IInv, Passes, Making, Removing
  <2>4. w.copy.state = usr[me].state
    BY <1>1, <1>2, Here DEF IInv, States, Deciding, IsOf, Order
  <2>5. \A u \in User : Exists(u)' => Exists(u) /\ usr'[u].gen = usr[u].gen
                                      /\ usr'[u].state = usr[u].state
    BY <1>2, <1>3, <1>5, <2>1, NoUserIsNone DEF Exists, Onward, Writes
  <2>6. States'
    <3>1. \A u \in User : /\ cached[u] # NoUser /\ ~cached[u].deleting /\ IsOf(cached[u], u)
                          => cached[u].state = usr[u].state
      BY <1>1 DEF IInv, States, Writing
    <3>2. cached' = cached
      BY <1>5 DEF Writes
    <3>3. w'.pc \notin {"idle"} => w'.user = w.user /\ w'.copy = w.copy /\ w'.pc \in {"creating", "admit"}
      BY <1>5
    <3>4. w'.pc = "admit" => usr'[w'.user].state = "Creating"
      BY <1>3, <1>5, <2>1, <2>4, <3>3
    <3>5. w'.pc = "creating" => w'.copy.state = usr'[w'.user].state
      BY <1>3, <1>5, <2>1, <2>4, <3>3
    <3>6. w'.pc \in {"idle", "creating", "admit"}
      BY <1>5
    <3> QED
      BY <2>5, <3>1, <3>2, <3>4, <3>5, <3>6 DEF States, Writing, Deciding, IsOf
  <2>7. w'.pc \in Writing \cup {"mark", "creating"} => acct[w'.user].made
    BY <1>2, <1>5 DEF Writing
  <2> QED
    BY <1>2, <1>5, <2>2, <2>3, <2>6, <2>7, WriteStep
<1>6. CASE Quiet /\ w' = Idle
  BY <1>1, <1>6, EndStep DEF Writing
<1> HIDE DEF next
<1>7. \/ /\ Writes(me, new) /\ cached[me] = usr[me] /\ w'.pc = next
         /\ next # "idle" => w'.user = w.user /\ w'.copy = w.copy
         /\ next = "idle" => w' = Idle
      \/ Quiet /\ w' = Idle
  BY <1>1, <1>2, <1>3, <1>4, UpdateLemma
<1> QED
  BY <1>5, <1>6, <1>7

\* Everything that the creation makes for a user.
Complete(u) ==
    /\ u \in bound /\ rel[u] = Release /\ acct[u].made
    /\ \A k \in Kind : ns[u][k] = "active"

\* The states of the creation.
LEMMA StatusStep ==
    ASSUME IInv, w.pc \in {"creating", "created", "failed"}, NEW s \in State,
           NEW next \in {"admit", "rest"}, updateUserStatus(s, next),
           s = usr[me].state \/ Rank(usr[me].state) < Rank(s),
           next = "admit" => s = "Creating" /\ w.pc = "creating",
           s = "Created" /\ Living(me) => Complete(me)
    PROVE  IInv'
<1> USE Places
<1> DEFINE new == [usr[me] EXCEPT !.state = s]
<1>1. /\ Update(new, next, "rest")
      /\ UNCHANGED <<ns, rel, bound, acct, client, ghost, Still>>
  BY DEF updateUserStatus
<1>2. /\ usr[me] \in UserObject /\ Sound(usr[me]) /\ usr[me].fin /\ me \in User
      /\ usr[me].gen = w.copy.gen /\ ~w.copy.deleting
  BY Here DEF IInv, Order, Passes
<1>3. ~w.copy.deleting
  BY DEF IInv, Passes
<1>4. /\ Onward(usr[me], new) /\ new.edits = usr[me].edits /\ new.pw = usr[me].pw
      /\ new.state = s /\ new.deleting = usr[me].deleting
  BY <1>2, StateOnward
<1> HIDE DEF new
<1>5. CASE /\ Writes(me, new) /\ cached[me] = usr[me] /\ w'.pc = next
           /\ w'.user = w.user /\ w'.copy = w.copy
  <2>1. usr'[me] = new /\ \A v \in User \ {me} : usr'[v] = usr[v]
    BY <1>2, <1>5 DEF Writes, IInv, Types, ObjectTypes
  <2>2. AllIsMade'
    <3>1. CASE s = "Created"
      BY <1>2, <1>4, <1>5, <2>1, <3>1 DEF IInv, AllIsMade, Living, Complete, Writes, Exists
    <3>2. CASE s # "Created"
      BY <1>2, <1>4, <1>5, <3>2, WriteComplete
    <3> QED
      BY <3>1, <3>2
  <2>3. Passes' /\ Removing'
    BY <1>5 DEF IInv, Passes, Removing
  <2>4. Making'
    BY <1>5 DEF Making
  <2>5. States'
    BY <1>2, <1>4, <1>5, <2>1 DEF States, IInv, Writing, Deciding, IsOf, Exists, Writes
  <2>6. w'.pc \in Writing \cup {"mark", "creating"} => acct[w'.user].made
    BY <1>5 DEF IInv, Accounts, Writing
  <2> QED
    BY <1>2, <1>5, <2>2, <2>3, <2>4, <2>5, <2>6, WriteStep
<1>6. CASE Quiet /\ w'.pc = "rest" /\ w'.user = w.user /\ w'.copy = w.copy
  BY <1>6, RestOn
<1>7. \/ /\ Writes(me, new) /\ cached[me] = usr[me] /\ w'.pc = next
         /\ w'.user = w.user /\ w'.copy = w.copy
      \/ Quiet /\ w'.pc = "rest" /\ w'.user = w.user /\ w'.copy = w.copy
  BY <1>1, <1>3, <1>4, UpdateLemma
<1> QED
  BY <1>5, <1>6, <1>7

\* The creation begins.
LEMMA SetCreatingStep == ASSUME IInv, SetCreating PROVE IInv'
<1>1. w.pc = "creating" /\ updateUserStatus("Creating", "admit")
  BY DEF SetCreating
<1>2. usr[me].state = ""
  BY <1>1, Here, Places DEF IInv, Order, Passes, States, Deciding, IsOf
<1>3. "Creating" \in State /\ Rank("") < Rank("Creating")
  BY DEF Rank, State
<1> QED
  BY <1>1, <1>2, <1>3, StatusStep

\* It ends with everything made.
LEMMA SetCreatedStep == ASSUME IInv, SetCreated PROVE IInv'
<1>1. w.pc = "created" /\ updateUserStatus("Created", "rest")
  BY DEF SetCreated
<1>2. usr[me].state = "Creating" /\ acct[me].made
  BY <1>1, Places DEF IInv, States, Writing, Accounts
<1>3. "Created" \in State /\ Rank("Creating") < Rank("Created")
  BY DEF Rank, State
<1>4. Living(me) => Complete(me)
  <2>1. me \in User /\ rel[me] \subseteq Release
    BY TypesFacts DEF IInv, Types, SpaceTypes
  <2> QED
    BY <1>1, <1>2, <2>1, Places DEF IInv, Making, Complete, Kind, Release
<1> QED
  BY <1>1, <1>2, <1>3, <1>4, StatusStep

\* Or it fails.
LEMMA SetFailedStep == ASSUME IInv, SetFailed PROVE IInv'
<1>1. w.pc = "failed" /\ updateUserStatus("Failed", "rest")
  BY DEF SetFailed
<1>2. usr[me].state = "Creating"
  BY <1>1 DEF IInv, States, Writing
<1>3. "Failed" \in State /\ Rank("Creating") < Rank("Failed")
  BY DEF Rank, State
<1> QED
  BY <1>1, <1>2, <1>3, StatusStep

\* The deletion begins.
LEMMA SetDeletingStep == ASSUME IInv, SetDeleting PROVE IInv'
<1> USE Places
<1> DEFINE new == [usr[me] EXCEPT !.state = "Deleting"]
<1>1. w.pc = "deleting" /\ UNCHANGED <<ns, rel, bound, acct, client, ghost, Still>>
  BY DEF SetDeleting
<1>2. /\ usr[me] \in UserObject /\ Sound(usr[me]) /\ usr[me].fin /\ me \in User
      /\ usr[me].deleting /\ w.copy.deleting /\ usr[me].gen = w.copy.gen
  BY <1>1, Here DEF IInv, Order
<1>3. CASE w.copy.state = "Deleting" /\ Goto("uninstall") /\ UNCHANGED <<usr, queue>> /\ NoFault
  <2>1. NoWrite /\ Still' = Still
    BY <1>1, <1>3 DEF NoWrite
  <2>2. w'.pc = "uninstall" /\ w'.user = w.user /\ w'.copy = w.copy /\ Quiet
    BY <1>1, <1>3, <2>1, GotoKeeps, StillQuiet
  <2> QED
    BY <1>1, <2>2, WalkStep DEF Easy
<1>4. CASE Update(new, "uninstall", "idle")
  <2>1. "Deleting" = usr[me].state \/ Rank(usr[me].state) < Rank("Deleting")
    BY <1>2, Fields, DeletingLast
  <2>2. /\ Onward(usr[me], new) /\ new.edits = usr[me].edits /\ new.pw = usr[me].pw
        /\ new.state = "Deleting" /\ new.deleting
    <3>1. "Deleting" \in State
      BY DEF State
    <3> QED
      BY <1>2, <2>1, <3>1, StateOnward
  <2> HIDE DEF new
  <2>3. CASE /\ Writes(me, new) /\ cached[me] = usr[me] /\ w'.pc = "uninstall"
             /\ w'.user = w.user /\ w'.copy = w.copy
    <3>1. usr'[me] = new /\ \A v \in User \ {me} : usr'[v] = usr[v]
      BY <1>2, <2>3 DEF Writes, IInv, Types, ObjectTypes
    <3>2. AllIsMade'
      BY <1>2, <2>2, <2>3, WriteComplete
    <3>3. Passes' /\ Making'
      BY <1>1, <2>3 DEF IInv, Passes, Making
    <3>4. Removing'
      BY <1>1, <2>3 DEF IInv, Removing, Writes
    <3>5. States'
      BY <1>1, <1>2, <2>2, <2>3, <3>1 DEF States, IInv, Writing, Deciding, IsOf, Exists, Writes
    <3>6. w'.pc \notin Writing \cup {"mark", "creating"}
      BY <2>3 DEF Writing
    <3> QED
      BY <1>2, <2>3, <3>2, <3>3, <3>4, <3>5, <3>6, WriteStep
  <2>4. CASE Quiet /\ w' = Idle
    BY <1>1, <2>4, EndStep DEF Writing
  <2>5. \/ /\ Writes(me, new) /\ cached[me] = usr[me] /\ w'.pc = "uninstall"
           /\ w'.user = w.user /\ w'.copy = w.copy
        \/ Quiet /\ w' = Idle
    BY <1>1, <1>4, <2>2, UpdateLemma
  <2> QED
    BY <2>3, <2>4, <2>5
<1> QED
  BY <1>3, <1>4 DEF SetDeleting

-----------------------------------------------------------------------------
(* Steps that make something for a user, or take it away.                  *)

\* A step of the worker on the space or the account of its user.
Acts ==
    /\ w.pc \notin {"idle", "finalizer"} /\ Keeps /\ IsWorker(w')
    /\ UNCHANGED <<usr, cached, seen, req, syncq, base, envs, client, lost>>
    /\ NoFault \/ Fault
    /\ leaked' \subseteq User /\ SpaceTypes'
    /\ \A v \in User \ {me} :
         /\ ns'[v] = ns[v] /\ rel'[v] = rel[v] /\ acct'[v] = acct[v]
         /\ v \in bound' <=> v \in bound
         /\ v \in leaked' <=> v \in leaked
         /\ \A x : <<v, x>> \in missed' <=> <<v, x>> \in missed

\* It goes on to the next place.
Works(q) ==
    /\ Acts /\ q \in Pc /\ q # "idle" /\ w'.pc = q
    /\ w'.user = w.user /\ w'.copy = w.copy

\* Of the other users it says nothing, so what is left are the places.
LEMMA ActsStep ==
    ASSUME IInv, Acts,
           Passes', States', Terminating', Accounts', Making', Removing',
           AllIsMade'
    PROVE  IInv'
<1> USE DEF IInv
<1>1. w.copy # NoUser /\ me \in User /\ Exists(me) /\ usr[me].fin
  BY Here, NoUserIsNone DEF Acts, Order
<1>2. Keeps
  BY DEF Acts
<1>3. Types'
  <2>1. created' = created /\ events' \in 0..MaxEvents /\ events <= events'
    BY BoundsAssumption DEF Acts, NoFault, Fault, Event, Types, ObjectTypes, bounds
  <2>2. \A u \in User : Exists(u) => usr[u].edits <= events'
    BY <2>1, TypesFacts, Fields, BoundsAssumption DEF Types, ObjectTypes
  <2>3. w'.copy # NoUser => w'.copy = w.copy
    BY IdleIsWorker DEF Acts, Keeps
  <2>4. ObjectTypes'
    BY <2>1, <2>2, <2>3 DEF Types, ObjectTypes, Acts, IsWorker, Exists
  <2>5. OtherTypes'
    BY <1>1 DEF Types, OtherTypes, Acts, Keeps
  <2> QED
    BY <2>4, <2>5 DEF Types, Acts
<1>4. Order'
  <2>1. usr' = usr /\ cached' = cached
    BY DEF Acts
  <2>2. Moves
    BY <2>1 DEF Moves
  <2> QED
    BY <1>2, <2>1, <2>2, MovesOrder DEF Order
<1>5. Fresh'
  <2> SUFFICES ASSUME NEW u \in User, (~Exists(u) \/ ~usr[u].fin)'
               PROVE  Clean(u)'
    BY DEF Fresh
  <2>1. u # me /\ usr' = usr /\ seen' = seen /\ Clean(u)
    BY <1>1 DEF Acts, Exists, Fresh
  <2>2. Present(u)' = Present(u)
    BY <2>1 DEF Acts, Present
  <2> QED
    BY <2>1, <2>2 DEF Clean, Acts
<1> QED
  BY <1>3, <1>4, <1>5 DEF Order

\* What a step of the creation adds.
Adds(q) ==
    /\ Works(q) /\ w.pc \in MakePc /\ q \in MakePc \cup {"failed"}
    /\ UNCHANGED <<acct, leaked, missed>>
    /\ bound \subseteq bound' /\ rel[me] \subseteq rel'[me]
    /\ \A k \in Kind : \/ ns'[me][k] = ns[me][k]
                       \/ ns[me][k] = "none" /\ ns'[me][k] = "active"

\* It takes nothing back.
LEMMA AddsStep ==
    ASSUME IInv, NEW q, Adds(q), Making'
    PROVE  IInv'
<1> USE Places DEF Adds
<1>1. me \in User /\ w.copy \in UserObject
  BY Here DEF Works, Acts, IInv, Order
<1>2. Passes'
  BY DEF IInv, Passes, Works, Acts
<1>3. States'
  BY DEF IInv, States, Works, Acts, Deciding, Writing, IsOf, Exists
<1>4. Terminating'
  <2>1. \A u \in User, k \in Kind : ns'[u][k] = "terminating" => ns[u][k] = "terminating"
    BY DEF Works, Acts
  <2>2. usr' = usr /\ seen' = seen /\ missed' = missed
    BY DEF Works, Acts
  <2> HIDE Places DEF Adds
  <2>3. ASSUME NEW u \in User, NEW k \in Kind
        PROVE  /\ ns'[u][k] = "terminating" => k \in seen[u] /\ Exists(u) /\ usr[u].deleting
               /\ <<u, k>> \in missed => ns'[u][k] # "terminating"
    BY <2>1, <2>3 DEF IInv, Terminating
  <2> QED
    BY <2>2, <2>3 DEF Terminating, Exists
<1>5. Accounts'
  BY DEF IInv, Accounts, Works, Acts, Exists, Writing
<1>6. Removing'
  BY DEF Removing, Works, Acts
<1>7. AllIsMade'
  <2> SUFFICES ASSUME NEW u \in User, Living(u)', usr'[u].state = "Created"
               PROVE  Complete(u)'
    BY DEF AllIsMade, Complete
  <2>1. Complete(u)
    BY DEF IInv, AllIsMade, Living, Exists, Works, Acts, Complete
  <2>2. rel'[u] \subseteq Release
    BY DEF Works, Acts, SpaceTypes
  <2>3. \A k \in Kind : ns'[u][k] = "active"
    BY <2>1 DEF Complete, Works, Acts
  <2>4. rel'[u] = Release
    BY <2>1, <2>2 DEF Complete, Works, Acts
  <2> QED
    BY <2>1, <2>3, <2>4 DEF Complete
<1> QED
  BY <1>2, <1>3, <1>4, <1>5, <1>6, <1>7, ActsStep DEF Adds, Works

\* What the steps of the creation have in common.
LEMMA MadeLemma ==
    ASSUME IInv, NEW pc \in MakePc, Made(pc), NEW q \in MakePc,
           After(CreateChain, pc) = q, SpaceTypes', seen' = seen,
           \A v \in User \ {me} :
             /\ ns'[v] = ns[v] /\ rel'[v] = rel[v]
             /\ v \in bound' <=> v \in bound
    PROVE  Works(q) /\ w.pc = pc /\ UNCHANGED <<acct, leaked, missed>>
<1> USE Places DEF Made
<1>1. Goto(q) /\ queue' = queue /\ w.pc = pc
  OBVIOUS
<1>2. /\ UNCHANGED <<usr, cached, seen, req, syncq, base, envs, client, lost>>
      /\ UNCHANGED <<acct, leaked, missed>>
  BY DEF Still, sync, ghost
<1>3. /\ q \in Pc /\ q # "idle" /\ IsWorker(w') /\ w'.pc = q
      /\ w'.user = w.user /\ w'.copy = w.copy
  BY <1>1, GotoKeeps
<1> QED
  BY <1>1, <1>2, <1>3, GotoKeeps DEF Works, Acts, IInv, Types, OtherTypes

\* An installation that is cut short leaves at most a record more, of a user
\* that is being created.
LEMMA CutShortLemma ==
    ASSUME IInv, CutShort
    PROVE  /\ rel' \in [User -> SUBSET Release]
           /\ \A v \in User : rel[v] \subseteq rel'[v]
           /\ \A v \in User : v # me => rel'[v] = rel[v]
           /\ rel' # rel => w.pc \in {"launcher", "sysapps"}
<1>1. rel \in [User -> SUBSET Release] /\ me \in User
  BY TypesFacts DEF IInv, Types, SpaceTypes
<1>2. CASE UNCHANGED <<rel, torn>>
  BY <1>1, <1>2
<1>3. CASE \E c \in Charts \ rel[w.user] : rel' = [rel EXCEPT ![w.user] = @ \cup {c}]
  <2>1. PICK c \in Charts : rel' = [rel EXCEPT ![w.user] = @ \cup {c}]
    BY <1>3
  <2>2. c \in Release /\ w.pc \in {"launcher", "sysapps"}
    <3>1. CASE w.pc = "launcher"
      BY <2>1, <3>1 DEF Charts, Release
    <3>2. CASE w.pc = "sysapps"
      BY <2>1, <3>2 DEF Charts, Release
    <3>3. CASE w.pc \notin {"launcher", "sysapps"}
      BY <2>1, <3>3 DEF Charts
    <3> QED
      BY <3>1, <3>2, <3>3
  <2> QED
    BY <1>1, <2>1, <2>2 DEF me
<1> QED
  BY <1>2, <1>3 DEF CutShort

\* A step of the creation fails.
LEMMA CreateFailsStep == ASSUME IInv, CreateFails PROVE IInv'
<1> USE Places
<1>1. w.pc \in MakePc \ {"created"}
  <2>1. PICK i \in 1..7 : w.pc = CreateChain[i]
    BY DEF CreateFails
  <2>2. i \in 1..8 /\ CreateChain[i] # "created"
    BY DEF CreateChain
  <2> QED
    BY <2>1, <2>2 DEF MakePc
<1>2. /\ Goto("failed") /\ queue' = queue /\ CutShort /\ (NoFault \/ Fault)
      /\ UNCHANGED <<usr, cached, seen, req, syncq, base, envs, client, lost>>
      /\ UNCHANGED <<acct, leaked, missed, ns, bound>>
  BY DEF CreateFails, Still, sync
<1>3. /\ "failed" \in Pc /\ IsWorker(w') /\ Keeps /\ w'.pc = "failed"
      /\ w'.user = w.user /\ w'.copy = w.copy
  BY <1>1, <1>2, GotoKeeps
<1>4. me \in User /\ SpaceTypes'
  BY <1>2, CutShortLemma, TypesFacts DEF IInv, Types, SpaceTypes
<1>5. Works("failed")
  BY <1>1, <1>2, <1>3, <1>4, CutShortLemma DEF Works, Acts, IInv, Types, OtherTypes
<1>6. Adds("failed")
  BY <1>1, <1>2, <1>4, <1>5, CutShortLemma DEF Adds
<1>7. Making'
  BY <1>3 DEF Making
<1> QED
  BY <1>6, <1>7, AddsStep

\* The binding.
LEMMA CreateBindingStep == ASSUME IInv, createBinding PROVE IInv'
<1> USE Places DEF createBinding
<1>1. me \in User /\ Types
  BY TypesFacts DEF IInv
<1>2. SpaceTypes' /\ seen' = seen
  BY <1>1 DEF Types, SpaceTypes, Made, Still
<1>3. Works("space") /\ w.pc = "binding" /\ UNCHANGED <<acct, leaked, missed>>
  BY <1>2, MadeLemma, Creation
<1>4. Adds("space")
  BY <1>3 DEF Adds
<1>5. Making'
  BY <1>3 DEF IInv, Making, Living, Exists, Works, Acts
<1> QED
  BY <1>4, <1>5, AddsStep

\* A namespace.
LEMMA CreateNamespaceStep ==
    ASSUME IInv, NEW k \in Kind, createNamespace(k)
    PROVE  IInv'
<1> USE Places DEF createNamespace
<1> DEFINE q == IF k = "space" THEN "system" ELSE "launcher"
<1>1. me \in User /\ Types /\ ns \in [User -> [Kind -> Phase]]
  BY TypesFacts DEF IInv, Types, SpaceTypes
<1>2. /\ ns' \in [User -> [Kind -> Phase]]
      /\ \A v \in User \ {me} : ns'[v] = ns[v]
      /\ \A x \in Kind \ {k} : ns'[me][x] = ns[me][x]
      /\ ns'[me][k] = IF ns[me][k] = "none" THEN "active" ELSE ns[me][k]
  BY <1>1 DEF Phase
<1>3. SpaceTypes' /\ seen' = seen
  BY <1>1, <1>2 DEF Types, SpaceTypes, Made, Still
<1>4. k \in MakePc /\ q \in MakePc /\ After(CreateChain, k) = q
  BY Creation DEF Kind
<1>5. Works(q) /\ w.pc = k /\ UNCHANGED <<acct, leaked, missed>>
  BY <1>2, <1>3, <1>4, MadeLemma
<1>6. Adds(q)
  BY <1>2, <1>4, <1>5 DEF Adds
<1>7. Making'
  <2> SUFFICES ASSUME Living(me)' PROVE Making'
    BY DEF Making
  <2>1. w'.pc = q /\ w'.user = w.user /\ Living(me) /\ me' = me
    BY <1>5 DEF Works, Acts, Living, Exists
  <2>2. ns'[me][k] = "active"
    <3>1. ns[me][k] \in {"none", "active", "terminating"}
      BY <1>1 DEF Phase
    <3>2. ns[me][k] # "terminating"
      BY <1>1, <2>1 DEF IInv, Terminating, Living
    <3> QED
      BY <1>2, <3>1, <3>2
  <2> QED
    BY <1>2, <1>5, <2>1, <2>2 DEF IInv, Making, Kind
<1> QED
  BY <1>6, <1>7, AddsStep

\* The launcher.
LEMMA InstallLauncherStep == ASSUME IInv, installLauncher PROVE IInv'
<1> USE Places DEF installLauncher
<1>1. me \in User /\ Types /\ rel \in [User -> SUBSET Release]
  BY TypesFacts DEF IInv, Types, SpaceTypes
<1>2. /\ rel' \in [User -> SUBSET Release] /\ rel'[me] = rel[me] \cup {"launcher"}
      /\ \A v \in User \ {me} : rel'[v] = rel[v]
  BY <1>1 DEF Release
<1>3. SpaceTypes' /\ seen' = seen
  BY <1>1, <1>2 DEF Types, SpaceTypes, Made, Still
<1>4. Works("waitBfl") /\ w.pc = "launcher" /\ UNCHANGED <<acct, leaked, missed>>
  BY <1>2, <1>3, MadeLemma, Creation
<1>5. Adds("waitBfl")
  BY <1>2, <1>4 DEF Adds
<1>6. Making'
  BY <1>2, <1>4 DEF IInv, Making, Living, Exists, Works, Acts
<1> QED
  BY <1>5, <1>6, AddsStep

\* One of the other charts of the system ...
LEMMA InstallSysAppStep ==
    ASSUME IInv, NEW a \in App, installSysApp(a)
    PROVE  IInv'
<1> USE Places DEF installSysApp
<1>1. me \in User /\ Types /\ rel \in [User -> SUBSET Release]
  BY TypesFacts DEF IInv, Types, SpaceTypes
<1>2. /\ rel' \in [User -> SUBSET Release] /\ rel'[me] = rel[me] \cup {a}
      /\ \A v \in User \ {me} : rel'[v] = rel[v]
  BY <1>1 DEF Release
<1>3. SpaceTypes' /\ seen' = seen
  BY <1>1, <1>2 DEF Types, SpaceTypes, Still
<1>4. Works("sysapps") /\ w.pc = "sysapps" /\ UNCHANGED <<acct, leaked, missed>>
  <2>1. /\ UNCHANGED <<usr, cached, seen, req, syncq, base, envs, client, lost>>
        /\ UNCHANGED <<acct, leaked, missed, ns, bound, w, queue>> /\ NoFault
    BY DEF Still, sync, ghost
  <2>2. Keeps /\ IsWorker(w')
    BY <1>1, <2>1 DEF Keeps, IsWorker, Types, ObjectTypes
  <2> QED
    BY <1>2, <1>3, <2>1, <2>2 DEF Works, Acts, IInv, Types, OtherTypes
<1>5. Adds("sysapps")
  BY <1>2, <1>4 DEF Adds, installSysApp
<1>6. Making'
  BY <1>2, <1>4 DEF IInv, Making, Living, Exists, Works, Acts
<1> QED
  BY <1>5, <1>6, AddsStep

\* ... and the place after all of them.
LEMMA InstallSysAppsStep == ASSUME IInv, installSysApps PROVE IInv'
<1> USE Places DEF installSysApps
<1>1. me \in User /\ Types
  BY TypesFacts DEF IInv
<1>2. SpaceTypes' /\ seen' = seen
  BY <1>1 DEF Types, SpaceTypes, Made, Still
<1>3. Works("waitWizard") /\ w.pc = "sysapps" /\ UNCHANGED <<acct, leaked, missed>>
  BY <1>2, MadeLemma, Creation
<1>4. Adds("waitWizard")
  BY <1>3 DEF Adds
<1>5. Making'
  BY <1>3 DEF IInv, Making, Living, Exists, Works, Acts
<1> QED
  BY <1>4, <1>5, AddsStep

\* The account is there, with the password of the user.
LEMMA SyncToLLDAPStep == ASSUME IInv, waitForSyncToLLDAP PROVE IInv'
<1> USE Places
<1>1. /\ w.pc = "sync" /\ acct \in [User -> Account]
      /\ UNCHANGED <<usr, ns, rel, bound, client, ghost, Still>>
  BY DEF waitForSyncToLLDAP, IInv, Types, SpaceTypes
<1>2. /\ me \in User /\ w.copy \in UserObject /\ ~w.copy.deleting /\ w.copy.fin
      /\ usr[me].gen = w.copy.gen /\ Exists(me) /\ Sound(w.copy)
  BY <1>1, Here DEF IInv, Order, Passes
<1>3. ASSUME NEW joined \in BOOLEAN, acct' = [acct EXCEPT ![me] = Synced(joined)]
      PROVE  /\ acct' \in [User -> Account] /\ acct'[me].made
             /\ acct'[me].pw = IF acct[me].made THEN acct[me].pw ELSE w.copy.pw
             /\ \A v \in User \ {me} : acct'[v] = acct[v]
  <2>1. /\ Synced(joined) \in Account /\ Synced(joined).made
        /\ Synced(joined).pw = IF acct[me].made THEN acct[me].pw ELSE w.copy.pw
    <3>1. CASE acct[me].made
      BY <1>1, <1>2, <3>1 DEF Synced, Account
    <3>2. CASE ~acct[me].made
      <4>1. w.copy.pw \in 0..MaxCreates
        BY <1>2 DEF UserObject
      <4> QED
        BY <3>2, <4>1 DEF Synced, Account
    <3> QED
      BY <3>1, <3>2
  <2> QED
    BY <1>1, <1>2, <1>3, <2>1
<1>4. ASSUME NEW joined \in BOOLEAN, acct' = [acct EXCEPT ![me] = Synced(joined)],
             Keeps, IsWorker(w'), NoFault \/ Fault,
             \/ w'.pc = "mark" /\ w'.user = w.user /\ w'.copy = w.copy
             \/ w' = Idle
      PROVE  IInv'
  <2>1. /\ acct' \in [User -> Account] /\ acct'[me].made
        /\ acct'[me].pw = IF acct[me].made THEN acct[me].pw ELSE w.copy.pw
        /\ \A v \in User \ {me} : acct'[v] = acct[v]
    BY <1>3, <1>4
  <2>2. /\ UNCHANGED <<usr, cached, ns, seen, rel, bound, leaked, missed>>
        /\ UNCHANGED <<req, syncq, base, envs, client, lost>>
    BY <1>1 DEF Still, sync, ghost
  <2>3. Acts
    <3>1. SpaceTypes' /\ leaked' \subseteq User
      BY <2>1, <2>2 DEF IInv, Types, SpaceTypes, OtherTypes
    <3> QED
      BY <1>1, <1>4, <2>1, <2>2, <3>1 DEF Acts
  <2>4. Passes' /\ Making' /\ Removing'
    BY <1>1, <1>4, IdleLemma DEF IInv, Passes, Making, Removing
  <2>5. States'
    BY <1>1, <1>4, <2>2, IdleLemma DEF IInv, States, Deciding, Writing, IsOf, Exists
  <2>6. Terminating'
    BY <2>2 DEF IInv, Terminating, Exists
  <2>7. \A u \in User : acct[u].made => acct'[u].made
    BY <2>1
  <2>8. AllIsMade'
    BY <2>2, <2>7 DEF IInv, AllIsMade, Living, Exists
  <2>9. Accounts'
    <3>1. ~acct[me].made => w.copy.pw = usr[me].gen
      BY <1>2, NoUserIsNone DEF IInv, Accounts, Sound
    <3>2. \A u \in User : acct'[u].made /\ u \notin leaked
                            => Exists(u) /\ acct'[u].pw = usr[u].gen
      BY <1>2, <2>1, <3>1 DEF IInv, Accounts
    <3>3. /\ w'.copy # NoUser => w'.user = me
          /\ w'.pc \in {"idle", "mark"}
          /\ w'.pc = "mark" => w'.user = me
      BY <1>4, IdleLemma
    <3> QED
      BY <2>1, <2>2, <2>7, <3>2, <3>3 DEF IInv, Accounts, Exists, Writing
  <2> QED
    BY <2>3, <2>4, <2>5, <2>6, <2>8, <2>9, ActsStep
<1>5. CASE NoFault /\ acct' = [acct EXCEPT ![me] = Synced(w.copy.admin)] /\ Goto("mark") /\ UNCHANGED queue
  <2>1. /\ Keeps /\ IsWorker(w') /\ w'.pc = "mark"
        /\ w'.user = w.user /\ w'.copy = w.copy
    BY <1>1, <1>5, GotoKeeps
  <2>2. w.copy.admin \in BOOLEAN
    BY <1>2, Fields
  <2> QED
    BY <1>4, <1>5, <2>1, <2>2
<1>6. CASE Fault /\ Requeue /\ acct' = acct
  <2>1. NoWrite /\ Still' = Still
    BY <1>1, <1>6 DEF NoWrite
  <2>2. w' = Idle /\ Quiet
    BY <1>1, <1>6, <2>1, RequeueKeeps, StillQuiet
  <2> QED
    BY <1>1, <2>2, EndStep DEF Writing
<1>7. CASE Fault /\ Requeue /\ acct' = [acct EXCEPT ![me] = Synced(acct[me].admin)]
  <2>1. acct[me].admin \in BOOLEAN
    BY <1>1, <1>2 DEF Account
  <2>2. Keeps /\ IsWorker(w') /\ w' = Idle
    BY <1>1, <1>7, RequeueKeeps
  <2> QED
    BY <1>4, <1>7, <2>1, <2>2
<1> QED
  BY <1>5, <1>6, <1>7 DEF waitForSyncToLLDAP

\* A step of the deletion only has to show what it removes.
LEMMA DropsStep ==
    ASSUME IInv, NEW q \in DeletePc, w.pc \in DeletePc, Works(q),
           Terminating', Accounts', Removing'
    PROVE  IInv'
<1> USE Places DEF Works, Acts
<1>1. me \in User /\ usr[me].deleting
  BY Here DEF IInv, Order
<1>2. Passes' /\ Making'
  BY DEF IInv, Passes, Making
<1>3. States'
  BY DEF IInv, States, Deciding, Writing, IsOf, Exists
<1>4. AllIsMade'
  <2> SUFFICES ASSUME NEW u \in User, Living(u)', usr'[u].state = "Created"
               PROVE  Complete(u)'
    BY DEF AllIsMade, Complete
  <2>1. u # me /\ Complete(u)
    BY <1>1 DEF IInv, AllIsMade, Living, Exists, Complete
  <2> QED
    BY <2>1 DEF Complete
<1> QED
  BY <1>2, <1>3, <1>4, ActsStep

\* What the steps of the deletion have in common.
LEMMA RemovedLemma ==
    ASSUME IInv, NEW pc \in DeletePc, Removed(pc), NEW q \in DeletePc,
           After(DeleteChain, pc) = q, SpaceTypes',
           \A v \in User \ {me} :
             /\ ns'[v] = ns[v] /\ rel'[v] = rel[v]
             /\ v \in bound' <=> v \in bound
             /\ \A x : <<v, x>> \in missed' <=> <<v, x>> \in missed
    PROVE  /\ Works(q) /\ w.pc = pc /\ UNCHANGED <<acct, leaked>>
           /\ w'.pc = q /\ w'.user = w.user /\ w'.copy = w.copy
           /\ UNCHANGED <<usr, cached, seen>>
<1> USE Places DEF Removed
<1>1. Goto(q) /\ queue' = queue /\ w.pc = pc
  OBVIOUS
<1>2. /\ UNCHANGED <<usr, cached, seen, req, syncq, base, envs, client, lost>>
      /\ UNCHANGED <<acct, leaked>>
  BY DEF Still, sync
<1>3. /\ q \in Pc /\ q # "idle" /\ IsWorker(w') /\ w'.pc = q
      /\ w'.user = w.user /\ w'.copy = w.copy
  BY <1>1, GotoKeeps
<1> QED
  BY <1>1, <1>2, <1>3, GotoKeeps DEF Works, Acts, IInv, Types, OtherTypes

\* Accounts stay as they are in such a step.
LEMMA AccountsStay ==
    ASSUME IInv, UNCHANGED <<usr, cached, acct, leaked>>,
           w'.user = w.user, w'.copy = w.copy, w'.pc \in DeletePc
    PROVE  Accounts'
BY Places DEF IInv, Accounts, Exists, Writing

\* The charts of the system, one by one, and the launcher: a record goes ...
LEMMA UninstallLemma ==
    ASSUME IInv, NEW q \in DeletePc, Works(q), w.pc \in DeletePc, NEW c,
           rel' = [rel EXCEPT ![me] = @ \ {c}],
           UNCHANGED <<ns, bound, acct, leaked, missed, seen>>,
           \/ w.pc = "uninstall" /\ q = "uninstall"
           \/ w.pc = "clear" /\ q = "dropSpace" /\ c = "launcher"
    PROVE  IInv'
<1> USE Places
<1>1. me \in User /\ rel \in [User -> SUBSET Release]
  BY TypesFacts DEF IInv, Types, SpaceTypes
<1>2. rel'[me] = rel[me] \ {c}
  BY <1>1
<1>3. /\ UNCHANGED <<usr, cached, seen>>
      /\ w'.pc = q /\ w'.user = w.user /\ w'.copy = w.copy
  BY DEF Works, Acts
<1>4. Terminating'
  BY <1>3 DEF IInv, Terminating, Exists
<1>5. Accounts'
  BY <1>3, AccountsStay
<1>6. Removing'
  BY <1>2, <1>3 DEF IInv, Removing
<1> QED
  BY <1>4, <1>5, <1>6, DropsStep

\* ... of one chart of the system ...
LEMMA UninstallSysAppStep ==
    ASSUME IInv, NEW a \in App, uninstallSysApp(a)
    PROVE  IInv'
<1> USE Places DEF uninstallSysApp, Uninstalled
<1>1. me \in User /\ Types /\ rel \in [User -> SUBSET Release]
  BY TypesFacts DEF IInv, Types, SpaceTypes
<1>2. /\ rel' \in [User -> SUBSET Release]
      /\ \A v \in User \ {me} : rel'[v] = rel[v]
  BY <1>1
<1>3. SpaceTypes'
  BY <1>1, <1>2 DEF Types, SpaceTypes, Still
<1>4. /\ UNCHANGED <<usr, cached, seen, req, syncq, base, envs, client, lost>>
      /\ UNCHANGED <<acct, leaked, missed, ns, bound, w, queue>> /\ NoFault
  BY DEF Still, sync
<1>5. Keeps /\ IsWorker(w')
  BY <1>1, <1>4 DEF Keeps, IsWorker, Types, ObjectTypes
<1>6. Works("uninstall")
  BY <1>2, <1>3, <1>4, <1>5 DEF Works, Acts, IInv, Types, OtherTypes
<1> QED
  BY <1>4, <1>6, UninstallLemma

\* ... of the launcher ...
LEMMA ClearLauncherStep == ASSUME IInv, clearLauncher PROVE IInv'
<1> USE Places DEF clearLauncher, Uninstalled
<1>1. me \in User /\ Types /\ rel \in [User -> SUBSET Release]
  BY TypesFacts DEF IInv, Types, SpaceTypes
<1>2. /\ rel' \in [User -> SUBSET Release]
      /\ \A v \in User \ {me} : rel'[v] = rel[v]
  BY <1>1
<1>3. SpaceTypes'
  BY <1>1, <1>2 DEF Types, SpaceTypes, Removed, Still
<1>4. /\ Works("dropSpace") /\ w.pc = "clear" /\ UNCHANGED <<acct, leaked>>
      /\ UNCHANGED <<usr, cached, seen>>
  BY <1>2, <1>3, Deletion, RemovedLemma
<1> QED
  BY <1>4, UninstallLemma

\* ... and the launcher's turn comes when the others are gone.
LEMMA UninstallStep == ASSUME IInv, uninstallSysApps PROVE IInv'
<1> USE Places DEF uninstallSysApps
<1>1. me \in User /\ Types
  BY TypesFacts DEF IInv
<1>2. SpaceTypes'
  BY <1>1 DEF Types, SpaceTypes, Removed, Still
<1>3. /\ Works("clear") /\ w.pc = "uninstall" /\ UNCHANGED <<acct, leaked>>
      /\ w'.pc = "clear" /\ w'.user = w.user /\ w'.copy = w.copy
      /\ UNCHANGED <<usr, cached, seen>>
  BY <1>2, Deletion, RemovedLemma
<1>4. Terminating'
  BY <1>3 DEF IInv, Terminating, Exists
<1>5. Accounts'
  BY <1>3, AccountsStay
<1>6. Removing'
  BY <1>3 DEF IInv, Removing
<1> QED
  BY <1>3, <1>4, <1>5, <1>6, DropsStep

\* What is there of a user.
LEMMA PresentLemma ==
    ASSUME NEW u \in User
    PROVE  /\ \A k \in Kind : k \in Present(u) <=> ns[u][k] # "none"
           /\ "binding" \in Present(u) <=> u \in bound
BY DEF Present, Kind

\* What a deletion passes over.
LEMMA MissesLemma ==
    ASSUME NEW x, Misses(x)
    PROVE  /\ x \in seen[me] => <<me, x>> \notin missed'
           /\ x \notin seen[me] /\ x \in Present(me) => <<me, x>> \in missed'
           /\ x \notin seen[me] /\ x \notin Present(me)
                => missed' = missed
           /\ \A v, y : v # me \/ y # x
                => (<<v, y>> \in missed' <=> <<v, y>> \in missed)
BY DEF Misses

\* A namespace of a user.
LEMMA DeleteNamespaceStep ==
    ASSUME IInv, NEW k \in Kind, NEW pc, pc = IF k = "space" THEN "dropSpace" ELSE "dropSystem",
           deleteNamespace(pc, k)
    PROVE  IInv'
<1> USE Places
<1> DEFINE q == IF k = "space" THEN "dropSystem" ELSE "unbind"
<1>1. me \in User /\ Types /\ ns \in [User -> [Kind -> Phase]]
  BY TypesFacts DEF IInv, Types, SpaceTypes
<1>2. Removed(pc) /\ Misses(k) /\ UNCHANGED <<bound, rel>>
  BY DEF deleteNamespace
<1>3. /\ ns' \in [User -> [Kind -> Phase]]
      /\ \A v \in User \ {me} : ns'[v] = ns[v]
      /\ \A x \in Kind \ {k} : ns'[me][x] = ns[me][x]
      /\ ns'[me][k] = IF k \in seen[me] /\ ns[me][k] = "active"
                      THEN "terminating" ELSE ns[me][k]
  BY <1>1 DEF Phase, deleteNamespace
<1>4. SpaceTypes'
  BY <1>1, <1>2, <1>3 DEF Types, SpaceTypes, Removed, Still
<1>5. q \in DeletePc /\ After(DeleteChain, pc) = q /\ pc \in DeletePc
  BY Deletion DEF Kind
<1>6. \A v, y : v # me \/ y # k
            => (<<v, y>> \in missed' <=> <<v, y>> \in missed)
  BY <1>2 DEF Misses
<1>7. /\ Works(q) /\ w.pc = pc /\ UNCHANGED <<acct, leaked>>
      /\ w'.pc = q /\ w'.user = w.user /\ w'.copy = w.copy
      /\ UNCHANGED <<usr, cached, seen>>
  BY <1>2, <1>3, <1>4, <1>5, <1>6, RemovedLemma
<1>8. /\ k \in seen[me] => <<me, k>> \notin missed'
      /\ k \notin seen[me] /\ ns[me][k] # "none" => <<me, k>> \in missed'
      /\ k \notin seen[me] /\ ns[me][k] = "none" => missed' = missed
  BY <1>1, <1>2, MissesLemma, PresentLemma
<1>9. usr[me].deleting /\ Exists(me)
  BY <1>5, <1>7, Here DEF IInv, Order
<1> HIDE DEF q
<1>10. Terminating'
  <2> SUFFICES ASSUME NEW u \in User, NEW x \in Kind
               PROVE  /\ ns'[u][x] = "terminating"
                            => x \in seen[u] /\ Exists(u) /\ usr[u].deleting
                      /\ <<u, x>> \in missed' => ns'[u][x] # "terminating"
    BY <1>7 DEF Terminating, Exists
  <2>1. CASE u = me /\ x = k
    BY <1>1, <1>3, <1>8, <1>9, <2>1 DEF IInv, Terminating
  <2>2. CASE u # me \/ x # k
    BY <1>1, <1>3, <1>6, <2>2 DEF IInv, Terminating
  <2> QED
    BY <2>1, <2>2
<1>11. Accounts'
  BY <1>5, <1>7, AccountsStay
<1>12. Removing'
  <2>1. Handled(k)'
    BY <1>3, <1>7, <1>8 DEF Handled
  <2>2. \A x \in Kind \ {k} : Handled(x) => Handled(x)'
    BY <1>3, <1>6, <1>7 DEF Handled
  <2> QED
    BY <1>2, <1>7, <2>1, <2>2 DEF IInv, Removing, Kind, q
<1> QED
  BY <1>5, <1>7, <1>10, <1>11, <1>12, DropsStep

\* The binding of a user.
LEMMA DeleteBindingStep == ASSUME IInv, deleteBinding PROVE IInv'
<1> USE Places DEF deleteBinding
<1>1. me \in User /\ Types
  BY TypesFacts DEF IInv
<1>2. \A v, y : v # me \/ y # "binding"
            => (<<v, y>> \in missed' <=> <<v, y>> \in missed)
  BY DEF Misses
<1>3. SpaceTypes'
  BY <1>1 DEF Types, SpaceTypes, Removed, Still
<1>4. \A v \in User \ {me} : v \in bound' <=> v \in bound
  OBVIOUS
<1>5. /\ Works("waitGone") /\ w.pc = "unbind" /\ UNCHANGED <<acct, leaked>>
      /\ w'.pc = "waitGone" /\ w'.user = w.user /\ w'.copy = w.copy
      /\ UNCHANGED <<usr, cached, seen>>
  BY <1>2, <1>3, <1>4, RemovedLemma, Deletion
<1>6. \A u \in User, k \in Kind : <<u, k>> \in missed' <=> <<u, k>> \in missed
  BY <1>2 DEF Kind
<1>7. Terminating'
  BY <1>5, <1>6 DEF IInv, Terminating, Exists
<1>8. Accounts'
  BY <1>5, AccountsStay
<1>9. Removing'
  <2>1. me \in bound' => <<me, "binding">> \in missed'
    BY <1>1, MissesLemma, PresentLemma
  <2>2. \A k \in Kind : Handled(k) => Handled(k)'
    BY <1>1, <1>5, <1>6 DEF Handled
  <2> QED
    BY <1>5, <2>1, <2>2 DEF IInv, Removing, Kind
<1> QED
  BY <1>5, <1>7, <1>8, <1>9, DropsStep

\* The account goes, or is left behind.
LEMMA DeleteAccountStep == ASSUME IInv, DeleteAccount PROVE IInv'
<1> USE Places
<1>1. /\ w.pc = "account" /\ acct \in [User -> Account] /\ leaked \subseteq User
      /\ UNCHANGED <<usr, ns, rel, bound, client, lost, missed, torn, Still>>
  BY DEF DeleteAccount, IInv, Types, SpaceTypes, OtherTypes
<1>2. /\ me \in User /\ w.copy \in UserObject /\ w.copy.deleting /\ Exists(me)
      /\ usr[me].deleting /\ usr[me].gen = w.copy.gen /\ usr[me] \in UserObject
  BY <1>1, Here DEF IInv, Order
<1>3. cached[me] # NoUser => cached[me].deleting
  <2> SUFFICES ASSUME cached[me] # NoUser PROVE cached[me].deleting
    OBVIOUS
  <2>1. /\ cached[me] \in UserObject /\ Before(cached[me], usr[me])
        /\ w.copy.gen <= cached[me].gen /\ Before(w.copy, cached[me])
    BY <1>2, TypesFacts, NoUserIsNone DEF IInv, Versions
  <2>2. w.copy.gen = cached[me].gen
    BY <1>2, <2>1, Fields DEF Before
  <2> QED
    BY <1>2, <2>1, <2>2, Fields DEF Before, Grows
<1>4. CASE Goto("bindings") /\ queue' = queue /\ (NoFault \/ Fault)
           /\ acct' \in {acct, [acct EXCEPT ![me] = NoAcct]}
           /\ leaked' \in {leaked, leaked \cup {me}, leaked \ {me}}
           /\ (acct'[me].made => me \in leaked')
  <2>1. /\ w'.pc = "bindings" /\ w'.user = w.user /\ w'.copy = w.copy
        /\ Keeps /\ IsWorker(w')
    BY <1>1, <1>4, GotoKeeps
  <2>2. NoAcct \in Account /\ ~NoAcct.made
    BY BoundsAssumption DEF NoAcct, Account
  <2>3. /\ acct' \in [User -> Account] /\ \A v \in User \ {me} : acct'[v] = acct[v]
        /\ leaked' \subseteq User
        /\ \A v \in User \ {me} : v \in leaked' <=> v \in leaked
    BY <1>1, <1>2, <1>4, <2>2
  <2>4. /\ UNCHANGED <<usr, cached, ns, seen, rel, bound, missed>>
        /\ UNCHANGED <<req, syncq, base, envs, client, lost>>
    BY <1>1 DEF Still, sync
  <2>5. Works("bindings")
    <3>1. SpaceTypes'
      BY <2>3, <2>4 DEF IInv, Types, SpaceTypes
    <3> QED
      BY <1>1, <1>4, <2>1, <2>3, <2>4, <3>1 DEF Works, Acts
  <2>6. Terminating'
    BY <2>4 DEF IInv, Terminating, Exists
  <2>7. Accounts'
    BY <1>2, <1>3, <1>4, <2>1, <2>3, <2>4 DEF IInv, Accounts, Exists, Writing
  <2>8. Removing'
    BY <1>4, <2>1 DEF Removing
  <2> QED
    BY <1>1, <2>5, <2>6, <2>7, <2>8, DropsStep
<1>5. CASE NoFault /\ Requeue /\ UNCHANGED <<acct, leaked>>
  <2>1. NoWrite /\ Still' = Still
    BY <1>1, <1>5 DEF NoWrite, ghost
  <2>2. w' = Idle /\ Quiet
    BY <1>1, <1>5, <2>1, RequeueKeeps, StillQuiet
  <2> QED
    BY <1>1, <2>2, EndStep DEF Writing
<1>6. acct' = [acct EXCEPT ![me] = NoAcct] => ~acct'[me].made
  BY <1>1, <1>2 DEF NoAcct
<1> QED
  BY <1>4, <1>5, <1>6 DEF DeleteAccount

\* The finalizer is written on the version that was read.
LEMMA AddFinalizerStep == ASSUME IInv, AddFinalizer PROVE IInv'
<1> USE Places
<1> DEFINE new == [w.copy EXCEPT !.fin = TRUE]
<1>1. /\ w.pc = "finalizer" /\ UNCHANGED <<ns, rel, bound, acct, client, leaked, missed, Still>>
  BY DEF AddFinalizer
<1>2. /\ me \in User /\ w.copy # NoUser /\ w.copy \in UserObject /\ ~w.copy.deleting
      /\ Sound(w.copy) /\ Types
  BY <1>1, TypesFacts DEF IInv, Passes, AllSound
<1>3. /\ Onward(w.copy, new) /\ new.edits = w.copy.edits /\ new.fin
      /\ new.state = w.copy.state /\ new.pw = w.copy.pw /\ new.deleting = w.copy.deleting
  BY <1>2, FinalizerOnward
<1> HIDE DEF new
<1>4. CASE /\ Current(me, w.copy) /\ usr' = [usr EXCEPT ![me] = new]
           /\ w' = [w EXCEPT !.pc = "client", !.copy = new]
           /\ NoFault /\ UNCHANGED <<queue, lost>>
  <2>1. usr[me] = w.copy /\ Exists(me)
    BY <1>4 DEF Current
  <2>2. /\ usr \in [User -> UserObject \cup {NoUser}]
        /\ w \in [pc : Pc, user : User, copy : UserObject \cup {NoUser}]
    BY <1>2 DEF Types, ObjectTypes
  <2>3. /\ usr'[me] = new /\ \A v \in User \ {me} : usr'[v] = usr[v]
        /\ usr' \in [User -> UserObject \cup {NoUser}]
    BY <1>2, <1>3, <1>4, <2>2 DEF Onward
  <2>4. w'.pc = "client" /\ w'.copy = new /\ w'.user = w.user
    BY <1>4, <2>2
  <2>5. new \in UserObject /\ new # NoUser /\ new.gen = w.copy.gen /\ Sound(new)
        /\ Before(w.copy, new)
    BY <1>3, NoUserIsNone DEF Onward, Before
  <2>6. IsWorker(w')
    <3> DEFINE W == [pc : Pc, user : User, copy : UserObject \cup {NoUser}]
               there == [w EXCEPT !.pc = "client"]
    <3>1. there \in W
      BY <2>2
    <3>2. w' = [there EXCEPT !.copy = new]
      BY <1>4, <2>2
    <3>3. w' \in W
      <4> HIDE DEF there
      <4> QED
        BY <2>5, <3>1, <3>2
    <3> QED
      BY <2>4, <2>5, <3>3 DEF IsWorker
  <2>7. /\ UNCHANGED <<cached, ns, seen, rel, bound, acct, leaked, missed, queue>>
        /\ UNCHANGED <<req, syncq, base, envs, client, lost, created, events>>
    BY <1>1, <1>4 DEF Still, sync, NoFault, bounds
  <2>8. Types'
    <3>1. ObjectTypes'
      BY <1>2, <1>3, <2>1, <2>3, <2>4, <2>5, <2>6, <2>7 DEF Types, ObjectTypes, IsWorker, Exists
    <3> QED
      BY <1>2, <2>7, <3>1 DEF Types, SpaceTypes, OtherTypes
  <2>9. AllSound'
    BY <2>3, <2>4, <2>5, <2>7 DEF IInv, AllSound, Exists
  <2>10. Versions'
    <3>1. \A u \in User : Exists(u)' /\ cached[u] # NoUser => Before(cached[u], usr'[u])
      <4>1. cached[me] # NoUser => Before(cached[me], new)
        BY <1>2, <2>1, <2>5, TypesFacts, BeforeOn DEF IInv, Versions
      <4> QED
        BY <2>3, <4>1 DEF IInv, Versions, Exists
    <3>2. Before(new, new)
      BY <2>5, GrowsSelf DEF Before
    <3>3. cached[me] # NoUser => new.gen <= cached[me].gen
      BY <1>2, <2>5 DEF IInv, Versions
    <3>4. cached[me] # NoUser
      BY <1>2, <2>1 DEF IInv, Versions, IsOf
    <3> QED
      BY <1>2, <1>3, <2>3, <2>4, <2>7, <3>1, <3>2, <3>3, <3>4 DEF Versions
  <2>11. Pinned'
    <3>1. \A u \in User, o \in UserObject : IsOf(o, u) => IsOf(o, u)'
      BY <2>1, <2>3, <2>5 DEF IsOf, Exists
    <3>2. IsOf(w.copy, me)'
      BY <2>3, <2>4, <2>5 DEF IsOf, Exists
    <3>3. \A u \in User : cached[u] # NoUser /\ cached[u].fin
            /\ (~cached[u].deleting \/ u \in queue) => IsOf(cached[u], u)'
      BY <1>2, <2>7, <3>1, TypesFacts DEF IInv, Pinned
    <3>4. ~w'.copy.deleting
      BY <1>2, <1>3, <2>4
    <3> QED
      BY <2>7, <3>2, <3>3, <3>4 DEF Pinned, IsOf, Exists
  <2>12. Passes' /\ Making' /\ Removing'
    BY <1>2, <1>3, <2>4 DEF Passes, Making, Removing
  <2>13. States'
    <3>1. w'.copy.state = usr'[w'.user].state
      BY <2>3, <2>4
    <3>2. \A u \in User : /\ usr'[u] # NoUser <=> usr[u] # NoUser
                          /\ Exists(u) => usr'[u].gen = usr[u].gen /\ usr'[u].state = usr[u].state
      BY <1>3, <2>1, <2>3, <2>5 DEF Exists
    <3>3. \A u \in User :
             /\ cached[u] # NoUser /\ ~cached[u].deleting /\ IsOf(cached[u], u)
             => cached[u].state = usr[u].state
      BY <1>1 DEF IInv, States, Writing
    <3> QED
      BY <2>4, <2>7, <3>1, <3>2, <3>3 DEF States, IsOf, Exists, Writing
  <2>14. Fresh'
    <3>1. \A u \in User : (~Exists(u) \/ ~usr[u].fin)' => ~Exists(u) \/ ~usr[u].fin
      BY <1>3, <2>3, <2>5 DEF Exists
    <3>2. \A u \in User : Clean(u)' <=> Clean(u)
      BY <2>7 DEF Clean, Present
    <3> QED
      BY <3>1, <3>2 DEF IInv, Fresh
  <2>15. Terminating'
    BY <1>2, <1>3, <2>1, <2>3, <2>5, <2>7 DEF IInv, Terminating, Exists
  <2>16. Accounts'
    BY <1>2, <1>3, <2>1, <2>3, <2>4, <2>5, <2>7 DEF IInv, Accounts, Exists, Writing
  <2>17. AllIsMade'
    BY <1>2, <1>3, <2>1, <2>3, <2>5, <2>7 DEF IInv, AllIsMade, Living, Exists
  <2> QED
    BY <2>8, <2>9, <2>10, <2>11, <2>12, <2>13, <2>14, <2>15, <2>16, <2>17 DEF IInv
<1>5. CASE /\ IF Current(me, w.copy) THEN Fault ELSE NoFault
           /\ lost' = IF Exists(me) /\ me \notin queue THEN lost \cup {me} ELSE lost
           /\ Done /\ UNCHANGED usr
  <2>1. w' = Idle /\ queue' = queue /\ lost' \subseteq User
    BY <1>2, <1>5 DEF Done, Types, OtherTypes
  <2>2. Quiet
    BY <1>1, <1>2, <1>5, <2>1, IdleLemma DEF Quiet, Keeps, Still, sync, Types, OtherTypes
  <2> QED
    BY <1>1, <2>1, <2>2, EndStep DEF Writing
<1> QED
  BY <1>4, <1>5 DEF AddFinalizer, new

-----------------------------------------------------------------------------
(* A user goes: without a finalizer at once, or when the worker takes it   *)
(* off.                                                                    *)

\* What there is to show when a user goes.
LEMMA LeaveStep ==
    ASSUME IInv, NEW u \in User, usr' = [usr EXCEPT ![u] = NoUser],
           UNCHANGED <<cached, ns, seen, rel, bound, acct, leaked, missed>>,
           UNCHANGED <<queue, syncq, base, envs, client, lost>>,
           created' = created, events' \in 0..MaxEvents, events <= events',
           req' \subseteq User,
           Clean(u), \A k \in Kind : ns[u][k] # "terminating",
           cached[u] # NoUser /\ cached[u].fin => cached[u].deleting /\ u \notin queue,
           \/ w' = Idle /\ w.pc = "finish" /\ me = u
           \/ w' = w /\ (me = u /\ w.copy # NoUser => ~w.copy.fin)
    PROVE  IInv'
<1> USE Places, IdleLemma
<1>1. usr \in [User -> UserObject \cup {NoUser}] /\ Types
  BY DEF IInv, Types, ObjectTypes
<1>2. /\ usr'[u] = NoUser /\ \A v \in User \ {u} : usr'[v] = usr[v]
      /\ usr' \in [User -> UserObject \cup {NoUser}]
  BY <1>1
<1>3. /\ w'.copy # NoUser => w' = w
      /\ w'.pc # "idle" => w' = w
  BY <1>1, TypesFacts
<1>4. w' = w /\ w.pc \notin {"idle", "finalizer"} => me # u
  BY <1>1, NoUserIsNone, TypesFacts DEF IInv, Passes
<1>5. IsWorker(w')
  BY <1>1 DEF Types, ObjectTypes, IsWorker
<1>6. Types'
  <2>1. \A v \in User : usr'[v] # NoUser =>
            usr'[v].gen <= created' /\ usr'[v].edits <= events'
    <3> SUFFICES ASSUME NEW v \in User, usr'[v] # NoUser
                 PROVE  usr'[v].gen <= created' /\ usr'[v].edits <= events'
      OBVIOUS
    <3>1. v # u /\ usr'[v] = usr[v] /\ usr[v] \in UserObject
      BY <1>1, <1>2
    <3>2. usr[v].gen <= created /\ usr[v].edits <= events
      BY <1>1, <1>2, <3>1 DEF Types, ObjectTypes, Exists
    <3> QED
      BY <1>1, <3>1, <3>2, Fields, BoundsAssumption DEF Types, ObjectTypes
  <2>2. ObjectTypes'
    BY <1>1, <1>2, <1>3, <1>5, <2>1 DEF Types, ObjectTypes, IsWorker, Exists
  <2> QED
    BY <1>1, <2>2 DEF Types, SpaceTypes, OtherTypes
<1>7. AllSound'
  BY <1>2, <1>3 DEF IInv, AllSound, Exists
<1>8. Versions'
  BY <1>2, <1>3 DEF IInv, Versions, Exists, IsOf
<1>9. Pinned'
  BY <1>2, <1>3 DEF IInv, Pinned, Exists, IsOf
<1>10. Passes'
  BY <1>3 DEF IInv, Passes
<1>11. States'
  <2>1. w'.pc \in Writing => usr'[w'.user].state = "Creating"
    BY <1>2, <1>3, <1>4, TypesFacts, <1>1 DEF IInv, States, Writing
  <2>2. w'.pc \in Deciding /\ IsOf(w.copy, me)' => w'.copy.state = usr'[w'.user].state
    BY <1>2, <1>3 DEF IInv, States, Deciding, IsOf, Exists
  <2>3. \A v \in User :
           /\ cached[v] # NoUser /\ ~cached[v].deleting /\ IsOf(cached[v], v)
           /\ ~(w'.user = v /\ w'.pc \in Writing \cup {"rest"})
           => cached[v].state = usr[v].state
    BY DEF IInv, States, Writing
  <2>4. \A v \in User : usr'[v] # NoUser => usr'[v] = usr[v]
    BY <1>2
  <2> QED
    BY <2>1, <2>2, <2>3, <2>4 DEF States, IsOf, Exists
<1>12. Fresh'
  <2>1. \A v \in User : Clean(v)' <=> Clean(v)
    BY DEF Clean, Present
  <2> QED
    BY <1>2, <2>1 DEF IInv, Fresh, Exists
<1>13. Terminating'
  BY <1>2 DEF IInv, Terminating, Exists
<1>14. Accounts'
  BY <1>2, <1>3 DEF IInv, Accounts, Exists, Writing, Clean
<1>15. Making'
  BY <1>2, <1>3, <1>4 DEF IInv, Making, Living, Exists
<1>16. Removing'
  BY <1>3 DEF IInv, Removing, Handled
<1>17. AllIsMade'
  BY <1>2 DEF IInv, AllIsMade, Living, Exists
<1> QED
  BY <1>6, <1>7, <1>8, <1>9, <1>10, <1>11, <1>12, <1>13, <1>14, <1>15, <1>16, <1>17 DEF IInv

\* The finalizer is taken off the version that was read.
LEMMA RemoveFinalizerStep == ASSUME IInv, RemoveFinalizer PROVE IInv'
<1> USE Places
<1>1. w.pc = "finish" /\ UNCHANGED <<ns, rel, bound, acct, client, ghost, Still>>
  BY DEF RemoveFinalizer
<1>2. CASE Current(me, w.copy) /\ usr' = [usr EXCEPT ![me] = NoUser] /\ Done /\ NoFault
  <2>1. /\ me \in User /\ w.copy \in UserObject /\ w.copy.deleting /\ Exists(me)
        /\ usr[me] = w.copy /\ Types
    BY <1>1, <1>2, Here DEF IInv, Order, Current
  <2>2. /\ UNCHANGED <<cached, ns, seen, rel, bound, acct, leaked, missed>>
        /\ UNCHANGED <<queue, syncq, base, envs, client, lost>>
        /\ created' = created /\ events' \in 0..MaxEvents /\ events <= events'
        /\ req' \subseteq User
    BY <1>1, <1>2, <2>1, BoundsAssumption DEF Still, sync, ghost, Done, NoFault, bounds, Types, ObjectTypes, OtherTypes
  <2>3. \A k \in Kind : ns[me][k] # "none" => <<me, k>> \in missed
    BY <1>1 DEF IInv, Removing
  <2>4. Clean(me)
    <3>1. rel[me] = {}
      BY <1>1, <2>1 DEF IInv, Removing, Types, SpaceTypes, Release
    <3>2. {me} \X Present(me) \subseteq missed
      BY <1>1, <2>3 DEF IInv, Removing, Present
    <3>3. acct[me].made => me \in leaked
      BY <1>1 DEF IInv, Removing
    <3> QED
      BY <3>1, <3>2, <3>3 DEF Clean
  <2>5. \A k \in Kind : ns[me][k] # "terminating"
    BY <2>1, <2>3 DEF IInv, Terminating
  <2>6. cached[me] # NoUser => cached[me] = w.copy /\ me \notin queue
    BY <2>1, TypesFacts, BeforeBoth, NoUserIsNone DEF IInv, Versions, Pinned
  <2>7. w' = Idle
    BY <1>2 DEF Done
  <2> QED
    BY <1>1, <1>2, <2>1, <2>2, <2>4, <2>5, <2>6, <2>7, LeaveStep
<1>3. CASE Requeue /\ UNCHANGED usr /\ (NoFault \/ Fault)
  <2>1. NoWrite /\ Still' = Still
    BY <1>1, <1>3 DEF NoWrite
  <2>2. w' = Idle /\ Quiet
    BY <1>1, <1>3, <2>1, RequeueKeeps, StillQuiet
  <2> QED
    BY <1>1, <2>2, EndStep DEF Writing
<1> QED
  BY <1>2, <1>3 DEF RemoveFinalizer

-----------------------------------------------------------------------------
(* The API server and other writers.                                       *)

\* A write that is not the worker's leaves the state as it is.
LEMMA OutsideWrite ==
    ASSUME IInv, NEW u \in User, NEW new, Writes(u, new), w' = w,
           new.state = usr[u].state
    PROVE  IInv'
<1> USE Places
<1>1. /\ usr \in [User -> UserObject \cup {NoUser}] /\ Types
      /\ UNCHANGED <<cached, ns, seen, rel, bound, acct, leaked, missed>>
      /\ new # NoUser /\ Exists(u) /\ new.gen = usr[u].gen
      /\ usr[u].deleting => new.deleting
  BY NoUserIsNone, TypesFacts DEF IInv, Types, ObjectTypes, Writes, Onward, Grows
<1>2. usr'[u] = new /\ \A v \in User \ {u} : usr'[v] = usr[v]
  BY <1>1 DEF Writes
<1>3. \A v \in User : /\ usr'[v] # NoUser <=> usr[v] # NoUser
                      /\ usr'[v] # NoUser => /\ usr'[v].gen = usr[v].gen
                                             /\ usr'[v].state = usr[v].state
                                             /\ usr[v].deleting => usr'[v].deleting
  BY <1>1, <1>2 DEF Exists
<1>4. AllIsMade'
  BY WriteComplete
<1>5. Passes'
  BY DEF IInv, Passes
<1>6. States'
  <2>1. w.pc \in Writing => Exists(me)
    BY Here DEF IInv, Order, Writing
  <2>2. me \in User /\ \A v \in User : IsOf(cached[v], v)' => IsOf(cached[v], v)
    BY <1>1, <1>3, TypesFacts DEF IsOf, Exists
  <2>3. w.pc \in Writing => usr'[me].state = "Creating"
    BY <1>3, <2>1, <2>2 DEF IInv, States, Exists
  <2>4. w.pc \in Deciding /\ IsOf(w.copy, me)' => w.copy.state = usr'[me].state
    BY <1>3, <2>2 DEF IInv, States, IsOf, Exists
  <2>5. \A v \in User :
           /\ cached[v] # NoUser /\ ~cached[v].deleting /\ IsOf(cached[v], v)'
           /\ ~(w.user = v /\ w.pc \in Writing \cup {"rest"})
           => cached[v].state = usr'[v].state
    BY <1>3, <2>2 DEF IInv, States, IsOf, Exists
  <2> QED
    BY <1>1, <2>3, <2>4, <2>5 DEF States
<1>7. Making'
  BY <1>1, <1>3, TypesFacts DEF IInv, Making, Living, Exists
<1>8. Removing'
  BY <1>1 DEF IInv, Removing, Handled
<1>9. w'.pc \in Writing \cup {"mark", "creating"} => acct[w'.user].made
  BY DEF IInv, Accounts
<1> QED
  BY <1>4, <1>5, <1>6, <1>7, <1>8, <1>9, WriteStep

\* What the handlers leave alone.
LEMMA ServedQuiet ==
    ASSUME IInv, Served' = Served, NEW u \in User, NEW new, Exists(u),
           Onward(usr[u], new), new.pw = usr[u].pw,
           usr' = [usr EXCEPT ![u] = new], req' \subseteq User,
           \/ UNCHANGED bounds /\ new.edits <= events
           \/ Event /\ new.edits <= events + 1
    PROVE  Writes(u, new) /\ w' = w
<1>1. /\ UNCHANGED <<cached, ns, seen, rel, bound, acct, leaked, missed>>
      /\ UNCHANGED <<syncq, base, envs, client, lost, w, queue>>
  BY DEF Served, space, sync, ghost
<1>2. /\ created' = created /\ events' \in events..MaxEvents /\ new.edits <= events'
  BY BoundsAssumption DEF Event, bounds, IInv, Types, ObjectTypes
<1>3. IsWorker(w') /\ client' \in BOOLEAN /\ lost' \subseteq User
  BY <1>1 DEF IInv, Types, ObjectTypes, OtherTypes, IsWorker
<1> QED
  BY <1>1, <1>2, <1>3 DEF Writes, Keeps

\* The handler of a deletion notes who asked.
LEMMA DeleteAnnotateStep ==
    ASSUME IInv, NEW u \in User, DeleteAnnotate(u)
    PROVE  IInv'
<1> DEFINE new == [usr[u] EXCEPT !.asked = TRUE]
<1>1. /\ Exists(u) /\ usr[u] \in UserObject /\ Sound(usr[u]) /\ usr[u].edits <= events
      /\ req \subseteq User /\ events \in Nat
  BY TypesFacts, BoundsAssumption DEF DeleteAnnotate, IInv, AllSound, Types, ObjectTypes, OtherTypes
<1>2. /\ Onward(usr[u], new) /\ new.edits = usr[u].edits /\ new.pw = usr[u].pw
      /\ new.state = usr[u].state
  BY <1>1, AskedOnward
<1>3. /\ usr' = [usr EXCEPT ![u] = new] /\ Served' = Served /\ Event
      /\ req' \subseteq User
  BY <1>1 DEF DeleteAnnotate
<1> HIDE DEF new
<1>4. new.edits <= events + 1
  BY <1>1, <1>2, Fields
<1> QED
  BY <1>1, <1>2, <1>3, <1>4, ServedQuiet, OutsideWrite

\* It deletes what has the name.
LEMMA DeleteSendStep ==
    ASSUME IInv, NEW u \in User, DeleteSend(u)
    PROVE  IInv'
<1>1. /\ Served' = Served /\ UNCHANGED bounds /\ req' \subseteq User /\ Types
      /\ usr \in [User -> UserObject \cup {NoUser}]
  BY DEF DeleteSend, IInv, Types, ObjectTypes, OtherTypes
<1>2. CASE Exists(u) /\ usr[u].fin
  <2> DEFINE new == [usr[u] EXCEPT !.deleting = TRUE]
  <2>1. usr[u] \in UserObject /\ Sound(usr[u]) /\ usr[u].edits <= events
    BY <1>1, <1>2, TypesFacts DEF IInv, AllSound, Types, ObjectTypes
  <2>2. /\ Onward(usr[u], new) /\ new.edits = usr[u].edits /\ new.pw = usr[u].pw
        /\ new.state = usr[u].state
    BY <1>2, <2>1, DeletingOnward
  <2>3. usr' = [usr EXCEPT ![u] = new]
    BY <1>2 DEF DeleteSend, Marked
  <2> HIDE DEF new
  <2> QED
    BY <1>1, <1>2, <2>1, <2>2, <2>3, ServedQuiet, OutsideWrite
<1>3. CASE ~(Exists(u) /\ usr[u].fin)
  <2>1. usr' = [usr EXCEPT ![u] = NoUser]
    BY <1>1, <1>3 DEF DeleteSend, Marked, Exists
  <2>2. Clean(u)
    BY <1>3 DEF IInv, Fresh
  <2>3. \A k \in Kind : ns[u][k] # "terminating"
    BY <1>3 DEF IInv, Terminating, AllSound, Sound
  <2>4. /\ UNCHANGED <<cached, ns, seen, rel, bound, acct, leaked, missed>>
        /\ UNCHANGED <<queue, syncq, base, envs, client, lost, w>>
        /\ created' = created /\ events' \in 0..MaxEvents /\ events <= events'
    BY <1>1, BoundsAssumption DEF Served, space, sync, ghost, bounds, Types, ObjectTypes
  <2>5. \A o \in UserObject : o.fin /\ IsOf(o, u) /\ Before(o, usr[u]) => FALSE
    BY <1>1, <1>3, TypesFacts, Fields DEF IsOf, Before, Grows
  <2>6. cached[u] # NoUser /\ cached[u].fin => cached[u].deleting /\ u \notin queue
    BY <1>1, <2>5, TypesFacts DEF IInv, Pinned, Versions, IsOf
  <2>7. me = u /\ w.copy # NoUser => ~w.copy.fin
    BY <1>1, <2>5, TypesFacts DEF IInv, Pinned, Versions, IsOf
  <2> QED
    BY <1>1, <2>1, <2>2, <2>3, <2>4, <2>6, <2>7, LeaveStep
<1> QED
  BY <1>2, <1>3

\* The limits are written.
LEMMA UpdateLimitsStep ==
    ASSUME IInv, NEW u \in User, handleUpdateUserLimits(u)
    PROVE  IInv'
<1> DEFINE new == [usr[u] EXCEPT !.edits = @ + 1]
<1>1. /\ Exists(u) /\ usr[u] \in UserObject /\ Sound(usr[u]) /\ usr[u].edits <= events
      /\ req \subseteq User /\ events \in Nat /\ events < MaxEvents
  BY TypesFacts, BoundsAssumption DEF handleUpdateUserLimits, Event, IInv, AllSound, Types, ObjectTypes, OtherTypes
<1>2. /\ Onward(usr[u], new) /\ new.edits = usr[u].edits + 1 /\ new.pw = usr[u].pw
      /\ new.state = usr[u].state
  <2>1. usr[u].edits + 1 <= MaxEvents
    BY <1>1, Fields, BoundsAssumption
  <2> QED
    BY <1>1, <2>1, LimitsOnward
<1>3. /\ usr' = [usr EXCEPT ![u] = new] /\ Served' = Served /\ Event
      /\ req' \subseteq User
  BY <1>1 DEF handleUpdateUserLimits
<1> HIDE DEF new
<1>4. new.edits <= events + 1
  BY <1>1, <1>2, Fields
<1> QED
  BY <1>1, <1>2, <1>3, <1>4, ServedQuiet, OutsideWrite

\* The groups are edited.
LEMMA EditGroupsStep ==
    ASSUME IInv, NEW u \in User, EditGroups(u)
    PROVE  IInv'
<1> DEFINE new == [usr[u] EXCEPT !.admin = ~@, !.edits = @ + 1]
<1>1. /\ Exists(u) /\ usr[u] \in UserObject /\ Sound(usr[u]) /\ usr[u].edits <= events
      /\ req \subseteq User /\ events \in Nat /\ events < MaxEvents
      /\ usr \in [User -> UserObject \cup {NoUser}]
  BY TypesFacts, BoundsAssumption DEF EditGroups, Event, IInv, AllSound, Types, ObjectTypes, OtherTypes
<1>2. /\ Onward(usr[u], new) /\ new.edits = usr[u].edits + 1 /\ new.pw = usr[u].pw
      /\ new.state = usr[u].state
  <2>1. usr[u].edits + 1 <= MaxEvents
    BY <1>1, Fields, BoundsAssumption
  <2> QED
    BY <1>1, <2>1, GroupsOnward
<1>3. usr' = [usr EXCEPT ![u] = new]
  BY <1>1 DEF EditGroups, UserObject
<1>4. Served' = Served /\ Event /\ req' \subseteq User
  BY <1>1 DEF EditGroups
<1> HIDE DEF new
<1>5. new.edits <= events + 1
  BY <1>1, <1>2, Fields
<1> QED
  BY <1>1, <1>2, <1>3, <1>4, <1>5, ServedQuiet, OutsideWrite

\* A user is created, in a place where nothing is.
LEMMA CreateUserStep ==
    ASSUME IInv, NEW u \in User, NEW admin \in Admin, createUser(u, admin)
    PROVE  IInv'
<1> USE Places
<1> DEFINE new == [gen |-> created + 1, edits |-> 0, state |-> "", fin |-> FALSE,
                   deleting |-> FALSE, pw |-> created + 1, admin |-> admin,
                   synced |-> FALSE, asked |-> FALSE]
<1>1. /\ Types /\ usr \in [User -> UserObject \cup {NoUser}] /\ ~Exists(u)
      /\ created \in Nat /\ created' = created + 1 /\ created' \in 1..MaxCreates
      /\ usr' = [usr EXCEPT ![u] = new]
  <2>0. created \in Nat
    BY BoundsAssumption DEF IInv, Types, ObjectTypes
  <2>1. created < MaxCreates /\ created' = created + 1 /\ ~Exists(u)
    BY DEF createUser
  <2>2. usr' = [usr EXCEPT ![u] = new]
    BY <2>1 DEF createUser
  <2>3. created' \in 1..MaxCreates
    BY <2>0, <2>1, BoundsAssumption
  <2> QED
    BY <2>0, <2>1, <2>2, <2>3 DEF IInv, Types, ObjectTypes
<1>0. new.state = "" /\ new.state # "Created"
  OBVIOUS
<1>2. /\ new \in UserObject /\ new.gen = created + 1 /\ new.pw = new.gen
      /\ new.edits = 0 /\ ~new.fin /\ ~new.deleting
  <2>1. created \in Nat /\ created + 1 \in 1..MaxCreates
    BY <1>1
  <2>2. created + 1 \in 0..MaxCreates /\ 0 \in 0..MaxEvents
    BY <2>1, BoundsAssumption
  <2>3. admin \in BOOLEAN /\ new.state \in State
    BY BoundsAssumption DEF State
  <2>4. new.gen = created + 1 /\ new.pw = created + 1 /\ new.edits = 0
        /\ new.fin = FALSE /\ new.deleting = FALSE /\ new.admin = admin
        /\ new.synced = FALSE /\ new.asked = FALSE
        /\ new = [gen |-> new.gen, edits |-> new.edits, state |-> new.state,
                  fin |-> new.fin, deleting |-> new.deleting, pw |-> new.pw,
                  admin |-> new.admin, synced |-> new.synced, asked |-> new.asked]
    OBVIOUS
  <2> HIDE DEF new
  <2>5. new \in UserObject
    BY <2>1, <2>2, <2>3, <2>4 DEF UserObject
  <2> QED
    BY <2>4, <2>5
<1> HIDE DEF new
<1>3. /\ usr'[u] = new /\ \A v \in User \ {u} : usr'[v] = usr[v]
      /\ usr' \in [User -> UserObject \cup {NoUser}] /\ new # NoUser
  BY <1>1, <1>2, NoUserIsNone
<1>4. /\ UNCHANGED <<cached, ns, seen, rel, bound, acct, queue, w, client, req>>
      /\ UNCHANGED <<syncq, base, envs, events, lost, leaked, missed>>
  BY DEF createUser, space, sync, ghost
<1>5. Types'
  <2>1. \A v \in User : usr'[v] # NoUser =>
            usr'[v].gen <= created' /\ usr'[v].edits <= events'
    <3> SUFFICES ASSUME NEW v \in User, usr'[v] # NoUser
                 PROVE  usr'[v].gen <= created' /\ usr'[v].edits <= events'
      OBVIOUS
    <3>1. CASE v = u
      <4>1. created' = created + 1 /\ events' = events /\ events \in 0..MaxEvents
            /\ created \in Nat
        BY <1>1, <1>4 DEF Types, ObjectTypes
      <4> QED
        BY <1>2, <1>3, <3>1, <4>1
    <3>2. CASE v # u
      <4>1. usr[v].gen <= created /\ usr[v].edits <= events /\ usr[v] \in UserObject
        BY <1>1, <1>3, <3>2, TypesFacts DEF Types, ObjectTypes, Exists
      <4> QED
        BY <1>1, <1>3, <1>4, <3>2, <4>1, Fields
    <3> QED
      BY <3>1, <3>2
  <2>2. \A o \in UserObject : o.gen <= created => o.gen <= created'
    BY <1>1, Fields
  <2>3. ObjectTypes'
    BY <1>1, <1>3, <1>4, <2>1, <2>2, TypesFacts DEF Types, ObjectTypes, Exists
  <2> QED
    BY <1>1, <1>4, <2>3 DEF Types, SpaceTypes, OtherTypes
<1>6. AllSound'
  BY <1>0, <1>2, <1>3, <1>4 DEF IInv, AllSound, Exists, Sound
<1>7. \A o \in UserObject : o.gen <= created => ~IsOf(o, u) /\ ~IsOf(o, u)' /\ Before(o, new)
  <2> SUFFICES ASSUME NEW o \in UserObject, o.gen <= created
               PROVE  ~IsOf(o, u) /\ ~IsOf(o, u)' /\ Before(o, new)
    OBVIOUS
  <2>1. created \in Nat /\ o.gen \in Nat
    BY <1>1, Fields
  <2>2. o.gen < new.gen
    BY <1>2, <2>1
  <2>3. o.gen # new.gen
    BY <1>2, <2>1
  <2> QED
    BY <1>1, <1>3, <2>2, <2>3 DEF IsOf, Before
<1>8. \A v \in User \ {u}, o \in UserObject : IsOf(o, v)' <=> IsOf(o, v)
  BY <1>3 DEF IsOf, Exists
<1>9. /\ w.copy # NoUser => w.copy \in UserObject /\ w.copy.gen <= created
      /\ \A v \in User : cached[v] # NoUser => cached[v] \in UserObject /\ cached[v].gen <= created
      /\ me \in User
  BY <1>1, TypesFacts DEF Types, ObjectTypes
<1>10. Versions'
  BY <1>3, <1>4, <1>7, <1>8, <1>9 DEF IInv, Versions, Exists
<1>11. Pinned'
  BY <1>4, <1>7, <1>8, <1>9 DEF IInv, Pinned
<1>12. Passes'
  BY <1>4 DEF IInv, Passes
<1>13. w.pc \notin {"idle", "finalizer"} => me # u
  BY <1>1, Here DEF IInv, Order
<1>14. States'
  <2>1. w.pc \in Writing => usr'[me].state = "Creating"
    BY <1>3, <1>9, <1>13 DEF IInv, States, Writing
  <2>2. w.pc \in Deciding /\ IsOf(w.copy, me)' => w.copy.state = usr'[me].state
    <3>1. w.pc \in Deciding => w.copy # NoUser
      BY <1>1, TypesFacts DEF Deciding
    <3>2. w.pc \in Deciding /\ IsOf(w.copy, me)' => me # u /\ IsOf(w.copy, me)
      BY <1>4, <1>7, <1>8, <1>9, <3>1
    <3> QED
      BY <1>3, <1>9, <3>2 DEF IInv, States
  <2>3. \A v \in User :
           /\ cached[v] # NoUser /\ ~cached[v].deleting /\ IsOf(cached[v], v)'
           /\ ~(w.user = v /\ w.pc \in Writing \cup {"rest"})
           => cached[v].state = usr'[v].state
    <3> SUFFICES ASSUME NEW v \in User, cached[v] # NoUser, ~cached[v].deleting, IsOf(cached[v], v)',
                        ~(w.user = v /\ w.pc \in Writing \cup {"rest"})
                 PROVE  cached[v].state = usr'[v].state
      OBVIOUS
    <3>1. v # u /\ IsOf(cached[v], v)
      BY <1>4, <1>7, <1>8, <1>9
    <3> QED
      BY <1>3, <3>1 DEF IInv, States
  <2> QED
    BY <1>4, <2>1, <2>2, <2>3 DEF States
<1>15. Fresh'
  <2>1. \A v \in User : Clean(v)' <=> Clean(v)
    BY <1>4 DEF Clean, Present
  <2> QED
    BY <1>1, <1>3, <2>1 DEF IInv, Fresh, Exists
<1>16. Terminating'
  BY <1>1, <1>3, <1>4 DEF IInv, Terminating, Exists
<1>17. Accounts'
  <2>1. new.pw # 0
    <3>1. created \in Nat
      BY <1>1
    <3> QED
      BY <1>2, <3>1
  <2>2. acct[u].made => u \in leaked
    BY <1>1 DEF IInv, Fresh, Clean
  <2> QED
    BY <1>3, <1>4, <2>1, <2>2 DEF IInv, Accounts, Exists
<1>18. Making'
  BY <1>3, <1>4, <1>9, <1>13 DEF IInv, Making, Living, Exists
<1>19. Removing'
  BY <1>4 DEF IInv, Removing, Handled
<1>20. AllIsMade'
  BY <1>0, <1>3, <1>4 DEF IInv, AllIsMade, Living, Exists
<1> QED
  BY <1>5, <1>6, <1>10, <1>11, <1>12, <1>14, <1>15, <1>16, <1>17, <1>18, <1>19, <1>20 DEF IInv

-----------------------------------------------------------------------------
(* Caches, queues and the restart.                                         *)

\* The cache catches up with an object.
LEMMA CacheStep ==
    ASSUME IInv, NEW u \in User, CacheCatchesUp(u)
    PROVE  IInv'
<1> USE Places
<1>1. /\ Types /\ cached \in [User -> UserObject \cup {NoUser}] /\ me \in User
      /\ usr[u] \in UserObject \cup {NoUser}
  BY TypesFacts DEF IInv, Types, ObjectTypes
<1>2. /\ cached[u] # usr[u] /\ cached'[u] = usr[u]
      /\ \A v \in User \ {u} : cached'[v] = cached[v]
      /\ cached' \in [User -> UserObject \cup {NoUser}]
  BY <1>1 DEF CacheCatchesUp
<1>3. /\ UNCHANGED <<usr, ns, seen, rel, bound, acct, w, client, req>>
      /\ UNCHANGED <<base, envs, created, events, leaked, missed>>
  BY DEF CacheCatchesUp, space, bounds
<1>4. /\ queue' \in {queue, queue \cup {u}} /\ lost' \subseteq lost
      /\ syncq' \subseteq syncq \cup {u}
  BY DEF CacheCatchesUp
<1>5. Types'
  <2>1. ObjectTypes'
    BY <1>1, <1>2, <1>3 DEF Types, ObjectTypes, Exists
  <2> QED
    BY <1>1, <1>3, <1>4, <2>1 DEF Types, SpaceTypes, OtherTypes
<1>6. AllSound'
  BY <1>2, <1>3 DEF IInv, AllSound, Exists
<1>7. Versions'
  <2>1. Exists(u) => Before(usr[u], usr[u])
    BY <1>1, GrowsSelf DEF Before, Exists
  <2>2. w.copy # NoUser /\ Exists(me) => w.copy.gen <= usr[me].gen
    BY <1>1, TypesFacts, Fields DEF IInv, Versions, Before
  <2>3. \A v \in User : Exists(v)' <=> Exists(v)
    BY <1>3 DEF Exists
  <2>4. \A v \in User : Exists(v) /\ cached'[v] # NoUser => Before(cached'[v], usr[v])
    BY <1>2, <2>1 DEF IInv, Versions, Exists
  <2>5. w.copy # NoUser /\ cached'[me] # NoUser =>
           /\ w.copy.gen <= cached'[me].gen
           /\ w.copy.deleting => Before(w.copy, cached'[me])
    BY <1>1, <1>2, <2>2 DEF IInv, Versions, Exists
  <2>6. w.copy # NoUser /\ IsOf(w.copy, me) => cached'[me] # NoUser
    BY <1>1, <1>2 DEF IInv, Versions, IsOf, Exists
  <2> QED
    BY <1>3, <2>3, <2>4, <2>5, <2>6 DEF IInv, Versions, IsOf, Exists
<1>8. Pinned'
  <2>1. w.copy # NoUser /\ w.copy.deleting /\ w.copy.fin /\ me = u => usr[u] # w.copy
    <3> SUFFICES ASSUME w.copy # NoUser, w.copy.deleting, w.copy.fin, me = u, usr[u] = w.copy
                 PROVE  FALSE
      OBVIOUS
    <3>1. Exists(u) /\ IsOf(w.copy, me) /\ cached[u] # NoUser
      BY DEF IInv, Pinned, Versions, Exists, IsOf
    <3>2. Before(w.copy, cached[u]) /\ Before(cached[u], w.copy)
      BY <3>1 DEF IInv, Versions
    <3> QED
      BY <1>1, <1>2, <3>1, <3>2, BeforeBoth, TypesFacts
  <2>2. w.copy # NoUser /\ w.copy.deleting => w.copy.fin
    BY DEF IInv, AllSound, Sound
  <2>3. w.copy # NoUser /\ w.copy.deleting /\ cached'[me] = w.copy => me \notin queue'
    BY <1>1, <1>2, <1>4, <2>1, <2>2 DEF IInv, Pinned
  <2>4. \A v \in User : cached'[v] # NoUser /\ cached'[v].fin
            /\ (~cached'[v].deleting \/ v \in queue') => IsOf(cached'[v], v)
    BY <1>2, <1>4 DEF IInv, Pinned, IsOf, Exists
  <2> QED
    BY <1>3, <2>3, <2>4 DEF IInv, Pinned, IsOf, Exists
<1>9. Passes'
  BY <1>3 DEF IInv, Passes
<1>10. States'
  BY <1>1, <1>2, <1>3 DEF IInv, States, IsOf, Exists
<1>11. Fresh' /\ Terminating'
  BY <1>3 DEF IInv, Fresh, Clean, Present, Exists, Terminating
<1>12. Accounts'
  BY <1>2, <1>3 DEF IInv, Accounts, Exists
<1>13. Making' /\ Removing' /\ AllIsMade'
  BY <1>3 DEF IInv, Making, Living, Exists, Removing, Handled, AllIsMade
<1> QED
  BY <1>5, <1>6, <1>7, <1>8, <1>9, <1>10, <1>11, <1>12, <1>13 DEF IInv

\* The worker takes a key from its queue.
LEMMA PickStep ==
    ASSUME IInv, NEW u \in User, Pick(u)
    PROVE  IInv'
<1> USE Places
<1> DEFINE o == cached[u]
           pc == IF o.deleting THEN "account" ELSE IF o.fin THEN "client" ELSE "finalizer"
<1>1. /\ w.pc = "idle" /\ u \in queue /\ queue' = queue \ {u} /\ Types
      /\ w' = IF o = NoUser THEN Idle ELSE [user |-> u, copy |-> o, pc |-> pc]
  BY DEF Pick, IInv
<1>2. /\ UNCHANGED <<usr, cached, ns, seen, rel, bound, acct, client, req>>
      /\ UNCHANGED <<syncq, base, envs, created, events, lost, leaked, missed>>
  BY DEF Pick, NoWrite, NoFault, Still, sync, ghost, bounds
<1>3. o \in UserObject \cup {NoUser}
  BY <1>1 DEF Types, ObjectTypes
<1> HIDE DEF o
<1>4. /\ IsWorker(w') /\ w'.user \in User
      /\ w'.copy # NoUser => w'.copy = o /\ w'.user = u /\ w'.pc = pc
      /\ w'.copy = NoUser => w' = Idle /\ w'.pc = "idle"
  BY <1>1, <1>3, IdleLemma DEF IsWorker
<1>5. ASSUME w'.copy # NoUser
      PROVE  /\ Sound(o) /\ o.gen <= created
             /\ o.fin => IsOf(o, u)
             /\ Exists(u) => Before(o, usr[u])
  BY <1>1, <1>4, <1>5 DEF o, IInv, AllSound, Types, ObjectTypes, Pinned, Versions
<1>6. Types'
  <2>1. ObjectTypes'
    BY <1>1, <1>2, <1>4, <1>5 DEF Types, ObjectTypes, IsWorker, Exists
  <2> QED
    BY <1>1, <1>2, <2>1 DEF Types, SpaceTypes, OtherTypes
<1>7. AllSound'
  BY <1>2, <1>4, <1>5 DEF IInv, AllSound, Exists
<1>8. Versions'
  <2>1. w'.copy # NoUser => cached[u] = o /\ o.gen <= o.gen /\ Before(o, o)
    BY <1>3, <1>4, GrowsSelf, Fields DEF o, Before
  <2> QED
    BY <1>2, <1>4, <1>5, <2>1 DEF IInv, Versions, Exists, IsOf
<1>9. Pinned'
  BY <1>1, <1>2, <1>4, <1>5 DEF IInv, Pinned, IsOf, Exists
<1>10. Passes'
  BY <1>4, <1>5 DEF Passes, Sound
<1>11. States'
  <2>1. \A v \in User : cached[v] # NoUser /\ ~cached[v].deleting /\ IsOf(cached[v], v)
            => cached[v].state = usr[v].state
    BY <1>1 DEF IInv, States, Writing
  <2>2. w'.pc \notin Writing
    BY <1>4 DEF Writing
  <2>3. w'.pc \in Deciding /\ IsOf(o, u) => o.state = usr[u].state /\ w'.copy = o /\ w'.user = u
    BY <1>4, <2>1 DEF Deciding, o
  <2>4. w'.pc \in Deciding => w'.copy = o /\ w'.user = u
    BY <1>4 DEF Deciding
  <2> QED
    BY <1>2, <2>1, <2>2, <2>3, <2>4 DEF States, IsOf, Exists
<1>12. Fresh' /\ Terminating'
  BY <1>2 DEF IInv, Fresh, Clean, Present, Exists, Terminating
<1>13. Accounts'
  <2>1. w'.pc \notin Writing \cup {"mark", "creating"}
    BY <1>4 DEF Writing
  <2>2. w'.copy # NoUser /\ ~o.deleting /\ o.pw = 0 => acct[u].made
    BY <1>4 DEF IInv, Accounts, o
  <2> QED
    BY <1>2, <1>4, <2>1, <2>2 DEF IInv, Accounts, Exists
<1>14. Making' /\ Removing'
  BY <1>4 DEF Making, Removing
<1>15. AllIsMade'
  BY <1>2 DEF IInv, AllIsMade, Living, Exists
<1> QED
  BY <1>6, <1>7, <1>8, <1>9, <1>10, <1>11, <1>12, <1>13, <1>14, <1>15 DEF IInv

\* The process restarts: the worker has nothing, and the caches are new.
LEMMA RestartStep == ASSUME IInv, Restart PROVE IInv'
<1> USE Places, IdleLemma
<1>1. /\ w' = Idle /\ cached' = usr /\ queue' = Listed /\ client' = FALSE /\ req' = {}
      /\ seen' = [v \in User |-> Present(v)]
      /\ UNCHANGED <<usr, ns, bound, acct, base, envs, leaked, missed>>
      /\ CutShort
  BY DEF Restart
<1>2. /\ Types /\ created' = created /\ events' \in 0..MaxEvents /\ events <= events'
      /\ events \in Nat
  BY BoundsAssumption DEF Restart, Event, IInv, Types, ObjectTypes
<1>3. Types'
  <2>1. \A v \in User : Exists(v) => usr[v].edits <= events'
    BY <1>2, TypesFacts, Fields DEF Types, ObjectTypes
  <2>2. ObjectTypes'
    BY <1>1, <1>2, <2>1 DEF Types, ObjectTypes, IsWorker, Exists
  <2>3. SpaceTypes'
    BY <1>1, <1>2, CutShortLemma DEF Types, SpaceTypes, Present
  <2>4. OtherTypes'
    BY <1>1, <1>2 DEF Types, OtherTypes, Restart, Listed
  <2> QED
    BY <2>2, <2>3, <2>4 DEF Types
<1>4. AllSound'
  BY <1>1 DEF IInv, AllSound, Exists
<1>5. Versions'
  <2>1. \A v \in User : Exists(v) => Before(usr[v], usr[v])
    BY <1>2, TypesFacts, GrowsSelf DEF Before
  <2> QED
    BY <1>1, <2>1 DEF Versions, Exists
<1>6. Pinned'
  BY <1>1 DEF Pinned, IsOf, Exists
<1>7. Passes' /\ Making' /\ Removing'
  BY <1>1 DEF Passes, Making, Removing
<1>8. States'
  BY <1>1 DEF States, Writing, Deciding
<1>9. Fresh'
  <2> SUFFICES ASSUME NEW v \in User, ~Exists(v) \/ ~usr[v].fin
               PROVE  Clean(v)'
    BY <1>1 DEF Fresh, Exists
  <2>1. rel'[v] = rel[v]
    <3>1. CASE rel' = rel
      BY <3>1
    <3>2. CASE w.pc \in {"launcher", "sysapps"}
      <4>1. w.pc \notin {"idle", "finalizer"}
        BY <3>2
      <4>2. Exists(me) /\ usr[me].fin
        BY <4>1, Here, NoUserIsNone DEF IInv, Order
      <4> QED
        BY <1>1, <4>2, CutShortLemma
    <3> QED
      BY <1>1, <3>1, <3>2, CutShortLemma
  <2>2. Present(v)' = Present(v)
    BY <1>1 DEF Present
  <2>3. Clean(v)
    BY DEF IInv, Fresh
  <2> QED
    BY <1>1, <2>1, <2>2, <2>3 DEF Clean
<1>10. Terminating'
  <2>1. \A v \in User, k \in Kind : ns[v][k] = "terminating" => k \in seen'[v]
    BY <1>1, PresentLemma
  <2> QED
    BY <1>1, <2>1 DEF IInv, Terminating, Exists
<1>11. Accounts'
  BY <1>1 DEF IInv, Accounts, Exists, Writing
<1>12. AllIsMade'
  <2> SUFFICES ASSUME NEW v \in User, Living(v)', usr'[v].state = "Created"
               PROVE  Complete(v)'
    BY DEF AllIsMade, Complete
  <2>1. Complete(v)
    BY <1>1 DEF IInv, AllIsMade, Living, Exists, Complete
  <2>2. rel'[v] \subseteq Release /\ rel[v] \subseteq rel'[v]
    BY <1>1, CutShortLemma
  <2> QED
    BY <1>1, <2>1, <2>2 DEF Complete
<1> QED
  BY <1>3, <1>4, <1>5, <1>6, <1>7, <1>8, <1>9, <1>10, <1>11, <1>12 DEF IInv

\* The informers show what there is.
LEMMA ResourcesStep ==
    ASSUME IInv, NEW u \in User, ResourcesSeen(u)
    PROVE  IInv'
<1> USE Places
<1>1. /\ UNCHANGED <<usr, cached, ns, rel, bound, acct, queue, w, client, req>>
      /\ UNCHANGED <<syncq, base, envs, created, events, lost, leaked, missed>>
  BY DEF ResourcesSeen, users, sync, ghost, bounds
<1>2. /\ Types /\ me \in User /\ seen \in [User -> SUBSET (Kind \cup {"binding"})]
      /\ seen' = [seen EXCEPT ![u] = Present(u)]
  BY TypesFacts DEF ResourcesSeen, IInv, Types, SpaceTypes
<1>3. /\ seen' \in [User -> SUBSET (Kind \cup {"binding"})] /\ seen'[u] = Present(u)
      /\ \A v \in User \ {u} : seen'[v] = seen[v]
  BY <1>2 DEF Present
<1>4. \A v \in User, k \in Kind : k \in seen[v] /\ ns[v][k] # "none" => k \in seen'[v]
  BY <1>3, PresentLemma
<1>5. Types'
  BY <1>1, <1>2, <1>3 DEF Types, ObjectTypes, SpaceTypes, OtherTypes, Exists
<1>6. Order' /\ Passes' /\ States'
  <2>1. AllSound' /\ Versions'
    BY <1>1 DEF IInv, AllSound, Versions, IsOf, Exists
  <2>2. Pinned' /\ Passes'
    BY <1>1 DEF IInv, Pinned, Passes, IsOf, Exists
  <2>3. States'
    BY <1>1 DEF IInv, States, IsOf, Exists
  <2> QED
    BY <2>1, <2>2, <2>3 DEF Order
<1>7. Fresh' /\ Accounts' /\ Making' /\ AllIsMade'
  BY <1>1 DEF IInv, Fresh, Clean, Present, Exists, Accounts, Making, Living, AllIsMade
<1>8. Terminating'
  BY <1>1, <1>4 DEF IInv, Terminating, Exists
<1>9. Removing'
  <2>1. \A k \in Kind : Handled(k) => Handled(k)'
    BY <1>1, <1>2, <1>4 DEF Handled
  <2> QED
    BY <1>1, <2>1 DEF IInv, Removing, Kind
<1> QED
  BY <1>5, <1>6, <1>7, <1>8, <1>9 DEF IInv, Order

\* A deleted namespace is gone, with what was in it.
LEMMA NamespaceGoneStep ==
    ASSUME IInv, NEW u \in User, NEW k \in Kind, NamespaceGone(u, k)
    PROVE  IInv'
<1> USE Places
<1>1. /\ UNCHANGED <<usr, cached, seen, bound, acct, queue, w, client, req>>
      /\ UNCHANGED <<syncq, base, created, events, lost, leaked, missed>>
  BY DEF NamespaceGone, Outside, users, bounds
<1>2. /\ Types /\ me \in User /\ ns \in [User -> [Kind -> Phase]]
      /\ rel \in [User -> SUBSET Release] /\ ns[u][k] = "terminating"
      /\ ns' = [ns EXCEPT ![u][k] = "none"] /\ envs' \subseteq envs
      /\ rel' = rel \/ rel' = [rel EXCEPT ![u] = {}]
  BY TypesFacts DEF NamespaceGone, IInv, Types, SpaceTypes
<1>3. /\ ns' \in [User -> [Kind -> Phase]] /\ ns'[u][k] = "none"
      /\ \A v \in User, x \in Kind : v # u \/ x # k => ns'[v][x] = ns[v][x]
  BY <1>2 DEF Phase
<1>4. /\ rel' \in [User -> SUBSET Release] /\ rel'[u] \subseteq rel[u]
      /\ \A v \in User \ {u} : rel'[v] = rel[v]
  BY <1>2
<1>5. usr[u].deleting
  BY <1>2 DEF IInv, Terminating
<1>6. Types'
  BY <1>1, <1>2, <1>3, <1>4 DEF Types, ObjectTypes, SpaceTypes, OtherTypes, Exists
<1>7. Order' /\ Passes' /\ States' /\ Accounts'
  <2>1. AllSound' /\ Versions'
    BY <1>1 DEF IInv, AllSound, Versions, IsOf, Exists
  <2>2. Pinned' /\ Passes'
    BY <1>1 DEF IInv, Pinned, Passes, IsOf, Exists
  <2>3. States'
    BY <1>1 DEF IInv, States, IsOf, Exists
  <2>4. Accounts'
    BY <1>1 DEF IInv, Accounts, Exists
  <2> QED
    BY <2>1, <2>2, <2>3, <2>4 DEF Order
<1>8. Fresh'
  <2>1. \A v \in User : Present(v)' \subseteq Present(v)
    BY <1>1, <1>3 DEF Present
  <2> QED
    BY <1>1, <1>4, <2>1 DEF IInv, Fresh, Clean, Exists
<1>9. Terminating'
  <2> SUFFICES ASSUME NEW v \in User, NEW x \in Kind
               PROVE  /\ ns'[v][x] = "terminating"
                         => x \in seen[v] /\ Exists(v) /\ usr[v].deleting
                      /\ <<v, x>> \in missed => ns'[v][x] # "terminating"
    BY <1>1 DEF Terminating, Exists
  <2>1. ns'[v][x] = "terminating" => ns[v][x] = "terminating"
    BY <1>2, <1>3
  <2> QED
    BY <2>1 DEF IInv, Terminating
<1>10. Making'
  <2> SUFFICES ASSUME Living(me) PROVE Making'
    BY <1>1 DEF Making, Living, Exists
  <2>1. me # u
    BY <1>5 DEF Living
  <2>2. rel'[me] = rel[me] /\ \A x \in Kind : ns'[me][x] = ns[me][x]
    BY <1>2, <1>3, <1>4, <2>1
  <2> QED
    BY <1>1, <2>2 DEF IInv, Making, Kind
<1>11. Removing'
  <2>1. \A x \in Kind : ns'[me][x] # "none" => ns[me][x] # "none"
    BY <1>2, <1>3
  <2>2. \A x \in Kind : Handled(x) => Handled(x)'
    BY <1>1, <2>1 DEF Handled
  <2>3. rel'[me] \subseteq rel[me]
    BY <1>2, <1>4
  <2> QED
    BY <1>1, <2>1, <2>2, <2>3 DEF IInv, Removing, Kind
<1>12. AllIsMade'
  <2> SUFFICES ASSUME NEW v \in User, Living(v)', usr'[v].state = "Created"
               PROVE  Complete(v)'
    BY DEF AllIsMade, Complete
  <2>1. v # u /\ Complete(v)
    BY <1>1, <1>5 DEF IInv, AllIsMade, Living, Exists, Complete
  <2> QED
    BY <1>1, <1>3, <1>4, <2>1 DEF Complete
<1> QED
  BY <1>6, <1>7, <1>8, <1>9, <1>10, <1>11, <1>12 DEF IInv, Order

\* The base UserEnvs touch nothing that the other parts tell of.
LEMMA SyncStep ==
    ASSUME IInv, OtherTypes', UNCHANGED <<users, space, bound, acct>>,
           UNCHANGED <<queue, w, client, req, ghost>>,
           created' = created, events' \in 0..MaxEvents, events <= events'
    PROVE  IInv'
<1>1. ObjectTypes'
  <2>1. \A u \in User : Exists(u) => usr[u].edits <= events'
    BY Fields, BoundsAssumption DEF IInv, Types, ObjectTypes, Exists
  <2> QED
    BY <2>1 DEF IInv, Types, ObjectTypes, Exists, users
<1>2. SpaceTypes'
  BY DEF IInv, Types, SpaceTypes, space
<1>3. Order' /\ Passes' /\ States' /\ Accounts'
  <2>1. AllSound' /\ Versions'
    BY DEF IInv, AllSound, Versions, IsOf, Exists, users
  <2>2. Pinned' /\ Passes'
    BY DEF IInv, Pinned, Passes, IsOf, Exists, users
  <2>3. States'
    BY DEF IInv, States, IsOf, Exists, users
  <2>4. Accounts'
    BY DEF IInv, Accounts, Exists, users, ghost
  <2> QED
    BY <2>1, <2>2, <2>3, <2>4 DEF Order
<1>4. Fresh' /\ Terminating' /\ Making' /\ Removing' /\ AllIsMade'
  BY DEF IInv, Fresh, Clean, Present, Exists, Terminating, Making, Removing,
         Handled, AllIsMade, Living, users, space, ghost
<1> QED
  BY <1>1, <1>2, <1>3, <1>4 DEF IInv, Types, Order

\* One user's base UserEnvs.
LEMMA SyncOneStep == ASSUME IInv, NEW u \in User, SyncOne(u) PROVE IInv'
<1>1. /\ UNCHANGED <<users, space, bound, acct>>
      /\ UNCHANGED <<queue, w, client, req, ghost, base>>
      /\ created' = created /\ events' = events
  BY DEF SyncOne, Outside, ghost, bounds
<1>2. /\ syncq' \subseteq User \cup {BaseKey} /\ envs' \subseteq User
  BY DEF SyncOne, IInv, Types, OtherTypes
<1>3. OtherTypes'
  BY <1>1, <1>2 DEF IInv, Types, OtherTypes, ghost
<1>4. events' \in 0..MaxEvents /\ events <= events'
  BY <1>1, BoundsAssumption DEF IInv, Types, ObjectTypes
<1> QED
  BY <1>1, <1>3, <1>4, SyncStep

\* All users' base UserEnvs.
LEMMA SyncAllStep == ASSUME IInv, SyncAll PROVE IInv'
<1>1. /\ UNCHANGED <<users, space, bound, acct>>
      /\ UNCHANGED <<queue, w, client, req, ghost, base>>
      /\ created' = created /\ events' = events
  BY DEF SyncAll, Outside, ghost, bounds
<1>2. /\ syncq' \subseteq User \cup {BaseKey} /\ envs' \subseteq User
  BY DEF SyncAll, IInv, Types, OtherTypes
<1>3. OtherTypes'
  BY <1>1, <1>2 DEF IInv, Types, OtherTypes, ghost
<1>4. events' \in 0..MaxEvents /\ events <= events'
  BY <1>1, BoundsAssumption DEF IInv, Types, ObjectTypes
<1> QED
  BY <1>1, <1>3, <1>4, SyncStep

\* The config map with the base UserEnvs.
LEMMA PublishBaseStep == ASSUME IInv, PublishBase PROVE IInv'
<1>1. /\ UNCHANGED <<users, space, bound, acct>>
      /\ UNCHANGED <<queue, w, client, req, ghost, envs>>
      /\ created' = created /\ events < MaxEvents /\ events' = events + 1
  BY DEF PublishBase, Event
<1>2. /\ syncq' \subseteq User \cup {BaseKey} /\ base' \in BOOLEAN
  BY DEF PublishBase, IInv, Types, OtherTypes
<1>3. OtherTypes'
  BY <1>1, <1>2 DEF IInv, Types, OtherTypes, ghost
<1>4. events' \in 0..MaxEvents /\ events <= events'
  BY <1>1, BoundsAssumption DEF IInv, Types, ObjectTypes
<1> QED
  BY <1>1, <1>3, <1>4, SyncStep

-----------------------------------------------------------------------------
(* The invariant.                                                          *)

\* At first there is nothing.
LEMMA InitIInv == ASSUME Init PROVE IInv
<1> USE Places, IdleIsWorker
<1>1. /\ \A u \in User : usr[u] = NoUser /\ cached[u] = NoUser
      /\ w.pc = "idle" /\ w.copy = NoUser /\ w.user \in User
  BY DEF Init
<1>2. Types
  <2>1. ObjectTypes
    BY <1>1, BoundsAssumption DEF Init, ObjectTypes, Exists
  <2>2. acct \in [User -> Account]
    BY BoundsAssumption DEF Init, Account, NoAcct
  <2>3. SpaceTypes
    BY <2>2 DEF Init, SpaceTypes, Phase
  <2>4. OtherTypes
    BY DEF Init, OtherTypes
  <2> QED
    BY <2>1, <2>3, <2>4 DEF Types
<1>3. \A u \in User : acct[u].made = FALSE
  BY DEF Init, NoAcct
<1>4. AllSound /\ Versions /\ Pinned /\ Passes
  BY <1>1 DEF AllSound, Versions, Pinned, Passes, Exists
<1>5. States /\ Accounts
  BY <1>1, <1>3 DEF States, Accounts, Deciding, Writing, Exists
<1>6. Fresh
  <2>1. \A u \in User : Present(u) = {}
    BY DEF Init, Present
  <2> QED
    BY <1>3, <2>1 DEF Init, Fresh, Clean
<1>7. Terminating
  BY DEF Init, Terminating
<1>8. Making /\ Removing /\ AllIsMade
  BY <1>1 DEF Making, Removing, AllIsMade, Living, Exists
<1> QED
  BY <1>2, <1>4, <1>5, <1>6, <1>7, <1>8 DEF IInv

\* A pass of the worker.
LEMMA WorkerIInv == ASSUME IInv, Worker PROVE IInv'
<1>1. CASE \/ AddFinalizer \/ GetClient \/ waitForSyncToLLDAP \/ MarkSynced
           \/ SetCreating \/ Admit \/ createBinding
  BY <1>1, AddFinalizerStep, GetClientStep, SyncToLLDAPStep, MarkSyncedStep,
     SetCreatingStep, AdmitStep, CreateBindingStep
<1>2. CASE createNamespace("space") \/ createNamespace("system")
  BY <1>2, CreateNamespaceStep DEF Kind
<1>3. CASE \/ installLauncher \/ checkLauncher \/ installSysApps
           \/ checkDesktopRunning \/ CreateFails \/ SetCreated \/ SetFailed
           \/ Rest
  BY <1>3, InstallLauncherStep, LauncherRunsStep, InstallSysAppsStep,
     DesktopRunsStep, CreateFailsStep, SetCreatedStep, SetFailedStep, RestStep
<1>4. CASE DeleteAccount \/ deleteRoleBindings \/ SetDeleting
  BY <1>4, DeleteAccountStep, BindingsStep, SetDeletingStep
<1>5. CASE uninstallSysApps \/ clearLauncher
  BY <1>5, UninstallStep, ClearLauncherStep
<1>6. CASE deleteNamespace("dropSpace", "space")
  BY <1>6, DeleteNamespaceStep DEF Kind
<1>7. CASE deleteNamespace("dropSystem", "system")
  BY <1>7, DeleteNamespaceStep DEF Kind
<1>8. CASE deleteBinding \/ DeleteFails \/ WaitGone \/ RemoveFinalizer
  BY <1>8, DeleteBindingStep, DeleteFailsStep, WaitGoneStep, RemoveFinalizerStep
<1>9. CASE \E a \in App : installSysApp(a) \/ uninstallSysApp(a)
  BY <1>9, InstallSysAppStep, UninstallSysAppStep
<1> QED
  BY <1>1, <1>2, <1>3, <1>4, <1>5, <1>6, <1>7, <1>8, <1>9 DEF Worker

\* What a step leaves alone stays as it was.
LEMMA StutterIInv == ASSUME IInv, UNCHANGED vars PROVE IInv'
<1>1. /\ UNCHANGED <<users, space, bound, acct, queue, w, client, req, ghost>>
      /\ UNCHANGED <<syncq, base, envs, created, events>>
  BY DEF vars, users, space, ghost, sync, bounds
<1>2. OtherTypes'
  BY <1>1 DEF IInv, Types, OtherTypes, ghost
<1>3. events' \in 0..MaxEvents /\ events <= events'
  BY <1>1, BoundsAssumption DEF IInv, Types, ObjectTypes
<1> QED
  BY <1>1, <1>2, <1>3, SyncStep

\* Every step keeps the invariant.
LEMMA NextIInv == ASSUME IInv, [Next]_vars PROVE IInv'
<1>1. ASSUME NEW u \in User, NEW admin \in Admin, createUser(u, admin)
      PROVE  IInv'
  BY <1>1, CreateUserStep
<1>2. ASSUME NEW u \in User,
             \/ DeleteAnnotate(u) \/ DeleteSend(u)
             \/ handleUpdateUserLimits(u) \/ EditGroups(u)
             \/ CacheCatchesUp(u) \/ ResourcesSeen(u) \/ Pick(u) \/ SyncOne(u)
      PROVE  IInv'
  BY <1>2, DeleteAnnotateStep, DeleteSendStep, UpdateLimitsStep, EditGroupsStep,
     CacheStep, ResourcesStep, PickStep, SyncOneStep
<1>3. ASSUME NEW u \in User, NEW k \in Kind, NamespaceGone(u, k)
      PROVE  IInv'
  BY <1>3, NamespaceGoneStep
<1>4. CASE Worker \/ SyncAll \/ PublishBase \/ Restart
  BY <1>4, WorkerIInv, SyncAllStep, PublishBaseStep, RestartStep
<1>5. CASE UNCHANGED vars
  BY <1>5, StutterIInv
<1> QED
  BY <1>1, <1>2, <1>3, <1>4, <1>5 DEF Next

\* The invariant holds in every state (user_controller.go:107).
THEOREM Invariance == Spec => []IInv
<1>1. Init => IInv
  BY InitIInv
<1>2. IInv /\ [Next]_vars => IInv'
  BY NextIInv
<1> QED
  BY <1>1, <1>2, PTL DEF Spec

\* A user that is gone has left nothing but what its deletion could not see
\* (delete.go:49).
THEOREM RemovedClean == Spec => []RemovedLeavesNothing
<1>1. IInv => RemovedLeavesNothing
  BY DEF IInv, Fresh, Clean, RemovedLeavesNothing
<1> QED
  BY <1>1, Invariance, PTL

-----------------------------------------------------------------------------
(* No step takes a user back.                                              *)

\* A user that stays keeps its state, or goes on.
Forward ==
    \A u \in User :
        Exists(u) /\ usr'[u] # NoUser /\ usr'[u].gen = usr[u].gen =>
            \/ usr'[u].state = usr[u].state
            \/ Rank(usr[u].state) < Rank(usr'[u].state)

\* It stays the same user until it is gone.
Lasting ==
    \A u \in User :
        Exists(u) => usr'[u] = NoUser \/ usr'[u].gen = usr[u].gen

\* A write that takes no state back, and a step that writes nothing.
LEMMA ForwardWrite ==
    ASSUME IInv, NEW u \in User, NEW new,
           usr' = usr \/ usr' = [usr EXCEPT ![u] = new],
           \/ new = NoUser \/ ~Exists(u) \/ new.state = usr[u].state
           \/ Rank(usr[u].state) < Rank(new.state),
           new = NoUser \/ ~Exists(u) \/ new.gen = usr[u].gen
    PROVE  Forward /\ Lasting
<1>1. usr \in [User -> UserObject \cup {NoUser}]
  BY DEF IInv, Types, ObjectTypes
<1>2. CASE usr' = usr
  BY <1>2 DEF Forward, Lasting
<1>3. CASE usr' = [usr EXCEPT ![u] = new]
  <2>1. usr'[u] = new /\ \A v \in User \ {u} : usr'[v] = usr[v]
    BY <1>1, <1>3
  <2> QED
    BY <2>1 DEF Forward, Lasting
<1> QED
  BY <1>2, <1>3

\* The worker's updates of the state: it decides on the state the user has.
LEMMA ForwardStatus ==
    ASSUME IInv, NEW s \in State, NEW next, updateUserStatus(s, next),
           w.pc \in {"creating", "created", "failed"},
           s = usr[me].state \/ Rank(usr[me].state) < Rank(s)
    PROVE  Forward /\ Lasting
<1> DEFINE new == [usr[me] EXCEPT !.state = s]
<1>1. usr[me] \in UserObject /\ me \in User
  BY Here, Places DEF IInv, Order, Passes
<1>2. new.state = s /\ new.gen = usr[me].gen
  BY <1>1 DEF UserObject
<1>3. usr' = usr \/ usr' = [usr EXCEPT ![me] = new]
  BY DEF updateUserStatus, Update
<1> HIDE DEF new
<1> QED
  BY <1>1, <1>2, <1>3, ForwardWrite

\* What the worker writes.
LEMMA ForwardWorker == ASSUME IInv, Worker PROVE Forward /\ Lasting
<1>1. CASE AddFinalizer
  <2> DEFINE new == [w.copy EXCEPT !.fin = TRUE]
  <2>1. usr' = usr \/ (usr[me] = w.copy /\ usr' = [usr EXCEPT ![me] = new])
    BY <1>1 DEF AddFinalizer, Current
  <2>2. me \in User /\ w.copy \in UserObject
    BY <1>1, TypesFacts DEF IInv, AddFinalizer
  <2>3. new.state = w.copy.state /\ new.gen = w.copy.gen
    BY <2>2 DEF UserObject
  <2> HIDE DEF new
  <2>4. CASE usr' = usr
    BY <2>4 DEF Forward, Lasting
  <2> QED
    BY <2>1, <2>2, <2>3, <2>4, ForwardWrite
<1>2. CASE MarkSynced
  <2> DEFINE new == [usr[me] EXCEPT !.synced = TRUE, !.pw = 0]
  <2>1. usr[me] \in UserObject /\ me \in User
    BY <1>2, Here, Places DEF IInv, Order, MarkSynced
  <2>2. new.state = usr[me].state /\ new.gen = usr[me].gen
    BY <2>1 DEF UserObject
  <2>3. usr' = usr \/ usr' = [usr EXCEPT ![me] = new]
    BY <1>2 DEF MarkSynced, Update
  <2> HIDE DEF new
  <2> QED
    BY <2>1, <2>2, <2>3, ForwardWrite
<1>3. CASE SetCreating
  <2>1. w.pc = "creating" /\ updateUserStatus("Creating", "admit")
    BY <1>3 DEF SetCreating
  <2>2. usr[me].state = ""
    BY <2>1, Here, Places DEF IInv, Order, Passes, States, Deciding, IsOf
  <2>3. "Creating" \in State /\ Rank("") < Rank("Creating")
    BY DEF Rank, State
  <2> QED
    BY <2>1, <2>2, <2>3, ForwardStatus
<1>4. CASE SetCreated
  <2>1. w.pc = "created" /\ updateUserStatus("Created", "rest")
    BY <1>4 DEF SetCreated
  <2>2. usr[me].state = "Creating"
    BY <2>1, Places DEF IInv, States, Writing
  <2>3. "Created" \in State /\ Rank("Creating") < Rank("Created")
    BY DEF Rank, State
  <2> QED
    BY <2>1, <2>2, <2>3, ForwardStatus
<1>5. CASE SetFailed
  <2>1. w.pc = "failed" /\ updateUserStatus("Failed", "rest")
    BY <1>5 DEF SetFailed
  <2>2. usr[me].state = "Creating"
    BY <2>1 DEF IInv, States, Writing
  <2>3. "Failed" \in State /\ Rank("Creating") < Rank("Failed")
    BY DEF Rank, State
  <2> QED
    BY <2>1, <2>2, <2>3, ForwardStatus
<1>6. CASE SetDeleting
  <2> DEFINE new == [usr[me] EXCEPT !.state = "Deleting"]
  <2>1. usr[me] \in UserObject /\ me \in User
    BY <1>6, Here, Places DEF IInv, Order, SetDeleting
  <2>2. new.state = "Deleting" /\ new.gen = usr[me].gen
    BY <2>1 DEF UserObject
  <2>3. usr' = usr \/ usr' = [usr EXCEPT ![me] = new]
    BY <1>6 DEF SetDeleting, Update
  <2>4. "Deleting" = usr[me].state \/ Rank(usr[me].state) < Rank("Deleting")
    BY <2>1, Fields, DeletingLast
  <2> HIDE DEF new
  <2> QED
    BY <2>1, <2>2, <2>3, <2>4, ForwardWrite
<1>7. CASE RemoveFinalizer
  <2>1. usr' = usr \/ usr' = [usr EXCEPT ![me] = NoUser]
    BY <1>7 DEF RemoveFinalizer
  <2>2. me \in User
    BY TypesFacts DEF IInv
  <2> QED
    BY <2>1, <2>2, ForwardWrite
<1>8. CASE \/ GetClient \/ waitForSyncToLLDAP \/ Admit \/ createBinding
           \/ createNamespace("space") \/ createNamespace("system")
           \/ installLauncher \/ checkLauncher \/ installSysApps
           \/ checkDesktopRunning \/ CreateFails \/ Rest
  <2>1. usr' = usr
    BY <1>8 DEF GetClient, waitForSyncToLLDAP, Admit, createBinding,
       createNamespace, installLauncher, checkLauncher, installSysApps,
       checkDesktopRunning, CreateFails, Rest, Made, NoWrite
  <2> QED
    BY <2>1 DEF Forward, Lasting
<1>9. CASE \/ DeleteAccount \/ deleteRoleBindings \/ uninstallSysApps
           \/ clearLauncher \/ deleteNamespace("dropSpace", "space")
           \/ deleteNamespace("dropSystem", "system") \/ deleteBinding
           \/ DeleteFails \/ WaitGone
  <2>1. usr' = usr
    BY <1>9 DEF DeleteAccount, deleteRoleBindings, uninstallSysApps,
       clearLauncher, deleteNamespace, deleteBinding, DeleteFails, WaitGone,
       Removed, NoWrite
  <2> QED
    BY <2>1 DEF Forward, Lasting
<1>10. CASE \E a \in App : installSysApp(a) \/ uninstallSysApp(a)
  <2>1. usr' = usr
    BY <1>10 DEF installSysApp, uninstallSysApp
  <2> QED
    BY <2>1 DEF Forward, Lasting
<1> QED
  BY <1>1, <1>2, <1>3, <1>4, <1>5, <1>6, <1>7, <1>8, <1>9, <1>10 DEF Worker

\* What the handlers and others write.
LEMMA ForwardOutside ==
    ASSUME IInv, NEW u \in User,
           \/ DeleteAnnotate(u) \/ DeleteSend(u)
           \/ handleUpdateUserLimits(u) \/ EditGroups(u)
    PROVE  Forward /\ Lasting
<1>1. Exists(u) => usr[u] \in UserObject
  BY TypesFacts DEF IInv
<1>2. CASE DeleteAnnotate(u)
  <2> DEFINE new == [usr[u] EXCEPT !.asked = TRUE]
  <2>1. Exists(u) => new.state = usr[u].state /\ new.gen = usr[u].gen
    BY <1>1 DEF UserObject
  <2>2. usr' = [usr EXCEPT ![u] = new]
    BY <1>2 DEF DeleteAnnotate
  <2> HIDE DEF new
  <2> QED
    BY <2>1, <2>2, ForwardWrite
<1>3. CASE DeleteSend(u)
  <2> DEFINE new == [usr[u] EXCEPT !.deleting = TRUE]
  <2>1. Exists(u) => new.state = usr[u].state /\ new.gen = usr[u].gen
    BY <1>1 DEF UserObject
  <2>2. usr' = usr \/ usr' = [usr EXCEPT ![u] = new] \/ usr' = [usr EXCEPT ![u] = NoUser]
    BY <1>3 DEF DeleteSend, Marked
  <2> HIDE DEF new
  <2> QED
    BY <2>1, <2>2, ForwardWrite
<1>4. CASE handleUpdateUserLimits(u)
  <2> DEFINE new == [usr[u] EXCEPT !.edits = @ + 1]
  <2>1. Exists(u) => new.state = usr[u].state /\ new.gen = usr[u].gen
    BY <1>1 DEF UserObject
  <2>2. usr' = [usr EXCEPT ![u] = new]
    BY <1>4 DEF handleUpdateUserLimits
  <2> HIDE DEF new
  <2> QED
    BY <2>1, <2>2, ForwardWrite
<1>5. CASE EditGroups(u)
  <2> DEFINE new == [usr[u] EXCEPT !.admin = ~@, !.edits = @ + 1]
  <2>1. Exists(u) => new.state = usr[u].state /\ new.gen = usr[u].gen
    BY <1>1 DEF UserObject
  <2>2. usr' = [usr EXCEPT ![u] = new]
    BY <1>1, <1>5 DEF EditGroups, UserObject
  <2> HIDE DEF new
  <2> QED
    BY <2>1, <2>2, ForwardWrite
<1> QED
  BY <1>2, <1>3, <1>4, <1>5

\* Every step.
LEMMA ForwardStep == ASSUME IInv, [Next]_vars PROVE Forward /\ Lasting
<1>1. ASSUME NEW u \in User, NEW admin \in Admin, createUser(u, admin)
      PROVE  Forward /\ Lasting
  <2>1. PICK new : usr' = [usr EXCEPT ![u] = new]
    BY <1>1 DEF createUser
  <2> QED
    BY <1>1, <2>1, ForwardWrite DEF createUser
<1>2. ASSUME NEW u \in User,
             \/ DeleteAnnotate(u) \/ DeleteSend(u)
             \/ handleUpdateUserLimits(u) \/ EditGroups(u)
      PROVE  Forward /\ Lasting
  BY <1>2, ForwardOutside
<1>3. ASSUME usr' = usr PROVE Forward /\ Lasting
  BY <1>3 DEF Forward, Lasting
<1>4. ASSUME NEW u \in User,
             \/ CacheCatchesUp(u) \/ ResourcesSeen(u) \/ Pick(u) \/ SyncOne(u)
             \/ \E k \in Kind : NamespaceGone(u, k)
      PROVE  usr' = usr
  BY <1>4 DEF CacheCatchesUp, ResourcesSeen, Pick, SyncOne, NamespaceGone,
     Outside, users, NoWrite
<1>5. CASE Worker
  BY <1>5, ForwardWorker
<1>6. CASE SyncAll \/ PublishBase \/ Restart
  <2>1. usr' = usr
    BY <1>6 DEF SyncAll, PublishBase, Restart, Outside, users
  <2> QED
    BY <1>3, <2>1
<1>7. CASE UNCHANGED vars
  BY <1>3, <1>7 DEF vars, users
<1> QED
  BY <1>1, <1>2, <1>3, <1>4, <1>5, <1>6, <1>7 DEF Next

\* No stale read of the worker takes a user that is Created or Failed back
\* (user_controller.go:190).
THEOREM NeverBack == Spec => CreatedOnce
<1>1. IInv /\ [Next]_vars => Forward
  BY ForwardStep
<1>2. IInv /\ [Next]_vars => [Forward]_vars
  BY <1>1
<1> QED
  BY <1>2, Invariance, PTL DEF Spec, CreatedOnce, Forward

-----------------------------------------------------------------------------
(* The charts whose installation was cut short.                            *)

\* They have a record, and it was for the user that is there.
Torn ==
    /\ torn \in [User -> [Release -> 0..MaxCreates]]
    /\ \A u \in User, c \in Release :
         /\ torn[u][c] \in {0, usr[u].gen}
         /\ torn[u][c] # 0 => c \in rel[u]

\* What a step may do to them: nothing, take the mark away, or leave it with a
\* record for the user that is there.
TornMove ==
    /\ torn' \in [User -> [Release -> 0..MaxCreates]]
    /\ \A u \in User, c \in Release :
         \/ torn'[u][c] = 0
         \/ torn'[u][c] = torn[u][c] /\ (c \in rel[u] => c \in rel'[u])
         \/ torn'[u][c] = usr[u].gen /\ c \in rel'[u]

\* That is enough: when the user goes, no record of it is left.
LEMMA TornMoves ==
    ASSUME IInv, IInv', Torn, TornMove, Lasting
    PROVE  Torn'
<1> SUFFICES ASSUME NEW u \in User, NEW c \in Release
             PROVE  /\ torn'[u][c] \in {0, usr'[u].gen}
                    /\ torn'[u][c] # 0 => c \in rel'[u]
  BY DEF Torn, TornMove
<1>1. CASE ~Exists(u)
  <2>1. usr[u].gen = 0
    BY <1>1 DEF Exists, NoUser
  <2>2. torn[u][c] = 0
    BY <2>1 DEF Torn
  <2>3. torn'[u][c] = 0
    BY <2>1, <2>2 DEF TornMove
  <2> QED
    BY <2>3
<1>2. CASE usr'[u] = NoUser
  <2>1. rel'[u] = {}
    BY <1>2 DEF IInv, Fresh, Clean, Exists
  <2>2. torn'[u][c] = 0
    BY <2>1 DEF Torn, TornMove
  <2> QED
    BY <2>2
<1>3. CASE usr'[u].gen = usr[u].gen
  BY <1>3 DEF Torn, TornMove
<1> QED
  BY <1>1, <1>2, <1>3 DEF Lasting

\* A step that leaves the mark alone and takes no record away.
LEMMA TornKept ==
    ASSUME Torn, torn' = torn, \A u \in User : rel[u] \subseteq rel'[u]
    PROVE  TornMove
BY DEF Torn, TornMove

\* An installation that is cut short.
LEMMA TornCut ==
    ASSUME IInv, Torn, CutShort
    PROVE  TornMove
<1>1. me \in User /\ rel \in [User -> SUBSET Release]
  BY TypesFacts DEF IInv, Types, SpaceTypes
<1>2. CASE UNCHANGED <<rel, torn>>
  BY <1>2, TornKept
<1>3. ASSUME NEW c \in Charts \ rel[w.user],
             rel' = [rel EXCEPT ![w.user] = @ \cup {c}],
             torn' = [torn EXCEPT ![w.user][c] = usr[w.user].gen]
      PROVE  TornMove
  <2>1. usr[w.user].gen \in 0..MaxCreates
    <3>1. usr[w.user] \in UserObject \cup {NoUser}
      BY <1>1 DEF IInv, Types, ObjectTypes, me
    <3> QED
      BY <3>1, BoundsAssumption DEF UserObject, NoUser
  <2>2. torn' \in [User -> [Release -> 0..MaxCreates]]
    BY <1>1, <1>3, <2>1 DEF Torn, me
  <2>3. ASSUME NEW u \in User, NEW d \in Release
        PROVE  \/ torn'[u][d] = torn[u][d] /\ (d \in rel[u] => d \in rel'[u])
               \/ torn'[u][d] = usr[u].gen /\ d \in rel'[u]
    <3>1. CASE u = w.user /\ d = c
      BY <1>1, <1>3, <3>1 DEF Torn
    <3>2. CASE u = w.user /\ d # c
      BY <1>1, <1>3, <3>2 DEF Torn
    <3>3. CASE u # w.user
      BY <1>1, <1>3, <3>3 DEF Torn
    <3> QED
      BY <3>1, <3>2, <3>3
  <2> QED
    BY <2>2, <2>3 DEF TornMove
<1> QED
  BY <1>2, <1>3 DEF CutShort

\* A release that is uninstalled.
LEMMA TornUninstalled ==
    ASSUME IInv, Torn, NEW c \in Release, Uninstalled(c)
    PROVE  TornMove
<1>1. me \in User /\ rel \in [User -> SUBSET Release]
  BY TypesFacts DEF IInv, Types, SpaceTypes
<1>2. torn' \in [User -> [Release -> 0..MaxCreates]]
  BY <1>1, BoundsAssumption DEF Torn, Uninstalled
<1>3. ASSUME NEW u \in User, NEW d \in Release
      PROVE  \/ torn'[u][d] = 0
             \/ torn'[u][d] = torn[u][d] /\ (d \in rel[u] => d \in rel'[u])
  <2>1. CASE u = me /\ d = c
    BY <1>1, <2>1 DEF Torn, Uninstalled
  <2>2. CASE u = me /\ d # c
    BY <1>1, <2>2 DEF Torn, Uninstalled
  <2>3. CASE u # me
    BY <1>1, <2>3 DEF Torn, Uninstalled
  <2> QED
    BY <2>1, <2>2, <2>3
<1> QED
  BY <1>2, <1>3 DEF TornMove

\* The worker.
LEMMA TornWorker == ASSUME IInv, Torn, Worker PROVE TornMove
<1>1. me \in User /\ rel \in [User -> SUBSET Release]
  BY TypesFacts DEF IInv, Types, SpaceTypes
<1>2. CASE CreateFails
  BY <1>2, TornCut DEF CreateFails
<1>3. CASE \E a \in App : installSysApp(a)
  <2>1. PICK a \in App : installSysApp(a)
    BY <1>3
  <2>2. rel' = [rel EXCEPT ![me] = @ \cup {a}] /\ torn' = torn
    BY <2>1 DEF installSysApp, ghost
  <2> QED
    BY <1>1, <2>2, TornKept
<1>4. CASE \E a \in App : uninstallSysApp(a)
  BY <1>4, TornUninstalled DEF uninstallSysApp, Release
<1>5. CASE clearLauncher
  BY <1>5, TornUninstalled DEF clearLauncher, Release
<1>6. CASE installLauncher
  <2>1. rel' = [rel EXCEPT ![me] = @ \cup {"launcher"}] /\ torn' = torn
    BY <1>6 DEF installLauncher, Made, ghost
  <2> QED
    BY <1>1, <2>1, TornKept
<1>7. CASE \/ GetClient \/ waitForSyncToLLDAP \/ Admit \/ createBinding
           \/ createNamespace("space") \/ createNamespace("system")
           \/ checkLauncher \/ installSysApps \/ checkDesktopRunning \/ Rest
  <2>1. rel' = rel /\ torn' = torn
    BY <1>7 DEF GetClient, waitForSyncToLLDAP, Admit, createBinding,
       createNamespace, checkLauncher, installSysApps, checkDesktopRunning,
       Rest, Made, NoWrite, ghost
  <2> QED
    BY <2>1, TornKept
<1>8. CASE \/ AddFinalizer \/ MarkSynced \/ SetCreating \/ SetCreated
           \/ SetFailed \/ SetDeleting \/ RemoveFinalizer
  <2>1. rel' = rel /\ torn' = torn
    BY <1>8 DEF AddFinalizer, MarkSynced, SetCreating, SetCreated, SetFailed,
       SetDeleting, RemoveFinalizer, updateUserStatus, ghost
  <2> QED
    BY <2>1, TornKept
<1>9. CASE \/ DeleteAccount \/ deleteRoleBindings \/ uninstallSysApps
           \/ deleteNamespace("dropSpace", "space")
           \/ deleteNamespace("dropSystem", "system") \/ deleteBinding
           \/ DeleteFails \/ WaitGone
  <2>1. rel' = rel /\ torn' = torn
    BY <1>9 DEF DeleteAccount, deleteRoleBindings, uninstallSysApps,
       deleteNamespace, deleteBinding, DeleteFails, WaitGone, NoWrite, ghost
  <2> QED
    BY <2>1, TornKept
<1> QED
  BY <1>2, <1>3, <1>4, <1>5, <1>6, <1>7, <1>8, <1>9 DEF Worker

\* Every step.
LEMMA TornStep == ASSUME IInv, Torn, [Next]_vars PROVE Torn'
<1>1. IInv' /\ Lasting
  BY NextIInv, ForwardStep
<1>2. ASSUME rel' = rel /\ torn' = torn PROVE TornMove
  BY <1>2, TornKept
<1>3. ASSUME NEW u \in User,
             \/ \E admin \in Admin : createUser(u, admin)
             \/ DeleteAnnotate(u) \/ DeleteSend(u)
             \/ handleUpdateUserLimits(u) \/ EditGroups(u)
      PROVE  TornMove
  <2>1. rel' = rel /\ torn' = torn
    BY <1>3 DEF createUser, DeleteAnnotate, DeleteSend,
       handleUpdateUserLimits, EditGroups, Served, space, ghost
  <2> QED
    BY <1>2, <2>1
<1>4. ASSUME NEW u \in User,
             CacheCatchesUp(u) \/ ResourcesSeen(u) \/ Pick(u) \/ SyncOne(u)
      PROVE  TornMove
  <2>1. rel' = rel /\ torn' = torn
    BY <1>4 DEF CacheCatchesUp, ResourcesSeen, Pick, SyncOne, NoWrite,
       space, ghost
  <2> QED
    BY <1>2, <2>1
<1>5. ASSUME NEW u \in User, NEW k \in Kind, NamespaceGone(u, k)
      PROVE  TornMove
  <2>1. rel \in [User -> SUBSET Release]
    BY DEF IInv, Types, SpaceTypes
  <2>2. CASE k = "space"
    <3>1. torn' = [torn EXCEPT ![u] = [c \in Release |-> 0]]
          /\ rel' = [rel EXCEPT ![u] = {}]
      BY <1>5, <2>2 DEF NamespaceGone
    <3>2. torn' \in [User -> [Release -> 0..MaxCreates]]
      BY <3>1, BoundsAssumption DEF Torn
    <3>3. ASSUME NEW v \in User, NEW c \in Release
          PROVE  \/ torn'[v][c] = 0
                 \/ torn'[v][c] = torn[v][c] /\ (c \in rel[v] => c \in rel'[v])
      BY <2>1, <3>1 DEF Torn
    <3> QED
      BY <3>2, <3>3 DEF TornMove
  <2>3. CASE k # "space"
    BY <1>2, <1>5, <2>3 DEF NamespaceGone
  <2> QED
    BY <2>2, <2>3
<1>6. ASSUME Worker PROVE TornMove
  BY <1>6, TornWorker
<1>7. ASSUME Restart PROVE TornMove
  BY <1>7, TornCut DEF Restart
<1>8. ASSUME SyncAll \/ PublishBase \/ UNCHANGED vars PROVE TornMove
  <2>1. rel' = rel /\ torn' = torn
    BY <1>8 DEF SyncAll, PublishBase, space, ghost, vars
  <2> QED
    BY <1>2, <2>1
<1>9. TornMove
  BY <1>3, <1>4, <1>5, <1>6, <1>7, <1>8 DEF Next
<1> QED
  BY <1>1, <1>9, TornMoves

\* What is cut short for a user does not outlive it (create.go:293).
THEOREM TornKnown == Spec => []Torn
<1>1. Init => Torn
  <2> SUFFICES ASSUME Init PROVE Torn
    OBVIOUS
  <2>1. torn = [u \in User |-> [c \in Release |-> 0]]
    BY DEF Init
  <2> QED
    BY <2>1, BoundsAssumption DEF Torn
<1>2. IInv /\ Torn /\ [Next]_vars => Torn'
  BY TornStep
<1> QED
  BY <1>1, <1>2, Invariance, PTL DEF Spec

\* Every variable keeps its shape.
THEOREM TypeCorrect == Spec => []TypeOK
<1>1. IInv /\ Torn => TypeOK
  BY DEF Torn, IInv, Types, ObjectTypes, SpaceTypes, OtherTypes, TypeOK
<1> QED
  BY <1>1, Invariance, TornKnown, PTL

\* A user that is Created, and not being deleted, has all that
\* handleUserCreation makes, its charts whole unless their installation for this
\* user was cut short, and logs in with its own password unless LLDAP
\* kept an account of that name (user_controller.go:228 and :370).
THEOREM CreatedComplete == Spec => []CreatedIsComplete
<1>1. IInv => AccountIsCurrent
  BY DEF IInv, AccountIsCurrent, Accounts, AllIsMade, Living
<1>2. Torn => ChartsAreWhole
  BY DEF Torn, ChartsAreWhole
<1>3. IInv /\ Torn => CreatedIsComplete
  BY <1>1, <1>2 DEF IInv, CreatedIsComplete
<1> QED
  BY <1>3, Invariance, TornKnown, PTL
=============================================================================
