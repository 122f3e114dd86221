------------------------------ MODULE MCImages ------------------------------
(***************************************************************************)
(* Model checking of Images: two downloads on two nodes, of an image that  *)
(* is pulled or of one that is not to be pulled, and a bound on what       *)
(* happens at once.                                                        *)
(***************************************************************************)
EXTENDS Images

MCRefs == {{"a"}, {"kept"}}
MCReady == {Node}

\* Some object of the past or present asks for image r.
Asked(r) == \E v \in Visible : r \in v.refs

\* The image that is not to be pulled is there on some nodes or on none, and
\* nothing else fails when it is asked for.
Kept ==
    /\ Asked("kept") => faults = 0
    /\ Asked("a") => onDisk \cap (Node \X Never) = {}

\* One last report is to come at a time; one of the first download reaches the
\* second before that begins.
Late ==
    /\ Cardinality(ticks) <= 1
    /\ poll.gen = 2 /\ ticks # {} => \A n \in Node : wk[n] = Idle

\* In a second download, and where the above is at work, a cache is one version
\* behind at most.
Behind == poll.gen = 2 \/ halted \/ Asked("kept") => Len(ims) <= 2

\* A run with this constraint looks no further once an object was replaced
\* under a worker: the properties but ProgressMonotone promise nothing then.
Focus == ~crossed /\ Kept /\ Late /\ Behind /\ (halted => poll.outcome # "canceled")
=============================================================================
