----------------------------- MODULE RunDiffProps -----------------------------
(* What must hold of a stored diff.                                        *)
EXTENDS RunDiff, TimelineProps

\* The handler's bookkeeping is well formed: its call of BuildNodes is, a copy of a
\* run is taken before its events, and a timeline holds only events its run recorded.
DiffOK ==
    /\ TimelineOK
    /\ pc \in {"idle", "getBase", "getWhat", "events", "graph", "building", "align",
               "compose", "put"}
    /\ verdict # "idle" => pc \in {"idle", "building"}
    /\ reply \in {"none", "created", "not found", "prerequisites", "lifecycle", "conflict", "failed"}
    /\ \A s \in Sides : stored[s] \subseteq replay[s] /\ InTimeline(s) \subseteq replay[s]
    /\ sent \subseteq replay.what
    /\ Cardinality(diffs) <= 1 /\ posts \in 0 .. MaxPosts /\ resets \in 0 .. MaxResets
    /\ pc \in {"events", "graph", "building", "align", "compose", "put"} => Prerequisites(copy)

\* No second worker executed a run that was already being executed.
ExecutedOnce == \A s \in Sides : replay[s] = replay.judged[s]

\* The events of the what-if that a diff of this pack takes a position on: every one
\* in the checkout pack; in the dev pack, which looks at the baseline's keys only,
\* those whose key the baseline has (see AddedIsComplete).
Positioned ==
    {e \in replay.judged.what : pack = "checkout" \/ \E b \in replay.base : KeyOf(b) = KeyOf(e)}

\* A stored diff accounts for every event of the baseline and every positioned event
\* of the what-if, each exactly once: nothing the worker recorded while the handler
\* was reading is missing, and no half of a run's evidence is compared.  Events of a
\* second execution of the what-if may still arrive after the handler has read.  A
\* diff that is there after a reset is one of runs that outlived it; the reset has
\* deleted their events, so this is about the time before.
DiffCoversEvidence ==
    \A d \in diffs : resets = 0 =>
        /\ {p[1] : p \in d.matched} \cup d.removed = replay.base
        /\ Positioned \subseteq {p[2] : p \in d.matched} \cup d.added
        /\ {p[2] : p \in d.matched} \cup d.added \subseteq replay.what
        /\ {p[1] : p \in d.matched} \cap d.removed = {}
        /\ {p[2] : p \in d.matched} \cap d.added = {}
        /\ Cardinality(d.matched) = Cardinality({p[1] : p \in d.matched})
        /\ Cardinality(d.matched) = Cardinality({p[2] : p \in d.matched})

\* What docs/CONTRACTS.md and the comment on alignEvents promise of every pack: each
\* event the what-if was judged on is matched or added.  The dev pack breaks it.
AddedIsComplete ==
    \A d \in diffs : resets = 0 =>
        replay.judged.what \subseteq {p[2] : p \in d.matched} \cup d.added

\* An event's rank among those of its side with the same semantic key.
Rank(s, e) ==
    Cardinality({i \in DOMAIN ordered[s] :
        KeyOf(ordered[s][i]) = KeyOf(e) /\ i <= IndexIn(s, e)})

\* Both packs pair the k-th occurrence of a semantic key with the k-th, so that
\* no event is reported as removed or added while a partner for it is left, and
\* two repeated attempts are never compared crosswise.
AlignsByRank ==
    pc \in {"compose", "put"} =>
        /\ \A p \in matched : KeyOf(p[1]) = KeyOf(p[2]) /\ Rank("base", p[1]) = Rank("what", p[2])
        /\ \A r \in removed : \A a \in added : KeyOf(r) # KeyOf(a)

\* The field in which two events with one key differ first, as this pack looks.
Differs(b, c) ==
    \/ b.status # c.status
    \/ pack = "dev" /\ <<b.duration, b.attributes>> # <<c.duration, c.attributes>>

\* The divergence a diff names is the earliest aligned point at which the
\* what-if differs; without such a change it is the timeout that disappeared,
\* and a diff names none only if there is neither.  (Of a what-if that outlived a reset
\* without any evidence no oracle can say that its payment completed first.)
DivergenceIsEarliest ==
    reply = "created" => \A d \in diffs :
        LET Base(i) == ordered["base"][i]
            Differing == {i \in DOMAIN ordered["base"] :
                            \E p \in d.matched : p[1] = Base(i) /\ Differs(p[1], p[2])}
            GoneTimeouts == {i \in DOMAIN ordered["base"] :
                               Base(i).type = "TIMEOUT" /\ Base(i) \in d.removed}
        IN  CASE Differing # {} ->
                   d.first.base \in Differing /\ \A i \in Differing : d.first.base <= i
              [] Differing = {} /\ pack = "checkout" /\ GoneTimeouts # {} /\ ordered["what"] # <<>> ->
                   d.first.base \in GoneTimeouts /\ \A i \in GoneTimeouts : d.first.base <= i
              [] OTHER -> d.first = NoDivergence

\* The effect delta the diff states from the runs' summaries is the one its own
\* alignment shows: as many commits fewer as effects were removed and not added.
\* (A run is judged on one execution: executed twice, it has twice the effects.  The
\* summaries of runs that outlived a reset remain, their effects do not.)
DeltaMatchesAlignment ==
    \A d \in diffs : pack = "checkout" /\ ExecutedOnce /\ resets = 0 =>
        d.delta.commits = Cardinality(Of(d.added, "EFFECT")) - Cardinality(Of(d.removed, "EFFECT"))

\* A diff request is answered with an internal failure only if the demo was reset,
\* between the handler's statements or leaving the runs without the beginning of
\* their evidence, or if a second execution still records; and a request that has
\* found its runs is refused for them afterwards only if the demo was reset meanwhile.
FailsOnlyUnderReset ==
    /\ reply = "failed" => resets > 0 \/ ~ExecutedOnce
    /\ reply = "lifecycle" => raced
    /\ reply = "not found" /\ copy[Other(named)] # Absent => raced
=============================================================================
