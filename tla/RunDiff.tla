------------------------------- MODULE RunDiff -------------------------------
(***************************************************************************)
(* POST /v1/diffs (cmd/core-api postDiff, internal/differential, and the   *)
(* packs' Align and Compare): the handler reads two runs, their events and *)
(* graphs in separate statements, puts both executions on a timeline,      *)
(* aligns them, derives the first divergence and stores the diff, while    *)
(* the worker may still be recording the what-if and the demo may be reset.*)
(*                                                                         *)
(* Sides: "base" is the baseline run, "what" the what-if that refers to    *)
(* it.  One component has one operation, and all events belong to one      *)
(* logical operation: the semantic key of an event is its component, type  *)
(* and attempt.  What the handler computes between two statements is one   *)
(* machine at a time: nobody else runs meanwhile.                          *)
(***************************************************************************)
EXTENDS Timeline

CONSTANTS
    Replays,   \* what the replays of a baseline and a what-if record
    Packs,     \* the System Packs PACK_IMPL may name
    MaxPosts,  \* bound: POST /v1/diffs requests
    MaxResets  \* bound: demo resets

Sides == {"base", "what"}
Other(s) == IF s = "base" THEN "what" ELSE "base"

ASSUME RunDiffAssumption ==
    /\ Packs \subseteq {"checkout", "dev"}
    /\ \A r \in Replays : \A s \in Sides :
         /\ r.judged[s] \subseteq r[s] /\ r[s] \subseteq Events /\ IsFiniteSet(r[s])
         /\ \A e \in r[s] : e.parent \in Nat
    /\ {MaxPosts, MaxResets} \subseteq Nat

\* The runner emits an event under one it has emitted before, but for the first, and
\* gives each an id of its own.
ASSUME ExecutionAssumption ==
    \A r \in Replays : \A s \in Sides :
        /\ r.judged[s] # {} /\ Distinct(r.judged[s])
        /\ \A e \in r.judged[s] : e.parent # 0 => e.parent < e.id /\ e.parent \in Ids(r.judged[s])

VARIABLES
    replay,   \* the events recorded under each run: those of the execution that
              \* settles it (judged), and of a second one, should there be one
    sent,     \* the events the workers have ingested for the what-if
    pack,     \* the System Pack of this deployment
    runs,     \* table replay_runs: status and effect summary
    stored,   \* table execution_events, by run
    diffs,    \* table replay_diffs
    posts, resets,
    pc,       \* where the handler is
    named,    \* the run the request names as its baseline
    copy,     \* the runs as the handler has read them
    side,     \* the run whose events are being loaded
    raw,      \* the events of that run
    ordered,  \* the timelines
    cursor,   \* how much of the baseline's timeline is aligned
    matched, removed, added, changed,
    diff,     \* the diff that was built
    raced,    \* the demo was reset while the handler was at work
    reply     \* the answer to the last request

storeVars == <<runs, stored, diffs, sent>>
alignVars == <<cursor, matched, removed, added, changed>>
buildVars == <<named, copy, side, raw, ordered, diff, raced>>
envVars   == <<replay, pack, posts, resets>>
vars      == <<timelineVars, storeVars, alignVars, buildVars, envVars, pc, reply>>

-----------------------------------------------------------------------------
(* Executions and their oracle.                                            *)

\* Component names, in the order of the strings.
Checkout == 1
Gateway  == 2
Ledger   == 3
Payment  == 4

KeyOf(e) == <<e.name, e.type, e.attempt>>

Of(events, type) == {e \in events : e.type = type}

\* Mutant of Summary: the effects are counted where the oracle matches only.
SummaryOnMatch(events) ==
    [attempts |-> Cardinality({e.attempt : e \in {x \in Of(events, "START") : x.name = Payment}}),
     commits  |-> IF Of(events, "RETRY") = {} THEN 0 ELSE Cardinality(Of(events, "EFFECT"))]

\* An attempt counts once, every committed effect counts.
Summary(events) ==
    [attempts |-> Cardinality({e.attempt : e \in {x \in Of(events, "START") : x.name = Payment}}),
     commits  |-> Cardinality(Of(events, "EFFECT"))]

OracleMatches(events) ==
    /\ Of(events, "TIMEOUT") # {} /\ Of(events, "RETRY") # {}
    /\ \E e \in events : e.attempt >= 2
    /\ Cardinality(Of(events, "EFFECT")) >= 2

\* EvaluateOutcome; the dev pack answers by the run type.
Reproduces(s, events) == IF pack = "dev" THEN s = "base" ELSE OracleMatches(events)
SummaryOf(s, events) ==
    IF pack = "checkout" THEN Summary(events)
    ELSE IF s = "base" THEN [attempts |-> 2, commits |-> 2] ELSE [attempts |-> 1, commits |-> 1]

Absent  == [status |-> "ABSENT", matched |-> FALSE, effects |-> [attempts |-> 0, commits |-> 0]]
Running == [Absent EXCEPT !.status = "RUNNING"]
Completed(s, events) ==
    [status |-> "COMPLETED", matched |-> Reproduces(s, events), effects |-> SummaryOf(s, events)]

NoDivergence == [rule |-> "NONE", base |-> 0, what |-> 0]
NoDiff == [id |-> 0, matched |-> {}, removed |-> {}, added |-> {}, changed |-> {},
           delta |-> [attempts |-> 0, commits |-> 0], first |-> NoDivergence]

NoAlignment == /\ cursor' = 0 /\ matched' = {} /\ removed' = {} /\ added' = {} /\ changed' = {}

Init ==
    /\ TimelineInit
    /\ replay \in Replays /\ pack \in Packs
    /\ runs = [base |-> Completed("base", replay.judged.base), what |-> Running]
    /\ stored = [base |-> replay.base, what |-> {}]
    /\ diffs = {} /\ sent = {}
    /\ posts = 0 /\ resets = 0
    /\ pc = "idle" /\ named = "base" /\ side = "base" /\ raw = {}
    /\ copy = [s \in Sides |-> Absent]
    /\ ordered = [s \in Sides |-> <<>>]
    /\ cursor = 0 /\ matched = {} /\ removed = {} /\ added = {} /\ changed = {}
    /\ diff = NoDiff /\ raced = FALSE /\ reply = "none"

-----------------------------------------------------------------------------
(* The worker and the reset.                                               *)

\* The handler is about to execute a statement, or there is none.
AtStatement ==
    verdict = "idle" /\ pc \in {"idle", "getBase", "getWhat", "events", "graph", "put"}

\* A worker ingests what its execution emitted, in that order; nothing asks for the run.
Ingest ==
    /\ AtStatement
    /\ \E emitted \in {replay.judged.what, replay.what \ replay.judged.what} :
         \E e \in emitted \ sent :
           /\ \A f \in emitted \ sent : e.id <= f.id
           /\ sent' = sent \cup {e}
           /\ stored' = [stored EXCEPT !["what"] = @ \cup {e}]
    /\ UNCHANGED <<timelineVars, runs, diffs, alignVars, buildVars, envVars, pc, reply>>

Ingested == replay.judged.what \subseteq sent

\* The worker that settles the run has judged its own events, all of them ingested.
Complete ==
    /\ AtStatement /\ runs["what"].status = "RUNNING" /\ Ingested
    /\ runs' = [runs EXCEPT !["what"] = Completed("what", replay.judged.what)]
    /\ UNCHANGED <<timelineVars, stored, sent, diffs, alignVars, buildVars, envVars, pc, reply>>

\* Runs committed after the DELETE of incidents has begun outlive the reset, and a
\* diff of theirs with them.
Survive == UNCHANGED <<runs, diffs>>

\* PostgresStore.Reset, when the last of its six DELETEs, that of the events, begins:
\* they go in any case.
Reset ==
    /\ AtStatement /\ resets < MaxResets
    /\ resets' = resets + 1
    /\ stored' = [s \in Sides |-> {}]
    /\ \/ runs' = [s \in Sides |-> Absent] /\ diffs' = {}
       \/ Survive
    /\ raced' = (raced \/ pc # "idle")
    /\ UNCHANGED <<timelineVars, alignVars, named, copy, side, raw, ordered, diff, sent,
                   replay, pack, posts, pc, reply>>

-----------------------------------------------------------------------------
(* differential.Build.                                                     *)

Answer(r) == pc' = "idle" /\ reply' = r
Go(p)     == pc' = p /\ UNCHANGED reply

PostDiff(b) ==
    /\ pc = "idle" /\ verdict = "idle" /\ posts < MaxPosts
    /\ posts' = posts + 1
    /\ named' = b /\ raced' = FALSE
    /\ copy' = [s \in Sides |-> Absent] /\ ordered' = [s \in Sides |-> <<>>]
    /\ raw' = {} /\ side' = "base" /\ diff' = NoDiff /\ NoAlignment
    /\ pc' = "getBase" /\ reply' = "none"
    /\ UNCHANGED <<timelineVars, storeVars, replay, pack, resets>>

Read(s) == copy' = [copy EXCEPT ![s] = runs[s]]

GetBase ==
    /\ pc = "getBase"
    /\ Read(named)
    /\ IF runs[named].status = "ABSENT" THEN Answer("not found") ELSE Go("getWhat")
    /\ UNCHANGED <<timelineVars, storeVars, alignVars, named, side, raw, ordered, diff,
                   raced, envVars>>

\* Mutant of Prerequisites: the what-if's status is not looked at.
PrerequisitesOfBaseline(c) ==
    /\ named = "base"
    /\ c["base"].status = "COMPLETED" /\ c["base"].matched

\* verifyPrerequisites: type, reference, capsule and intervention of the what-if
\* are those of the run called "what".
Prerequisites(c) ==
    /\ named = "base"
    /\ c["base"].status = "COMPLETED" /\ c["base"].matched
    /\ c["what"].status = "COMPLETED"

GetWhat ==
    /\ pc = "getWhat"
    /\ Read(Other(named))
    /\ CASE runs[Other(named)].status = "ABSENT" -> Answer("not found")
         [] runs[Other(named)].status # "ABSENT" /\ Prerequisites(copy') -> Go("events")
         [] OTHER -> Answer("prerequisites")
    /\ UNCHANGED <<timelineVars, storeVars, alignVars, named, side, raw, ordered, diff,
                   raced, envVars>>

\* EventsForRun.
LoadEvents ==
    /\ pc = "events"
    /\ raw' = stored[side]
    /\ Go("graph")
    /\ UNCHANGED <<timelineVars, storeVars, alignVars, named, copy, side, ordered, diff,
                   raced, envVars>>

\* GraphsForRun reads the events again and builds the run's graph from them.
LoadGraph ==
    /\ pc = "graph"
    /\ CallBuildNodes([events |-> stored[side], edges |-> ParentChildEdges(stored[side])])
    /\ Go("building")
    /\ UNCHANGED <<storeVars, alignVars, buildVars, envVars>>

BuildTurn ==
    /\ pc = "building" /\ Build
    /\ UNCHANGED <<storeVars, alignVars, buildVars, envVars, pc, reply>>

\* The graph is there: Order, then the other run or the alignment.
OrderEvents ==
    /\ pc = "building" /\ Return
    /\ IF verdict = "ordered" /\ OrderAccepts(raw, placed, call.edges)
         THEN /\ ordered' = [ordered EXCEPT ![side] = placed]
              /\ side' = "what"
              /\ Go(IF side = "base" THEN "events" ELSE "align")
         ELSE /\ Answer("failed")
              /\ UNCHANGED <<ordered, side>>
    /\ UNCHANGED <<storeVars, alignVars, named, copy, raw, diff, raced, envVars>>

-----------------------------------------------------------------------------
(* Alignment: keys match, the k-th event of a key with the k-th.           *)

\* The events of one key, in the order of the timeline, appended one by one.
WithKey(timeline, k) ==
    LET group[i \in 0 .. Len(timeline)] ==
            IF i = 0 THEN <<>>
            ELSE IF KeyOf(timeline[i]) = k THEN Append(group[i - 1], timeline[i]) ELSE group[i - 1]
    IN  group[Len(timeline)]

\* Mutant of Consumed: nothing is ever consumed.
NeverConsumed(k) == 0

Consumed(k) == Cardinality({p \in matched : KeyOf(p[1]) = k})

\* The change the checkout pack reports, and the first one the dev pack does.
StatusChange(b, c) == IF b.status # c.status THEN {"status"} ELSE {}
FirstChange(b, c) ==
    CASE b.status # c.status                                -> {"status"}
      [] b.status = c.status /\ b.duration # c.duration     -> {"duration"}
      [] b.status = c.status /\ b.duration = c.duration /\ b.attributes # c.attributes -> {"attributes"}
      [] OTHER -> {}

Changes(b, c) ==
    {[base |-> b, what |-> c, field |-> f] :
        f \in IF pack = "dev" THEN FirstChange(b, c) ELSE StatusChange(b, c)}

\* The checkout pack's Align: one baseline event, in the order of the timeline.
AlignNext ==
    /\ pc = "align" /\ pack = "checkout" /\ cursor < Len(ordered["base"])
    /\ cursor' = cursor + 1
    /\ LET b == ordered["base"][cursor']
           candidates == WithKey(ordered["what"], KeyOf(b))
           n == Consumed(KeyOf(b)) + 1
       IN  IF n > Len(candidates)
             THEN removed' = removed \cup {b} /\ UNCHANGED <<matched, changed>>
             ELSE /\ matched' = matched \cup {<<b, candidates[n]>>}
                  /\ changed' = changed \cup Changes(b, candidates[n])
                  /\ UNCHANGED removed
    /\ UNCHANGED <<timelineVars, storeVars, added, buildVars, envVars, pc, reply>>

InTimeline(s) == {ordered[s][i] : i \in DOMAIN ordered[s]}

\* Mutant of AlignRest: keys the baseline lacks are not looked at.
AlignRestOfKnownKeys ==
    /\ pc = "align" /\ pack = "checkout" /\ cursor = Len(ordered["base"])
    /\ added' = {e \in InTimeline("what") \ {p[2] : p \in matched} :
                    WithKey(ordered["base"], KeyOf(e)) # <<>>}
    /\ Go("compose")
    /\ UNCHANGED <<timelineVars, storeVars, cursor, matched, removed, changed, buildVars, envVars>>

\* The events of the what-if that no event of the baseline has taken.
AlignRest ==
    /\ pc = "align" /\ pack = "checkout" /\ cursor = Len(ordered["base"])
    /\ added' = InTimeline("what") \ {p[2] : p \in matched}
    /\ Go("compose")
    /\ UNCHANGED <<timelineVars, storeVars, cursor, matched, removed, changed, buildVars, envVars>>

Keys == {KeyOf(e) : e \in InTimeline("base") \cup InTimeline("what")}

Pairs(k) ==
    LET b == WithKey(ordered["base"], k)  c == WithKey(ordered["what"], k)
    IN  {<<b[i], c[i]>> : i \in DOMAIN b \cap DOMAIN c}

\* The dev pack's alignEvents groups both sides by key first, and looks at the
\* baseline's keys only: an event whose key the baseline lacks is in no set.
AlignByKey ==
    /\ pc = "align" /\ pack = "dev"
    /\ matched' = UNION {Pairs(k) : k \in Keys}
    /\ removed' = InTimeline("base") \ {p[1] : p \in matched'}
    /\ added' = {e \in InTimeline("what") \ {p[2] : p \in matched'} :
                    \E b \in InTimeline("base") : KeyOf(b) = KeyOf(e)}
    /\ changed' = UNION {Changes(p[1], p[2]) : p \in matched'}
    /\ Go("compose")
    /\ UNCHANGED <<timelineVars, storeVars, cursor, buildVars, envVars>>

-----------------------------------------------------------------------------
(* The diff.                                                               *)

IndexIn(s, e) == CHOOSE i \in DOMAIN ordered[s] : ordered[s][i] = e

\* Mutant of FirstDivergenceFrom: the changes are sorted in descending order.
LastDivergenceFrom(ch) ==
    LET c == CHOOSE x \in ch : \A y \in ch : IndexIn("base", x.base) >= IndexIn("base", y.base)
    IN  IF ch = {} THEN NoDivergence
        ELSE [rule |-> c.field, base |-> IndexIn("base", c.base), what |-> IndexIn("what", c.what)]

\* FirstDivergenceFrom: the change that comes first in the baseline.
FirstDivergenceFrom(ch) ==
    LET c == CHOOSE x \in ch : \A y \in ch : IndexIn("base", x.base) <= IndexIn("base", y.base)
    IN  IF ch = {} THEN NoDivergence
        ELSE [rule |-> c.field, base |-> IndexIn("base", c.base), what |-> IndexIn("what", c.what)]

RemovedTimeout ==
    {i \in DOMAIN ordered["base"] :
        ordered["base"][i].type = "TIMEOUT" /\ ordered["base"][i] \in removed}

PaymentCompletes ==
    {i \in DOMAIN ordered["what"] :
        ordered["what"][i].name = Payment /\ ordered["what"][i].type = "COMPLETE"}

Least(S) == IF S = {} THEN 0 ELSE CHOOSE i \in S : \A j \in S : i <= j

\* The checkout pack's structural rule, tried when no field has changed; Compare
\* evaluates the oracle again, which fails without evidence.  The dev pack's
\* Compare names no divergence.
StructuralDivergence ==
    IF pack = "dev" \/ RemovedTimeout = {} \/ ordered["what"] = <<>> THEN NoDivergence
    ELSE [rule |-> "PAYMENT_COMPLETES_BEFORE_TIMEOUT",
          base |-> Least(RemovedTimeout), what |-> Least(PaymentCompletes)]

\* Build asks for none if the what-if's outcome is INCONCLUSIVE, which neither
\* EvaluateOutcome nor any other code gives to a run.
Divergence ==
    IF FirstDivergenceFrom(changed) # NoDivergence
      THEN FirstDivergenceFrom(changed) ELSE StructuralDivergence

Delta ==
    [attempts |-> copy["what"].effects.attempts - copy["base"].effects.attempts,
     commits  |-> copy["what"].effects.commits - copy["base"].effects.commits]

\* ReplayDiff.Validate: the delta is that of the runs' summaries, and a change has
\* two different values.
DiffValid(d) ==
    /\ \A f \in {"attempts", "commits"} :
         copy["base"].effects[f] + d.delta[f] = copy["what"].effects[f]
    /\ \A c \in d.changed : c.base[c.field] # c.what[c.field]

Compose ==
    /\ pc = "compose"
    /\ diff' = [id |-> posts, matched |-> matched, removed |-> removed, added |-> added, changed |-> changed,
                delta |-> Delta, first |-> Divergence]
    /\ IF DiffValid(diff') THEN Go("put") ELSE Answer("failed")
    /\ UNCHANGED <<timelineVars, storeVars, alignVars, named, copy, side, raw, ordered,
                   raced, envVars>>

\* Mutant of Taken: the pair of runs is not UNIQUE in replay_diffs.
NeverTaken == FALSE

Taken == diffs # {}

\* PutDiff looks at both runs again, FOR UPDATE; a pair of runs has one diff.
PutDiff ==
    /\ pc = "put"
    /\ CASE \E s \in Sides : runs[s].status = "ABSENT" ->
              Answer("not found") /\ UNCHANGED diffs
         [] (\A s \in Sides : runs[s].status # "ABSENT") /\ ~Prerequisites(runs) ->
              Answer("lifecycle") /\ UNCHANGED diffs
         [] Prerequisites(runs) /\ Taken ->
              Answer("conflict") /\ UNCHANGED diffs
         [] Prerequisites(runs) /\ ~Taken ->
              Answer("created") /\ diffs' = diffs \cup {diff}
    /\ UNCHANGED <<timelineVars, runs, stored, sent, alignVars, buildVars, envVars>>

Handler == GetBase \/ GetWhat \/ LoadEvents \/ LoadGraph \/ BuildTurn \/ OrderEvents
           \/ AlignNext \/ AlignRest \/ AlignByKey \/ Compose \/ PutDiff

DiffNext ==
    \/ Ingest \/ Complete \/ Reset
    \/ \E b \in Sides : PostDiff(b)
    \/ Handler

DiffSpec == Init /\ [][DiffNext]_vars
=============================================================================
