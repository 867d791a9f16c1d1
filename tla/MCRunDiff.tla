------------------------------ MODULE MCRunDiff ------------------------------
(***************************************************************************)
(* Instance of RunDiff: the executions the replay runner records, and the  *)
(* other graphs the graph package is called with.                          *)
(***************************************************************************)
EXTENDS RunDiffProps, TLC

-----------------------------------------------------------------------------
(* Executions.  A row is name, type, attempt and time; rows are in the     *)
(* order the runner emits them.                                            *)

RowParent(rows, i) ==
    CASE i = 1 -> 0
      [] i > 1 /\ (i = 2 \/ rows[i][1] = Gateway) -> 1
      [] OTHER -> 2

SequenceOf(rows, i) == Cardinality({j \in 1 .. i : rows[j][1] = rows[i][1]})

Status(type) ==
    CASE type = "TIMEOUT" -> "TIMEOUT"
      [] type \in {"START", "RETRY"} -> "RUNNING"
      [] OTHER -> "SUCCESS"

\* The events of one execution whose ids start after base.
Execution(rows, base, latency) ==
    {[id |-> base + i, name |-> rows[i][1], instance |-> 1, sequence |-> SequenceOf(rows, i),
      at |-> rows[i][4], type |-> rows[i][2], attempt |-> rows[i][3],
      parent |-> IF i = 1 THEN 0 ELSE base + RowParent(rows, i),
      status |-> Status(rows[i][2]),
      duration |-> IF rows[i][1] = Payment /\ rows[i][2] = "COMPLETE" THEN latency ELSE 0,
      attributes |-> IF rows[i][1] = Payment /\ rows[i][2] = "START" THEN latency ELSE 0] :
        i \in DOMAIN rows}

Begun == <<<<Gateway, "START", 1, 0>>, <<Checkout, "START", 1, 1>>, <<Payment, "START", 1, 1>>>>

\* The payment answers in time; the ledger is slow by d milliseconds.
Quick(l, d) == Begun \o
    <<<<Payment, "COMPLETE", 1, l + 1>>, <<Ledger, "EFFECT", 1, l + 1 + d>>,
      <<Checkout, "COMPLETE", 1, l + 2 + d>>, <<Gateway, "COMPLETE", 1, l + 2 + d>>>>

Retried == <<<<Checkout, "TIMEOUT", 1, 201>>, <<Checkout, "RETRY", 2, 201>>, <<Payment, "START", 2, 202>>>>

Done(t) == <<<<Checkout, "COMPLETE", 2, t>>, <<Gateway, "COMPLETE", 2, t>>>>

First(l)  == <<<<Payment, "COMPLETE", 1, l + 1>>, <<Ledger, "EFFECT", 1, l + 1>>>>
Second(l) == <<<<Payment, "COMPLETE", 2, l + 202>>, <<Ledger, "EFFECT", 2, l + 203>>>>

\* The payment is too late, or its answer and the timer race.
Slow(l) == Begun \o Retried \o First(l) \o Second(l) \o Done(l + 203)
Race(l) == Begun \o First(l) \o Retried \o Second(l) \o Done(l + 203)

Baseline == Execution(Slow(350), 0, 350)

WhatIfs ==
    {Execution(Quick(50, 0), 40, 50), Execution(Quick(199, 6), 40, 199),
     Execution(Race(199), 40, 199), Execution(Slow(300), 40, 300)}

Once(b, w) == [base |-> b, what |-> w, judged |-> [base |-> b, what |-> w]]

\* Each run executed once, or both twice, by two workers at once.
MCReplays ==
    {Once(Baseline, w) : w \in WhatIfs}
        \cup {[Once(Baseline, Execution(Quick(50, 0), 40, 50)) EXCEPT
                 !.base = @ \cup Execution(Slow(350), 20, 350),
                 !.what = @ \cup Execution(Quick(50, 6), 60, 50)]}

-----------------------------------------------------------------------------
(* Other calls of BuildNodes.                                              *)

Ev(id, name, instance, sequence, at) ==
    [id |-> id, name |-> name, instance |-> instance, sequence |-> sequence, at |-> at]

Arc(f, t, type) == [from |-> f, to |-> t, type |-> type]

Arcs ==
    {Arc(f, t, "STATE") : f \in 1 .. 3, t \in 1 .. 3}
        \cup {Arc(f, t, "TEMPORAL") : f \in 1 .. 2, t \in 2 .. 3}
        \cup {Arc(1, 2, "RETRY"), Arc(2, 9, "STATE")}

AtMost(S, n) == {T \in SUBSET S : Cardinality(T) <= n}

\* Every shape of graph over three events whose times contradict their ids.
Shapes ==
    {[events |-> {Ev(1, 1, 1, 1, 9), Ev(2, 2, 1, 1, 4), Ev(3, 3, 1, 1, 0)}, edges |-> E] :
        E \in AtMost(Arcs, 3)}

\* Every tie: components, instances, sequence numbers and times around the tolerance.
Ties ==
    {[events |-> {Ev(1, a[1], a[2], a[3], 0), Ev(2, b[1], b[2], b[3], s), Ev(3, c[1], c[2], c[3], t)},
      edges |-> E] :
        a \in {<<1, 1, 1>>}, b \in {<<1, 1, 1>>, <<1, 1, 2>>, <<1, 2, 1>>, <<2, 1, 1>>},
        c \in {<<1, 1, 1>>, <<1, 2, 2>>}, s \in {0, 5, 6}, t \in {0, 5, 6, 11},
        E \in {{}, {Arc(3, 1, "STATE")}}}

Twin == [events |-> {Ev(1, 1, 1, 1, 0), Ev(1, 2, 1, 1, 0)}, edges |-> {}]

\* A circle beside the events, and one the events run into.
Strays ==
    {[events |-> {Ev(1, 1, 1, 1, 9)}, edges |-> {Arc(8, 9, "STATE"), Arc(9, 8, "STATE")} \cup E] :
        E \in {{}, {Arc(1, 8, "STATE")}}}

MCCalls == Shapes \cup Ties \cup Strays \cup {Twin}

MCEvents ==
    UNION {r.base \cup r.what : r \in MCReplays}
        \cup UNION {c.events : c \in Ties \cup {Twin}}
        \cup {Ev(1, 1, 1, 1, 9), Ev(2, 2, 1, 1, 4), Ev(3, 3, 1, 1, 0)}

-----------------------------------------------------------------------------

\* The graph package is called by others as well, detection among them.  These
\* calls have nothing to do with the runs: one state of those is enough.
OtherCaller ==
    /\ pc = "idle" /\ posts = 0 /\ resets = 0 /\ pack = "dev"
    /\ replay = Once(Baseline, Execution(Slow(300), 40, 300))
    /\ sent = {} /\ runs["what"].status = "RUNNING"
    /\ BuildNodes \/ Build \/ Return
    /\ UNCHANGED <<storeVars, alignVars, buildVars, envVars, pc, reply>>

MCNext == DiffNext \/ OtherCaller

MCSpec == Init /\ [][MCNext]_vars
=============================================================================
