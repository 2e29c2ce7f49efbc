------------------------------- MODULE Metrics -------------------------------
(***************************************************************************)
(* PrometheusMetrics (metrics.rs): a tree of groups of metrics that        *)
(* several tasks create, look up and update.  All groups share one         *)
(* Prometheus registry, which knows metrics by their fully qualified       *)
(* names, and one map of labels; each group has its own map of children    *)
(* and of metrics.  Every map is behind a lock of its own that is held for *)
(* one access only, so an operation that touches two maps is two steps.    *)
(*                                                                         *)
(* A name is the sequence of the words that '_' separates in it, so that   *)
(* joining names with '_' is concatenation and splitting yields one-word   *)
(* names.                                                                  *)
(***************************************************************************)
EXTENDS Integers, SequencesExt

CONSTANTS
  Tasks,       \* the tasks that use the metrics
  None,        \* no entry
  Kinds,       \* the kinds of metrics that have a map of their own
  Segments,    \* names for subgroups
  Names,       \* names for metrics and labels
  Width,       \* the number of bits of a value, 64 in the code
  Deltas,      \* amounts a gauge is updated by, Width-bit signed integers
  Amounts,     \* amounts a gauge is set to or a counter is increased by
  MaxGroups,   \* bound: groups in the tree
  MaxMetrics,  \* bound: metrics and labels ever created
  MaxTotal     \* bound: distance from 0 of the sum of a metric's updates

ASSUME MetricsAssumption ==
  /\ {Width, 2^Width, MaxGroups, MaxMetrics, MaxTotal} \subseteq Nat \ {0}
  /\ Amounts \subseteq 0 .. 2^Width - 1
  /\ Deltas \subseteq -(2^(Width - 1)) .. 2^(Width - 1) - 1
  /\ \A n \in Segments \cup Names : n \in Seq(Range(n)) \ { << >> }
  /\ None \notin Nat

VARIABLES
  groups,    \* the groups; a handle to a group is its number
  registry,  \* the Prometheus registry: metrics by their fully qualified names
  labels,    \* the labels by the paths they were registered with
  cells,     \* the metrics and labels; a handle is a number
  tasks      \* what each task is doing

vars == << groups, registry, labels, cells, tasks >>

Root   == 1
Values == 0 .. 2^Width - 1

Group(namespace) ==
  [ namespace |-> namespace,
    children  |-> [ s \in Segments |-> None ],
    metrics   |-> [ m \in Kinds \X Names |-> None ] ]

\* A metric has a value; `total` is what its updates add up to without the width,
\* and `name` what it was created as.
Cell(kind, name) == [ kind |-> kind, name |-> name, value |-> 0, total |-> 0 ]

Idle     == [ at |-> "idle" ]
Panicked == [ at |-> "panicked" ]

Init ==
  /\ groups = << Group(<< >>) >>
  /\ registry = << >>
  /\ labels = << >>
  /\ cells = << >>
  /\ tasks = [ t \in Tasks |-> Idle ]

-----------------------------------------------------------------------------
(* Names *)

Words(names) == FlattenSeq(names)

\* `metric_opts` as Prometheus joins it: namespace, subsystem and name.
FqName(g, n) == Words(Append(groups[g].namespace, n))

\* Mutant: a label is registered without its group.
LabelPathBare(g, n) == << n >>

\* The path `Label::new` registers a label with: namespace and subsystem split
\* into words, then the name ...
LabelPath(g, n) ==
  LET words == Words(groups[g].namespace)
  IN  Append([ i \in DOMAIN words |-> << words[i] >> ], n)

\* ... and the path `get_label` looks for: the names of the groups, whole.
GetLabelPath(g, n) == Append(groups[g].namespace, n)

-----------------------------------------------------------------------------
(* Looking up *)

\* The entry of a partial function, if any, and the function with an entry for x.
Entry(f, x)  == IF x \in DOMAIN f THEN f[x] ELSE None
Put(f, x, y) == [ z \in DOMAIN f \cup {x} |-> IF z = x THEN y ELSE f[z] ]

\* `get_counter`, `get_gauge` and `get_histogram` (`get_metric`), and `get_label`.
GetMetric(g, kind, n) == groups[g].metrics[<< kind, n >>]
GetLabel(g, n)        == Entry(labels, GetLabelPath(g, n))

\* The metric that `prometheus` exports under a fully qualified name.
Exported(name) == Entry(registry, name)

\* The group at a path from g, walked with nothing in between.
Resolve(g, path) ==
  LET curr[i \in 0 .. Len(path)] ==
        IF i = 0 THEN g
        ELSE IF curr[i - 1] = None THEN None ELSE groups[curr[i - 1]].children[path[i]]
  IN  curr[Len(path)]

Paths == UNION { [ 1 .. n -> Segments ] : n \in 1 .. MaxGroups - 1 }

\* `get_subgroup`, from the root (a walk from another group is the rest of one),
\* takes one lock after the other; between two of them the tree may change.
\* `found` remembers where the path led when the walk began.
StartWalk(t, path) ==
  /\ tasks[t] = Idle
  /\ tasks' = [ tasks EXCEPT ![t] =
       [ at |-> "walking", group |-> Root, path |-> path, found |-> Resolve(Root, path) ] ]
  /\ UNCHANGED << groups, registry, labels, cells >>

Walk(t) ==
  /\ tasks[t].at = "walking"
  /\ LET next == groups[tasks[t].group].children[Head(tasks[t].path)] IN
       tasks' = [ tasks EXCEPT ![t] =
         IF next = None \/ Len(tasks[t].path) = 1 THEN Idle
         ELSE [ tasks[t] EXCEPT !.group = next, !.path = Tail(@) ] ]
  /\ UNCHANGED << groups, registry, labels, cells >>

-----------------------------------------------------------------------------
(* Creating *)

\* Mutant: a second registration of a name takes the place of the first.
RegisterReplacing(t, g, kind, n) ==
  /\ tasks[t] = Idle
  /\ Len(cells) < MaxMetrics
  /\ registry' = Put(registry, FqName(g, n), Len(cells) + 1)
  /\ cells' = Append(cells, Cell(kind, FqName(g, n)))
  /\ tasks' = [ tasks EXCEPT ![t] =
       [ at |-> "registered", group |-> g, kind |-> kind, name |-> n,
         handle |-> Len(cells) + 1 ] ]
  /\ UNCHANGED << groups, labels >>

\* `create_counter`, `create_gauge`, `create_histogram`: the metric is registered;
\* a name that is taken is an error, which the task does not survive ...
Register(t, g, kind, n) ==
  /\ tasks[t] = Idle
  /\ Len(cells) < MaxMetrics
  /\ IF FqName(g, n) \in DOMAIN registry
     THEN /\ tasks' = [ tasks EXCEPT ![t] = Panicked ]
          /\ UNCHANGED << registry, cells >>
     ELSE /\ registry' = Put(registry, FqName(g, n), Len(cells) + 1)
          /\ cells' = Append(cells, Cell(kind, FqName(g, n)))
          /\ tasks' = [ tasks EXCEPT ![t] =
               [ at |-> "registered", group |-> g, kind |-> kind, name |-> n,
                 handle |-> Len(cells) + 1 ] ]
  /\ UNCHANGED << groups, labels >>

\* ... and is then entered into the map of its group.
Insert(t) ==
  /\ tasks[t].at = "registered"
  /\ groups' = [ groups EXCEPT ![tasks[t].group].metrics[<< tasks[t].kind, tasks[t].name >>] =
                   tasks[t].handle ]
  /\ tasks' = [ tasks EXCEPT ![t] = Idle ]
  /\ UNCHANGED << registry, labels, cells >>

\* `create_label`: a label of the same path is replaced.
CreateLabel(t, g, n) ==
  /\ tasks[t] = Idle
  /\ Len(cells) < MaxMetrics
  /\ labels' = Put(labels, LabelPath(g, n), Len(cells) + 1)
  /\ cells' = Append(cells, Cell("label", FqName(g, n)))
  /\ UNCHANGED << groups, registry, tasks >>

\* Mutant: a subgroup is made anew every time.
SubgroupOverwrites(t, g, seg) ==
  /\ tasks[t] = Idle
  /\ Len(groups) < MaxGroups
  /\ groups' = Append([ groups EXCEPT ![g].children[seg] = Len(groups) + 1 ],
                      Group(Append(groups[g].namespace, seg)))
  /\ UNCHANGED << registry, labels, cells, tasks >>

\* `subgroup`, and with it `populate_metrics`: the entry is looked up and, when
\* there is none, made under one write lock.
Subgroup(t, g, seg) ==
  /\ tasks[t] = Idle
  /\ groups[g].children[seg] = None
  /\ Len(groups) < MaxGroups
  /\ groups' = Append([ groups EXCEPT ![g].children[seg] = Len(groups) + 1 ],
                      Group(Append(groups[g].namespace, seg)))
  /\ UNCHANGED << registry, labels, cells, tasks >>

-----------------------------------------------------------------------------
(* Values *)

\* Mutant: a subtraction stops at zero.
WrappedSaturating(x) == IF x < 0 THEN 0 ELSE x % 2^Width

\* An unsigned sum or difference of Width bits.
Wrapped(x) == x % 2^Width

Magnitude(x) == IF x < 0 THEN -x ELSE x

Change(h, value, total) ==
  /\ Magnitude(total) <= MaxTotal
  /\ cells' = [ cells EXCEPT ![h].value = value, ![h].total = total ]
  /\ UNCHANGED << groups, registry, labels, tasks >>

\* `Counter::add` and, one more point at a time, `Histogram::add_point`.
Add(h, amount) ==
  /\ cells[h].kind \in {"counter", "histogram"}
  /\ Change(h, Wrapped(cells[h].value + amount), cells[h].total + amount)

\* `Gauge::set`.
SetGauge(h, amount) ==
  /\ cells[h].kind = "gauge"
  /\ Change(h, amount, amount)

\* `Gauge::update`: a negative delta is negated, in Width bits, and subtracted.
\* The least delta is its own negation, and as an unsigned number the right one.
UpdateGauge(h, delta) ==
  /\ cells[h].kind = "gauge"
  /\ Change(h, IF delta >= 0 THEN Wrapped(cells[h].value + delta)
               ELSE Wrapped(cells[h].value - Wrapped(-delta)),
            cells[h].total + delta)

\* A build that checks for overflow panics at that negation.
UpdateOverflows(t, h) ==
  /\ tasks[t] = Idle
  /\ cells[h].kind = "gauge"
  /\ -(2^(Width - 1)) \in Deltas
  /\ tasks' = [ tasks EXCEPT ![t] = Panicked ]
  /\ UNCHANGED << groups, registry, labels, cells >>

Next ==
  \/ \E t \in Tasks :
       \/ \E g \in DOMAIN groups :
            \/ \E n \in Names : CreateLabel(t, g, n) \/ \E kind \in Kinds : Register(t, g, kind, n)
            \/ \E seg \in Segments : Subgroup(t, g, seg)
       \/ Insert(t)
       \/ \E path \in Paths : StartWalk(t, path)
       \/ Walk(t)
       \/ \E h \in DOMAIN cells : UpdateOverflows(t, h)
  \/ \E h \in DOMAIN cells :
       \/ \E amount \in Amounts : Add(h, amount) \/ SetGauge(h, amount)
       \/ \E delta \in Deltas : UpdateGauge(h, delta)

Spec == Init /\ [][Next]_vars
-----------------------------------------------------------------------------
(* Properties *)

GroupType ==
  [ namespace : Seq(Segments),
    children  : [ Segments -> DOMAIN groups \cup {None} ],
    metrics   : [ Kinds \X Names -> DOMAIN cells \cup {None} ] ]

CellType ==
  [ kind : Kinds \cup {"label"}, name : { FqName(g, n) : g \in DOMAIN groups, n \in Names },
    value : Values, total : Int ]

Waiting == { Idle, Panicked }
Entering ==
  [ at : {"registered"}, group : DOMAIN groups, kind : Kinds, name : Names, handle : DOMAIN cells ]
IsWalk(task) ==
  /\ task = [ at |-> "walking", group |-> task.group, path |-> task.path, found |-> task.found ]
  /\ task.group \in DOMAIN groups
  /\ task.path \in Seq(Segments) \ { << >> }

TypeOK ==
  /\ groups \in Seq(GroupType) /\ Root \in DOMAIN groups
  /\ cells \in Seq(CellType)
  /\ Range(registry) \cup Range(labels) \subseteq DOMAIN cells
  /\ tasks = [ t \in Tasks |-> tasks[t] ]
  /\ \A t \in Tasks : tasks[t] \in Waiting \cup Entering \/ IsWalk(tasks[t])

\* A metric found by its name in a group is the one that is exported under its fully
\* qualified name, also when another group and name join to the same one, and after a
\* task has panicked over it.  One that is exported can be found from the root by its
\* path and name, unless a task is about to enter it: none is registered and then
\* forgotten.  A label that is found has the name that was asked for.
NamesAgree ==
  /\ \A g \in DOMAIN groups : \A n \in Names :
       /\ \A kind \in Kinds : GetMetric(g, kind, n) # None =>
            Exported(FqName(g, n)) = GetMetric(g, kind, n)
       /\ GetLabel(g, n) # None => cells[GetLabel(g, n)].name = FqName(g, n)
  /\ \A h \in Range(registry) :
       \/ \E t \in Tasks : tasks[t].at = "registered" /\ tasks[t].handle = h
       \/ \E path \in Paths \cup { << >> } : LET g == Resolve(Root, path) IN
            g # None /\ \E n \in Names : GetMetric(g, cells[h].kind, n) = h

\* A path that exists when `get_subgroup` begins leads to the same group wherever
\* other tasks change the tree between its locks, and that group has the path as
\* its namespace.
WalksArrive ==
  \A t \in Tasks : tasks[t].at = "walking" =>
    LET arrival == Resolve(tasks[t].group, tasks[t].path) IN
    /\ tasks[t].found # None => arrival = tasks[t].found
    /\ arrival # None => groups[arrival].namespace =
                           groups[tasks[t].group].namespace \o tasks[t].path

\* What a name was once found to be in a group it is for ever: a status query that
\* was answered from the consensus metrics will be, however often
\* `populate_metrics` is called.
LookupsAreStable ==
  [][ \A g \in DOMAIN groups :
        /\ \A seg \in Segments : groups[g].children[seg] # None =>
             groups'[g].children[seg] = groups[g].children[seg]
        /\ \A m \in Kinds \X Names : groups[g].metrics[m] # None =>
             groups'[g].metrics[m] = groups[g].metrics[m] ]_vars

\* A metric whose updates add up to a value it can hold has that value, also when
\* it was decreased below zero before it was increased, as concurrent updates may,
\* and when the delta was the least integer.
ValuesAddUp ==
  \A h \in DOMAIN cells : cells[h].total \in Values => cells[h].value = cells[h].total
=============================================================================
