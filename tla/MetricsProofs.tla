---------------------------- MODULE MetricsProofs ----------------------------
(***************************************************************************)
(* Machine-checked proofs about Metrics and the StatusApi over it, for     *)
(* every set of tasks, groups and names, every width of the values and     *)
(* every bound.                                                            *)
(***************************************************************************)
EXTENDS StatusApi, SequenceTheorems, WellFoundedInduction, TLAPS

(* The inductive invariant. *)

\* A metric of a group is registered under its fully qualified name.
FoundInv ==
  \A g \in DOMAIN groups : \A kind \in Kinds : \A n \in Names :
    groups[g].metrics[<< kind, n >>] # None =>
      /\ FqName(g, n) \in DOMAIN registry
      /\ registry[FqName(g, n)] = groups[g].metrics[<< kind, n >>]

\* So is one that a task has registered and is about to enter: no other metric can be
\* entered in its place, since the name is taken.
RegisteredInv ==
  \A t \in Tasks : tasks[t].at = "registered" =>
    /\ FqName(tasks[t].group, tasks[t].name) \in DOMAIN registry
    /\ registry[FqName(tasks[t].group, tasks[t].name)] = tasks[t].handle

\* A value is what the updates add up to but for a multiple of 2^Width.
ValueInv ==
  \A h \in DOMAIN cells : \E k \in Int : cells[h].value = cells[h].total + k * 2^Width

IInv == TypeOK /\ FoundInv /\ RegisteredInv /\ ValueInv

-----------------------------------------------------------------------------
(* Types while groups and cells are added. *)

\* Groups and cells are never removed, and a group keeps its namespace: every name
\* keeps its meaning.
Grows ==
  /\ DOMAIN groups \subseteq DOMAIN groups'
  /\ DOMAIN cells \subseteq DOMAIN cells'
  /\ \A g \in DOMAIN groups : groups'[g].namespace = groups[g].namespace

LEMMA NamesStay ==
  ASSUME Grows
  PROVE  \A g \in DOMAIN groups : \A n : FqName(g, n)' = FqName(g, n)
BY DEF Grows, FqName

LEMMA TypesGrow ==
  ASSUME Grows
  PROVE  GroupType \subseteq GroupType' /\ CellType \subseteq CellType' /\ Entering \subseteq Entering'
<1>1. GroupType \subseteq GroupType'
  BY DEF Grows, GroupType
<1>2. CellType \subseteq CellType'
  <2>1. { FqName(g, n) : g \in DOMAIN groups, n \in Names }
          \subseteq { FqName(g, n)' : g \in DOMAIN groups', n \in Names }
    BY NamesStay DEF Grows
  <2>2. CellType' = [ kind : Kinds \cup {"label"},
                      name : { FqName(g, n)' : g \in DOMAIN groups', n \in Names },
                      value : Values, total : Int ]
    BY DEF CellType, Values, FqName
  <2>3. QED BY <2>1, <2>2 DEF CellType
<1>3. Entering \subseteq Entering'
  BY DEF Grows, Entering
<1>4. QED BY <1>1, <1>2, <1>3
-----------------------------------------------------------------------------
(* What each kind of step does to the groups and the cells. *)

\* The parts of the type invariant.
LEMMA Parts ==
  ASSUME TypeOK
  PROVE  /\ Len(groups) \in Nat /\ DOMAIN groups = 1 .. Len(groups)
         /\ Len(cells) \in Nat /\ DOMAIN cells = 1 .. Len(cells)
         /\ \A g \in DOMAIN groups : groups[g] \in GroupType
         /\ \A h \in DOMAIN cells : cells[h] \in CellType
<1>1. groups \in Seq(GroupType) /\ cells \in Seq(CellType)
  BY DEF TypeOK
<1>2. QED BY <1>1, LenProperties, ElementOfSeq

\* A task at a step has what that step needs.
LEMMA TaskParts ==
  ASSUME TypeOK, NEW t \in Tasks
  PROVE  /\ tasks[t].at = "walking" => IsWalk(tasks[t])
         /\ tasks[t].at = "registered" => tasks[t] \in Entering
<1>1. tasks[t] \in Waiting => tasks[t].at \in {"idle", "panicked"}
  BY DEF Waiting, Idle, Panicked
<1>2. tasks[t] \in Entering => tasks[t].at = "registered"
  BY DEF Entering
<1>3. IsWalk(tasks[t]) => tasks[t].at = "walking"
  BY DEF IsWalk
<1>4. tasks[t] \in Waiting \cup Entering \/ IsWalk(tasks[t])
  BY DEF TypeOK
<1>5. QED BY <1>1, <1>2, <1>3, <1>4

\* A new metric or label.
LEMMA NewCell ==
  ASSUME TypeOK, NEW g \in DOMAIN groups, NEW n \in Names, NEW kind \in Kinds \cup {"label"},
         cells' = Append(cells, Cell(kind, FqName(g, n))), UNCHANGED groups
  PROVE  /\ Grows
         /\ cells' \in Seq(CellType)
         /\ Len(cells) + 1 \in DOMAIN cells'
         /\ ValueInv => ValueInv'
<1> DEFINE c == Cell(kind, FqName(g, n))
<1>1. c \in CellType
  <2>1. 0 \in Values BY MetricsAssumption DEF Values
  <2>2. QED BY <2>1 DEF Cell, CellType
<1>2. cells \in Seq(CellType) BY DEF TypeOK
<1> HIDE DEF c
<1>3. /\ Append(cells, c) \in Seq(CellType)
      /\ Len(Append(cells, c)) = Len(cells) + 1
  BY <1>1, <1>2, AppendProperties
<1>4. cells' = Append(cells, c) BY DEF c
<1>5. DOMAIN cells' = 1 .. Len(cells) + 1 BY <1>3, <1>4, LenProperties
<1>6. /\ cells'[Len(cells) + 1] = c
      /\ \A h \in 1 .. Len(cells) : cells'[h] = cells[h]
  BY <1>1, <1>2, <1>4, AppendProperties
<1>7. c.value = c.total + 0 * 2^Width
  <2>1. c.value = 0 /\ c.total = 0 BY DEF Cell, c
  <2>2. 2^Width \in Int BY MetricsAssumption
  <2>3. QED BY <2>1, <2>2
<1>8. ASSUME ValueInv, NEW h \in DOMAIN cells'
      PROVE  \E k \in Int : cells'[h].value = cells'[h].total + k * 2^Width
  <2>1. CASE h = Len(cells) + 1 BY <1>6, <1>7, <2>1
  <2>2. CASE h \in DOMAIN cells BY <1>6, <1>8, <2>2, Parts DEF ValueInv
  <2>3. QED BY <1>5, <2>1, <2>2, Parts
<1>9. QED BY <1>3, <1>4, <1>5, <1>8, Parts DEF Grows, ValueInv

\* A new subgroup, under a segment at which there was none.
LEMMA NewGroup ==
  ASSUME TypeOK, NEW t \in Tasks, NEW g \in DOMAIN groups, NEW seg \in Segments,
         Subgroup(t, g, seg)
  PROVE  /\ Grows
         /\ groups' \in Seq(GroupType')
         /\ Len(groups) + 1 \in DOMAIN groups'
         /\ DOMAIN groups' = DOMAIN groups \cup {Len(groups) + 1}
         /\ \A f \in DOMAIN groups : groups'[f].metrics = groups[f].metrics
         /\ \A f \in DOMAIN groups : \A s \in Segments :
              groups[f].children[s] # None => groups'[f].children[s] = groups[f].children[s]
         /\ groups'[Len(groups) + 1].metrics = [ m \in Kinds \X Names |-> None ]
         /\ Len(groups') = Len(groups) + 1
         /\ groups'[Len(groups) + 1].namespace = Append(groups[g].namespace, seg)
         /\ \A s \in Segments : groups'[Len(groups) + 1].children[s] = None
         /\ \A f \in DOMAIN groups : \A s \in Segments : groups'[f].children[s] =
              IF f = g /\ s = seg THEN Len(groups) + 1 ELSE groups[f].children[s]
<1> DEFINE new   == Len(groups) + 1
           T     == [ namespace : Seq(Segments),
                      children  : [ Segments -> (DOMAIN groups \cup {new}) \cup {None} ],
                      metrics   : [ Kinds \X Names -> DOMAIN cells \cup {None} ] ]
           entry == [ groups EXCEPT ![g].children[seg] = new ]
           fresh == Group(Append(groups[g].namespace, seg))
<1>0. groups \in Seq(GroupType) BY DEF TypeOK
<1>1. groups \in Seq(T)
  <2>1. GroupType \subseteq T BY DEF GroupType
  <2>2. QED BY <1>0, <2>1, SeqMonotonic
<1>2. groups[g] \in GroupType /\ g \in 1 .. Len(groups)
  BY Parts
<1>3. [ groups[g] EXCEPT !.children[seg] = new ] \in T
  BY <1>2 DEF GroupType
<1>4. entry = [ groups EXCEPT ![g] = [ groups[g] EXCEPT !.children[seg] = new ] ]
  BY <1>0
<1>5. fresh \in T
  <2>1. Append(groups[g].namespace, seg) \in Seq(Segments)
    BY <1>2, AppendProperties DEF GroupType
  <2>2. QED BY <2>1 DEF Group
<1> DEFINE r == [ groups[g] EXCEPT !.children[seg] = new ]
<1> HIDE DEF r, T, fresh
<1>6. /\ entry \in Seq(T) /\ Len(entry) = Len(groups)
      /\ \A f \in 1 .. Len(groups) : entry[f] = IF f = g THEN r ELSE groups[f]
  BY <1>1, <1>2, <1>3, <1>4, ExceptSeq DEF r
<1>7. groups' = Append(entry, fresh)
  BY DEF Subgroup, fresh
<1> HIDE DEF entry
<1>8. /\ groups' \in Seq(T) /\ Len(groups') = Len(groups) + 1
      /\ \A f \in 1 .. Len(groups) : groups'[f] = IF f = g THEN r ELSE groups[f]
      /\ groups'[Len(groups) + 1] = fresh
  BY <1>5, <1>6, <1>7, AppendProperties
<1>9. DOMAIN groups' = 1 .. Len(groups) + 1 /\ DOMAIN groups = 1 .. Len(groups)
      /\ Len(groups) \in Nat
  BY <1>8, LenProperties, Parts
<1>10. DOMAIN groups' = DOMAIN groups \cup {new}
  BY <1>9
<1>11. cells' = cells /\ groups[g].children[seg] = None
  BY DEF Subgroup
<1>12. T = GroupType'
  BY <1>10, <1>11 DEF T, GroupType
<1>13. \A f \in DOMAIN groups :
         /\ groups'[f].namespace = groups[f].namespace
         /\ groups'[f].metrics = groups[f].metrics
         /\ \A s \in Segments : groups'[f].children[s] =
              IF f = g /\ s = seg THEN new ELSE groups[f].children[s]
  <2>1. SUFFICES ASSUME NEW f \in DOMAIN groups
        PROVE  /\ groups'[f].namespace = groups[f].namespace
               /\ groups'[f].metrics = groups[f].metrics
               /\ \A s \in Segments : groups'[f].children[s] =
                    IF f = g /\ s = seg THEN new ELSE groups[f].children[s]
    OBVIOUS
  <2>2. groups[f] \in GroupType BY Parts
  <2>3. groups'[f] = IF f = g THEN r ELSE groups[f] BY <1>8, <1>9
  <2>4. QED BY <2>2, <2>3, <1>11 DEF r, GroupType
<1>14. QED BY <1>8, <1>9, <1>10, <1>11, <1>12, <1>13 DEF Grows, fresh, Group

\* A metric is entered into its group.
LEMMA Entered ==
  ASSUME TypeOK, NEW t \in Tasks, Insert(t)
  PROVE  /\ Grows
         /\ groups' \in Seq(GroupType')
         /\ DOMAIN groups' = DOMAIN groups
         /\ \A f \in DOMAIN groups : groups'[f].children = groups[f].children
         /\ \A f \in DOMAIN groups : \A m \in Kinds \X Names : groups'[f].metrics[m] =
              IF f = tasks[t].group /\ m = << tasks[t].kind, tasks[t].name >>
              THEN tasks[t].handle ELSE groups[f].metrics[m]
<1> DEFINE g == tasks[t].group
           m == << tasks[t].kind, tasks[t].name >>
           h == tasks[t].handle
           r == [ groups[g] EXCEPT !.metrics = [ groups[g].metrics EXCEPT ![m] = h ] ]
<1>1. g \in DOMAIN groups /\ m \in Kinds \X Names /\ h \in DOMAIN cells
  BY TaskParts DEF Insert, Entering
<1>2. groups' = [ groups EXCEPT ![g].metrics[m] = h ] /\ cells' = cells
  BY DEF Insert
<1> HIDE DEF g, m, h
<1>3. groups \in Seq(GroupType) /\ groups[g] \in GroupType /\ g \in 1 .. Len(groups)
  BY <1>1, Parts DEF TypeOK
<1>4. groups' = [ groups EXCEPT ![g] = r ]
  BY <1>2, <1>3
<1>5. r \in GroupType
  BY <1>1, <1>3 DEF GroupType
<1> HIDE DEF r
<1>6. /\ groups' \in Seq(GroupType) /\ Len(groups') = Len(groups)
      /\ \A f \in 1 .. Len(groups) : groups'[f] = IF f = g THEN r ELSE groups[f]
  BY <1>3, <1>4, <1>5, ExceptSeq
<1>7. DOMAIN groups' = DOMAIN groups
  BY <1>6, LenProperties, Parts
<1>8. GroupType' = GroupType
  BY <1>2, <1>7 DEF GroupType
<1>9. \A f \in DOMAIN groups :
        /\ groups'[f].namespace = groups[f].namespace
        /\ groups'[f].children = groups[f].children
        /\ \A k \in Kinds \X Names : groups'[f].metrics[k] =
             IF f = g /\ k = m THEN h ELSE groups[f].metrics[k]
  <2>1. SUFFICES ASSUME NEW f \in DOMAIN groups
        PROVE  /\ groups'[f].namespace = groups[f].namespace
               /\ groups'[f].children = groups[f].children
               /\ \A k \in Kinds \X Names : groups'[f].metrics[k] =
                    IF f = g /\ k = m THEN h ELSE groups[f].metrics[k]
    OBVIOUS
  <2>2. groups[f] \in GroupType BY Parts
  <2>3. groups'[f] = IF f = g THEN r ELSE groups[f] BY <1>6, Parts
  <2>4. QED BY <2>2, <2>3 DEF r, GroupType
<1>10. QED BY <1>2, <1>6, <1>7, <1>8, <1>9 DEF Grows, g, m, h

\* A value is changed.
LEMMA Changed ==
  ASSUME TypeOK, NEW h \in DOMAIN cells, NEW value \in Values, NEW total \in Int,
         Change(h, value, total)
  PROVE  /\ Grows
         /\ cells' \in Seq(CellType)
         /\ \A i \in DOMAIN cells : cells'[i] =
              IF i = h THEN [ cells[h] EXCEPT !.value = value, !.total = total ] ELSE cells[i]
<1> DEFINE r == [ cells[h] EXCEPT !.value = value, !.total = total ]
<1>1. cells \in Seq(CellType) /\ cells[h] \in CellType /\ h \in 1 .. Len(cells)
  BY Parts DEF TypeOK
<1>2. cells' = [ cells EXCEPT ![h] = r ] /\ groups' = groups
  BY <1>1 DEF Change
<1>3. r \in CellType
  <2> DEFINE N == { FqName(f, n) : f \in DOMAIN groups, n \in Names }
             C == [ kind : Kinds \cup {"label"}, name : N, value : Values, total : Int ]
  <2>1. CellType = C BY DEF CellType
  <2> HIDE DEF N
  <2>2. cells[h] \in C BY <1>1, <2>1
  <2>3. r \in C BY <2>2
  <2>4. QED BY <2>1, <2>3
<1> HIDE DEF r
<1>4. /\ cells' \in Seq(CellType) /\ Len(cells') = Len(cells)
      /\ \A i \in 1 .. Len(cells) : cells'[i] = IF i = h THEN r ELSE cells[i]
  BY <1>1, <1>2, <1>3, ExceptSeq
<1>5. DOMAIN cells' = DOMAIN cells
  BY <1>4, LenProperties, Parts
<1>6. QED BY <1>2, <1>4, <1>5, Parts DEF Grows, r

\* The arithmetic of Width bits: the same number but for a multiple of 2^Width, and
\* one that Width bits hold.
LEMMA WrappedIs ==
  ASSUME NEW x \in Int
  PROVE  Wrapped(x) \in Values /\ \E k \in Int : Wrapped(x) = x + k * 2^Width
<1> DEFINE m == 2^Width
<1>1. m \in Nat /\ m > 0
  BY MetricsAssumption
<1> HIDE DEF m
<1>2. x % m \in 0 .. m - 1
  BY <1>1
<1>3. x = m * (x \div m) + (x % m) /\ x \div m \in Int
  BY <1>1
<1>4. -(x \div m) \in Int /\ x % m = x + (-(x \div m)) * m
  BY <1>1, <1>2, <1>3
<1>5. QED BY <1>2, <1>4 DEF m, Wrapped, Values
-----------------------------------------------------------------------------
(* The registry. *)

LEMMA PutRange ==
  ASSUME NEW f, NEW x, NEW y
  PROVE  Range(Put(f, x, y)) \subseteq Range(f) \cup {y}
BY DEF Range, Put

\* A step that adds to the registry at most, and registers what it makes a task enter,
\* preserves RegisteredInv; FoundInv, if it also enters nothing.
LEMMA RegistryGrows ==
  ASSUME IInv, Grows, TypeOK',
         \A x \in DOMAIN registry : x \in DOMAIN registry' /\ registry'[x] = registry[x],
         \A t \in Tasks : tasks'[t].at = "registered" =>
           \/ tasks'[t] = tasks[t]
           \/ /\ FqName(tasks[t].group, tasks[t].name)' \in DOMAIN registry'
              /\ registry'[FqName(tasks[t].group, tasks[t].name)'] = tasks'[t].handle
  PROVE  RegisteredInv'
<1>1. SUFFICES ASSUME NEW t \in Tasks, tasks'[t].at = "registered"
      PROVE  /\ FqName(tasks[t].group, tasks[t].name)' \in DOMAIN registry'
             /\ registry'[FqName(tasks[t].group, tasks[t].name)'] = tasks'[t].handle
  BY DEF RegisteredInv
<1>2. CASE tasks'[t] = tasks[t]
  <2>1. /\ FqName(tasks[t].group, tasks[t].name) \in DOMAIN registry
        /\ registry[FqName(tasks[t].group, tasks[t].name)] = tasks[t].handle
        /\ tasks[t].group \in DOMAIN groups
    BY <1>1, <1>2, TaskParts DEF IInv, RegisteredInv, Entering
  <2>2. FqName(tasks[t].group, tasks[t].name)' = FqName(tasks[t].group, tasks[t].name)
    BY <1>2, <2>1 DEF Grows, FqName
  <2>3. QED BY <1>2, <2>1, <2>2
<1>3. CASE tasks'[t] # tasks[t]
  BY <1>1, <1>3
<1>4. QED BY <1>2, <1>3
-----------------------------------------------------------------------------
(* The steps preserve it. *)

\* The action of LookupsAreStable: what is found stays what it is.
LookupStep ==
  \A g \in DOMAIN groups :
    /\ \A seg \in Segments : groups[g].children[seg] # None =>
         groups'[g].children[seg] = groups[g].children[seg]
    /\ \A m \in Kinds \X Names : groups[g].metrics[m] # None =>
         groups'[g].metrics[m] = groups[g].metrics[m]

Step == IInv' /\ LookupStep

\* What is of its type stays so when groups and cells are added.
LEMMA StaysTyped ==
  ASSUME TypeOK, Grows
  PROVE  /\ UNCHANGED groups => groups' \in Seq(GroupType')
         /\ UNCHANGED cells => cells' \in Seq(CellType')
         /\ cells' \in Seq(CellType) => cells' \in Seq(CellType')
         /\ Range(registry) \cup Range(labels) \subseteq DOMAIN cells'
         /\ Root \in DOMAIN groups'
         /\ \A t \in Tasks : tasks[t] \in Waiting \cup Entering' \/ IsWalk(tasks[t])
         /\ \A t \in Tasks : IsWalk(tasks[t]) => tasks[t].group \in DOMAIN groups'
<1>1. GroupType \subseteq GroupType' /\ CellType \subseteq CellType' /\ Entering \subseteq Entering'
  BY TypesGrow
<1>2. groups \in Seq(GroupType) /\ cells \in Seq(CellType)
  BY DEF TypeOK
<1>3. groups \in Seq(GroupType') /\ cells \in Seq(CellType')
  BY <1>1, <1>2, SeqMonotonic
<1>4. cells' \in Seq(CellType) => cells' \in Seq(CellType')
  BY <1>1, SeqMonotonic
<1>5. Range(registry) \cup Range(labels) \subseteq DOMAIN cells' /\ Root \in DOMAIN groups'
  BY DEF Grows, TypeOK
<1>6. \A t \in Tasks : tasks[t] \in Waiting \cup Entering' \/ IsWalk(tasks[t])
  BY <1>1 DEF TypeOK
<1>7. \A t \in Tasks : IsWalk(tasks[t]) => tasks[t].group \in DOMAIN groups'
  BY DEF Grows, IsWalk
<1>8. QED BY <1>3, <1>4, <1>5, <1>6, <1>7

\* A task that was well-typed before is so after, when it does nothing.
LEMMA TaskStays ==
  ASSUME TypeOK, Grows, NEW t \in Tasks, tasks'[t] = tasks[t]
  PROVE  tasks'[t] \in Waiting' \cup Entering' \/ IsWalk(tasks[t])'
<1>1. tasks[t] \in Waiting \cup Entering' \/ IsWalk(tasks[t])
  BY StaysTyped
<1>2. IsWalk(tasks[t]) => IsWalk(tasks[t])'
  BY DEF IsWalk, Grows
<1>3. Waiting' = Waiting
  BY DEF Waiting, Idle, Panicked
<1>4. QED BY <1>1, <1>2, <1>3

\* Only what a task is doing changes.
LEMMA TaskStep ==
  ASSUME IInv, UNCHANGED << groups, registry, labels, cells >>,
         NEW t \in Tasks, NEW doing, tasks' = [ tasks EXCEPT ![t] = doing ],
         doing \in Waiting \/ IsWalk(doing)
  PROVE  Step
<1>1. Grows /\ TypeOK
  BY DEF Grows, IInv
<1>2. tasks'[t] = doing /\ \A u \in Tasks : u # t => tasks'[u] = tasks[u]
  BY <1>1 DEF TypeOK
<1>3. doing.at # "registered"
  BY DEF Waiting, Idle, Panicked, IsWalk
<1>4. TypeOK'
  <2>1. tasks' = [ u \in Tasks |-> tasks'[u] ]
    BY <1>1 DEF TypeOK
  <2>2. \A u \in Tasks : tasks'[u] \in Waiting' \cup Entering' \/ IsWalk(tasks[u])'
    <3>1. IsWalk(doing) => IsWalk(tasks[t])'
      BY <1>2 DEF IsWalk
    <3>2. Waiting' = Waiting
      BY DEF Waiting, Idle, Panicked
    <3>3. tasks'[t] \in Waiting' \cup Entering' \/ IsWalk(tasks[t])'
      BY <1>2, <3>1, <3>2
    <3>4. QED BY <1>1, <1>2, <3>3, TaskStays
  <2>3. groups' \in Seq(GroupType') /\ cells' \in Seq(CellType') /\ Root \in DOMAIN groups'
    BY <1>1, StaysTyped
  <2>4. QED BY <1>1, <2>1, <2>2, <2>3 DEF TypeOK
<1>5. RegisteredInv'
  BY <1>1, <1>2, <1>3, <1>4, RegistryGrows
<1>6. FoundInv'
  BY DEF IInv, FoundInv, FqName
<1>7. ValueInv' /\ LookupStep
  BY DEF IInv, ValueInv, LookupStep
<1>8. QED BY <1>4, <1>5, <1>6, <1>7 DEF Step, IInv

\* Only a cell is changed, or labels are.
LEMMA OtherStep ==
  ASSUME IInv, Grows, TypeOK', UNCHANGED << groups, registry, tasks >>, ValueInv'
  PROVE  Step
<1>1. RegisteredInv'
  BY RegistryGrows
<1>2. FoundInv'
  BY DEF IInv, FoundInv, FqName
<1>3. LookupStep
  BY DEF LookupStep
<1>4. QED BY <1>1, <1>2, <1>3 DEF Step, IInv

\* `create_label`.
LEMMA CreateLabelStep ==
  ASSUME IInv, NEW t \in Tasks, NEW g \in DOMAIN groups, NEW n \in Names, CreateLabel(t, g, n)
  PROVE  Step
<1>1. TypeOK /\ ValueInv /\ UNCHANGED << groups, registry, tasks >>
  BY DEF IInv, CreateLabel
<1>2. cells' = Append(cells, Cell("label", FqName(g, n)))
  BY DEF CreateLabel
<1>3. Grows /\ cells' \in Seq(CellType) /\ Len(cells) + 1 \in DOMAIN cells' /\ ValueInv'
  BY <1>1, <1>2, NewCell
<1>4. Range(registry') \cup Range(labels') \subseteq DOMAIN cells'
  BY <1>1, <1>3, StaysTyped, PutRange DEF CreateLabel
<1>5. TypeOK'
  BY <1>1, <1>3, <1>4, StaysTyped, TaskStays DEF TypeOK
<1>6. QED BY <1>1, <1>3, <1>5, OtherStep

\* `subgroup`: what it adds has no metrics yet.
LEMMA SubgroupStep ==
  ASSUME IInv, NEW t \in Tasks, NEW g \in DOMAIN groups, NEW seg \in Segments,
         Subgroup(t, g, seg)
  PROVE  Step
<1>1. TypeOK /\ UNCHANGED << registry, labels, cells, tasks >>
  BY DEF IInv, Subgroup
<1> DEFINE new == Len(groups) + 1
<1>2. /\ Grows /\ groups' \in Seq(GroupType')
      /\ DOMAIN groups' = DOMAIN groups \cup {new}
      /\ \A f \in DOMAIN groups : groups'[f].metrics = groups[f].metrics
      /\ \A f \in DOMAIN groups : \A s \in Segments :
           groups[f].children[s] # None => groups'[f].children[s] = groups[f].children[s]
      /\ groups'[new].metrics = [ m \in Kinds \X Names |-> None ]
  BY <1>1, NewGroup
<1> HIDE DEF new
<1>3. TypeOK'
  BY <1>1, <1>2, StaysTyped, TaskStays DEF TypeOK
<1>4. RegisteredInv'
  BY <1>1, <1>2, <1>3, RegistryGrows
<1>5. FoundInv'
  <2>1. SUFFICES ASSUME NEW f \in DOMAIN groups', NEW kind \in Kinds, NEW n \in Names,
                        groups'[f].metrics[<< kind, n >>] # None
        PROVE  /\ FqName(f, n)' \in DOMAIN registry
               /\ registry[FqName(f, n)'] = groups'[f].metrics[<< kind, n >>]
    BY <1>1 DEF FoundInv
  <2>2. f \in DOMAIN groups
    BY <1>2, <2>1
  <2>3. FqName(f, n)' = FqName(f, n)
    BY <1>2, <2>2, NamesStay
  <2>4. QED BY <1>2, <2>1, <2>2, <2>3 DEF IInv, FoundInv
<1>6. ValueInv'
  BY <1>1 DEF IInv, ValueInv
<1>7. LookupStep
  BY <1>2 DEF LookupStep
<1>8. QED BY <1>3, <1>4, <1>5, <1>6, <1>7 DEF Step, IInv

\* `create_counter`, `create_gauge` and `create_histogram`, up to the registry: a name
\* that is taken keeps its metric.
LEMMA RegisterStep ==
  ASSUME IInv, NEW t \in Tasks, NEW g \in DOMAIN groups, NEW kind \in Kinds, NEW n \in Names,
         Register(t, g, kind, n)
  PROVE  Step
<1> DEFINE x == FqName(g, n)
           h == Len(cells) + 1
           doing == [ at |-> "registered", group |-> g, kind |-> kind, name |-> n, handle |-> h ]
<1>1. CASE x \in DOMAIN registry
  BY <1>1, TaskStep DEF Register, Waiting
<1>2. CASE x \notin DOMAIN registry
  <2>1. /\ TypeOK /\ ValueInv /\ UNCHANGED << groups, labels >>
        /\ cells' = Append(cells, Cell(kind, x))
        /\ registry' = Put(registry, x, h)
        /\ tasks' = [ tasks EXCEPT ![t] = doing ]
    BY <1>2 DEF IInv, Register
  <2>2. Grows /\ cells' \in Seq(CellType) /\ h \in DOMAIN cells' /\ ValueInv'
    BY <2>1, NewCell
  <2>3. Range(registry') \cup Range(labels') \subseteq DOMAIN cells'
    BY <2>1, <2>2, StaysTyped, PutRange
  <2>4. tasks'[t] = doing /\ \A u \in Tasks : u # t => tasks'[u] = tasks[u]
    BY <2>1 DEF TypeOK
  <2>5. TypeOK'
    <3>1. tasks' = [ u \in Tasks |-> tasks'[u] ]
      BY <2>1 DEF TypeOK
    <3>2. doing \in Entering'
      BY <2>1, <2>2 DEF Entering
    <3>3. \A u \in Tasks : tasks'[u] \in Waiting' \cup Entering' \/ IsWalk(tasks[u])'
      BY <2>1, <2>2, <2>4, <3>2, TaskStays
    <3>4. groups' \in Seq(GroupType') /\ cells' \in Seq(CellType') /\ Root \in DOMAIN groups'
      BY <2>1, <2>2, StaysTyped
    <3>5. QED BY <2>3, <3>1, <3>3, <3>4 DEF TypeOK
  <2>6. /\ \A y \in DOMAIN registry : y \in DOMAIN registry' /\ registry'[y] = registry[y]
        /\ x \in DOMAIN registry' /\ registry'[x] = h
    BY <1>2, <2>1 DEF Put
  <2>7. FqName(tasks[t].group, tasks[t].name)' = x
    BY <2>1, <2>4 DEF FqName
  <2>8. RegisteredInv'
    BY <2>2, <2>4, <2>5, <2>6, <2>7, RegistryGrows
  <2>9. FoundInv'
    BY <2>1, <2>2, <2>6, NamesStay DEF IInv, FoundInv
  <2>10. LookupStep
    BY <2>1 DEF LookupStep
  <2>11. QED BY <2>2, <2>5, <2>8, <2>9, <2>10 DEF Step, IInv
<1>3. QED BY <1>1, <1>2

\* Their second half: what is entered is what is registered under the name, so it
\* takes the place of nothing else.
LEMMA InsertStep ==
  ASSUME IInv, NEW t \in Tasks, Insert(t)
  PROVE  Step
<1> DEFINE g == tasks[t].group
           m == << tasks[t].kind, tasks[t].name >>
           h == tasks[t].handle
<1>1. TypeOK /\ UNCHANGED << registry, labels, cells >> /\ tasks' = [ tasks EXCEPT ![t] = Idle ]
  BY DEF IInv, Insert
<1>2. /\ Grows /\ groups' \in Seq(GroupType') /\ DOMAIN groups' = DOMAIN groups
      /\ \A f \in DOMAIN groups : groups'[f].children = groups[f].children
      /\ \A f \in DOMAIN groups : \A k \in Kinds \X Names :
           groups'[f].metrics[k] = IF f = g /\ k = m THEN h ELSE groups[f].metrics[k]
  BY <1>1, Entered
<1>3. /\ g \in DOMAIN groups /\ tasks[t].kind \in Kinds /\ tasks[t].name \in Names
      /\ FqName(g, tasks[t].name) \in DOMAIN registry
      /\ registry[FqName(g, tasks[t].name)] = h
  BY <1>1, TaskParts DEF Insert, Entering, IInv, RegisteredInv
<1>4. tasks'[t] = Idle /\ \A u \in Tasks : u # t => tasks'[u] = tasks[u]
  BY <1>1 DEF TypeOK
<1>5. TypeOK'
  <2>1. tasks' = [ u \in Tasks |-> tasks'[u] ]
    BY <1>1 DEF TypeOK
  <2>2. tasks'[t] \in Waiting'
    BY <1>4 DEF Waiting, Idle, Panicked
  <2>3. \A u \in Tasks : tasks'[u] \in Waiting' \cup Entering' \/ IsWalk(tasks[u])'
    BY <1>1, <1>2, <1>4, <2>2, TaskStays
  <2>4. QED BY <1>1, <1>2, <2>1, <2>3, StaysTyped DEF TypeOK
<1>6. RegisteredInv'
  <2>1. \A u \in Tasks : tasks'[u].at = "registered" => tasks'[u] = tasks[u]
    BY <1>4 DEF Idle
  <2>2. QED BY <1>1, <1>2, <1>5, <2>1, RegistryGrows
<1> HIDE DEF h
<1>7. \A f \in DOMAIN groups : \A kind \in Kinds : \A n \in Names :
        f = g /\ << kind, n >> = m =>
          FqName(f, n) \in DOMAIN registry /\ registry[FqName(f, n)] = h
  BY <1>3
<1> HIDE DEF g, m
<1>8. FoundInv'
  <2>1. SUFFICES ASSUME NEW f \in DOMAIN groups, NEW kind \in Kinds, NEW n \in Names,
                        groups'[f].metrics[<< kind, n >>] # None
        PROVE  /\ FqName(f, n) \in DOMAIN registry
               /\ registry[FqName(f, n)] = groups'[f].metrics[<< kind, n >>]
    BY <1>1, <1>2, NamesStay DEF FoundInv
  <2>2. << kind, n >> \in Kinds \X Names
    OBVIOUS
  <2>3. CASE f = g /\ << kind, n >> = m
    BY <1>2, <1>7, <2>2, <2>3
  <2>4. CASE ~ (f = g /\ << kind, n >> = m)
    BY <1>2, <2>1, <2>2, <2>4 DEF IInv, FoundInv
  <2>5. QED BY <2>3, <2>4
<1>9. LookupStep
  <2>1. SUFFICES ASSUME NEW f \in DOMAIN groups, NEW kind \in Kinds, NEW n \in Names,
                        groups[f].metrics[<< kind, n >>] # None
        PROVE  groups'[f].metrics[<< kind, n >>] = groups[f].metrics[<< kind, n >>]
    BY <1>2 DEF LookupStep
  <2>2. << kind, n >> \in Kinds \X Names
    OBVIOUS
  <2>3. CASE f = g /\ << kind, n >> = m
    BY <1>2, <1>7, <2>1, <2>2, <2>3 DEF IInv, FoundInv
  <2>4. CASE ~ (f = g /\ << kind, n >> = m)
    BY <1>2, <2>2, <2>4
  <2>5. QED BY <2>3, <2>4
<1>10. ValueInv'
  BY <1>1 DEF IInv, ValueInv
<1>11. QED BY <1>5, <1>6, <1>8, <1>9, <1>10 DEF Step, IInv

\* A walk that goes on is a walk of the rest of the path.
LEMMA LongerTail ==
  ASSUME NEW p \in Seq(Segments) \ { << >> }, Len(p) # 1
  PROVE  Tail(p) \in Seq(Segments) \ { << >> }
<1>1. Tail(p) \in Seq(Segments) /\ Len(Tail(p)) = Len(p) - 1 /\ Len(p) \in Nat
  BY HeadTailProperties, LenProperties
<1>2. Len(Tail(p)) # 0
  BY <1>1
<1> DEFINE q == Tail(p)
<1>3. q \in Seq(Segments) /\ Len(q) # 0
  BY <1>1, <1>2
<1> HIDE DEF q
<1>4. q # << >>
  BY <1>3, EmptySeq
<1>5. QED BY <1>3, <1>4 DEF q

LEMMA WalksOn ==
  ASSUME NEW task, IsWalk(task), NEW next \in DOMAIN groups,
         NEW path \in Seq(Segments) \ { << >> }
  PROVE  IsWalk([ task EXCEPT !.group = next, !.path = path ])
<1>1. PICK g, p, f : task = [ at |-> "walking", group |-> g, path |-> p, found |-> f ]
  BY DEF IsWalk
<1> DEFINE on == [ task EXCEPT !.group = next, !.path = path ]
           Walking == [ at : {"walking"}, group : {g, next}, path : {p, path}, found : {f} ]
<1>2. task \in Walking
  BY <1>1
<1>3. on \in Walking /\ on.group = next /\ on.path = path
  BY <1>2
<1> HIDE DEF on
<1>4. on = [ at |-> "walking", group |-> on.group, path |-> on.path, found |-> on.found ]
  BY <1>3
<1>5. QED BY <1>3, <1>4 DEF IsWalk, on

\* A walk of `get_subgroup`, and a panic in an update.
LEMMA WalkStep ==
  ASSUME IInv, NEW t \in Tasks,
         (\E path \in Paths : StartWalk(t, path)) \/ Walk(t)
           \/ \E h \in DOMAIN cells : UpdateOverflows(t, h)
  PROVE  Step
<1>0. TypeOK
  BY DEF IInv
<1>1. ASSUME NEW path \in Paths, StartWalk(t, path) PROVE Step
  <2> DEFINE found == Resolve(Root, path)
             doing == [ at |-> "walking", group |-> Root, path |-> path, found |-> found ]
  <2>1. path \in Seq(Segments) /\ path # << >>
    <3>1. PICK n \in 1 .. MaxGroups - 1 : path \in [ 1 .. n -> Segments ]
      BY DEF Paths
    <3>2. path \in Seq(Segments)
      BY <3>1, SeqDef
    <3>3. 1 \in DOMAIN path
      BY <3>1
    <3>4. QED BY <3>2, <3>3
  <2>2. Root \in DOMAIN groups
    BY <1>0 DEF TypeOK
  <2>3. tasks' = [ tasks EXCEPT ![t] = doing ] /\ UNCHANGED << groups, registry, labels, cells >>
    BY <1>1 DEF StartWalk
  <2> HIDE DEF found
  <2>4. IsWalk(doing)
    BY <2>1, <2>2 DEF IsWalk
  <2>5. QED BY <2>3, <2>4, TaskStep
<1>2. ASSUME Walk(t) PROVE Step
  <2> DEFINE task == tasks[t]
             next == groups[task.group].children[Head(task.path)]
             on   == [ task EXCEPT !.group = next, !.path = Tail(@) ]
  <2>1. /\ UNCHANGED << groups, registry, labels, cells >>
        /\ tasks' = [ tasks EXCEPT ![t] = IF next = None \/ Len(task.path) = 1 THEN Idle ELSE on ]
    BY <1>0, <1>2 DEF Walk, TypeOK
  <2>2. IsWalk(task)
    BY <1>0, <1>2, TaskParts DEF Walk
  <2>3. CASE next = None \/ Len(task.path) = 1
    BY <2>1, <2>3, TaskStep DEF Waiting
  <2>4. CASE ~ (next = None \/ Len(task.path) = 1)
    <3>1. Head(task.path) \in Segments /\ Tail(task.path) \in Seq(Segments) \ { << >> }
      BY <2>2, <2>4, HeadTailProperties, LongerTail DEF IsWalk
    <3>2. next \in DOMAIN groups
      BY <1>0, <2>2, <2>4, <3>1, Parts DEF IsWalk, GroupType
    <3> HIDE DEF next
    <3>3. IsWalk(on)
      BY <2>2, <3>1, <3>2, WalksOn
    <3>4. QED BY <2>1, <2>4, <3>3, TaskStep
  <2>5. QED BY <2>3, <2>4
<1>3. ASSUME NEW h \in DOMAIN cells, UpdateOverflows(t, h) PROVE Step
  BY <1>3, TaskStep DEF UpdateOverflows, Waiting
<1>4. QED BY <1>1, <1>2, <1>3

\* An update whose value, in Width bits, is the sum of its updates but for a multiple
\* of 2^Width.
LEMMA ChangeStep ==
  ASSUME IInv, NEW h \in DOMAIN cells, NEW value \in Values, NEW total \in Int,
         Change(h, value, total), \E k \in Int : value = total + k * 2^Width
  PROVE  Step
<1> DEFINE r == [ cells[h] EXCEPT !.value = value, !.total = total ]
<1>1. TypeOK /\ UNCHANGED << groups, registry, labels, tasks >>
  BY DEF IInv, Change
<1>2. /\ Grows /\ cells' \in Seq(CellType)
      /\ \A i \in DOMAIN cells : cells'[i] = IF i = h THEN r ELSE cells[i]
      /\ DOMAIN cells' = DOMAIN cells
  <2>1. DOMAIN cells' = DOMAIN cells
    BY <1>1 DEF Change, TypeOK
  <2>2. QED BY <1>1, <2>1, Changed
<1>3. r.value = value /\ r.total = total
  <2>1. cells[h] \in CellType BY <1>1, Parts
  <2>2. QED BY <2>1 DEF CellType
<1> HIDE DEF r
<1>4. ValueInv'
  BY <1>2, <1>3 DEF IInv, ValueInv
<1>5. TypeOK'
  BY <1>1, <1>2, StaysTyped, TaskStays DEF TypeOK
<1>6. QED BY <1>1, <1>2, <1>4, <1>5, OtherStep

\* `Counter::add`, `Gauge::set` and `Gauge::update`.
LEMMA UpdateStep ==
  ASSUME IInv, NEW h \in DOMAIN cells,
         \/ \E amount \in Amounts : Add(h, amount) \/ SetGauge(h, amount)
         \/ \E delta \in Deltas : UpdateGauge(h, delta)
  PROVE  Step
<1> DEFINE v == cells[h].value
           s == cells[h].total
           m == 2^Width
<1>1. v \in Int /\ s \in Int /\ m \in Int
  <2>1. cells[h] \in CellType BY Parts DEF IInv
  <2>2. 2^Width \in Nat BY MetricsAssumption
  <2>3. QED BY <2>1, <2>2 DEF CellType, Values
<1>2. PICK k \in Int : v = s + k * m
  BY DEF IInv, ValueInv
<1>3. Amounts \subseteq Values /\ Amounts \subseteq Int
  <2>1. 2^Width \in Nat BY MetricsAssumption
  <2>2. QED BY <2>1, MetricsAssumption DEF Values
<1> HIDE DEF v, s, m
<1>4. ASSUME NEW x \in Int
      PROVE  \E j \in Int : Wrapped(v + x) = (s + x) + j * m
  <2>1. PICK i \in Int : Wrapped(v + x) = v + x + i * m
    BY <1>1, WrappedIs DEF m
  <2>2. v + x + i * m = (s + x) + (k + i) * m
    BY <1>1, <1>2
  <2>3. QED BY <2>1, <2>2
<1>5. ASSUME NEW amount \in Amounts, Add(h, amount) PROVE Step
  <2>1. Change(h, Wrapped(v + amount), s + amount)
    BY <1>5 DEF Add, v, s
  <2>2. Wrapped(v + amount) \in Values /\ s + amount \in Int
    BY <1>1, <1>3, WrappedIs
  <2>3. \E j \in Int : Wrapped(v + amount) = s + amount + j * m
    BY <1>3, <1>4
  <2>4. QED BY <2>1, <2>2, <2>3, ChangeStep DEF m
<1>6. ASSUME NEW amount \in Amounts, SetGauge(h, amount) PROVE Step
  <2>1. Change(h, amount, amount)
    BY <1>6 DEF SetGauge
  <2>2. amount \in Int /\ amount = amount + 0 * m
    BY <1>1, <1>3
  <2>3. QED BY <1>3, <2>1, <2>2, ChangeStep DEF m
<1>7. ASSUME NEW delta \in Deltas, UpdateGauge(h, delta) PROVE Step
  <2> DEFINE new == IF delta >= 0 THEN Wrapped(v + delta) ELSE Wrapped(v - Wrapped(-delta))
  <2>1. Change(h, new, s + delta)
    BY <1>7 DEF UpdateGauge, v, s
  <2>2. delta \in Int
    BY MetricsAssumption
  <2>3. CASE delta >= 0
    <3>1. new = Wrapped(v + delta) /\ v + delta \in Int
      BY <1>1, <2>2, <2>3
    <3> HIDE DEF new
    <3>2. new \in Values /\ \E j \in Int : new = s + delta + j * m
      BY <3>1, <1>4, <2>2, WrappedIs
    <3>3. QED BY <1>1, <2>1, <2>2, <3>2, ChangeStep DEF m
  <2>4. CASE ~ (delta >= 0)
    <3> DEFINE w == Wrapped(-delta)
    <3>1. w \in Values /\ \E i \in Int : w = -delta + i * m
      BY <2>2, WrappedIs DEF m
    <3>2. w \in Int
      BY <1>1, <3>1 DEF Values, m
    <3>3. PICK i \in Int : w = -delta + i * m
      BY <3>1
    <3> HIDE DEF w
    <3>4. PICK j \in Int : Wrapped(v + (-w)) = s + (-w) + j * m
      BY <1>4, <3>2
    <3>5. s + (-w) + j * m = s + delta + (j - i) * m
      BY <1>1, <2>2, <3>2, <3>3
    <3>6. new = Wrapped(v + (-w)) /\ v + (-w) \in Int
      BY <1>1, <2>4, <3>2 DEF w
    <3>7. new \in Values /\ new = s + delta + (j - i) * m /\ j - i \in Int
      BY <3>4, <3>5, <3>6, WrappedIs
    <3> HIDE DEF new
    <3>8. QED BY <1>1, <2>1, <2>2, <3>7, ChangeStep DEF m
  <2>5. QED BY <2>3, <2>4
<1>8. QED BY <1>5, <1>6, <1>7
-----------------------------------------------------------------------------
(* Recursion along a sequence. *)

\* A set of naturals that has 0 and with each number below n its successor has all
\* numbers up to n.
LEMMA Induction ==
  ASSUME NEW n \in Nat, NEW S, 0 \in S, \A k \in 0 .. n - 1 : k \in S => k + 1 \in S
  PROVE  \A k \in 0 .. n : k \in S
<1> DEFINE Bad == { k \in 0 .. n : k \notin S }
           R   == OpToRel(<, Nat)
<1>1. SUFFICES ASSUME Bad # {} PROVE FALSE
  OBVIOUS
<1>2. IsWellFoundedOn(R, Nat)
  BY NatLessThanWellFounded
<1>3. Bad \subseteq Nat
  OBVIOUS
<1>4. \E k \in Bad : \A j \in Bad : ~ << j, k >> \in R
  <2> HIDE DEF R, Bad
  <2>1. QED BY <1>1, <1>2, <1>3, WFMin
<1>5. PICK k \in Bad : \A j \in Bad : ~ << j, k >> \in R
  BY <1>4
<1>6. k # 0 /\ k \in 1 .. n
  OBVIOUS
<1>7. k - 1 \in 0 .. n - 1 /\ (k - 1) + 1 = k
  BY <1>6
<1>8. k - 1 \in Bad
  BY <1>7
<1>9. << k - 1, k >> \in R
  BY <1>6, <1>7 DEF OpToRel
<1>10. QED BY <1>5, <1>8, <1>9

\* The functions on 0 .. n that begin with `base` and go on by a step.
WaySteps(n, T) == [ (1 .. n) \X T -> T ]

Ways(n, T, base, step) ==
  { f \in [ 0 .. n -> T ] : f[0] = base /\ \A i \in 1 .. n : f[i] = step[<< i, f[i - 1] >>] }

\* There is one, for every step within a set.
LEMMA WayExists ==
  ASSUME NEW T, NEW base \in T, NEW n \in Nat, NEW step \in WaySteps(n, T)
  PROVE  Ways(n, T, base, step) # {}
<1> DEFINE Is(f, k) == f[0] = base /\ \A i \in 1 .. k : f[i] = step[<< i, f[i - 1] >>]
           Good == { k \in 0 .. n : \E f \in [ 0 .. k -> T ] : Is(f, k) }
<1>0. step \in [ (1 .. n) \X T -> T ]
  BY DEF WaySteps
<1>1. 0 \in Good
  <2> DEFINE f == [ i \in 0 .. 0 |-> base ]
  <2>1. f \in [ 0 .. 0 -> T ] /\ f[0] = base /\ 0 \in 0 .. n
    OBVIOUS
  <2> HIDE DEF f
  <2>2. Is(f, 0)
    BY <2>1
  <2>3. QED BY <2>1, <2>2
<1>2. ASSUME NEW k \in 0 .. n - 1, k \in Good PROVE k + 1 \in Good
  <2>1. PICK f \in [ 0 .. k -> T ] : Is(f, k)
    BY <1>2
  <2> DEFINE next == step[<< k + 1, f[k] >>]
             on   == [ i \in 0 .. k + 1 |-> IF i = k + 1 THEN next ELSE f[i] ]
  <2>2. k + 1 \in 1 .. n /\ k \in 0 .. k /\ k + 1 \in 0 .. n
    OBVIOUS
  <2>3. next \in T
    BY <1>0, <2>2
  <2> HIDE DEF next
  <2>4. on \in [ 0 .. k + 1 -> T ]
    BY <2>3
  <2>5. on[k + 1] = next /\ \A i \in 0 .. k : on[i] = f[i]
    BY <2>2
  <2> HIDE DEF on
  <2>6. on[0] = base
    BY <2>1, <2>5
  <2>7. ASSUME NEW i \in 1 .. k + 1 PROVE on[i] = step[<< i, on[i - 1] >>]
    <3>1. CASE i = k + 1
      <4>1. i - 1 = k BY <3>1
      <4>2. on[i - 1] = f[k] BY <2>2, <2>5, <4>1
      <4>3. QED BY <2>5, <3>1, <4>2 DEF next
    <3>2. CASE i # k + 1
      <4>1. i \in 1 .. k /\ i \in 0 .. k /\ i - 1 \in 0 .. k BY <3>2
      <4>2. QED BY <2>1, <2>5, <4>1
    <3>3. QED BY <3>1, <3>2
  <2>8. QED BY <2>2, <2>4, <2>6, <2>7
<1> HIDE DEF Good
<1>3. \A k \in 0 .. n : k \in Good
  BY <1>1, <1>2, Induction
<1>4. n \in Good
  BY <1>3
<1>5. QED BY <1>4 DEF Good, Ways

\* And only one.
LEMMA WaysAgree ==
  ASSUME NEW T, NEW base \in T, NEW n \in Nat, NEW step \in WaySteps(n, T),
         NEW e \in Ways(n, T, base, step), NEW f \in Ways(n, T, base, step)
  PROVE  e[n] = f[n]
<1> DEFINE S == { k \in 0 .. n : e[k] = f[k] }
<1>1. 0 \in S
  BY DEF Ways
<1>2. ASSUME NEW k \in 0 .. n - 1, k \in S PROVE k + 1 \in S
  <2>1. k + 1 \in 1 .. n /\ k + 1 \in 0 .. n /\ (k + 1) - 1 = k
    OBVIOUS
  <2>2. e[k + 1] = step[<< k + 1, e[k] >>] /\ f[k + 1] = step[<< k + 1, f[k] >>]
    BY <2>1 DEF Ways
  <2>3. QED BY <1>2, <2>1, <2>2
<1> HIDE DEF S
<1>3. \A k \in 0 .. n : k \in S
  BY <1>1, <1>2, Induction
<1>4. n \in S
  BY <1>3
<1>5. QED BY <1>4 DEF S
-----------------------------------------------------------------------------
(* Joining names. *)

\* The words that names are made of.
AllWords == UNION { Range(n) : n \in Segments \cup Names }

LEMMA NameWords ==
  /\ \A n \in Segments \cup Names : n \in Seq(AllWords)
  /\ \A path \in Seq(Segments) : path \in Seq(Seq(AllWords))
<1>1. ASSUME NEW n \in Segments \cup Names PROVE n \in Seq(AllWords)
  <2>1. n \in Seq(Range(n)) BY MetricsAssumption
  <2>2. Range(n) \subseteq AllWords BY DEF AllWords
  <2>3. QED BY <2>1, <2>2, SeqMonotonic
<1>2. Segments \subseteq Seq(AllWords)
  BY <1>1
<1>3. ASSUME NEW path \in Seq(Segments) PROVE path \in Seq(Seq(AllWords))
  BY <1>2, SeqMonotonic
<1>4. QED BY <1>1, <1>3

\* What the first names join to, one after the other.
Joins(names, W) ==
  { f \in [ 0 .. Len(names) -> Seq(W) ] :
      f[0] = << >> /\ \A i \in 1 .. Len(names) : f[i] = f[i - 1] \o names[i] }

LEMMA JoinsExist ==
  ASSUME NEW W, NEW names \in Seq(Seq(W))
  PROVE  Joins(names, W) # {}
<1> DEFINE n == Len(names)
           T == Seq(W)
           step == [ x \in (1 .. n) \X T |-> x[2] \o names[x[1]] ]
<1>1. n \in Nat /\ \A i \in 1 .. n : names[i] \in T
  BY LenProperties, ElementOfSeq
<1>2. << >> \in T
  BY EmptySeq
<1>3. step \in WaySteps(n, T)
  <2>1. ASSUME NEW x \in (1 .. n) \X T PROVE x[2] \o names[x[1]] \in T
    <3>1. x[2] \in T /\ names[x[1]] \in T BY <1>1
    <3>2. QED BY <3>1, ConcatProperties
  <2>2. QED BY <2>1 DEF WaySteps
<1>4. \A i \in 1 .. n : \A s \in T : step[<< i, s >>] = s \o names[i]
  OBVIOUS
<1> HIDE DEF step, T
<1>5. PICK f : f \in Ways(n, T, << >>, step)
  BY <1>1, <1>2, <1>3, WayExists
<1>6. f \in [ 0 .. n -> T ] /\ f[0] = << >>
  BY <1>5 DEF Ways
<1>7. ASSUME NEW i \in 1 .. n PROVE f[i] = f[i - 1] \o names[i]
  <2>1. i - 1 \in 0 .. n BY <1>1
  <2>2. f[i - 1] \in T BY <1>6, <2>1
  <2>3. f[i] = step[<< i, f[i - 1] >>] BY <1>5 DEF Ways
  <2>4. QED BY <1>4, <2>2, <2>3
<1>8. f \in Joins(names, W)
  BY <1>6, <1>7 DEF Joins, T
<1>9. QED BY <1>8

\* `Words` is the last of them.
LEMMA WordsAre ==
  ASSUME NEW W, NEW names \in Seq(Seq(W)), NEW f \in Joins(names, W)
  PROVE  Words(names) = f[Len(names)]
<1> DEFINE n == Len(names)
           Loop(g) == g = [ i \in 1 .. n |-> IF i = 1 THEN names[i] ELSE g[i - 1] \o names[i] ]
           closed  == [ i \in 1 .. n |-> f[i] ]
           flatten == CHOOSE g : Loop(g)
<1>1. n \in Nat /\ \A i \in 1 .. n : names[i] \in Seq(W)
  BY LenProperties, ElementOfSeq
<1>2. /\ f \in [ 0 .. n -> Seq(W) ] /\ f[0] = << >>
      /\ \A i \in 1 .. n : f[i] = f[i - 1] \o names[i]
  BY DEF Joins
<1>3. Words(names) = IF n = 0 THEN names ELSE flatten[n]
  BY DEF Words, FlattenSeq
<1>4. CASE n = 0
  <2>1. names = << >>
    BY <1>4, EmptySeq
  <2>2. QED BY <1>2, <1>3, <1>4, <2>1
<1>5. CASE n # 0
  <2> HIDE DEF n
  <2>1. n \in 1 .. n /\ 1 \in 1 .. n
    BY <1>1, <1>5
  <2>2. f[1] = names[1]
    <3>1. f[1] = << >> \o names[1]
      <4>1. 1 - 1 = 0 /\ 1 \in 1 .. n BY <2>1
      <4>2. f[1] = f[1 - 1] \o names[1] BY <1>2, <2>1
      <4>3. QED BY <1>2, <4>1, <4>2
    <3>2. QED BY <1>1, <2>1, <3>1, ConcatEmptySeq
  <2>3. ASSUME NEW i \in 1 .. n
        PROVE  closed[i] = IF i = 1 THEN names[i] ELSE closed[i - 1] \o names[i]
    <3>1. CASE i = 1
      BY <2>2, <3>1
    <3>2. CASE i # 1
      <4>1. i - 1 \in 1 .. n
        BY <1>1, <3>2
      <4>2. closed[i - 1] = f[i - 1] /\ closed[i] = f[i]
        BY <4>1
      <4>3. QED BY <1>2, <3>2, <4>2
    <3>3. QED BY <3>1, <3>2
  <2>4. Loop(closed)
    BY <2>3
  <2> HIDE DEF closed
  <2>5. Loop(flatten)
    BY <2>4, Zenon
  <2> HIDE DEF flatten
  <2>6. \A i \in 1 .. n : flatten[i] = IF i = 1 THEN names[i] ELSE flatten[i - 1] \o names[i]
    BY <2>5, Zenon
  <2> DEFINE S == { k \in 0 .. n - 1 : flatten[k + 1] = f[k + 1] }
  <2>7. n - 1 \in Nat /\ 0 \in 0 .. n - 1 /\ n - 1 \in 0 .. n - 1
    BY <1>1, <1>5
  <2>8. 0 \in S
    <3>1. flatten[0 + 1] = names[1] BY <2>1, <2>6
    <3>2. QED BY <2>2, <2>7, <3>1
  <2>9. ASSUME NEW k \in 0 .. (n - 1) - 1, k \in S PROVE k + 1 \in S
    <3>1. (k + 1) + 1 \in 1 .. n /\ (k + 1) + 1 # 1 /\ ((k + 1) + 1) - 1 = k + 1 /\ k + 1 \in 0 .. n - 1
      BY <1>1
    <3>2. flatten[(k + 1) + 1] = flatten[k + 1] \o names[(k + 1) + 1]
      BY <2>6, <3>1
    <3>3. f[(k + 1) + 1] = f[k + 1] \o names[(k + 1) + 1]
      BY <1>2, <3>1 DEF n
    <3>4. QED BY <2>9, <3>1, <3>2, <3>3
  <2> HIDE DEF S
  <2>10. n - 1 \in S
    <3>1. \A k \in 0 .. n - 1 : k \in S BY <2>7, <2>8, <2>9, Induction
    <3>2. QED BY <2>7, <3>1
  <2>11. flatten[n] = f[n]
    <3>1. (n - 1) + 1 = n BY <1>1
    <3>2. QED BY <2>10, <3>1 DEF S
  <2>12. QED BY <1>3, <1>5, <2>11 DEF n
<1>6. QED BY <1>4, <1>5

\* A name more is its words more.
LEMMA WordsAppend ==
  ASSUME NEW W, NEW names \in Seq(Seq(W)), NEW n \in Seq(W)
  PROVE  Words(names) \in Seq(W) /\ Words(Append(names, n)) = Words(names) \o n
<1> DEFINE len  == Len(names)
           more == Append(names, n)
<1>1. PICK f : f \in Joins(names, W)
  BY JoinsExist
<1>2. /\ len \in Nat /\ f \in [ 0 .. len -> Seq(W) ] /\ f[0] = << >>
      /\ \A i \in 1 .. len : f[i] = f[i - 1] \o names[i]
  BY <1>1, LenProperties DEF Joins
<1>3. Words(names) = f[len] /\ f[len] \in Seq(W)
  BY <1>1, <1>2, WordsAre
<1>4. more \in Seq(Seq(W)) /\ Len(more) = len + 1 /\ more[len + 1] = n
      /\ \A i \in 1 .. len : more[i] = names[i]
  BY AppendProperties
<1> DEFINE last == f[len] \o n
           on   == [ i \in 0 .. len + 1 |-> IF i = len + 1 THEN last ELSE f[i] ]
<1> HIDE DEF more, len
<1>5. last \in Seq(W)
  BY <1>3, ConcatProperties
<1> HIDE DEF last
<1>6. on \in [ 0 .. len + 1 -> Seq(W) ] /\ on[len + 1] = last /\ \A i \in 0 .. len : on[i] = f[i]
  BY <1>2, <1>5
<1> HIDE DEF on
<1>7. ASSUME NEW i \in 1 .. len + 1 PROVE on[i] = on[i - 1] \o more[i]
  <2>1. CASE i = len + 1
    <3>1. i - 1 = len /\ len \in 0 .. len BY <1>2, <2>1
    <3>2. on[i - 1] = f[len] BY <1>6, <3>1
    <3>3. QED BY <1>4, <1>6, <2>1, <3>2 DEF last
  <2>2. CASE i # len + 1
    <3>1. i \in 1 .. len /\ i \in 0 .. len /\ i - 1 \in 0 .. len BY <1>2, <2>2
    <3>2. on[i] = f[i] /\ on[i - 1] = f[i - 1] BY <1>6, <3>1
    <3>3. QED BY <1>2, <1>4, <3>1, <3>2
  <2>3. QED BY <2>1, <2>2
<1>8. on[0] = << >>
  BY <1>2, <1>6
<1>9. on \in Joins(more, W)
  BY <1>4, <1>6, <1>7, <1>8 DEF Joins
<1>10. Words(more) = on[len + 1]
  BY <1>4, <1>9, WordsAre
<1>11. QED BY <1>3, <1>6, <1>10 DEF more, last

\* The words of a name, one by one.
Singles(s) == [ i \in DOMAIN s |-> << s[i] >> ]

LEMMA WordsSingles ==
  ASSUME NEW W, NEW s \in Seq(W)
  PROVE  Singles(s) \in Seq(Seq(W)) /\ Words(Singles(s)) = s
<1> DEFINE n == Len(s)
           f == [ i \in 0 .. n |-> SubSeq(s, 1, i) ]
<1>1. n \in Nat /\ DOMAIN s = 1 .. n /\ \A i \in 1 .. n : s[i] \in W
  BY LenProperties, ElementOfSeq
<1> HIDE DEF n
<1>2. Singles(s) \in Seq(Seq(W)) /\ Len(Singles(s)) = n
      /\ \A i \in 1 .. n : Singles(s)[i] = << s[i] >>
  <2>1. \A i \in 1 .. n : << s[i] >> \in Seq(W)
    BY <1>1
  <2>2. Singles(s) = [ i \in 1 .. n |-> << s[i] >> ]
    BY <1>1 DEF Singles
  <2>3. Singles(s) \in [ 1 .. n -> Seq(W) ]
    BY <2>1, <2>2
  <2>4. Singles(s) \in Seq(Seq(W))
    BY <1>1, <2>3, SeqDef
  <2>5. Len(Singles(s)) = n
    <3>1. DOMAIN Singles(s) = 1 .. n /\ DOMAIN Singles(s) = 1 .. Len(Singles(s)) /\ Len(Singles(s)) \in Nat
      BY <2>2, <2>4, LenProperties
    <3>2. QED BY <1>1, <3>1
  <2>6. QED BY <2>2, <2>4, <2>5
<1>3. \A i \in 0 .. n : SubSeq(s, 1, i) \in Seq(W)
  <2>1. SUFFICES ASSUME NEW i \in 0 .. n PROVE SubSeq(s, 1, i) \in Seq(W)
    OBVIOUS
  <2>2. \A j \in 1 .. i : s[j] \in W BY <1>1
  <2>3. i \in Int /\ 1 \in Int BY <1>1
  <2>4. QED BY <2>2, <2>3, SubSeqProperties
<1>4. SubSeq(s, 1, 0) = << >>
  BY SubSeqEmpty
<1>5. ASSUME NEW i \in 1 .. n PROVE SubSeq(s, 1, i) = SubSeq(s, 1, i - 1) \o Singles(s)[i]
  <2>1. 1 \in 1 .. Len(s) /\ i \in 1 .. Len(s) BY <1>1 DEF n
  <2>2. QED BY <1>2, <2>1, SubSeqRecursiveSecond
<1>6. f \in [ 0 .. n -> Seq(W) ] /\ f[0] = << >> /\ f[n] = SubSeq(s, 1, n)
      /\ \A i \in 1 .. n : f[i] = SubSeq(s, 1, i) /\ f[i - 1] = SubSeq(s, 1, i - 1)
  BY <1>1, <1>3, <1>4
<1> HIDE DEF f
<1>7. f \in Joins(Singles(s), W)
  BY <1>2, <1>5, <1>6 DEF Joins
<1>8. Words(Singles(s)) = f[n]
  BY <1>2, <1>7, WordsAre
<1>9. SubSeq(s, 1, n) = s
  BY SubSeqFull DEF n
<1>10. QED BY <1>2, <1>6, <1>8, <1>9

\* The path that a label is registered with, and the one it is looked up with, join to
\* its fully qualified name.
LEMMA LabelNames ==
  ASSUME TypeOK, NEW g \in DOMAIN groups, NEW n \in Names
  PROVE  /\ LabelPath(g, n) \in Seq(Seq(AllWords)) /\ Words(LabelPath(g, n)) = FqName(g, n)
         /\ Words(GetLabelPath(g, n)) = FqName(g, n)
<1> DEFINE ns    == groups[g].namespace
           words == Words(ns)
           W     == AllWords
<1>1. ns \in Seq(Seq(W)) /\ n \in Seq(W)
  <2>1. groups[g].namespace \in Seq(Segments) BY Parts DEF GroupType
  <2>2. QED BY <2>1, NameWords
<1> HIDE DEF W
<1>2. words \in Seq(W) /\ Words(Append(ns, n)) = words \o n
  BY <1>1, WordsAppend
<1>3. LabelPath(g, n) = Append(Singles(words), n)
  BY DEF LabelPath, Singles
<1> HIDE DEF words, ns
<1>4. Singles(words) \in Seq(Seq(W)) /\ Words(Singles(words)) = words
  BY <1>2, WordsSingles
<1>5. Append(Singles(words), n) \in Seq(Seq(W)) /\ Words(Append(Singles(words), n)) = words \o n
  BY <1>1, <1>4, WordsAppend, AppendProperties
<1>6. QED BY <1>2, <1>3, <1>5 DEF FqName, GetLabelPath, W, ns
-----------------------------------------------------------------------------
(* Paths. *)

\* The child of a group under a segment, and none of none.
Child(g, seg) == IF g = None THEN None ELSE groups[g].children[seg]

\* The groups along a path from g, None from where it ends.
Legs(g, path) ==
  { c \in [ 0 .. Len(path) -> DOMAIN groups \cup {None} ] :
      c[0] = g /\ \A i \in 1 .. Len(path) : c[i] = Child(c[i - 1], path[i]) }

\* A handle is not the absence of one, and a child is a group or none.
LEMMA ChildType ==
  ASSUME TypeOK
  PROVE  /\ None \notin DOMAIN groups
         /\ \A g \in DOMAIN groups \cup {None} : \A seg \in Segments :
              Child(g, seg) \in DOMAIN groups \cup {None}
         /\ \A g \in DOMAIN groups : \A seg : Child(g, seg) = groups[g].children[seg]
         /\ \A seg : Child(None, seg) = None
<1>1. DOMAIN groups \subseteq Nat
  BY Parts
<1>2. None \notin DOMAIN groups
  BY <1>1, MetricsAssumption
<1>3. \A g \in DOMAIN groups : \A seg \in Segments :
        groups[g].children[seg] \in DOMAIN groups \cup {None}
  BY Parts DEF GroupType
<1>4. QED BY <1>2, <1>3 DEF Child

LEMMA LegsExist ==
  ASSUME TypeOK, NEW g \in DOMAIN groups, NEW path \in Seq(Segments)
  PROVE  Legs(g, path) # {}
<1> DEFINE n == Len(path)
           T == DOMAIN groups \cup {None}
           step == [ x \in (1 .. n) \X T |-> Child(x[2], path[x[1]]) ]
<1>1. n \in Nat /\ \A i \in 1 .. n : path[i] \in Segments
  BY LenProperties, ElementOfSeq
<1>2. \A h \in T : \A seg \in Segments : Child(h, seg) \in T
  BY ChildType
<1>3. step \in WaySteps(n, T)
  <2>1. ASSUME NEW x \in (1 .. n) \X T PROVE Child(x[2], path[x[1]]) \in T
    <3>1. x[2] \in T /\ path[x[1]] \in Segments BY <1>1
    <3>2. QED BY <1>2, <3>1
  <2>2. QED BY <2>1 DEF WaySteps
<1>4. \A i \in 1 .. n : \A h \in T : step[<< i, h >>] = Child(h, path[i])
  OBVIOUS
<1>5. g \in T
  OBVIOUS
<1> HIDE DEF step, T
<1>6. PICK c : c \in Ways(n, T, g, step)
  BY <1>1, <1>3, <1>5, WayExists
<1>7. c \in [ 0 .. n -> T ] /\ c[0] = g
  BY <1>6 DEF Ways
<1>8. ASSUME NEW i \in 1 .. n PROVE c[i] = Child(c[i - 1], path[i])
  <2>1. i - 1 \in 0 .. n BY <1>1
  <2>2. c[i - 1] \in T BY <1>7, <2>1
  <2>3. c[i] = step[<< i, c[i - 1] >>] BY <1>6 DEF Ways
  <2>4. QED BY <1>4, <2>2, <2>3
<1>9. c \in Legs(g, path)
  BY <1>7, <1>8 DEF Legs, T
<1>10. QED BY <1>9

\* `Resolve` is where they end.
ResolvesAlong ==
  \A g \in DOMAIN groups : \A path \in Seq(Segments) : \A c \in Legs(g, path) :
    Resolve(g, path) = c[Len(path)]

LEMMA ResolveIs == TypeOK => ResolvesAlong
<1> SUFFICES ASSUME TypeOK, NEW g \in DOMAIN groups, NEW path \in Seq(Segments),
                    NEW c \in Legs(g, path)
             PROVE  Resolve(g, path) = c[Len(path)]
  BY DEF ResolvesAlong
<1> DEFINE n == Len(path)
           Loop(d) == d = [ i \in 0 .. n |->
             IF i = 0 THEN g
             ELSE IF d[i - 1] = None THEN None ELSE groups[d[i - 1]].children[path[i]] ]
           curr == CHOOSE d : Loop(d)
<1>1. n \in Nat
  BY LenProperties
<1>2. /\ c \in [ 0 .. n -> DOMAIN groups \cup {None} ] /\ c[0] = g
      /\ \A i \in 1 .. n : c[i] = Child(c[i - 1], path[i])
  BY DEF Legs
<1>3. Resolve(g, path) = curr[n]
  BY DEF Resolve
<1> HIDE DEF n
<1>4. Loop(c)
  <2> DEFINE d == [ i \in 0 .. n |->
             IF i = 0 THEN g
             ELSE IF c[i - 1] = None THEN None ELSE groups[c[i - 1]].children[path[i]] ]
  <2>1. ASSUME NEW i \in 0 .. n PROVE c[i] = d[i]
    <3>1. CASE i = 0 BY <1>2, <3>1
    <3>2. CASE i # 0
      <4>1. i \in 1 .. n BY <1>1, <3>2
      <4>2. QED BY <1>2, <3>2, <4>1 DEF Child
    <3>3. QED BY <3>1, <3>2
  <2>2. d = [ i \in 0 .. n |-> d[i] ] /\ c = [ i \in 0 .. n |-> c[i] ]
    BY <1>2
  <2> HIDE DEF d
  <2>3. c = d
    BY <2>1, <2>2
  <2>4. QED BY <2>3 DEF d
<1>5. Loop(curr)
  BY <1>4, Zenon
<1> HIDE DEF curr
<1>6. \A i \in 0 .. n : curr[i] =
        IF i = 0 THEN g
        ELSE IF curr[i - 1] = None THEN None ELSE groups[curr[i - 1]].children[path[i]]
  BY <1>5, Zenon
<1> DEFINE S == { k \in 0 .. n : curr[k] = c[k] }
<1>7. 0 \in S
  <2>1. 0 \in 0 .. n
    BY <1>1
  <2>2. curr[0] = g
    BY <1>6, <2>1, Zenon
  <2>3. QED BY <1>2, <2>1, <2>2
<1>8. ASSUME NEW k \in 0 .. n - 1, k \in S PROVE k + 1 \in S
  <2>1. k + 1 \in 0 .. n /\ k + 1 # 0 /\ (k + 1) - 1 = k /\ k + 1 \in 1 .. n
    BY <1>1
  <2>2. curr[k + 1] = Child(curr[k], path[k + 1])
    BY <1>6, <2>1 DEF Child
  <2>3. c[k + 1] = Child(c[k], path[k + 1])
    BY <1>2, <2>1
  <2>4. QED BY <1>8, <2>1, <2>2, <2>3
<1> HIDE DEF S
<1>9. n \in S
  <2>1. \A k \in 0 .. n : k \in S BY <1>1, <1>7, <1>8, Induction
  <2>2. QED BY <1>1, <2>1
<1>10. QED BY <1>3, <1>9 DEF S, n

\* A path leads to a group or to none; the empty one leads nowhere else.
LEMMA ResolveType ==
  ASSUME TypeOK, NEW g \in DOMAIN groups, NEW path \in Seq(Segments)
  PROVE  /\ Resolve(g, path) \in DOMAIN groups \cup {None}
         /\ path = << >> => Resolve(g, path) = g
<1>1. PICK c : c \in Legs(g, path)
  BY LegsExist
<1>2. Resolve(g, path) = c[Len(path)]
  BY <1>1, ResolveIs DEF ResolvesAlong
<1>3. Len(path) \in 0 .. Len(path)
  BY LenProperties
<1>4. c \in [ 0 .. Len(path) -> DOMAIN groups \cup {None} ] /\ c[0] = g
  BY <1>1 DEF Legs
<1>5. path = << >> => Len(path) = 0
  BY EmptySeq
<1>6. QED BY <1>2, <1>3, <1>4, <1>5

\* What leads to a group does not end on the way.
LEMMA LegsOpen ==
  ASSUME TypeOK, NEW g \in DOMAIN groups, NEW path \in Seq(Segments), NEW c \in Legs(g, path),
         c[Len(path)] # None
  PROVE  \A i \in 0 .. Len(path) : c[i] # None
<1> DEFINE n == Len(path)
           S == { k \in 0 .. n : c[n - k] # None }
<1>1. n \in Nat
  BY LenProperties
<1>2. c[n] # None /\ \A i \in 1 .. n : c[i] = Child(c[i - 1], path[i])
  BY DEF Legs
<1> HIDE DEF n
<1>3. 0 \in S
  <2>1. n - 0 = n /\ 0 \in 0 .. n BY <1>1
  <2>2. QED BY <1>2, <2>1
<1>4. ASSUME NEW k \in 0 .. n - 1, k \in S PROVE k + 1 \in S
  <2>1. n - k \in 1 .. n /\ (n - k) - 1 = n - (k + 1) /\ k + 1 \in 0 .. n
    BY <1>1
  <2>2. c[n - k] = Child(c[n - (k + 1)], path[n - k]) /\ c[n - k] # None
    BY <1>2, <1>4, <2>1
  <2>3. QED BY <2>1, <2>2 DEF Child
<1> HIDE DEF S
<1>5. \A k \in 0 .. n : k \in S
  BY <1>1, <1>3, <1>4, Induction
<1>6. ASSUME NEW i \in 0 .. n PROVE c[i] # None
  <2>1. n - i \in 0 .. n /\ n - (n - i) = i BY <1>1
  <2>2. n - i \in S BY <1>5, <2>1
  <2>3. QED BY <2>1, <2>2 DEF S
<1>7. QED BY <1>6 DEF n

\* A path leads where the rest of it leads from the first child.
LEMMA ResolveFirst ==
  ASSUME TypeOK, NEW g \in DOMAIN groups, NEW path \in Seq(Segments) \ { << >> },
         Resolve(g, path) # None
  PROVE  /\ Child(g, Head(path)) \in DOMAIN groups
         /\ Resolve(Child(g, Head(path)), Tail(path)) = Resolve(g, path)
<1> DEFINE n    == Len(path)
           next == Child(g, Head(path))
           rest == Tail(path)
           T    == DOMAIN groups \cup {None}
<1>1. /\ n \in Nat \ {0} /\ Head(path) = path[1] /\ rest \in Seq(Segments) /\ Len(rest) = n - 1
      /\ \A i \in 1 .. n - 1 : rest[i] = path[i + 1]
  BY EmptySeq, HeadTailProperties
<1>2. PICK c : c \in Legs(g, path)
  BY LegsExist
<1>3. Resolve(g, path) = c[n]
  BY <1>2, ResolveIs DEF ResolvesAlong
<1>4. \A i \in 0 .. n : c[i] # None
  BY <1>2, <1>3, LegsOpen
<1>5. /\ c \in [ 0 .. n -> T ] /\ c[0] = g
      /\ \A i \in 1 .. n : c[i] = Child(c[i - 1], path[i])
  BY <1>2 DEF Legs
<1> HIDE DEF n, rest
<1>6. c[1] = next /\ next \in DOMAIN groups
  <2>1. 1 \in 1 .. n /\ 1 \in 0 .. n /\ 1 - 1 = 0 BY <1>1
  <2>2. c[1] = Child(c[1 - 1], path[1]) BY <1>5, <2>1
  <2>3. c[1] = next BY <1>1, <1>5, <2>1, <2>2
  <2>4. c[1] # None /\ c[1] \in T BY <1>4, <1>5, <2>1
  <2>5. QED BY <2>3, <2>4
<1> HIDE DEF next
<1> DEFINE d == [ i \in 0 .. n - 1 |-> c[i + 1] ]
<1>7. d \in [ 0 .. n - 1 -> T ] /\ d[0] = c[1] /\ d[n - 1] = c[n]
      /\ \A i \in 1 .. n - 1 : d[i] = c[i + 1] /\ d[i - 1] = c[i]
  <2>1. /\ 0 \in 0 .. n - 1 /\ 0 + 1 = 1 /\ n - 1 \in 0 .. n - 1 /\ (n - 1) + 1 = n
        /\ \A i \in 0 .. n - 1 : i + 1 \in 0 .. n
        /\ \A i \in 1 .. n - 1 : i \in 0 .. n - 1 /\ i - 1 \in 0 .. n - 1 /\ (i - 1) + 1 = i
    BY <1>1
  <2>2. \A i \in 0 .. n - 1 : c[i + 1] \in T
    BY <1>5, <2>1
  <2> HIDE DEF T
  <2>3. d \in [ 0 .. n - 1 -> T ]
    BY <2>2
  <2>4. QED BY <2>1, <2>3
<1> HIDE DEF d
<1>8. ASSUME NEW i \in 1 .. n - 1 PROVE d[i] = Child(d[i - 1], rest[i])
  <2>1. i + 1 \in 1 .. n /\ (i + 1) - 1 = i
    BY <1>1
  <2>2. c[i + 1] = Child(c[i], path[i + 1])
    BY <1>5, <2>1
  <2>3. QED BY <1>1, <1>7, <2>2
<1>9. d \in Legs(next, rest)
  BY <1>1, <1>6, <1>7, <1>8 DEF Legs
<1>10. Resolve(next, rest) = d[n - 1]
  BY <1>1, <1>6, <1>9, ResolveIs DEF ResolvesAlong
<1>11. QED BY <1>3, <1>6, <1>7, <1>10 DEF next, rest

\* A longer path leads to the child of where the shorter one leads.
LEMMA ResolveAppend ==
  ASSUME TypeOK, NEW g \in DOMAIN groups, NEW path \in Seq(Segments), NEW seg \in Segments
  PROVE  Resolve(g, Append(path, seg)) = Child(Resolve(g, path), seg)
<1> DEFINE n    == Len(path)
           more == Append(path, seg)
           T    == DOMAIN groups \cup {None}
<1>1. n \in Nat /\ more \in Seq(Segments) /\ Len(more) = n + 1 /\ more[n + 1] = seg
      /\ \A i \in 1 .. n : more[i] = path[i]
  BY LenProperties, AppendProperties
<1>2. PICK c : c \in Legs(g, path)
  BY LegsExist
<1>3. Resolve(g, path) = c[n]
  BY <1>2, ResolveIs DEF ResolvesAlong
<1>4. /\ c \in [ 0 .. n -> T ] /\ c[0] = g
      /\ \A i \in 1 .. n : c[i] = Child(c[i - 1], path[i])
  BY <1>2 DEF Legs
<1> HIDE DEF n, more
<1> DEFINE last == Child(c[n], seg)
           d    == [ i \in 0 .. n + 1 |-> IF i = n + 1 THEN last ELSE c[i] ]
<1>5. last \in T
  <2>1. c[n] \in T BY <1>1, <1>4
  <2>2. QED BY <2>1, ChildType
<1> HIDE DEF last, T
<1>6. d \in [ 0 .. n + 1 -> T ] /\ d[n + 1] = last /\ \A i \in 0 .. n : d[i] = c[i]
  BY <1>1, <1>4, <1>5
<1> HIDE DEF d
<1>7. ASSUME NEW i \in 1 .. n + 1 PROVE d[i] = Child(d[i - 1], more[i])
  <2>1. CASE i = n + 1
    <3>1. i - 1 = n /\ n \in 0 .. n BY <1>1, <2>1
    <3>2. d[i - 1] = c[n] BY <1>6, <3>1
    <3>3. QED BY <1>1, <1>6, <2>1, <3>2 DEF last
  <2>2. CASE i # n + 1
    <3>1. i \in 1 .. n /\ i \in 0 .. n /\ i - 1 \in 0 .. n BY <1>1, <2>2
    <3>2. d[i] = c[i] /\ d[i - 1] = c[i - 1] BY <1>6, <3>1
    <3>3. QED BY <1>1, <1>4, <3>1, <3>2
  <2>3. QED BY <2>1, <2>2
<1>8. d[0] = g
  BY <1>1, <1>4, <1>6
<1>9. d \in Legs(g, more)
  BY <1>1, <1>6, <1>7, <1>8 DEF Legs, T
<1>10. Resolve(g, more) = d[n + 1]
  BY <1>1, <1>9, ResolveIs DEF ResolvesAlong
<1>11. QED BY <1>3, <1>6, <1>10 DEF more, last

\* Where a path leads it leads for ever, since children are only added.
LEMMA ResolveStays ==
  ASSUME TypeOK, TypeOK', Grows, LookupStep, NEW g \in DOMAIN groups,
         NEW path \in Seq(Segments), Resolve(g, path) # None
  PROVE  Resolve(g, path)' = Resolve(g, path)
<1> DEFINE n == Len(path)
<1>0. n \in Nat /\ \A i \in 1 .. n : path[i] \in Segments
  BY LenProperties, ElementOfSeq
<1>1. PICK c : c \in Legs(g, path)
  BY LegsExist
<1>2. Resolve(g, path) = c[n]
  BY <1>1, ResolveIs DEF ResolvesAlong
<1>3. \A i \in 0 .. n : c[i] # None
  BY <1>1, <1>2, LegsOpen
<1>4. /\ c \in [ 0 .. n -> DOMAIN groups \cup {None} ] /\ c[0] = g
      /\ \A i \in 1 .. n : c[i] = Child(c[i - 1], path[i])
  BY <1>1 DEF Legs
<1>5. TypeOK' => ResolvesAlong'
  BY ResolveIs, PTL
<1>6. ASSUME NEW i \in 1 .. n
      PROVE  c[i] = IF c[i - 1] = None THEN None ELSE groups'[c[i - 1]].children[path[i]]
  <2>1. i - 1 \in 0 .. n /\ i \in 0 .. n BY <1>0
  <2>2. c[i - 1] \in DOMAIN groups /\ c[i - 1] # None /\ c[i] # None BY <1>3, <1>4, <2>1
  <2>3. c[i] = groups[c[i - 1]].children[path[i]] BY <1>4, <2>2 DEF Child
  <2>4. groups'[c[i - 1]].children[path[i]] = groups[c[i - 1]].children[path[i]]
    BY <1>0, <2>2, <2>3 DEF LookupStep
  <2>5. QED BY <2>2, <2>3, <2>4
<1>7. c \in [ 0 .. n -> DOMAIN groups' \cup {None} ]
  BY <1>4 DEF Grows
<1>8. c \in Legs(g, path)'
  BY <1>4, <1>6, <1>7 DEF Legs, Child
<1>9. g \in DOMAIN groups'
  BY DEF Grows
<1>10. Resolve(g, path)' = c[n]
  BY <1>5, <1>8, <1>9 DEF ResolvesAlong
<1>11. QED BY <1>2, <1>10

\* Where children have the namespaces of their parents and one name more, what a path
\* leads to has the path as the rest of its namespace.
ChildNamespaces ==
  \A g \in DOMAIN groups : \A seg \in Segments : groups[g].children[seg] # None =>
    groups[groups[g].children[seg]].namespace = Append(groups[g].namespace, seg)

LEMMA ResolveNamespace ==
  ASSUME TypeOK, ChildNamespaces, NEW g \in DOMAIN groups, NEW path \in Seq(Segments),
         Resolve(g, path) # None
  PROVE  groups[Resolve(g, path)].namespace = groups[g].namespace \o path
<1> DEFINE n  == Len(path)
           ns == groups[g].namespace
<1>0. n \in Nat /\ (\A i \in 1 .. n : path[i] \in Segments) /\ ns \in Seq(Segments)
  BY LenProperties, ElementOfSeq, Parts DEF GroupType
<1>1. PICK c : c \in Legs(g, path)
  BY LegsExist
<1>2. Resolve(g, path) = c[n]
  BY <1>1, ResolveIs DEF ResolvesAlong
<1>3. \A i \in 0 .. n : c[i] # None
  BY <1>1, <1>2, LegsOpen
<1>4. /\ c \in [ 0 .. n -> DOMAIN groups \cup {None} ] /\ c[0] = g
      /\ \A i \in 1 .. n : c[i] = Child(c[i - 1], path[i])
  BY <1>1 DEF Legs
<1> DEFINE first(i) == SubSeq(path, 1, i)
           S == { k \in 0 .. n : groups[c[k]].namespace = ns \o first(k) }
<1> HIDE DEF n
<1>5. 0 \in S
  <2>1. first(0) = << >> BY SubSeqEmpty
  <2>2. ns \o << >> = ns BY <1>0, ConcatEmptySeq
  <2>3. QED BY <1>0, <1>4, <2>1, <2>2
<1>6. ASSUME NEW k \in 0 .. n - 1, k \in S PROVE k + 1 \in S
  <2> DEFINE seg == path[k + 1]
             now == first(k)
             on  == first(k + 1)
             parent == c[k]
  <2>1. k + 1 \in 0 .. n /\ k + 1 \in 1 .. n /\ (k + 1) - 1 = k /\ k \in 0 .. n
    BY <1>0
  <2>2. seg \in Segments /\ parent \in DOMAIN groups /\ c[k + 1] # None
    BY <1>0, <1>3, <1>4, <2>1
  <2>3. c[k + 1] = groups[parent].children[seg]
    <3>1. c[k + 1] = Child(c[(k + 1) - 1], seg) BY <1>4, <2>1
    <3>2. c[k + 1] = Child(parent, seg) BY <2>1, <3>1
    <3>3. QED BY <2>2, <3>2, ChildType
  <2>4. on = now \o << seg >>
    <3>1. 1 \in 1 .. Len(path) /\ k + 1 \in 1 .. Len(path) BY <1>0, <2>1 DEF n
    <3>2. on = SubSeq(path, 1, (k + 1) - 1) \o << seg >> BY <3>1, SubSeqRecursiveSecond
    <3>3. QED BY <2>1, <3>2
  <2>5. now \in Seq(Segments) /\ << seg >> \in Seq(Segments)
    <3>1. \A j \in 1 .. k : path[j] \in Segments BY <1>0
    <3>2. k \in Int /\ 1 \in Int BY <1>0
    <3>3. now \in Seq(Segments) BY <3>1, <3>2, SubSeqProperties
    <3>4. QED BY <2>2, <3>3
  <2>6. groups[parent].namespace = ns \o now
    BY <1>6
  <2> HIDE DEF seg, parent
  <2>7. groups[c[k + 1]].namespace = Append(groups[parent].namespace, seg)
    BY <2>2, <2>3 DEF ChildNamespaces
  <2> HIDE DEF now, on, ns
  <2>8. ns \o now \in Seq(Segments)
    BY <1>0, <2>5, ConcatProperties
  <2>9. Append(ns \o now, seg) = (ns \o now) \o << seg >>
    BY <2>2, <2>8, AppendIsConcat
  <2>10. (ns \o now) \o << seg >> = ns \o (now \o << seg >>)
    BY <1>0, <2>5, ConcatAssociative
  <2>11. groups[c[k + 1]].namespace = ns \o on
    BY <2>4, <2>6, <2>7, <2>9, <2>10
  <2>12. QED BY <2>1, <2>11 DEF on
<1> HIDE DEF S
<1>7. n \in S
  <2>1. \A k \in 0 .. n : k \in S BY <1>0, <1>5, <1>6, Induction
  <2>2. QED BY <1>0, <2>1
<1>8. SubSeq(path, 1, n) = path
  BY SubSeqFull DEF n
<1>9. QED BY <1>2, <1>7, <1>8 DEF S
-----------------------------------------------------------------------------
(* What the names and walks rest on: the second part of the invariant. *)

\* A metric that a task is about to enter is of the kind of the map it enters it into.
KindInv ==
  \A t \in Tasks : tasks[t].at = "registered" => cells[tasks[t].handle].kind = tasks[t].kind

\* A registered metric is in the map of a group, or about to be entered.
Covered(h) ==
  \/ \E t \in Tasks : tasks[t].at = "registered" /\ tasks[t].handle = h
  \/ \E g \in DOMAIN groups : \E n \in Names : groups[g].metrics[<< cells[h].kind, n >>] = h

EnteredInv ==
  \A x \in DOMAIN registry : cells[registry[x]].kind \in Kinds /\ Covered(registry[x])

\* A label was created as what the words of its path join to.
LabelInv ==
  \A p \in DOMAIN labels : p \in Seq(Seq(AllWords)) /\ cells[labels[p]].name = Words(p)

\* The groups are a tree of at most MaxGroups: the namespace of a group leads to it from
\* the root, and a child has the namespace of its parent and one name more.
TreeInv ==
  /\ Len(groups) <= MaxGroups
  /\ ChildNamespaces
  /\ \A g \in DOMAIN groups : \A path \in Seq(Segments) : groups[g].namespace = path =>
       Len(path) < g /\ Resolve(Root, path) = g

\* The rest of a walk leads to where its path led when it began.
WalkInv ==
  \A t \in Tasks : tasks[t].at = "walking" /\ tasks[t].found # None =>
    \A g \in DOMAIN groups : \A path \in Seq(Segments) :
      tasks[t].group = g /\ tasks[t].path = path => Resolve(g, path) = tasks[t].found

PathsInv == KindInv /\ EnteredInv /\ LabelInv /\ TreeInv /\ WalkInv

\* Metrics and labels keep their kinds and names.
CellsKeep ==
  \A h \in DOMAIN cells :
    h \in DOMAIN cells' /\ cells'[h].kind = cells[h].kind /\ cells'[h].name = cells[h].name

\* Tasks neither begin nor cease to be about to enter a metric.
EnteringStays ==
  \A t \in Tasks : tasks[t].at = "registered" \/ tasks'[t].at = "registered" => tasks'[t] = tasks[t]

LEMMA EntriesAreCells ==
  ASSUME TypeOK
  PROVE  /\ \A x \in DOMAIN registry : registry[x] \in DOMAIN cells /\ registry[x] # None
         /\ \A p \in DOMAIN labels : labels[p] \in DOMAIN cells /\ labels[p] # None
<1>1. \A h \in DOMAIN cells : h # None
  BY Parts, MetricsAssumption
<1>2. Range(registry) \subseteq DOMAIN cells /\ Range(labels) \subseteq DOMAIN cells
  BY DEF TypeOK
<1>3. QED BY <1>1, <1>2 DEF Range

LEMMA KindKept ==
  ASSUME IInv, KindInv, CellsKeep, EnteringStays
  PROVE  KindInv'
<1>1. SUFFICES ASSUME NEW t \in Tasks, tasks'[t].at = "registered"
      PROVE  cells'[tasks'[t].handle].kind = tasks'[t].kind
  BY DEF KindInv
<1>2. tasks'[t] = tasks[t] /\ tasks[t].at = "registered"
  BY <1>1 DEF EnteringStays
<1>3. tasks[t].handle \in DOMAIN cells
  BY <1>2, TaskParts DEF IInv, Entering
<1>4. QED BY <1>2, <1>3 DEF KindInv, CellsKeep

\* What is registered stays found, or about to be entered.
LEMMA CoveredStays ==
  ASSUME TypeOK, TypeOK', Grows, LookupStep, CellsKeep, NEW h \in DOMAIN cells,
         cells[h].kind \in Kinds, Covered(h),
         \A t \in Tasks : tasks[t].at = "registered" /\ tasks[t].handle = h =>
           tasks'[t] = tasks[t] \/ Covered(h)'
  PROVE  Covered(h)'
<1>1. CASE \E t \in Tasks : tasks[t].at = "registered" /\ tasks[t].handle = h
  BY <1>1 DEF Covered
<1>2. ASSUME NEW g \in DOMAIN groups, NEW n \in Names,
             groups[g].metrics[<< cells[h].kind, n >>] = h
      PROVE  Covered(h)'
  <2> DEFINE m == << cells[h].kind, n >>
  <2>1. m \in Kinds \X Names
    OBVIOUS
  <2>2. h # None
    BY Parts, MetricsAssumption
  <2>3. groups'[g].metrics[m] = h /\ g \in DOMAIN groups'
    BY <1>2, <2>1, <2>2 DEF LookupStep, Grows
  <2>4. cells'[h].kind = cells[h].kind
    BY DEF CellsKeep
  <2>5. QED BY <2>3, <2>4 DEF Covered
<1>3. QED BY <1>1, <1>2 DEF Covered

LEMMA EnteredKept ==
  ASSUME IInv, TypeOK', Grows, LookupStep, EnteredInv, CellsKeep, EnteringStays,
         UNCHANGED registry
  PROVE  EnteredInv'
<1>1. SUFFICES ASSUME NEW x \in DOMAIN registry
      PROVE  cells'[registry[x]].kind \in Kinds /\ Covered(registry[x])'
  BY DEF EnteredInv, Covered
<1>2. TypeOK
  BY DEF IInv
<1>3. PICK h \in DOMAIN cells : h = registry[x]
  BY <1>2, EntriesAreCells
<1>4. cells[h].kind \in Kinds /\ Covered(h)
  BY <1>3 DEF EnteredInv
<1>5. \A t \in Tasks : tasks[t].at = "registered" /\ tasks[t].handle = h => tasks'[t] = tasks[t]
  BY DEF EnteringStays
<1>6. Covered(h)'
  BY <1>2, <1>4, <1>5, CoveredStays
<1>7. QED BY <1>3, <1>4, <1>6 DEF CellsKeep, Covered

LEMMA LabelKept ==
  ASSUME TypeOK, LabelInv, CellsKeep, UNCHANGED labels
  PROVE  LabelInv'
<1>1. SUFFICES ASSUME NEW p \in DOMAIN labels
      PROVE  p \in Seq(Seq(AllWords)) /\ cells'[labels[p]].name = Words(p)
  BY DEF LabelInv
<1>2. labels[p] \in DOMAIN cells
  BY EntriesAreCells
<1>3. QED BY <1>2 DEF LabelInv, CellsKeep

\* Groups keep their children, and none is added.
LEMMA TreeKept ==
  ASSUME TypeOK, TypeOK', Grows, LookupStep, TreeInv, Len(groups') = Len(groups),
         \A g \in DOMAIN groups : groups'[g].children = groups[g].children
  PROVE  TreeInv'
<1>0. DOMAIN groups' = DOMAIN groups /\ DOMAIN groups \subseteq Nat
  <2>1. TypeOK' => (DOMAIN groups = 1 .. Len(groups))'
    BY Parts, PTL
  <2>2. QED BY <2>1, Parts
<1>1. \A g \in DOMAIN groups : groups'[g].namespace = groups[g].namespace
  BY DEF Grows
<1>2. ChildNamespaces'
  <2>1. SUFFICES ASSUME NEW g \in DOMAIN groups', NEW seg \in Segments,
                        groups'[g].children[seg] # None
        PROVE  groups'[groups'[g].children[seg]].namespace = Append(groups'[g].namespace, seg)
    BY DEF ChildNamespaces
  <2>2. g \in DOMAIN groups /\ groups'[g].children = groups[g].children
    BY <1>0
  <2>3. groups[g].children[seg] \in DOMAIN groups /\ groups[g].children[seg] # None
    BY <2>1, <2>2, Parts DEF GroupType
  <2>4. groups[groups[g].children[seg]].namespace = Append(groups[g].namespace, seg)
    BY <2>2, <2>3 DEF TreeInv, ChildNamespaces
  <2>5. QED BY <1>1, <2>2, <2>3, <2>4
<1>3. ASSUME NEW g \in DOMAIN groups, NEW path \in Seq(Segments), groups[g].namespace = path
      PROVE  Len(path) < g /\ Resolve(Root, path)' = g
  <2>1. Len(path) < g /\ Resolve(Root, path) = g
    BY <1>3 DEF TreeInv
  <2>2. g # None /\ Root \in DOMAIN groups
    BY <1>0, MetricsAssumption DEF TypeOK
  <2>3. QED BY <2>1, <2>2, ResolveStays DEF Root
<1>4. QED BY <1>0, <1>1, <1>2, <1>3 DEF TreeInv

\* A walk that is where it was arrives where it would have.
LEMMA WalkKept ==
  ASSUME TypeOK, TypeOK', Grows, LookupStep, WalkInv, NEW t \in Tasks, tasks'[t] = tasks[t],
         tasks[t].at = "walking", tasks[t].found # None,
         NEW g \in DOMAIN groups', NEW path \in Seq(Segments),
         tasks[t].group = g, tasks[t].path = path
  PROVE  Resolve(g, path)' = tasks[t].found
<1>1. g \in DOMAIN groups
  BY TaskParts DEF IsWalk
<1>2. Resolve(g, path) = tasks[t].found
  BY <1>1 DEF WalkInv
<1>3. QED BY <1>1, <1>2, ResolveStays

LEMMA WalksKept ==
  ASSUME TypeOK, TypeOK', Grows, LookupStep, WalkInv,
         \A t \in Tasks : tasks'[t].at = "walking" => tasks'[t] = tasks[t]
  PROVE  WalkInv'
<1>1. SUFFICES ASSUME NEW t \in Tasks, tasks'[t].at = "walking", tasks'[t].found # None,
                      NEW g \in DOMAIN groups', NEW path \in Seq(Segments),
                      tasks'[t].group = g, tasks'[t].path = path
      PROVE  Resolve(g, path)' = tasks'[t].found
  BY DEF WalkInv
<1>2. tasks'[t] = tasks[t]
  BY <1>1
<1>3. QED BY <1>1, <1>2, WalkKept

\* A step that changes neither the registry nor the labels, adds no group and enters
\* nothing.
LEMMA PathsKept ==
  ASSUME IInv, PathsInv, Step, Grows, CellsKeep, EnteringStays,
         UNCHANGED << registry, labels, groups >>, WalkInv'
  PROVE  PathsInv'
<1>1. TypeOK /\ TypeOK' /\ LookupStep
  BY DEF IInv, Step
<1>2. KindInv' /\ EnteredInv' /\ LabelInv'
  BY <1>1, KindKept, EnteredKept, LabelKept DEF PathsInv
<1>3. TreeInv'
  BY <1>1, TreeKept DEF PathsInv
<1>4. QED BY <1>2, <1>3 DEF PathsInv

\* A cell more.
LEMMA CellAdded ==
  ASSUME TypeOK, NEW kind, NEW name, cells' = Append(cells, Cell(kind, name))
  PROVE  /\ CellsKeep
         /\ cells'[Len(cells) + 1].kind = kind /\ cells'[Len(cells) + 1].name = name
<1> DEFINE c == Cell(kind, name)
           S == CellType \cup {c}
<1>1. cells \in Seq(CellType)
  BY DEF TypeOK
<1>2. cells \in Seq(S) /\ c \in S
  BY <1>1, SeqMonotonic
<1>3. c.kind = kind /\ c.name = name
  BY DEF Cell
<1>4. cells' = Append(cells, c)
  OBVIOUS
<1> HIDE DEF c, S
<1>5. /\ cells' \in Seq(S) /\ Len(cells') = Len(cells) + 1
      /\ cells'[Len(cells) + 1] = c
      /\ \A h \in 1 .. Len(cells) : cells'[h] = cells[h]
  BY <1>2, <1>4, AppendProperties
<1>6. DOMAIN cells = 1 .. Len(cells) /\ DOMAIN cells' = 1 .. Len(cells) + 1 /\ Len(cells) \in Nat
  BY <1>5, Parts, LenProperties
<1>7. QED BY <1>3, <1>5, <1>6 DEF CellsKeep

LEMMA CreateLabelPaths ==
  ASSUME IInv, PathsInv, Step, NEW t \in Tasks, NEW g \in DOMAIN groups, NEW n \in Names,
         CreateLabel(t, g, n)
  PROVE  PathsInv'
<1> DEFINE h == Len(cells) + 1
           p == LabelPath(g, n)
<1>1. /\ TypeOK /\ TypeOK' /\ LookupStep
      /\ UNCHANGED << groups, registry, tasks >>
      /\ labels' = Put(labels, p, h)
      /\ cells' = Append(cells, Cell("label", FqName(g, n)))
  BY DEF IInv, Step, CreateLabel
<1>2. Grows
  BY <1>1, NewCell
<1>3. CellsKeep /\ cells'[h].name = FqName(g, n)
  BY <1>1, CellAdded
<1>4. p \in Seq(Seq(AllWords)) /\ Words(p) = FqName(g, n)
  BY <1>1, LabelNames
<1> HIDE DEF h, p
<1>5. LabelInv'
  <2>1. SUFFICES ASSUME NEW q \in DOMAIN labels'
        PROVE  q \in Seq(Seq(AllWords)) /\ cells'[labels'[q]].name = Words(q)
    BY DEF LabelInv
  <2>2. CASE q = p
    <3>1. labels'[q] = h BY <1>1, <2>2 DEF Put
    <3>2. QED BY <1>3, <1>4, <2>2, <3>1
  <2>3. CASE q # p
    <3>1. q \in DOMAIN labels /\ labels'[q] = labels[q] BY <1>1, <2>3 DEF Put
    <3>2. labels[q] \in DOMAIN cells BY <1>1, <3>1, EntriesAreCells
    <3>3. QED BY <1>3, <3>1, <3>2 DEF PathsInv, LabelInv, CellsKeep
  <2>4. QED BY <2>2, <2>3
<1>6. EnteringStays
  BY <1>1 DEF EnteringStays
<1>7. KindInv' /\ EnteredInv'
  BY <1>1, <1>2, <1>3, <1>6, KindKept, EnteredKept DEF PathsInv
<1>8. TreeInv'
  BY <1>1, <1>2, TreeKept DEF PathsInv
<1>9. WalkInv'
  BY <1>1, <1>2, WalksKept DEF PathsInv
<1>10. QED BY <1>5, <1>7, <1>8, <1>9 DEF PathsInv

\* A metric that is registered is about to be entered.
LEMMA RegisterPaths ==
  ASSUME IInv, PathsInv, Step, NEW t \in Tasks, NEW g \in DOMAIN groups, NEW kind \in Kinds,
         NEW n \in Names, Register(t, g, kind, n)
  PROVE  PathsInv'
<1> DEFINE h == Len(cells) + 1
           x == FqName(g, n)
           doing == [ at |-> "registered", group |-> g, kind |-> kind, name |-> n, handle |-> h ]
<1>0. TypeOK /\ TypeOK' /\ LookupStep /\ tasks[t] = Idle
  BY DEF IInv, Step, Register
<1>1. CASE x \in DOMAIN registry
  <2>1. UNCHANGED << groups, registry, labels, cells >> /\ tasks' = [ tasks EXCEPT ![t] = Panicked ]
    BY <1>1 DEF Register
  <2>2. Grows /\ CellsKeep
    BY <2>1 DEF Grows, CellsKeep
  <2>3. tasks'[t] = Panicked /\ \A u \in Tasks : u # t => tasks'[u] = tasks[u]
    BY <1>0, <2>1 DEF TypeOK
  <2>4. EnteringStays
    BY <1>0, <2>3 DEF EnteringStays, Idle, Panicked
  <2>5. \A u \in Tasks : tasks'[u].at = "walking" => tasks'[u] = tasks[u]
    BY <2>3 DEF Panicked
  <2>6. WalkInv'
    BY <1>0, <2>2, <2>5, WalksKept DEF PathsInv
  <2>7. QED BY <2>1, <2>2, <2>4, <2>6, PathsKept
<1>2. CASE x \notin DOMAIN registry
  <2>1. /\ UNCHANGED << groups, labels >>
        /\ cells' = Append(cells, Cell(kind, x))
        /\ registry' = Put(registry, x, h)
        /\ tasks' = [ tasks EXCEPT ![t] = doing ]
    BY <1>2 DEF Register
  <2>2. Grows
    BY <1>0, <2>1, NewCell
  <2>3. CellsKeep /\ cells'[h].kind = kind
    BY <1>0, <2>1, CellAdded
  <2>4. tasks'[t] = doing /\ \A u \in Tasks : u # t => tasks'[u] = tasks[u]
    BY <1>0, <2>1 DEF TypeOK
  <2>5. doing.at = "registered" /\ doing.handle = h /\ doing.kind = kind
    OBVIOUS
  <2> HIDE DEF doing, h, x
  <2>6. KindInv'
    <3>1. SUFFICES ASSUME NEW u \in Tasks, tasks'[u].at = "registered"
          PROVE  cells'[tasks'[u].handle].kind = tasks'[u].kind
      BY DEF KindInv
    <3>2. CASE u = t
      BY <2>3, <2>4, <2>5, <3>2
    <3>3. CASE u # t
      <4>1. tasks'[u] = tasks[u] /\ tasks[u].at = "registered" BY <2>4, <3>1, <3>3
      <4>2. tasks[u].handle \in DOMAIN cells BY <1>0, <4>1, TaskParts DEF Entering
      <4>3. QED BY <2>3, <4>1, <4>2 DEF PathsInv, KindInv, CellsKeep
    <3>4. QED BY <3>2, <3>3
  <2>7. EnteredInv'
    <3>1. SUFFICES ASSUME NEW y \in DOMAIN registry', NEW i, i = registry'[y]
          PROVE  cells'[i].kind \in Kinds /\ Covered(i)'
      BY DEF EnteredInv, Covered
    <3>2. CASE y = x
      <4>1. i = h BY <2>1, <3>1, <3>2 DEF Put
      <4>2. Covered(i)' BY <2>4, <2>5, <4>1 DEF Covered
      <4>3. QED BY <2>3, <4>1, <4>2
    <3>3. CASE y # x
      <4>1. y \in DOMAIN registry /\ i = registry[y] BY <2>1, <3>1, <3>3 DEF Put
      <4>2. i \in DOMAIN cells BY <1>0, <4>1, EntriesAreCells
      <4>3. cells[i].kind \in Kinds /\ Covered(i) BY <4>1 DEF PathsInv, EnteredInv
      <4>4. \A u \in Tasks : tasks[u].at = "registered" => tasks'[u] = tasks[u]
        BY <1>0, <2>4 DEF Idle
      <4>5. Covered(i)' BY <1>0, <2>2, <2>3, <4>2, <4>3, <4>4, CoveredStays
      <4>6. QED BY <2>3, <4>2, <4>3, <4>5 DEF CellsKeep
    <3>4. QED BY <3>2, <3>3
  <2>8. LabelInv'
    BY <1>0, <2>1, <2>3, LabelKept DEF PathsInv
  <2>9. TreeInv'
    BY <1>0, <2>1, <2>2, TreeKept DEF PathsInv
  <2>10. WalkInv'
    <3>1. \A u \in Tasks : tasks'[u].at = "walking" => tasks'[u] = tasks[u]
      BY <2>4, <2>5
    <3>2. QED BY <1>0, <2>2, <3>1, WalksKept DEF PathsInv
  <2>11. QED BY <2>6, <2>7, <2>8, <2>9, <2>10 DEF PathsInv
<1>3. QED BY <1>1, <1>2

\* One that is entered is found.
LEMMA InsertPaths ==
  ASSUME IInv, PathsInv, Step, NEW t \in Tasks, Insert(t)
  PROVE  PathsInv'
<1>0. TypeOK /\ TypeOK' /\ LookupStep /\ tasks[t].at = "registered"
  BY DEF IInv, Step, Insert
<1>1. UNCHANGED << registry, labels, cells >> /\ tasks' = [ tasks EXCEPT ![t] = Idle ]
  BY DEF Insert
<1>2. PICK g \in DOMAIN groups, k \in Kinds, n \in Names, h \in DOMAIN cells :
        g = tasks[t].group /\ k = tasks[t].kind /\ n = tasks[t].name /\ h = tasks[t].handle
  BY <1>0, TaskParts DEF Entering
<1>3. /\ Grows /\ DOMAIN groups' = DOMAIN groups
      /\ \A f \in DOMAIN groups : groups'[f].children = groups[f].children
      /\ \A f \in DOMAIN groups : \A m \in Kinds \X Names :
           groups'[f].metrics[m] = IF f = g /\ m = << k, n >> THEN h ELSE groups[f].metrics[m]
  BY <1>0, <1>2, Entered
<1>4. tasks'[t] = Idle /\ \A u \in Tasks : u # t => tasks'[u] = tasks[u]
  BY <1>0, <1>1 DEF TypeOK
<1>5. CellsKeep
  BY <1>1 DEF CellsKeep
<1>6. cells[h].kind = k
  BY <1>0, <1>2 DEF PathsInv, KindInv
<1>7. KindInv'
  BY <1>1, <1>4 DEF PathsInv, KindInv, Idle
<1>8. Covered(h)'
  <2>1. groups'[g].metrics[<< k, n >>] = h
    <3>1. << k, n >> \in Kinds \X Names BY <1>2
    <3>2. QED BY <1>2, <1>3, <3>1
  <2>2. g \in DOMAIN groups' /\ n \in Names /\ cells'[h].kind = k
    BY <1>1, <1>2, <1>3, <1>6
  <2>3. QED BY <2>1, <2>2 DEF Covered
<1>9. EnteredInv'
  <2>1. SUFFICES ASSUME NEW y \in DOMAIN registry, NEW i, i = registry[y]
        PROVE  cells[i].kind \in Kinds /\ Covered(i)'
    BY <1>1 DEF EnteredInv, Covered
  <2>2. i \in DOMAIN cells /\ cells[i].kind \in Kinds /\ Covered(i)
    BY <1>0, <2>1, EntriesAreCells DEF PathsInv, EnteredInv
  <2>3. \A u \in Tasks : tasks[u].at = "registered" /\ tasks[u].handle = i =>
          tasks'[u] = tasks[u] \/ Covered(i)'
    <3>1. CASE i = h BY <1>8, <3>1
    <3>2. CASE i # h BY <1>2, <1>4, <3>2
    <3>3. QED BY <3>1, <3>2
  <2>4. QED BY <1>0, <1>3, <1>5, <2>2, <2>3, CoveredStays
<1>10. LabelInv'
  BY <1>0, <1>1, <1>5, LabelKept DEF PathsInv
<1>11. TreeInv'
  <2>1. Len(groups') = Len(groups)
    <3>1. groups \in Seq(GroupType) /\ groups' \in Seq(GroupType') BY <1>0 DEF TypeOK
    <3>2. DOMAIN groups' = 1 .. Len(groups') /\ Len(groups') \in Nat BY <3>1, LenProperties
    <3>3. QED BY <1>0, <1>3, <3>2, Parts
  <2>2. QED BY <1>0, <1>3, <2>1, TreeKept DEF PathsInv
<1>12. WalkInv'
  <2>1. \A u \in Tasks : tasks'[u].at = "walking" => tasks'[u] = tasks[u]
    BY <1>4 DEF Idle
  <2>2. QED BY <1>0, <1>3, <2>1, WalksKept DEF PathsInv
<1>13. QED BY <1>7, <1>9, <1>10, <1>11, <1>12 DEF PathsInv

\* A longer path leads to the child of where the shorter one leads, in any state.
ResolvesOn ==
  \A g \in DOMAIN groups : \A path \in Seq(Segments) : \A seg \in Segments : \A h :
    Resolve(g, path) = h => Resolve(g, Append(path, seg)) = Child(h, seg)

LEMMA ResolveOn == TypeOK => ResolvesOn
BY ResolveAppend DEF ResolvesOn

\* A new group is reached over its parent.
LEMMA SubgroupPaths ==
  ASSUME IInv, PathsInv, Step, NEW t \in Tasks, NEW g \in DOMAIN groups, NEW seg \in Segments,
         Subgroup(t, g, seg)
  PROVE  PathsInv'
<1> DEFINE len == Len(groups)
           new == len + 1
           ns  == groups[g].namespace
<1>0. /\ TypeOK /\ TypeOK' /\ LookupStep /\ len < MaxGroups
      /\ UNCHANGED << registry, labels, cells, tasks >>
  BY DEF IInv, Step, Subgroup
<1>1. /\ Grows /\ Len(groups') = new /\ DOMAIN groups' = DOMAIN groups \cup {new}
      /\ groups'[new].namespace = Append(ns, seg)
      /\ \A s \in Segments : groups'[new].children[s] = None
      /\ \A f \in DOMAIN groups : \A s \in Segments :
           groups'[f].children[s] = IF f = g /\ s = seg THEN new ELSE groups[f].children[s]
  <2>0. Grows /\ Len(groups') = new /\ DOMAIN groups' = DOMAIN groups \cup {new}
    BY <1>0, NewGroup
  <2>1. groups'[new].namespace = Append(ns, seg)
    BY <1>0, NewGroup
  <2>2. \A s \in Segments : groups'[new].children[s] = None
    BY <1>0, NewGroup
  <2>3. \A f \in DOMAIN groups : \A s \in Segments :
          groups'[f].children[s] = IF f = g /\ s = seg THEN new ELSE groups[f].children[s]
    BY <1>0, NewGroup
  <2>4. QED BY <2>0, <2>1, <2>2, <2>3
<1>2. len \in Nat /\ DOMAIN groups = 1 .. len /\ MaxGroups \in Nat
  BY <1>0, Parts, MetricsAssumption
<1> HIDE DEF len
<1>3. new \notin DOMAIN groups /\ g <= len /\ g \in Nat
  BY <1>2
<1> HIDE DEF new
<1>4. CellsKeep /\ EnteringStays
  BY <1>0 DEF CellsKeep, EnteringStays
<1>5. KindInv' /\ EnteredInv' /\ LabelInv' /\ WalkInv'
  BY <1>0, <1>1, <1>4, KindKept, EnteredKept, LabelKept, WalksKept DEF PathsInv
<1>6. \A f \in DOMAIN groups : groups'[f].namespace = groups[f].namespace
  BY <1>1 DEF Grows
<1>7. ChildNamespaces'
  <2>1. SUFFICES ASSUME NEW f \in DOMAIN groups', NEW s \in Segments,
                        groups'[f].children[s] # None
        PROVE  groups'[groups'[f].children[s]].namespace = Append(groups'[f].namespace, s)
    BY DEF ChildNamespaces
  <2>2. f \in DOMAIN groups
    BY <1>1, <2>1
  <2>3. CASE f = g /\ s = seg
    <3>1. groups'[f].children[s] = new BY <1>1, <2>2, <2>3
    <3>2. QED BY <1>1, <1>6, <2>3, <3>1
  <2>4. CASE ~ (f = g /\ s = seg)
    <3>1. groups'[f].children[s] = groups[f].children[s] BY <1>1, <2>2, <2>4
    <3>2. groups[f].children[s] \in DOMAIN groups
      BY <1>0, <2>1, <2>2, <3>1, Parts DEF GroupType
    <3>3. groups[groups[f].children[s]].namespace = Append(groups[f].namespace, s)
      BY <2>1, <2>2, <3>1 DEF PathsInv, TreeInv, ChildNamespaces
    <3>4. QED BY <1>6, <2>2, <3>1, <3>2, <3>3
  <2>5. QED BY <2>3, <2>4
<1>8. Root \in DOMAIN groups /\ Root \in DOMAIN groups' /\ None \notin DOMAIN groups
  BY <1>0, ChildType DEF TypeOK
<1>9. \A f \in DOMAIN groups : \A p \in Seq(Segments) : groups[f].namespace = p =>
        Len(p) < f /\ Resolve(Root, p) = f
  BY DEF PathsInv, TreeInv
<1>10. ASSUME NEW f \in DOMAIN groups, NEW p \in Seq(Segments), groups[f].namespace = p
       PROVE  Resolve(Root, p)' = f
  <2>1. Resolve(Root, p) = f /\ f # None
    BY <1>8, <1>9, <1>10
  <2>2. QED BY <1>0, <1>1, <1>8, <2>1, ResolveStays DEF Root
<1>11. ASSUME NEW p \in Seq(Segments), Append(ns, seg) = p
       PROVE  Len(p) < new /\ Resolve(Root, p)' = new
  <2>1. PICK q \in Seq(Segments) : q = ns
    BY <1>0, Parts DEF GroupType
  <2>2. Len(q) \in Nat /\ Len(p) = Len(q) + 1 /\ p = Append(q, seg)
    BY <1>11, <2>1, AppendProperties, LenProperties
  <2>3. Len(q) < g /\ Resolve(Root, q)' = g
    BY <1>9, <1>10, <2>1
  <2>4. TypeOK' => ResolvesOn'
    BY ResolveOn, PTL
  <2>5. Resolve(Root, Append(q, seg))' = Child(g, seg)'
    BY <1>0, <1>8, <2>3, <2>4 DEF ResolvesOn, Root
  <2>6. Child(g, seg)' = new
    <3>1. g # None BY <1>8
    <3>2. QED BY <1>1, <3>1 DEF Child
  <2>7. Len(p) < new
    BY <1>2, <1>3, <2>2, <2>3 DEF new
  <2>8. QED BY <2>2, <2>5, <2>6, <2>7
<1>12. Len(groups') <= MaxGroups
  BY <1>0, <1>1, <1>2 DEF new
<1>13. TreeInv'
  <2>1. ASSUME NEW f \in DOMAIN groups', NEW p \in Seq(Segments), groups'[f].namespace = p
        PROVE  Len(p) < f /\ Resolve(Root, p)' = f
    <3>1. CASE f = new
      BY <1>1, <1>11, <2>1, <3>1
    <3>2. CASE f \in DOMAIN groups
      BY <1>6, <1>9, <1>10, <2>1, <3>2
    <3>3. QED BY <1>1, <3>1, <3>2
  <2>2. QED BY <1>7, <1>12, <2>1 DEF TreeInv, Root
<1>14. QED BY <1>5, <1>13 DEF PathsInv

\* A walk that begins will arrive where its path leads, and one that takes the next lock
\* still will.
LEMMA WalkPaths ==
  ASSUME IInv, PathsInv, Step, NEW t \in Tasks,
         (\E path \in Paths : StartWalk(t, path)) \/ Walk(t)
           \/ \E h \in DOMAIN cells : UpdateOverflows(t, h)
  PROVE  PathsInv'
<1>0. TypeOK /\ TypeOK' /\ LookupStep
  BY DEF IInv, Step
<1>1. UNCHANGED << groups, registry, labels, cells >> /\ tasks[t].at # "registered"
  BY DEF StartWalk, Walk, UpdateOverflows, Idle
<1>2. Grows /\ CellsKeep
  BY <1>1 DEF Grows, CellsKeep
<1>3. ASSUME NEW doing, tasks' = [ tasks EXCEPT ![t] = doing ], doing.at # "registered",
             doing.at = "walking" /\ doing.found # None =>
               \A g \in DOMAIN groups : \A path \in Seq(Segments) :
                 doing.group = g /\ doing.path = path => Resolve(g, path) = doing.found
      PROVE  PathsInv'
  <2>1. tasks'[t] = doing /\ \A u \in Tasks : u # t => tasks'[u] = tasks[u]
    BY <1>0, <1>3 DEF TypeOK
  <2>2. EnteringStays
    BY <1>1, <1>3, <2>1 DEF EnteringStays
  <2>3. WalkInv'
    <3>1. SUFFICES ASSUME NEW u \in Tasks, tasks'[u].at = "walking", tasks'[u].found # None,
                          NEW g \in DOMAIN groups', NEW path \in Seq(Segments),
                          tasks'[u].group = g, tasks'[u].path = path
          PROVE  Resolve(g, path)' = tasks'[u].found
      BY DEF WalkInv
    <3>2. CASE u = t
      <4>1. g \in DOMAIN groups /\ Resolve(g, path) = doing.found /\ doing.found # None
        BY <1>1, <1>3, <2>1, <3>1, <3>2
      <4>2. QED BY <1>0, <1>2, <2>1, <3>2, <4>1, ResolveStays
    <3>3. CASE u # t
      <4>1. tasks'[u] = tasks[u] BY <2>1, <3>3
      <4>2. QED BY <1>0, <1>2, <3>1, <4>1, WalkKept DEF PathsInv
    <3>4. QED BY <3>2, <3>3
  <2>4. QED BY <1>1, <1>2, <2>2, <2>3, PathsKept
<1>4. ASSUME NEW path \in Paths, StartWalk(t, path) PROVE PathsInv'
  <2> DEFINE found == Resolve(Root, path)
             doing == [ at |-> "walking", group |-> Root, path |-> path, found |-> found ]
  <2>1. tasks' = [ tasks EXCEPT ![t] = doing ]
    BY <1>4 DEF StartWalk
  <2>2. doing.at = "walking" /\ doing.group = Root /\ doing.path = path /\ doing.found = found
    OBVIOUS
  <2> HIDE DEF doing
  <2>3. QED BY <1>3, <2>1, <2>2
<1>5. ASSUME Walk(t) PROVE PathsInv'
  <2> DEFINE task == tasks[t]
             next == groups[task.group].children[Head(task.path)]
             on   == [ task EXCEPT !.group = next, !.path = Tail(@) ]
  <2>1. tasks' = [ tasks EXCEPT ![t] = IF next = None \/ Len(task.path) = 1 THEN Idle ELSE on ]
    BY <1>0, <1>5 DEF Walk, TypeOK
  <2>2. IsWalk(task) /\ task.at = "walking"
    BY <1>0, <1>5, TaskParts DEF Walk
  <2>3. CASE next = None \/ Len(task.path) = 1
    <3>1. tasks' = [ tasks EXCEPT ![t] = Idle ] BY <2>1, <2>3
    <3>2. Idle.at = "idle" BY DEF Idle
    <3>3. QED BY <1>3, <3>1, <3>2
  <2>4. CASE ~ (next = None \/ Len(task.path) = 1)
    <3>1. tasks' = [ tasks EXCEPT ![t] = on ] BY <2>1, <2>4
    <3>2. PICK g \in DOMAIN groups, path \in Seq(Segments) \ { << >> } :
            task.group = g /\ task.path = path
      BY <2>2 DEF IsWalk
    <3>3. on.at = "walking" /\ on.group = next /\ on.path = Tail(path) /\ on.found = task.found
      BY <2>2, <3>2 DEF IsWalk
    <3>4. next = Child(g, Head(path))
      BY <1>0, <3>2, ChildType
    <3>5. task.found # None => Resolve(Child(g, Head(path)), Tail(path)) = task.found
      <4>1. task.found # None => Resolve(g, path) = task.found
        BY <2>2, <3>2 DEF PathsInv, WalkInv
      <4>2. QED BY <1>0, <4>1, ResolveFirst
    <3> HIDE DEF on, next, task
    <3>6. QED BY <1>3, <3>1, <3>3, <3>4, <3>5
  <2>5. QED BY <2>3, <2>4
<1>6. ASSUME NEW h \in DOMAIN cells, UpdateOverflows(t, h) PROVE PathsInv'
  <2>1. tasks' = [ tasks EXCEPT ![t] = Panicked ] BY <1>6 DEF UpdateOverflows
  <2>2. Panicked.at = "panicked" BY DEF Panicked
  <2>3. QED BY <1>3, <2>1, <2>2
<1>7. QED BY <1>4, <1>5, <1>6

\* An update changes the value of a cell, not what it was created as.
LEMMA UpdateKeeps ==
  ASSUME TypeOK, NEW h \in DOMAIN cells,
         \/ \E amount \in Amounts : Add(h, amount) \/ SetGauge(h, amount)
         \/ \E delta \in Deltas : UpdateGauge(h, delta)
  PROVE  /\ CellsKeep /\ EnteringStays /\ Grows
         /\ UNCHANGED << groups, registry, labels, tasks >>
<1>1. \E value, total : Change(h, value, total)
  <2>1. ASSUME NEW amount \in Amounts, Add(h, amount) PROVE \E value, total : Change(h, value, total)
    BY <2>1 DEF Add
  <2>2. ASSUME NEW amount \in Amounts, SetGauge(h, amount)
        PROVE  \E value, total : Change(h, value, total)
    BY <2>2 DEF SetGauge
  <2>3. ASSUME NEW delta \in Deltas, UpdateGauge(h, delta)
        PROVE  \E value, total : Change(h, value, total)
    BY <2>3 DEF UpdateGauge
  <2>4. QED BY <2>1, <2>2, <2>3
<1>2. PICK value, total : Change(h, value, total)
  BY <1>1
<1> DEFINE r == [ cells[h] EXCEPT !.value = value, !.total = total ]
<1>3. UNCHANGED << groups, registry, labels, tasks >>
  BY <1>2 DEF Change
<1>4. cells' = [ cells EXCEPT ![h] = r ]
  BY <1>2 DEF Change, TypeOK
<1>5. r.kind = cells[h].kind /\ r.name = cells[h].name
  <2>1. cells[h] \in CellType BY Parts
  <2>2. QED BY <2>1 DEF CellType
<1> HIDE DEF r
<1>6. /\ DOMAIN cells' = DOMAIN cells
      /\ \A i \in DOMAIN cells : cells'[i] = IF i = h THEN r ELSE cells[i]
  BY <1>4
<1>7. CellsKeep /\ EnteringStays /\ Grows
  BY <1>3, <1>5, <1>6 DEF CellsKeep, EnteringStays, Grows
<1>8. QED BY <1>3, <1>7

LEMMA UpdatePaths ==
  ASSUME IInv, PathsInv, Step, NEW h \in DOMAIN cells,
         \/ \E amount \in Amounts : Add(h, amount) \/ SetGauge(h, amount)
         \/ \E delta \in Deltas : UpdateGauge(h, delta)
  PROVE  PathsInv'
<1>1. TypeOK /\ TypeOK' /\ LookupStep
  BY DEF IInv, Step
<1>2. CellsKeep /\ EnteringStays /\ Grows /\ UNCHANGED << groups, registry, labels, tasks >>
  BY <1>1, UpdateKeeps
<1>3. WalkInv'
  BY <1>1, <1>2, WalksKept DEF PathsInv
<1>4. QED BY <1>2, <1>3, PathsKept
-----------------------------------------------------------------------------
(* What a status query rests on. *)

\* What is registered under a name was created with it.
NamedInv == \A x \in DOMAIN registry : cells[registry[x]].name = x

\* No step takes a group or a metric away, or gives one another name.
LEMMA NothingIsTaken ==
  ASSUME IInv, [Next]_vars
  PROVE  /\ Grows /\ CellsKeep
         /\ \/ registry' = registry
            \/ \E name : registry' = Put(registry, name, Len(cells) + 1)
                        /\ cells'[Len(cells) + 1].name = name
<1>0. TypeOK
  BY DEF IInv
<1>1. CASE UNCHANGED << groups, registry, cells >>
  BY <1>1 DEF Grows, CellsKeep
<1>2. ASSUME NEW t \in Tasks, NEW g \in DOMAIN groups, NEW n \in Names, CreateLabel(t, g, n)
      PROVE  Grows /\ CellsKeep /\ registry' = registry
  <2>1. UNCHANGED << groups, registry >> /\ cells' = Append(cells, Cell("label", FqName(g, n)))
    BY <1>2 DEF CreateLabel
  <2>2. QED BY <1>0, <2>1, NewCell, CellAdded
<1>3. ASSUME NEW t \in Tasks, NEW g \in DOMAIN groups, NEW n \in Names, NEW kind \in Kinds,
             Register(t, g, kind, n), ~ UNCHANGED << groups, registry, cells >>
      PROVE  /\ Grows /\ CellsKeep
             /\ registry' = Put(registry, FqName(g, n), Len(cells) + 1)
             /\ cells'[Len(cells) + 1].name = FqName(g, n)
  <2>1. /\ UNCHANGED groups
        /\ cells' = Append(cells, Cell(kind, FqName(g, n)))
        /\ registry' = Put(registry, FqName(g, n), Len(cells) + 1)
    BY <1>3 DEF Register
  <2>2. QED BY <1>0, <2>1, NewCell, CellAdded
<1>4. ASSUME NEW t \in Tasks, NEW g \in DOMAIN groups, NEW seg \in Segments, Subgroup(t, g, seg)
      PROVE  Grows /\ CellsKeep /\ registry' = registry
  <2>1. UNCHANGED << registry, cells >>
    BY <1>4 DEF Subgroup
  <2>2. QED BY <1>0, <1>4, <2>1, NewGroup DEF CellsKeep
<1>5. ASSUME NEW t \in Tasks, Insert(t)
      PROVE  Grows /\ CellsKeep /\ registry' = registry
  <2>1. UNCHANGED << registry, cells >>
    BY <1>5 DEF Insert
  <2>2. QED BY <1>0, <1>5, <2>1, Entered DEF CellsKeep
<1>6. ASSUME NEW t \in Tasks,
             \/ \E path \in Paths : StartWalk(t, path)
             \/ Walk(t)
             \/ \E h \in DOMAIN cells : UpdateOverflows(t, h)
      PROVE  UNCHANGED << groups, registry, cells >>
  BY <1>6 DEF StartWalk, Walk, UpdateOverflows
<1>7. ASSUME NEW h \in DOMAIN cells,
             \/ \E amount \in Amounts : Add(h, amount) \/ SetGauge(h, amount)
             \/ \E delta \in Deltas : UpdateGauge(h, delta)
      PROVE  Grows /\ CellsKeep /\ registry' = registry
  BY <1>0, <1>7, UpdateKeeps
<1>8. UNCHANGED vars => UNCHANGED << groups, registry, cells >>
  BY DEF vars
<1>9. QED BY <1>1, <1>2, <1>3, <1>4, <1>5, <1>6, <1>7, <1>8 DEF Next

LEMMA StepNamed == IInv /\ NamedInv /\ [Next]_vars => NamedInv'
<1> SUFFICES ASSUME IInv, NamedInv, [Next]_vars, NEW x \in DOMAIN registry'
             PROVE  cells'[registry'[x]].name = x
  BY DEF NamedInv
<1>1. ASSUME x \in DOMAIN registry, registry'[x] = registry[x]
      PROVE  cells'[registry'[x]].name = x
  <2>1. registry[x] \in DOMAIN cells
    BY <1>1, EntriesAreCells DEF IInv
  <2>2. QED BY <1>1, <2>1, NothingIsTaken DEF NamedInv, CellsKeep
<1>2. CASE registry' = registry
  BY <1>1, <1>2
<1>3. ASSUME NEW name, registry' = Put(registry, name, Len(cells) + 1),
             cells'[Len(cells) + 1].name = name
      PROVE  cells'[registry'[x]].name = x
  <2>1. x = name \/ (x \in DOMAIN registry /\ registry'[x] = registry[x])
    BY <1>3 DEF Put
  <2>2. x = name => registry'[x] = Len(cells) + 1
    BY <1>3 DEF Put
  <2>3. QED BY <1>1, <1>3, <2>1, <2>2
<1>4. QED BY <1>2, <1>3, NothingIsTaken

\* A gauge that can be read is a cell of that name, and is the same one after any step.
LEMMA GaugeStays ==
  ASSUME IInv, IInv', NamedInv, LookupStep, [Next]_vars, NEW n \in Names, ReadGauge(n) # Fails
  PROVE  \E h \in DOMAIN cells :
           /\ ReadGauge(n) = cells[h].value /\ ReadGauge(n)' = cells'[h].value
           /\ cells[h].name = FqName(ConsensusMetrics, n)
           /\ ReadGauge(n) \in Values /\ ReadGauge(n)' \in Values
<1> DEFINE g == ConsensusMetrics
           h == GetMetric(g, "gauge", n)
<1>1. TypeOK /\ TypeOK' /\ Grows /\ CellsKeep /\ Root \in DOMAIN groups
  BY NothingIsTaken DEF IInv, TypeOK
<1>2. g # None /\ h # None /\ ReadGauge(n) = cells[h].value
  BY DEF ReadGauge, Fails
<1>3. << Consensus >> \in Seq(Segments) /\ << "gauge", n >> \in Kinds \X Names
  BY StatusAssumption
<1>4. g \in DOMAIN groups
  BY <1>1, <1>2, <1>3, ResolveType DEF ConsensusMetrics
<1>5. g' = g
  BY <1>1, <1>2, <1>3, ResolveStays DEF ConsensusMetrics
<1>6. groups'[g].metrics[<< "gauge", n >>] = h
  BY <1>2, <1>3, <1>4 DEF LookupStep, GetMetric
<1>7. h' = h
  BY <1>5, <1>6 DEF GetMetric
<1>8. ReadGauge(n)' = cells'[h].value
  <2>1. ReadGauge(n)' = LET handle == IF g' = None THEN None ELSE h'
                        IN  IF handle = None THEN Fails' ELSE cells'[handle].value
    BY DEF ReadGauge
  <2>2. QED BY <1>2, <1>5, <1>7, <2>1
<1>9. FqName(g, n) \in DOMAIN registry /\ registry[FqName(g, n)] = h
  BY <1>2, <1>4, StatusAssumption DEF IInv, FoundInv, GetMetric
<1> HIDE DEF g, h
<1>10. h \in DOMAIN cells /\ cells[h].name = FqName(g, n)
  BY <1>1, <1>9, EntriesAreCells DEF NamedInv
<1>11. cells[h].value \in Values
  BY <1>1, <1>10, Parts DEF CellType
<1>12. cells'[h].value \in Values
  <2>1. h \in DOMAIN cells'
    BY <1>1, <1>10 DEF CellsKeep
  <2>2. cells' \in Seq(CellType')
    BY <1>1 DEF TypeOK
  <2>3. CellType' \subseteq [ kind : Kinds \cup {"label"},
                              name : { FqName(f, m)' : f \in DOMAIN groups', m \in Names },
                              value : Values, total : Int ]
    BY DEF CellType, Values, FqName
  <2>4. cells'[h] \in CellType'
    BY <2>1, <2>2, LenProperties, ElementOfSeq
  <2>5. QED BY <2>3, <2>4
<1>13. QED BY <1>2, <1>8, <1>10, <1>11, <1>12 DEF g
-----------------------------------------------------------------------------
(* The theorems. *)

LEMMA InitInv == Init => IInv
<1> SUFFICES ASSUME Init PROVE IInv
  OBVIOUS
<1>1. groups = << Group(<< >>) >> /\ registry = << >> /\ labels = << >> /\ cells = << >>
      /\ tasks = [ t \in Tasks |-> Idle ]
  BY DEF Init
<1>2. DOMAIN groups = {1} /\ DOMAIN cells = {} /\ DOMAIN registry = {} /\ DOMAIN labels = {}
  BY <1>1
<1>3. Group(<< >>) \in GroupType
  BY DEF Group, GroupType
<1>4. groups \in Seq(GroupType) /\ Root \in DOMAIN groups /\ cells \in Seq(CellType)
  BY <1>1, <1>2, <1>3 DEF Root
<1>5. Range(registry) \cup Range(labels) \subseteq DOMAIN cells
  BY <1>2 DEF Range
<1>6. /\ tasks = [ t \in Tasks |-> tasks[t] ]
      /\ \A t \in Tasks : tasks[t] \in Waiting /\ tasks[t].at # "registered"
  BY <1>1 DEF Waiting, Idle
<1>7. FoundInv
  BY <1>1, <1>2 DEF FoundInv, Group
<1>8. RegisteredInv /\ ValueInv
  BY <1>2, <1>6 DEF RegisteredInv, ValueInv
<1>9. QED BY <1>4, <1>5, <1>6, <1>7, <1>8 DEF IInv, TypeOK

LEMMA StepInv == IInv /\ [Next]_vars => Step
<1> SUFFICES ASSUME IInv, [Next]_vars PROVE Step
  OBVIOUS
<1>1. CASE UNCHANGED vars
  <2>1. Step
    BY <1>1 DEF vars, Step, IInv, TypeOK, FoundInv, RegisteredInv, ValueInv, LookupStep,
       GroupType, CellType, Entering, IsWalk, FqName
  <2>2. QED BY <2>1
<1>2. ASSUME NEW t \in Tasks, NEW g \in DOMAIN groups, NEW n \in Names,
             CreateLabel(t, g, n) \/ \E kind \in Kinds : Register(t, g, kind, n)
      PROVE  Step
  BY <1>2, CreateLabelStep, RegisterStep
<1>3. ASSUME NEW t \in Tasks, NEW g \in DOMAIN groups, NEW seg \in Segments, Subgroup(t, g, seg)
      PROVE  Step
  BY <1>3, SubgroupStep
<1>4. ASSUME NEW t \in Tasks, Insert(t) PROVE Step
  BY <1>4, InsertStep
<1>5. ASSUME NEW t \in Tasks,
             \/ \E path \in Paths : StartWalk(t, path)
             \/ Walk(t)
             \/ \E h \in DOMAIN cells : UpdateOverflows(t, h)
      PROVE  Step
  BY <1>5, WalkStep
<1>6. ASSUME NEW h \in DOMAIN cells,
             \/ \E amount \in Amounts : Add(h, amount) \/ SetGauge(h, amount)
             \/ \E delta \in Deltas : UpdateGauge(h, delta)
      PROVE  Step
  BY <1>6, UpdateStep
<1>7. QED BY <1>1, <1>2, <1>3, <1>4, <1>5, <1>6 DEF Next

LEMMA InitPaths == Init => PathsInv
<1> SUFFICES ASSUME Init PROVE PathsInv
  OBVIOUS
<1>0. TypeOK
  BY InitInv DEF IInv
<1>1. /\ groups = << Group(<< >>) >> /\ DOMAIN registry = {} /\ DOMAIN labels = {}
      /\ \A t \in Tasks : tasks[t].at = "idle"
  BY DEF Init, Idle
<1>2. /\ DOMAIN groups = {1} /\ Len(groups) = 1 /\ groups[1].namespace = << >>
      /\ \A seg \in Segments : groups[1].children[seg] = None
  BY <1>1 DEF Group
<1>3. KindInv /\ EnteredInv /\ LabelInv /\ WalkInv
  BY <1>1 DEF KindInv, EnteredInv, LabelInv, WalkInv
<1>4. ChildNamespaces
  BY <1>2 DEF ChildNamespaces
<1>5. Resolve(Root, << >>) = Root /\ Len(<< >>) = 0
  <2>1. Root \in DOMAIN groups /\ << >> \in Seq(Segments)
    BY <1>2 DEF Root
  <2>2. QED BY <1>0, <2>1, ResolveType
<1>6. 1 <= MaxGroups
  BY MetricsAssumption
<1>7. TreeInv
  BY <1>2, <1>4, <1>5, <1>6 DEF TreeInv, Root
<1>8. QED BY <1>3, <1>7 DEF PathsInv

LEMMA StepPaths == IInv /\ PathsInv /\ [Next]_vars => PathsInv'
<1> SUFFICES ASSUME IInv, PathsInv, [Next]_vars PROVE PathsInv'
  OBVIOUS
<1>0. Step
  BY StepInv
<1>1. CASE UNCHANGED vars
  <2>1. UNCHANGED << groups, registry, labels, cells, tasks >>
    BY <1>1 DEF vars
  <2>2. Grows /\ CellsKeep /\ EnteringStays
    BY <2>1 DEF Grows, CellsKeep, EnteringStays
  <2>3. TypeOK /\ TypeOK' /\ LookupStep
    BY <1>0 DEF IInv, Step
  <2>4. WalkInv'
    BY <2>1, <2>2, <2>3, WalksKept DEF PathsInv
  <2>5. QED BY <1>0, <2>1, <2>2, <2>4, PathsKept
<1>2. ASSUME NEW t \in Tasks, NEW g \in DOMAIN groups, NEW n \in Names, CreateLabel(t, g, n)
      PROVE  PathsInv'
  BY <1>0, <1>2, CreateLabelPaths
<1>3. ASSUME NEW t \in Tasks, NEW g \in DOMAIN groups, NEW n \in Names, NEW kind \in Kinds,
             Register(t, g, kind, n)
      PROVE  PathsInv'
  BY <1>0, <1>3, RegisterPaths
<1>4. ASSUME NEW t \in Tasks, NEW g \in DOMAIN groups, NEW seg \in Segments, Subgroup(t, g, seg)
      PROVE  PathsInv'
  BY <1>0, <1>4, SubgroupPaths
<1>5. ASSUME NEW t \in Tasks, Insert(t) PROVE PathsInv'
  BY <1>0, <1>5, InsertPaths
<1>6. ASSUME NEW t \in Tasks,
             \/ \E path \in Paths : StartWalk(t, path)
             \/ Walk(t)
             \/ \E h \in DOMAIN cells : UpdateOverflows(t, h)
      PROVE  PathsInv'
  BY <1>0, <1>6, WalkPaths
<1>7. ASSUME NEW h \in DOMAIN cells,
             \/ \E amount \in Amounts : Add(h, amount) \/ SetGauge(h, amount)
             \/ \E delta \in Deltas : UpdateGauge(h, delta)
      PROVE  PathsInv'
  BY <1>0, <1>7, UpdatePaths
<1>8. QED BY <1>1, <1>2, <1>3, <1>4, <1>5, <1>6, <1>7 DEF Next

THEOREM Invariance == Spec => []IInv
<1>1. IInv /\ [Next]_vars => IInv'
  BY StepInv DEF Step
<1>2. QED BY InitInv, <1>1, PTL DEF Spec

\* Every state of the metrics is of its type: handles are of groups and cells that are
\* there, and values of Width bits.
THEOREM TypeCorrect == Spec => []TypeOK
BY Invariance, PTL DEF IInv

\* Both parts of the invariant.
THEOREM NamesAndWalks == Spec => [](IInv /\ PathsInv)
<1>1. IInv /\ PathsInv /\ [Next]_vars => (IInv /\ PathsInv)'
  BY StepInv, StepPaths DEF Step
<1>2. QED BY InitInv, InitPaths, <1>1, PTL DEF Spec

\* A metric that is found by its name in a group is the one that the registry exports
\* under its fully qualified name, whatever other groups and names join to the same; one
\* that is exported can be found from the root, or is about to be; and a label that is
\* found has the name that was asked for.
THEOREM NamesCorrect == Spec => []NamesAgree
<1>1. IInv /\ PathsInv => NamesAgree
  <2> SUFFICES ASSUME IInv, PathsInv PROVE NamesAgree
    OBVIOUS
  <2>0. TypeOK
    BY DEF IInv
  <2>1. ASSUME NEW g \in DOMAIN groups, NEW n \in Names, NEW kind \in Kinds,
               GetMetric(g, kind, n) # None
        PROVE  Exported(FqName(g, n)) = GetMetric(g, kind, n)
    BY <2>1 DEF IInv, FoundInv, GetMetric, Exported, Entry
  <2>2. ASSUME NEW g \in DOMAIN groups, NEW n \in Names, GetLabel(g, n) # None
        PROVE  cells[GetLabel(g, n)].name = FqName(g, n)
    <3> DEFINE p == GetLabelPath(g, n)
    <3>1. Words(p) = FqName(g, n)
      BY <2>0, LabelNames
    <3> HIDE DEF p
    <3>2. p \in DOMAIN labels /\ GetLabel(g, n) = labels[p]
      BY <2>2 DEF GetLabel, Entry, p
    <3>3. QED BY <3>1, <3>2 DEF PathsInv, LabelInv
  <2>3. ASSUME NEW h \in Range(registry),
               NEW g \in DOMAIN groups, NEW n \in Names,
               groups[g].metrics[<< cells[h].kind, n >>] = h
        PROVE  \E path \in Paths \cup { << >> } : LET f == Resolve(Root, path) IN
                 f # None /\ \E m \in Names : GetMetric(f, cells[h].kind, m) = h
    <3>1. PICK path \in Seq(Segments) : path = groups[g].namespace
      BY <2>0, Parts DEF GroupType
    <3>2. Len(path) < g /\ Resolve(Root, path) = g
      BY <3>1 DEF PathsInv, TreeInv
    <3>3. g \in 1 .. Len(groups) /\ Len(groups) \in Nat /\ Len(groups) <= MaxGroups
          /\ MaxGroups \in Nat /\ Len(path) \in Nat
      BY <2>0, Parts, LenProperties, MetricsAssumption DEF PathsInv, TreeInv
    <3>4. path \in Paths \cup { << >> }
      <4>1. CASE path = << >> BY <4>1
      <4>2. CASE path # << >>
        <5> DEFINE k == Len(path)
        <5>1. k # 0 /\ path \in [ 1 .. k -> Segments ]
          BY <4>2, EmptySeq, LenProperties
        <5> HIDE DEF k
        <5>2. k \in 1 .. MaxGroups - 1
          BY <3>2, <3>3, <5>1 DEF k
        <5>3. QED BY <5>1, <5>2 DEF Paths
      <4>3. QED BY <4>1, <4>2
    <3>5. g # None /\ GetMetric(g, cells[h].kind, n) = h
      BY <2>0, <2>3, ChildType DEF GetMetric
    <3>6. QED BY <3>2, <3>4, <3>5
  <2>4. ASSUME NEW h \in Range(registry)
        PROVE  \/ \E t \in Tasks : tasks[t].at = "registered" /\ tasks[t].handle = h
               \/ \E path \in Paths \cup { << >> } : LET f == Resolve(Root, path) IN
                    f # None /\ \E m \in Names : GetMetric(f, cells[h].kind, m) = h
    <3>1. Covered(h)
      BY DEF PathsInv, EnteredInv, Range
    <3>2. QED BY <2>3, <3>1 DEF Covered
  <2>5. QED BY <2>1, <2>2, <2>4 DEF NamesAgree
<1>2. QED BY NamesAndWalks, <1>1, PTL

\* A path that exists when `get_subgroup` begins leads to the same group wherever other
\* tasks change the tree between its locks, and that group has the path as its namespace.
THEOREM WalksCorrect == Spec => []WalksArrive
<1>1. IInv /\ PathsInv => WalksArrive
  <2> SUFFICES ASSUME IInv, PathsInv PROVE WalksArrive
    OBVIOUS
  <2>1. ASSUME NEW t \in Tasks, tasks[t].at = "walking"
        PROVE  LET arrival == Resolve(tasks[t].group, tasks[t].path) IN
               /\ tasks[t].found # None => arrival = tasks[t].found
               /\ arrival # None => groups[arrival].namespace =
                                      groups[tasks[t].group].namespace \o tasks[t].path
    <3>1. PICK g \in DOMAIN groups, path \in Seq(Segments) :
            g = tasks[t].group /\ path = tasks[t].path
      BY <2>1, TaskParts DEF IInv, IsWalk
    <3> DEFINE arrival == Resolve(g, path)
    <3>2. tasks[t].found # None => arrival = tasks[t].found
      BY <2>1, <3>1 DEF PathsInv, WalkInv
    <3>3. arrival # None => groups[arrival].namespace = groups[g].namespace \o path
      BY ResolveNamespace DEF IInv, PathsInv, TreeInv
    <3>4. QED BY <3>1, <3>2, <3>3
  <2>2. QED BY <2>1 DEF WalksArrive
<1>2. QED BY NamesAndWalks, <1>1, PTL

\* What a name was once found to be in a group it is for ever: a group or a metric that
\* was looked up is never replaced.
THEOREM LookupsStable == Spec => LookupsAreStable
<1>1. IInv /\ [Next]_vars => [LookupStep]_vars
  BY StepInv DEF Step
<1>2. QED BY Invariance, <1>1, PTL DEF Spec, LookupsAreStable, LookupStep

\* A metric whose updates add up to a value it can hold has that value, for every number
\* of bits and every order of updates that wrap.
THEOREM ValuesCorrect == Spec => []ValuesAddUp
<1>1. IInv => ValuesAddUp
  <2>1. SUFFICES ASSUME IInv, NEW h \in DOMAIN cells, cells[h].total \in Values
        PROVE  cells[h].value = cells[h].total
    BY DEF ValuesAddUp
  <2> DEFINE v == cells[h].value
             s == cells[h].total
             m == 2^Width
  <2>2. PICK k \in Int : v = s + k * m
    BY <2>1 DEF IInv, ValueInv
  <2>3. v \in 0 .. m - 1 /\ s \in 0 .. m - 1 /\ m \in Nat /\ m > 0
    <3>1. cells[h] \in CellType BY <2>1, Parts DEF IInv
    <3>2. QED BY <2>1, <3>1, MetricsAssumption DEF CellType, Values
  <2> HIDE DEF v, s, m
  <2>4. k * m < m /\ k * m > -m
    BY <2>2, <2>3
  <2>5. k = 0
    BY <2>3, <2>4
  <2>6. v = s
    BY <2>2, <2>3, <2>5
  <2>7. QED BY <2>6 DEF v, s
<1>2. QED BY Invariance, <1>1, PTL
\* The step of StatusStays.
StatusStep ==
  LET there(name) == ReadGauge(name) # Fails
      same(name)  == ReadGauge(name)' = ReadGauge(name)
      updated(name) == \E h \in DOMAIN cells :
        /\ cells[h].name = FqName(ConsensusMetrics, name)
        /\ cells'[h].value # cells[h].value
  IN  /\ \A name \in Names : there(name) => same(name) \/ updated(name)
      /\ there(OutstandingTransactions) /\ there(OutstandingMemorySize) =>
           MempoolInfo \in Values \X Values
      /\ there(LastSyncedHeight) /\ there(CurrentView) =>
           /\ SuccessRate \in (Values \ {0}) \X Values
           /\ SuccessRate[2] = 0 => Infinite(SuccessRate)

\* A status query that was once answered always is, between the locks of its two reads too,
\* by the same gauges, whose values only their own updates change; the height in a success
\* rate is never 0, so that the rate is a positive number, or infinite at view 0, and
\* never 0 / 0.
THEOREM StatusCorrect == Spec => StatusStays
<1>1. Init => NamedInv
  BY DEF Init, NamedInv
<1>2. Spec => []NamedInv
  BY Invariance, <1>1, StepNamed, PTL DEF Spec
<1>3. IInv /\ IInv' /\ NamedInv /\ [Next]_vars => StatusStep
  <2>1. SUFFICES ASSUME IInv, IInv', NamedInv, [Next]_vars PROVE StatusStep
    OBVIOUS
  <2>2. LookupStep
    BY <2>1, StepInv DEF Step
  <2>3. ASSUME NEW n \in Names, ReadGauge(n) # Fails, ReadGauge(n)' # ReadGauge(n)
        PROVE  \E h \in DOMAIN cells : /\ cells[h].name = FqName(ConsensusMetrics, n)
                                       /\ cells'[h].value # cells[h].value
    BY <2>1, <2>2, <2>3, GaugeStays
  <2>4. ASSUME NEW n \in Names, ReadGauge(n) # Fails
        PROVE  ReadGauge(n) \in Values /\ ReadGauge(n)' \in Values
    BY <2>1, <2>2, <2>4, GaugeStays
  <2>5. ASSUME ReadGauge(OutstandingTransactions) # Fails, ReadGauge(OutstandingMemorySize) # Fails
        PROVE  MempoolInfo \in Values \X Values
    BY <2>4, <2>5, StatusAssumption DEF MempoolInfo
  <2>6. ASSUME ReadGauge(LastSyncedHeight) # Fails, ReadGauge(CurrentView) # Fails
        PROVE  /\ SuccessRate \in (Values \ {0}) \X Values
               /\ SuccessRate[2] = 0 => Infinite(SuccessRate)
    <3>1. ReadGauge(LastSyncedHeight)' \in Values /\ ReadGauge(CurrentView) \in Values
      BY <2>4, <2>6, StatusAssumption
    <3>2. BlockHeight' = IF ReadGauge(LastSyncedHeight)' = 0 THEN 1 ELSE ReadGauge(LastSyncedHeight)'
      BY DEF BlockHeight
    <3>3. 1 \in Values \ {0}
      BY StatusAssumption
    <3>4. BlockHeight' \in Values \ {0}
      BY <3>1, <3>2, <3>3
    <3>5. QED BY <3>1, <3>4 DEF SuccessRate, Infinite
  <2>7. QED BY <2>3, <2>5, <2>6 DEF StatusStep
<1>4. QED BY Invariance, <1>2, <1>3, PTL DEF Spec, StatusStays, StatusStep
=============================================================================
