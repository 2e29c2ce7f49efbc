-------------------------- MODULE SqlDataSourceProofs --------------------------
(***************************************************************************)
(* Machine-checked proofs about SqlDataSource, for every ledger, every set *)
(* of clients, every width and all failures.                               *)
(***************************************************************************)
EXTENDS SqlDataSource, DecideEventsProofs, FiniteSetTheorems, FunctionTheorems, SequenceTheorems

-----------------------------------------------------------------------------
(* Rows in the order of height *)

\* A sequence that lists a set in ascending order is what ORDER BY makes of it.
LEMMA AscendingIs ==
  ASSUME NEW S \in SUBSET Int, NEW s, Lists(s, S)
  PROVE  Ascending(S) = s
<1>1. s \in [ 1 .. Len(s) -> S ] /\ Len(s) \in Nat /\ S = { s[j] : j \in 1 .. Len(s) }
  BY LenProperties DEF Lists
<1>2. Cardinality(S) = Len(s)
  BY ListCounts
<1>3. ASSUME NEW i \in 1 .. Len(s)
      PROVE  (CHOOSE h \in S : Cardinality({ g \in S : g < h }) = i - 1) = s[i]
  <2>1. s[i] \in S /\ Cardinality({ g \in S : g < s[i] }) = i - 1
    BY CountBelow
  <2>2. ASSUME NEW h \in S, Cardinality({ g \in S : g < h }) = i - 1 PROVE h = s[i]
    <3>1. PICK k \in 1 .. Len(s) : h = s[k]
      BY <1>1
    <3>2. Cardinality({ g \in S : g < s[k] }) = k - 1
      BY CountBelow
    <3>3. k - 1 = i - 1
      BY <3>1, <3>2, <2>2
    <3>4. k = i
      BY <3>3
    <3>5. QED BY <3>1, <3>4
  <2>3. QED BY <2>1, <2>2
<1>4. Ascending(S) = [ i \in 1 .. Len(s) |-> s[i] ]
  BY <1>2, <1>3 DEF Ascending
<1>5. QED BY <1>1, <1>4

-----------------------------------------------------------------------------
(* The tables *)

(***************************************************************************)
(* The inductive invariant of the tables of a connection: the heights are  *)
(* consecutive from 0 on, every leaf has its header and its payload row,   *)
(* the rows of the transaction table at a height are those of the payload, *)
(* if it is there, and the rows are in the order of their places.          *)
(***************************************************************************)
RowBefore(a, b) ==
  \/ a.block_height < b.block_height
  \/ a.block_height = b.block_height /\ a.index < b.index

RowsOrdered(rows) == \A i, j \in 1 .. Len(rows) : i < j => RowBefore(rows[i], rows[j])

RowsAt(t, h) == { row \in Range(t.transaction) : row.block_height = h }

TableInv(t) ==
  /\ t \in Tables
  /\ \E n \in 0 .. MaxHeight + 1 : t.header = 0 .. n - 1
  /\ t.leaf = t.header /\ t.payload = t.header
  /\ t.data \subseteq t.header
  /\ \A h \in Heights : RowsAt(t, h) = IF h \in t.data THEN Range(TransactionRows(h)) ELSE {}
  /\ RowsOrdered(t.transaction)

\* Tables with any row have the genesis objects.
GenesisInv(t) == t.header # {} => 0 \in t.data

\* The block height of consecutive headers.
LEMMA HeightIs ==
  ASSUME NEW t, NEW n \in Nat, t.header = 0 .. n - 1
  PROVE  BlockHeight(t) = n
<1>1. CASE n = 0
  BY <1>1 DEF BlockHeight
<1>2. CASE n # 0
  <2>0. n >= 1
    BY <1>2
  <2>1. t.header # {} /\ n - 1 \in t.header /\ \A y \in t.header : n - 1 >= y
    BY <2>0
  <2>2. \A x \in t.header : (\A y \in t.header : x >= y) => x = n - 1
    BY <2>1
  <2>3. Max(t.header) = n - 1
    BY <2>1, <2>2 DEF Max
  <2>4. QED BY <2>1, <2>3 DEF BlockHeight
<1>3. QED BY <1>1, <1>2

LEMMA HeightFacts ==
  ASSUME NEW t, TableInv(t)
  PROVE  /\ BlockHeight(t) \in 0 .. MaxHeight + 1
         /\ t.header = 0 .. BlockHeight(t) - 1
         /\ \A h \in Heights : h \in t.header <=> h < BlockHeight(t)
<1>1. PICK n \in 0 .. MaxHeight + 1 : t.header = 0 .. n - 1
  BY DEF TableInv
<1>2. BlockHeight(t) = n
  BY <1>1, HeightIs
<1>3. QED BY <1>1, <1>2 DEF Heights

\* The rows of a block are rows of the transaction table.
Row == [ hash : Transactions, block_height : Heights, index : Nat ]

LEMMA RowsType ==
  ASSUME NEW h \in Heights
  PROVE  /\ TransactionRows(h) \in Seq(Row)
         /\ Len(TransactionRows(h)) = Len(Payload[h])
         /\ \A row \in Range(TransactionRows(h)) : row.block_height = h
         /\ RowsOrdered(TransactionRows(h))
<1>1. Payload[h] \in Seq(Range(Payload[h]))
  BY LedgerAssumption
<1> DEFINE n == Len(Payload[h])
<1>2. n \in Nat /\ DOMAIN Payload[h] = 1 .. n
  BY <1>1, LenProperties
<1>3. \A i \in 1 .. n : Payload[h][i] \in Transactions
  BY <1>2 DEF Transactions, Range
<1>4. TransactionRows(h) = [ i \in 1 .. n |-> [ hash |-> Payload[h][i], block_height |-> h, index |-> i ] ]
  BY <1>2 DEF TransactionRows
<1> HIDE DEF n
<1>5. TransactionRows(h) \in [ 1 .. n -> Row ]
  BY <1>3, <1>4 DEF Row
<1>6. TransactionRows(h) \in Seq(Row) /\ Len(TransactionRows(h)) = n
  BY <1>2, <1>5
<1>7. \A row \in Range(TransactionRows(h)) : row.block_height = h
  BY <1>4 DEF Range
<1>8. RowsOrdered(TransactionRows(h))
  <2>1. \A i \in 1 .. n : TransactionRows(h)[i].block_height = h /\ TransactionRows(h)[i].index = i
    BY <1>4
  <2>2. QED BY <1>2, <1>6, <2>1 DEF RowsOrdered, RowBefore
<1>9. QED BY <1>6, <1>7, <1>8 DEF n

\* A statement yields tables, if it does not fail.
Statement ==
  {"insert header", "insert payload", "insert leaf", "update payload", "insert transactions"}

LEMMA ExecuteType ==
  ASSUME NEW t \in Tables, NEW statement \in Statement, NEW h \in Heights
  PROVE  Execute(t, statement, h) \in SUBSET Tables
<1>1. CASE statement = "insert header"
  <2>1. [ t EXCEPT !.header = @ \cup {h} ] \in Tables
    BY DEF Tables
  <2>2. Execute(t, statement, h) \subseteq { [ t EXCEPT !.header = @ \cup {h} ] }
    BY <1>1 DEF Execute
  <2>3. QED BY <2>1, <2>2
<1>2. CASE statement = "insert payload"
  <2>1. [ t EXCEPT !.payload = @ \cup {h} ] \in Tables
    BY DEF Tables
  <2>2. Execute(t, statement, h) \subseteq { [ t EXCEPT !.payload = @ \cup {h} ] }
    BY <1>2 DEF Execute
  <2>3. QED BY <2>1, <2>2
<1>3. CASE statement = "insert leaf"
  <2>1. [ t EXCEPT !.leaf = @ \cup {h} ] \in Tables
    BY DEF Tables
  <2>2. Execute(t, statement, h) \subseteq { [ t EXCEPT !.leaf = @ \cup {h} ] }
    BY <1>3 DEF Execute
  <2>3. QED BY <2>1, <2>2
<1>4. CASE statement = "update payload"
  BY <1>4 DEF Execute, Tables
<1>5. CASE statement = "insert transactions"
  <2>1. t.transaction \o TransactionRows(h) \in Seq(Row)
    <3>1. t.transaction \in Seq(Row)
      BY DEF Tables, Row
    <3>2. QED BY <3>1, RowsType, ConcatProperties
  <2>2. [ t EXCEPT !.transaction = @ \o TransactionRows(h) ] \in Tables
    BY <2>1 DEF Tables, Row
  <2>3. Execute(t, statement, h) \subseteq { [ t EXCEPT !.transaction = @ \o TransactionRows(h) ] }
    BY <1>5 DEF Execute
  <2>4. QED BY <2>2, <2>3
<1>6. QED BY <1>1, <1>2, <1>3, <1>4, <1>5 DEF Statement

\* One statement after one that yields tables, or none.
After(acc, statement, h) == UNION { Execute(u, statement, h) : u \in acc }

\* The tables after each of the statements of `execute_many`.
StatementLists(n) == [ 1 .. n -> Statement ]

Outcomes(t, statements, n, h) ==
  { after \in [ 0 .. n -> SUBSET Tables ] :
      /\ after[0] = {t}
      /\ \A k \in 1 .. n : after[k] = After(after[k - 1], statements[k], h) }

LEMMA ExecuteManyTrace ==
  ASSUME NEW t \in Tables, NEW h \in Heights, NEW n \in Nat, NEW statements \in StatementLists(n)
  PROVE  \E after : after \in Outcomes(t, statements, n, h) /\ ExecuteMany(t, statements, h) = after[n]
<1> DEFINE Op(acc, s) == UNION { Execute(u, s, h) : u \in acc }
           step == [ p \in (1 .. n) \X SUBSET Tables |-> Op(p[2], statements[p[1]]) ]
           Is(it) == it = [ s \in SUBSET (1 .. n) |->
                              IF s = {} THEN {t} ELSE Op(it[s \ {Max(s)}], statements[Max(s)]) ]
           F == CHOOSE it : Is(it)
<1>1. \A acc \in SUBSET Tables, k \in 1 .. n : Op(acc, statements[k]) \in SUBSET Tables
  BY ExecuteType DEF StatementLists
<1>2. ExecuteMany(t, statements, h) = F[1 .. n]
  BY DEF ExecuteMany, FoldLeft, MapThenFoldSet, StatementLists
<1> HIDE DEF Op
<1>3. step \in [ (1 .. n) \X SUBSET Tables -> SUBSET Tables ]
  BY <1>1
<1>4. \A s \in SUBSET (1 .. n) : s # {} => Max(s) \in 1 .. n
  BY MaxOfSegment
<1>5. \E it : Is(it)
  <2>1. PICK it \in [ SUBSET (1 .. n) -> SUBSET Tables ] : \A s \in SUBSET (1 .. n) :
               it[s] = IF s = {} THEN {t} ELSE step[<< Max(s), it[s \ {Max(s)}] >>]
    <3> DEFINE T == SUBSET Tables
               base == {t}
    <3>1. base \in T /\ step \in StepFunctions(1 .. n, T)
      BY <1>3 DEF StepFunctions
    <3> HIDE DEF step, T, base
    <3>2. \E it : it \in FoldFunctions(1 .. n, T, base, step)
      BY <3>1, FoldExists
    <3>3. QED BY <3>2 DEF FoldFunctions, T, base
  <2>2. ASSUME NEW s \in SUBSET (1 .. n), s # {}
        PROVE  step[<< Max(s), it[s \ {Max(s)}] >>] = Op(it[s \ {Max(s)}], statements[Max(s)])
    BY <1>4, <2>2
  <2> HIDE DEF step
  <2>3. \A s \in SUBSET (1 .. n) :
          it[s] = IF s = {} THEN {t} ELSE Op(it[s \ {Max(s)}], statements[Max(s)])
    BY <2>1, <2>2
  <2>4. Is(it)
    BY <2>3
  <2>5. QED BY <2>4
<1>6. Is(F)
  <2> HIDE DEF Is
  <2>1. QED BY <1>5
<1> HIDE DEF F
<1> DEFINE after == [ k \in 0 .. n |-> F[1 .. k] ]
<1>7. after[0] = {t}
  BY <1>6
<1>8. ASSUME NEW k \in 1 .. n PROVE after[k] = Op(after[k - 1], statements[k])
  <2>1. k \in Nat \ {0} /\ k - 1 \in 0 .. n /\ 1 .. k \in SUBSET (1 .. n)
    OBVIOUS
  <2>2. Max(1 .. k) = k /\ (1 .. k) \ {Max(1 .. k)} = 1 .. k - 1 /\ 1 .. k # {}
    BY <2>1, GreatestOfSegment
  <2>3. F[1 .. k] = Op(F[1 .. k - 1], statements[k])
    BY <1>6, <2>1, <2>2
  <2>4. QED BY <2>1, <2>3
<1> HIDE DEF after
<1>9. \A k \in 0 .. n : after[k] \in SUBSET Tables
  <2> DEFINE Good == { k \in 0 .. n : after[k] \in SUBSET Tables }
  <2>1. 0 \in Good
    BY <1>7
  <2>2. \A k \in 0 .. n - 1 : k \in Good => k + 1 \in Good
    <3>1. SUFFICES ASSUME NEW k \in 0 .. n - 1, k \in Good PROVE k + 1 \in Good
      OBVIOUS
    <3>2. k + 1 \in 1 .. n /\ (k + 1) - 1 = k
      OBVIOUS
    <3>3. after[k + 1] = Op(after[k], statements[k + 1])
      BY <1>8, <3>2
    <3>4. QED BY <1>1, <3>1, <3>2, <3>3
  <2> HIDE DEF Good
  <2>3. \A k \in 0 .. n : k \in Good
    BY <2>1, <2>2, Induction
  <2>4. QED BY <2>3 DEF Good
<1>10. after \in [ 0 .. n -> SUBSET Tables ] /\ after[n] = F[1 .. n]
  BY <1>9 DEF after
<1>11. QED BY <1>2, <1>7, <1>8, <1>10 DEF Op, Outcomes, After

\* The tables with the rows of a leaf and, afterwards, with those of its block.
LeafAdded(t, h) ==
  [ t EXCEPT !.header = @ \cup {h}, !.payload = @ \cup {h}, !.leaf = @ \cup {h} ]

BlockAdded(t, h) ==
  [ t EXCEPT !.data = @ \cup {h}, !.transaction = @ \o TransactionRows(h) ]

LEMMA AfterOne ==
  ASSUME NEW t, NEW statement, NEW h
  PROVE  After({t}, statement, h) = Execute(t, statement, h) /\ After({}, statement, h) = {}
BY DEF After

\* `execute_many` of one, two and three statements.
LEMMA ExecuteSome ==
  ASSUME NEW t \in Tables, NEW h \in Heights,
         NEW a \in Statement, NEW b \in Statement, NEW c \in Statement
  PROVE  /\ ExecuteMany(t, << a >>, h) = Execute(t, a, h)
         /\ ExecuteMany(t, << a, b >>, h) = After(Execute(t, a, h), b, h)
         /\ ExecuteMany(t, << a, b, c >>, h) = After(After(Execute(t, a, h), b, h), c, h)
<1>1. ExecuteMany(t, << a >>, h) = Execute(t, a, h)
  <2> DEFINE statements == << a >>
  <2>1. statements \in StatementLists(1) /\ statements[1] = a
    BY DEF StatementLists
  <2> HIDE DEF statements
  <2>2. PICK after : after \in Outcomes(t, statements, 1, h) /\ ExecuteMany(t, statements, h) = after[1]
    BY <2>1, ExecuteManyTrace
  <2>3. after[0] = {t} /\ after[1] = After(after[0], a, h)
    BY <2>1, <2>2 DEF Outcomes
  <2>4. ExecuteMany(t, statements, h) = Execute(t, a, h)
    BY <2>2, <2>3, AfterOne
  <2>5. QED BY <2>4 DEF statements
<1>2. ExecuteMany(t, << a, b >>, h) = After(Execute(t, a, h), b, h)
  <2> DEFINE statements == << a, b >>
  <2>1. statements \in StatementLists(2) /\ statements[1] = a /\ statements[2] = b
    BY DEF StatementLists
  <2> HIDE DEF statements
  <2>2. PICK after : after \in Outcomes(t, statements, 2, h) /\ ExecuteMany(t, statements, h) = after[2]
    BY <2>1, ExecuteManyTrace
  <2>3. after[0] = {t} /\ after[1] = After(after[0], a, h) /\ after[2] = After(after[1], b, h)
    BY <2>1, <2>2 DEF Outcomes
  <2>4. ExecuteMany(t, statements, h) = After(Execute(t, a, h), b, h)
    BY <2>2, <2>3, AfterOne
  <2>5. QED BY <2>4 DEF statements
<1>3. ExecuteMany(t, << a, b, c >>, h) = After(After(Execute(t, a, h), b, h), c, h)
  <2> DEFINE statements == << a, b, c >>
  <2>1. /\ statements \in StatementLists(3)
        /\ statements[1] = a /\ statements[2] = b /\ statements[3] = c
    BY DEF StatementLists
  <2> HIDE DEF statements
  <2>2. PICK after : after \in Outcomes(t, statements, 3, h) /\ ExecuteMany(t, statements, h) = after[3]
    BY <2>1, ExecuteManyTrace
  <2>3. /\ after[0] = {t} /\ after[1] = After(after[0], a, h) /\ after[2] = After(after[1], b, h)
        /\ after[3] = After(after[2], c, h)
    BY <2>1, <2>2 DEF Outcomes
  <2>4. ExecuteMany(t, statements, h) = After(After(Execute(t, a, h), b, h), c, h)
    BY <2>2, <2>3, AfterOne
  <2>5. QED BY <2>4 DEF statements
<1>4. QED BY <1>1, <1>2, <1>3

\* The statements of a leaf fail if it is there, and otherwise add it.
LEMMA LeafResult ==
  ASSUME NEW t \in Tables, NEW h \in Heights, t.leaf = t.header, t.payload = t.header
  PROVE  ExecuteMany(t, LeafStatements, h) = IF h \in t.header THEN {} ELSE {LeafAdded(t, h)}
<1>1. ExecuteMany(t, LeafStatements, h)
        = After(After(Execute(t, "insert header", h), "insert payload", h), "insert leaf", h)
  BY ExecuteSome DEF LeafStatements, Statement
<1>4. CASE h \in t.header
  <2>1. Execute(t, "insert header", h) = {}
    BY <1>4 DEF Execute
  <2>2. QED BY <2>1, <1>1, <1>4, AfterOne
<1>5. CASE h \notin t.header
  <2> DEFINE t1 == [ t EXCEPT !.header = @ \cup {h} ]
             t2 == [ t1 EXCEPT !.payload = @ \cup {h} ]
             t3 == [ t2 EXCEPT !.leaf = @ \cup {h} ]
  <2>1. t1 \in Tables /\ t2 \in Tables /\ t3 = LeafAdded(t, h)
    BY DEF Tables, LeafAdded
  <2>2. Execute(t, "insert header", h) = {t1}
    BY <1>5 DEF Execute
  <2>3. Execute(t1, "insert payload", h) = {t2}
    <3>1. h \in t1.header /\ h \notin t1.payload
      BY <1>5 DEF Tables
    <3> HIDE DEF t1
    <3>2. QED BY <3>1 DEF Execute
  <2>4. Execute(t2, "insert leaf", h) = {t3}
    <3>1. h \in t2.header /\ h \notin t2.leaf
      BY <1>5 DEF Tables
    <3> HIDE DEF t2
    <3>2. QED BY <3>1 DEF Execute
  <2> HIDE DEF t1, t2, t3
  <2>5. After({t1}, "insert payload", h) = {t2} /\ After({t2}, "insert leaf", h) = {t3}
    <3>1. After({t1}, "insert payload", h) = Execute(t1, "insert payload", h)
      BY AfterOne
    <3>2. After({t2}, "insert leaf", h) = Execute(t2, "insert leaf", h)
      BY AfterOne
    <3>3. QED BY <2>3, <2>4, <3>1, <3>2
  <2>6. QED BY <1>1, <1>5, <2>1, <2>2, <2>5
<1>6. QED BY <1>4, <1>5

LEMMA Joined ==
  ASSUME NEW a, NEW b
  PROVE  << a >> \o << b >> = << a, b >>
<1> DEFINE S == {a, b}
<1>1. << a >> \in Seq(S) /\ << b >> \in Seq(S) /\ << a, b >> \in Seq(S)
  OBVIOUS
<1>2. Len(<< a >>) = 1 /\ Len(<< b >>) = 1 /\ Len(<< a, b >>) = 2
  OBVIOUS
<1> DEFINE s == << a >> \o << b >>
<1>3. s \in Seq(S) /\ Len(s) = 2
  BY <1>1, <1>2, ConcatProperties
<1>4. s[1] = a /\ s[2] = b
  <2> HIDE DEF S
  <2>1. \A i \in 1 .. 2 : s[i] = IF i <= 1 THEN << a >>[i] ELSE << b >>[i - 1]
    BY <1>1, <1>2, ConcatProperties
  <2> HIDE DEF s
  <2>2. QED BY <2>1
<1> HIDE DEF s
<1>5. \A i \in 1 .. Len(s) : s[i] = << a, b >>[i]
  BY <1>3, <1>4
<1>6. s = << a, b >>
  BY <1>1, <1>2, <1>3, <1>5, SeqEqual
<1>7. QED BY <1>6 DEF s

\* The statements of a block whose leaf is there add its payload and transactions.
LEMMA BlockResult ==
  ASSUME NEW t \in Tables, NEW h \in Heights, h \in t.header, h \in t.payload
  PROVE  ExecuteMany(t, BlockStatements(h), h) = {BlockAdded(t, h)}
<1> DEFINE t1 == [ t EXCEPT !.data = @ \cup {h} ]
<1>0. "update payload" \in Statement /\ "insert transactions" \in Statement
  BY DEF Statement
<1>1. t1 \in Tables
  BY DEF Tables
<1>2. Execute(t, "update payload", h) = {t1}
  <2>1. t.payload \cap {h} = {h}
    OBVIOUS
  <2>2. QED BY <2>1 DEF Execute
<1>3. CASE Payload[h] = << >>
  <2>1. BlockStatements(h) = << "update payload" >>
    BY <1>3 DEF BlockStatements
  <2>2. ExecuteMany(t, BlockStatements(h), h) = {t1}
    <3>1. \A a \in Statement : ExecuteMany(t, << a >>, h) = Execute(t, a, h)
      BY ExecuteSome
    <3>2. ExecuteMany(t, << "update payload" >>, h) = Execute(t, "update payload", h)
      BY <1>0, <3>1
    <3>3. QED BY <1>2, <2>1, <3>2
  <2>6. TransactionRows(h) = << >>
    BY <1>3 DEF TransactionRows
  <2>7. t.transaction \o << >> = t.transaction
    <3>1. t.transaction \in Seq(Row)
      BY DEF Tables, Row
    <3>2. QED BY <3>1, ConcatEmptySeq
  <2>8. BlockAdded(t, h) = t1
    BY <2>6, <2>7 DEF BlockAdded, Tables
  <2>9. QED BY <2>2, <2>8
<1>4. CASE Payload[h] # << >>
  <2>1. BlockStatements(h) = << "update payload", "insert transactions" >>
    <3>1. BlockStatements(h) = << "update payload" >> \o << "insert transactions" >>
      BY <1>4 DEF BlockStatements
    <3>2. QED BY <3>1, Joined
  <2>2. ExecuteMany(t, BlockStatements(h), h) = After(Execute(t, "update payload", h), "insert transactions", h)
    <3>1. \A a, b \in Statement : ExecuteMany(t, << a, b >>, h) = After(Execute(t, a, h), b, h)
      BY ExecuteSome
    <3>2. ExecuteMany(t, << "update payload", "insert transactions" >>, h)
            = After(Execute(t, "update payload", h), "insert transactions", h)
      BY <1>0, <3>1
    <3>3. QED BY <2>1, <3>2
  <2>6. Execute(t1, "insert transactions", h) = { [ t1 EXCEPT !.transaction = @ \o TransactionRows(h) ] }
    <3>1. t1.header \cap {h} = {h}
      BY DEF Tables
    <3> HIDE DEF t1
    <3>2. QED BY <3>1 DEF Execute
  <2>7. BlockAdded(t, h) = [ t1 EXCEPT !.transaction = @ \o TransactionRows(h) ]
    BY DEF BlockAdded, Tables
  <2> HIDE DEF t1
  <2>8. After({t1}, "insert transactions", h) = {BlockAdded(t, h)}
    BY <2>6, <2>7, AfterOne
  <2>9. QED BY <2>2, <2>8, <1>2
<1>5. QED BY <1>3, <1>4

\* A leaf is added at the block height, a block where its leaf is.
LEMMA LeafAddedInv ==
  ASSUME NEW t, TableInv(t), NEW h \in Heights, h = BlockHeight(t)
  PROVE  /\ h \notin t.header
         /\ TableInv(LeafAdded(t, h))
         /\ BlockHeight(LeafAdded(t, h)) = h + 1
<1>1. t.header = 0 .. h - 1 /\ h \in Nat /\ h <= MaxHeight /\ MaxHeight \in Nat
  BY HeightFacts, LedgerAssumption DEF Heights
<1> DEFINE u == LeafAdded(t, h)
<1>2. /\ u.header = t.header \cup {h} /\ u.payload = t.payload \cup {h} /\ u.leaf = t.leaf \cup {h}
      /\ u.data = t.data /\ u.transaction = t.transaction /\ u \in Tables
  BY DEF LeafAdded, TableInv, Tables
<1> HIDE DEF u
<1>3. u.header = 0 .. (h + 1) - 1 /\ h + 1 \in 0 .. MaxHeight + 1
  BY <1>1, <1>2
<1>4. BlockHeight(u) = h + 1
  BY <1>3, <1>1, HeightIs
<1>5. TableInv(u)
  BY <1>2, <1>3 DEF TableInv, RowsAt
<1>6. QED BY <1>1, <1>4, <1>5 DEF u

LEMMA OrderedConcat ==
  ASSUME NEW s \in Seq(Row), NEW u \in Seq(Row), RowsOrdered(s), RowsOrdered(u),
         \A a \in Range(s), b \in Range(u) : RowBefore(a, b)
  PROVE  RowsOrdered(s \o u)
<1> DEFINE w == s \o u
           m == Len(s)
           n == Len(u)
<1>1. m \in Nat /\ n \in Nat /\ s \in [ 1 .. m -> Row ] /\ u \in [ 1 .. n -> Row ]
  BY LenProperties
<1>2. Len(w) = m + n /\ \A i \in 1 .. m + n : w[i] = IF i <= m THEN s[i] ELSE u[i - m]
  BY ConcatProperties
<1>3. /\ \A i, j \in 1 .. m : i < j => RowBefore(s[i], s[j])
      /\ \A i, j \in 1 .. n : i < j => RowBefore(u[i], u[j])
  BY DEF RowsOrdered
<1>4. \A i \in 1 .. m, j \in 1 .. n : RowBefore(s[i], u[j])
  <2>1. (\A i \in 1 .. m : s[i] \in Range(s)) /\ (\A j \in 1 .. n : u[j] \in Range(u))
    BY <1>1 DEF Range
  <2>2. QED BY <2>1
<1> HIDE DEF w, m, n
<1>5. ASSUME NEW i \in 1 .. m + n, NEW j \in 1 .. m + n, i < j PROVE RowBefore(w[i], w[j])
  <2>1. CASE j <= m
    <3>1. i \in 1 .. m /\ j \in 1 .. m /\ i <= m
      BY <1>1, <1>5, <2>1
    <3>2. w[i] = s[i] /\ w[j] = s[j]
      BY <1>2, <2>1, <3>1
    <3>3. QED BY <1>3, <1>5, <3>1, <3>2
  <2>2. CASE ~ (j <= m) /\ i <= m
    <3>1. i \in 1 .. m /\ j - m \in 1 .. n
      BY <1>1, <2>2
    <3>2. w[i] = s[i] /\ w[j] = u[j - m]
      BY <1>2, <2>2
    <3>3. QED BY <1>4, <3>1, <3>2
  <2>3. CASE ~ (j <= m) /\ ~ (i <= m)
    <3>1. i - m \in 1 .. n /\ j - m \in 1 .. n /\ i - m < j - m
      BY <1>1, <1>5, <2>3
    <3>2. w[i] = u[i - m] /\ w[j] = u[j - m]
      BY <1>2, <2>3
    <3>3. QED BY <1>3, <3>1, <3>2
  <2>4. QED BY <2>1, <2>2, <2>3
<1>6. QED BY <1>2, <1>5 DEF RowsOrdered, w

LEMMA BlockAddedInv ==
  ASSUME NEW t, TableInv(t), NEW h \in Heights, h \in t.header, \A g \in t.data : g < h
  PROVE  TableInv(BlockAdded(t, h))
<1> DEFINE u == BlockAdded(t, h)
<1>1. t.transaction \in Seq(Row) /\ TransactionRows(h) \in Seq(Row)
  BY RowsType DEF TableInv, Tables, Row
<1>2. t.transaction \o TransactionRows(h) \in Seq(Row)
  BY <1>1, ConcatProperties
<1>3. /\ u.header = t.header /\ u.payload = t.payload /\ u.leaf = t.leaf
      /\ u.data = t.data \cup {h} /\ u.transaction = t.transaction \o TransactionRows(h)
      /\ u \in Tables
  BY <1>2 DEF BlockAdded, TableInv, Tables, Row
<1>4. Range(u.transaction) = Range(t.transaction) \cup Range(TransactionRows(h))
  BY <1>1, <1>3, RangeConcatenation
<1>5. ASSUME NEW g \in Heights
      PROVE  RowsAt(u, g) = IF g \in u.data THEN Range(TransactionRows(g)) ELSE {}
  <2>1. RowsAt(t, g) = IF g \in t.data THEN Range(TransactionRows(g)) ELSE {}
    BY DEF TableInv
  <2>2. \A row \in Range(TransactionRows(h)) : row.block_height = h
    BY RowsType
  <2>3. CASE g = h
    <3>1. RowsAt(u, g) = Range(TransactionRows(h))
      BY <2>1, <2>2, <2>3, <1>4 DEF RowsAt
    <3>2. QED BY <3>1, <2>3, <1>3
  <2>4. CASE g # h
    <3>1. RowsAt(u, g) = RowsAt(t, g)
      BY <2>2, <2>4, <1>4 DEF RowsAt
    <3>2. QED BY <3>1, <2>1, <2>4, <1>3
  <2>5. QED BY <2>3, <2>4
<1> HIDE DEF u
<1>6. RowsOrdered(t.transaction \o TransactionRows(h))
  <2>1. ASSUME NEW a \in Range(t.transaction), NEW b \in Range(TransactionRows(h)) PROVE RowBefore(a, b)
    <3>1. a.block_height \in Heights
      <4>1. t.transaction \in [ 1 .. Len(t.transaction) -> Row ]
        BY <1>1, LenProperties
      <4>2. a \in Row
        BY <4>1 DEF Range
      <4>3. QED BY <4>2 DEF Row
    <3>2. a \in RowsAt(t, a.block_height)
      BY DEF RowsAt
    <3>3. a.block_height \in t.data
      BY <3>1, <3>2 DEF TableInv
    <3>4. b.block_height = h
      BY RowsType
    <3>5. QED BY <3>3, <3>4 DEF RowBefore
  <2>2. RowsOrdered(t.transaction) /\ RowsOrdered(TransactionRows(h))
    BY RowsType DEF TableInv
  <2>3. QED BY <1>1, <2>1, <2>2, OrderedConcat
<1> HIDE DEF u
<1>7. TableInv(u)
  BY <1>3, <1>5, <1>6 DEF TableInv
<1>8. QED BY <1>7 DEF u

-----------------------------------------------------------------------------
(* The inductive invariant *)

\* The tables t have everything that is in the tables c, and beyond it only rows of
\* later leaves.
Grown(c, t) ==
  /\ c.header \subseteq t.header
  /\ c.data = t.data \cap c.header
  /\ Len(c.transaction) <= Len(t.transaction)
  /\ \A i \in 1 .. Len(c.transaction) : t.transaction[i] = c.transaction[i]

\* A data source d that works on the tables c: what it has not committed is what
\* its channels have not announced, and that there is such is what `tx_in_progress`
\* says.
WorkInv(c, d) ==
  /\ d.tx_in_progress <=> d.session \in {"open", "aborted"}
  /\ ~ d.tx_in_progress => d.tables = c
  /\ Lists(d.leaf_stream.pending, d.tables.leaf \ c.leaf)
  /\ Lists(d.block_stream.pending, d.tables.data \ c.data)

SourceInv(c, d) ==
  /\ d \in DataSource
  /\ TableInv(d.tables) /\ GenesisInv(d.tables)
  /\ d.session # "none" => d.tables.header # {}
  /\ Grown(c, d.tables)
  /\ d.session \in {"idle", "open", "aborted"} => WorkInv(c, d)

SqlInv ==
  /\ TableInv(db) /\ GenesisInv(db)
  /\ ds.session # "none" => db.header # {}
  /\ SourceInv(db, ds)
  /\ asked \subseteq Subscription

\* The rows that a query yields to a subscriber.
LeavesGiven(t, got, from) == Lists(got, { h \in t.leaf : h >= from })

BlocksGiven(t, got, from) ==
  /\ got \in Seq(Heights \cup {Missing})
  /\ Range(got) \ {Missing} = { h \in t.data : h >= from }
  /\ \A i, j \in DOMAIN got : i < j /\ Missing \notin {got[i], got[j]} => got[i] < got[j]

(***************************************************************************)
(* The inductive invariant of the streams.  What is remembered of a        *)
(* subscription fits the tables c that are committed:                      *)
(***************************************************************************)
SubInv(c, sub) ==
  /\ sub \in Subscription
  /\ TableInv(sub.seen) /\ TableInv(sub.kept)
  /\ Rows(sub.kept, sub) \subseteq Rows(c, sub)
  /\ \E s : Lists(s, Rows(c, sub) \ Rows(sub.kept, sub))

\* A subscription of committed rows from a height that is not above them.
Steady(sub) == sub.misled = 0 /\ sub.seen = sub.kept /\ sub.from <= BlockHeight(sub.kept)

\* What a subscriber of a data source d at work has received.
GivenInv(c, d, sub) ==
  LET got == Received(d, sub)
  IN  /\ got \in Seq(Heights \cup {Missing})
      /\ { h \in Rows(c, sub) : h >= sub.from } \subseteq Range(got)
      /\ sub.misled = 0 => got = Promised(c, sub)
      /\ Steady(sub) => sub.from <= BlockHeight(c) /\ GivesAll(c, sub, got)

\* And when the connection is lost.
LeftInv(c, d, sub) ==
  sub.misled = 0 => IsPrefix(Received(d, sub), Promised(c, sub))

StreamInv ==
  /\ ds.session = "none" => asked = {}
  /\ Usable => \A sub \in asked : SubInv(db, sub) /\ GivenInv(db, ds, sub)
  /\ ds.session = "lost" => \A sub \in asked : LeftInv(db, ds, sub)

-----------------------------------------------------------------------------
(* Insertion keeps it *)

AtWork(d) == d.session \in {"idle", "open", "aborted"}

LEMMA BeginKeeps ==
  ASSUME NEW c, NEW d, SourceInv(c, d), AtWork(d)
  PROVE  /\ SourceInv(c, Begin(d))
         /\ Begin(d).tx_in_progress /\ Begin(d).session \in {"open", "aborted"}
         /\ Begin(d).session = "aborted" <=> d.session = "aborted"
         /\ Begin(d).tables = d.tables
<1>1. /\ d \in DataSource /\ WorkInv(c, d)
  BY DEF SourceInv, AtWork
<1>2. CASE d.tx_in_progress
  BY <1>1, <1>2 DEF Begin, WorkInv
<1>3. CASE ~ d.tx_in_progress
  <2>1. /\ Begin(d) \in DataSource /\ Begin(d).session = "open" /\ Begin(d).tx_in_progress
        /\ Begin(d).tables = d.tables /\ Begin(d).leaf_stream = d.leaf_stream
        /\ Begin(d).block_stream = d.block_stream
    BY <1>1, <1>3 DEF Begin, DataSource
  <2>2. d.session = "idle"
    BY <1>1, <1>3 DEF WorkInv, AtWork
  <2>3. WorkInv(c, Begin(d))
    BY <1>1, <2>1 DEF WorkInv
  <2>4. SourceInv(c, Begin(d))
    BY <2>1, <2>2, <2>3 DEF SourceInv
  <2>5. QED BY <2>1, <2>2, <2>4
<1>4. QED BY <1>2, <1>3

LEMMA AbortedKeeps ==
  ASSUME NEW c, NEW d, SourceInv(c, d), d.session \in {"open", "aborted"}
  PROVE  /\ SourceInv(c, Aborted(d))
         /\ Aborted(d).session = "aborted"
<1>1. d \in DataSource /\ WorkInv(c, d)
  BY DEF SourceInv
<1>2. /\ Aborted(d) \in DataSource /\ Aborted(d).session = "aborted"
      /\ Aborted(d).tx_in_progress = d.tx_in_progress /\ Aborted(d).tables = d.tables
      /\ Aborted(d).leaf_stream = d.leaf_stream /\ Aborted(d).block_stream = d.block_stream
  BY <1>1 DEF Aborted, DataSource
<1>3. WorkInv(c, Aborted(d))
  BY <1>1, <1>2 DEF WorkInv
<1>4. QED BY <1>2, <1>3 DEF SourceInv

\* What a leaf's and a block's insertion do when they succeed.
LeafInserted(d, h) == [ d EXCEPT !.tables = LeafAdded(@, h), !.leaf_stream = Push(@, h) ]

BlockInserted(d, h) == [ d EXCEPT !.tables = BlockAdded(@, h), !.block_stream = Push(@, h) ]

LEMMA InsertLeafIs ==
  ASSUME NEW d, NEW h \in Heights, TableInv(Begin(d).tables), Begin(d) \in DataSource
  PROVE  InsertLeaf(d, h) =
           IF Begin(d).session = "open" /\ h \notin Begin(d).tables.header
           THEN LeafInserted(Begin(d), h) ELSE Aborted(Begin(d))
<1> DEFINE b == Begin(d)
           after == ExecuteMany(b.tables, LeafStatements, h)
<1>1. after = IF h \in b.tables.header THEN {} ELSE {LeafAdded(b.tables, h)}
  <2> HIDE DEF b
  <2>1. QED BY LeafResult DEF TableInv, b
<1>2. InsertLeaf(d, h) = IF b.session = "open" /\ after # {}
                         THEN [ b EXCEPT !.tables = CHOOSE t \in after : TRUE, !.leaf_stream = Push(@, h) ]
                         ELSE Aborted(b)
  BY DEF InsertLeaf
<1> HIDE DEF after, b
<1>3. h \notin b.tables.header => after # {} /\ (CHOOSE t \in after : TRUE) = LeafAdded(b.tables, h)
  BY <1>1
<1>4. h \in b.tables.header => after = {}
  BY <1>1
<1>5. QED BY <1>2, <1>3, <1>4 DEF b, LeafInserted

LEMMA InsertBlockIs ==
  ASSUME NEW d, NEW h \in Heights, TableInv(Begin(d).tables), h \in Begin(d).tables.header
  PROVE  InsertBlock(d, h) =
           IF Begin(d).session = "open" THEN BlockInserted(Begin(d), h) ELSE Aborted(Begin(d))
<1> DEFINE b == Begin(d)
           after == ExecuteMany(b.tables, BlockStatements(h), h)
<1>1. after = {BlockAdded(b.tables, h)}
  <2> HIDE DEF b
  <2>1. QED BY BlockResult DEF TableInv, b
<1>2. InsertBlock(d, h) = IF b.session = "open" /\ after # {}
                          THEN [ b EXCEPT !.tables = CHOOSE t \in after : TRUE, !.block_stream = Push(@, h) ]
                          ELSE Aborted(b)
  BY DEF InsertBlock
<1> HIDE DEF after, b
<1>3. after # {} /\ (CHOOSE t \in after : TRUE) = BlockAdded(b.tables, h)
  BY <1>1
<1>4. QED BY <1>2, <1>3 DEF b, BlockInserted
LEMMA PushType ==
  ASSUME NEW M, NEW ch \in ChannelType(M), NEW msg \in M
  PROVE  /\ Push(ch, msg) \in ChannelType(M)
         /\ Push(ch, msg).pending = Append(ch.pending, msg)
         /\ Push(ch, msg).received = ch.received
<1>1. Append(ch.pending, msg) \in Seq(M)
  BY AppendProperties DEF ChannelType
<1>2. QED BY <1>1 DEF ChannelType, Push

LEMMA LeafInsertedKeeps ==
  ASSUME NEW c, TableInv(c), NEW d, SourceInv(c, d), d.session = "open", d.tables.header # {},
         NEW h \in Heights, h = BlockHeight(d.tables)
  PROVE  /\ SourceInv(c, LeafInserted(d, h)) /\ LeafInserted(d, h).session = "open"
         /\ LeafInserted(d, h).tables = LeafAdded(d.tables, h)
         /\ h \notin c.header /\ h \notin d.tables.data
<1> DEFINE n == LeafInserted(d, h)
           u == LeafAdded(d.tables, h)
<1>1. d \in DataSource /\ WorkInv(c, d) /\ Grown(c, d.tables) /\ TableInv(d.tables) /\ GenesisInv(d.tables)
  BY DEF SourceInv
<1>2. h \notin d.tables.header /\ TableInv(u)
  BY <1>1, LeafAddedInv
<1>3. h \notin c.header /\ h \notin d.tables.data
  BY <1>1, <1>2 DEF Grown, TableInv
<1>4. /\ u.header = d.tables.header \cup {h} /\ u.leaf = d.tables.leaf \cup {h} /\ u.data = d.tables.data
      /\ u.transaction = d.tables.transaction
  BY <1>1 DEF LeafAdded, TableInv, Tables
<1> HIDE DEF u
<1>5. /\ n.tables = u /\ n.session = "open" /\ n.tx_in_progress = d.tx_in_progress
      /\ n.leaf_stream = Push(d.leaf_stream, h) /\ n.block_stream = d.block_stream
  BY <1>1 DEF LeafInserted, DataSource, u
<1>6. /\ Push(d.leaf_stream, h) \in ChannelType(Heights \cup {Missing})
      /\ Push(d.leaf_stream, h).pending = Append(d.leaf_stream.pending, h)
  <2>1. d.leaf_stream \in ChannelType(Heights \cup {Missing})
    BY <1>1 DEF DataSource
  <2>2. QED BY <2>1, PushType
<1>7. n \in DataSource
  <2>1. u \in Tables
    BY <1>2 DEF TableInv
  <2>2. QED BY <1>1, <1>6, <2>1 DEF LeafInserted, DataSource, u
<1> HIDE DEF n
<1>8. Lists(n.leaf_stream.pending, n.tables.leaf \ c.leaf)
  <2> DEFINE S == d.tables.leaf \ c.leaf
  <2>1. n.tables.leaf \ c.leaf = S \cup {h}
    BY <1>3, <1>4, <1>5 DEF TableInv
  <2>2. S \in SUBSET Int /\ h \in Int
    BY <1>1 DEF TableInv, Tables, Heights
  <2>3. \A y \in S : y < h
    <3>1. \A y \in d.tables.header : y \in Heights
      BY <1>1 DEF TableInv, Tables
    <3>2. d.tables.leaf = d.tables.header
      BY <1>1 DEF TableInv
    <3>3. QED BY <1>1, <3>1, <3>2, HeightFacts
  <2>4. Lists(d.leaf_stream.pending, S)
    BY <1>1 DEF WorkInv
  <2> HIDE DEF S
  <2>5. Lists(Append(d.leaf_stream.pending, h), S \cup {h})
    BY <2>2, <2>3, <2>4, ListsAppend
  <2>6. QED BY <2>1, <2>5, <1>5, <1>6
<1>9. WorkInv(c, n)
  BY <1>1, <1>4, <1>5, <1>8 DEF WorkInv
<1>10. Grown(c, u)
  BY <1>1, <1>3, <1>4 DEF Grown
<1>11. GenesisInv(u) /\ u.header # {}
  BY <1>1, <1>4 DEF GenesisInv
<1>12. SourceInv(c, n)
  BY <1>2, <1>5, <1>7, <1>9, <1>10, <1>11 DEF SourceInv
<1>13. QED BY <1>3, <1>5, <1>12 DEF n, u

LEMMA BlockInsertedKeeps ==
  ASSUME NEW c, TableInv(c), NEW d, SourceInv(c, d), d.session = "open",
         NEW h \in Heights, h \in d.tables.header, h \notin d.tables.data, h \notin c.header,
         BlockHeight(d.tables) = h + 1
  PROVE  /\ SourceInv(c, BlockInserted(d, h)) /\ BlockInserted(d, h).session = "open"
         /\ BlockInserted(d, h).tables.header = d.tables.header
<1> DEFINE n == BlockInserted(d, h)
           u == BlockAdded(d.tables, h)
<1>1. d \in DataSource /\ WorkInv(c, d) /\ Grown(c, d.tables) /\ TableInv(d.tables) /\ GenesisInv(d.tables)
  BY DEF SourceInv
<1>2. TableInv(u)
  <2>1. ASSUME NEW g \in d.tables.data PROVE g < h
    <3>1. g \in Heights /\ g \in d.tables.header /\ g # h
      BY <1>1 DEF TableInv, Tables
    <3>2. g < h + 1
      BY <1>1, <3>1, HeightFacts
    <3>3. g \in Int /\ h \in Int
      BY <3>1 DEF Heights
    <3>4. QED BY <3>1, <3>2, <3>3
  <2>2. QED BY <1>1, <2>1, BlockAddedInv
<1>3. h \notin c.data
  BY DEF TableInv
<1>4. /\ u.header = d.tables.header /\ u.leaf = d.tables.leaf /\ u.data = d.tables.data \cup {h}
      /\ u.transaction = d.tables.transaction \o TransactionRows(h)
  BY <1>1 DEF BlockAdded, TableInv, Tables
<1> HIDE DEF u
<1>5. /\ n.tables = u /\ n.session = "open" /\ n.tx_in_progress = d.tx_in_progress
      /\ n.block_stream = Push(d.block_stream, h) /\ n.leaf_stream = d.leaf_stream
  BY <1>1 DEF BlockInserted, DataSource, u
<1>6. /\ Push(d.block_stream, h) \in ChannelType(Heights \cup {Missing})
      /\ Push(d.block_stream, h).pending = Append(d.block_stream.pending, h)
  <2>1. d.block_stream \in ChannelType(Heights \cup {Missing})
    BY <1>1 DEF DataSource
  <2>2. QED BY <2>1, PushType
<1>7. n \in DataSource
  <2>1. u \in Tables
    BY <1>2 DEF TableInv
  <2>2. QED BY <1>1, <1>6, <2>1 DEF BlockInserted, DataSource, u
<1> HIDE DEF n
<1>8. Lists(n.block_stream.pending, n.tables.data \ c.data)
  <2> DEFINE S == d.tables.data \ c.data
  <2>1. n.tables.data \ c.data = S \cup {h}
    BY <1>3, <1>4, <1>5
  <2>2. S \in SUBSET Int /\ h \in Int
    BY <1>1 DEF TableInv, Tables, Heights
  <2>3. \A y \in S : y < h
    <3>1. \A y \in d.tables.data : y \in Heights /\ y \in d.tables.header /\ y # h
      BY <1>1 DEF TableInv, Tables
    <3>2. \A y \in d.tables.data : y < h + 1
      BY <1>1, <3>1, HeightFacts
    <3>3. \A y \in S : y \in Int /\ y # h /\ y < h + 1
      BY <3>1, <3>2, <2>2
    <3>4. QED BY <3>3, <2>2
  <2>4. Lists(d.block_stream.pending, S)
    BY <1>1 DEF WorkInv
  <2> HIDE DEF S
  <2>5. Lists(Append(d.block_stream.pending, h), S \cup {h})
    BY <2>2, <2>3, <2>4, ListsAppend
  <2>6. QED BY <2>1, <2>5, <1>5, <1>6
<1>9. WorkInv(c, n)
  BY <1>1, <1>4, <1>5, <1>8 DEF WorkInv
<1>10. Grown(c, u)
  <2>1. d.tables.transaction \in Seq(Row) /\ TransactionRows(h) \in Seq(Row) /\ c.transaction \in Seq(Row)
    BY <1>1, RowsType DEF TableInv, Tables, Row
  <2>2. /\ Len(c.transaction) \in Nat /\ Len(d.tables.transaction) \in Nat
        /\ Len(TransactionRows(h)) \in Nat /\ Len(c.transaction) <= Len(d.tables.transaction)
    BY <2>1, <1>1, LenProperties DEF Grown
  <2>3. /\ Len(u.transaction) = Len(d.tables.transaction) + Len(TransactionRows(h))
        /\ \A i \in 1 .. Len(d.tables.transaction) + Len(TransactionRows(h)) :
              i <= Len(d.tables.transaction) => u.transaction[i] = d.tables.transaction[i]
    BY <2>1, <1>4, ConcatProperties
  <2>4. Len(c.transaction) <= Len(u.transaction)
    BY <2>2, <2>3
  <2>5. ASSUME NEW i \in 1 .. Len(c.transaction) PROVE u.transaction[i] = c.transaction[i]
    <3>1. i \in 1 .. Len(d.tables.transaction) + Len(TransactionRows(h)) /\ i <= Len(d.tables.transaction)
      BY <2>2
    <3>2. QED BY <3>1, <2>3, <1>1 DEF Grown
  <2>6. c.header \subseteq u.header /\ c.data = u.data \cap c.header
    BY <1>1, <1>4 DEF Grown
  <2>7. QED BY <2>4, <2>5, <2>6 DEF Grown
<1>11. GenesisInv(u) /\ u.header # {}
  BY <1>1, <1>4 DEF GenesisInv
<1>12. SourceInv(c, n)
  BY <1>2, <1>5, <1>7, <1>9, <1>10, <1>11 DEF SourceInv
<1>13. QED BY <1>4, <1>5, <1>12 DEF n, u
-----------------------------------------------------------------------------
(* `update` *)

\* Insertion makes a data source of a data source, in whatever state.
LEMMA AfterType ==
  ASSUME NEW acc \in SUBSET Tables, NEW statement \in Statement, NEW h \in Heights
  PROVE  After(acc, statement, h) \in SUBSET Tables
BY ExecuteType DEF After

LEMMA StatementsType ==
  ASSUME NEW t \in Tables, NEW h \in Heights
  PROVE  /\ ExecuteMany(t, LeafStatements, h) \in SUBSET Tables
         /\ ExecuteMany(t, BlockStatements(h), h) \in SUBSET Tables
<1>1. /\ "insert header" \in Statement /\ "insert payload" \in Statement /\ "insert leaf" \in Statement
      /\ "update payload" \in Statement /\ "insert transactions" \in Statement
  BY DEF Statement
<1>2. ExecuteMany(t, LeafStatements, h) \in SUBSET Tables
  <2>1. ExecuteMany(t, LeafStatements, h)
          = After(After(Execute(t, "insert header", h), "insert payload", h), "insert leaf", h)
    BY ExecuteSome DEF LeafStatements, Statement
  <2>2. Execute(t, "insert header", h) \in SUBSET Tables
    BY <1>1, ExecuteType
  <2>3. After(Execute(t, "insert header", h), "insert payload", h) \in SUBSET Tables
    BY <1>1, <2>2, AfterType
  <2>4. QED BY <1>1, <2>1, <2>3, AfterType
<1>3. ExecuteMany(t, BlockStatements(h), h) \in SUBSET Tables
  <2>1. Execute(t, "update payload", h) \in SUBSET Tables
    BY <1>1, ExecuteType
  <2>2. CASE Payload[h] = << >>
    <3>1. BlockStatements(h) = << "update payload" >>
      BY <2>2 DEF BlockStatements
    <3>2. \A a \in Statement : ExecuteMany(t, << a >>, h) = Execute(t, a, h)
      BY ExecuteSome
    <3>3. ExecuteMany(t, << "update payload" >>, h) = Execute(t, "update payload", h)
      BY <1>1, <3>2
    <3>4. QED BY <2>1, <3>1, <3>3
  <2>3. CASE Payload[h] # << >>
    <3>1. BlockStatements(h) = << "update payload" >> \o << "insert transactions" >>
      BY <2>3 DEF BlockStatements
    <3>2. BlockStatements(h) = << "update payload", "insert transactions" >>
      BY <3>1, Joined
    <3>3. ExecuteMany(t, BlockStatements(h), h) = After(Execute(t, "update payload", h), "insert transactions", h)
      <4>1. "update payload" \in Statement /\ "insert transactions" \in Statement
        BY <1>1
      <4>2. ExecuteMany(t, << "update payload", "insert transactions" >>, h)
              = After(Execute(t, "update payload", h), "insert transactions", h)
        BY <4>1, ExecuteSome
      <4>3. QED BY <3>2, <4>2
    <3>4. QED BY <1>1, <2>1, <3>3, AfterType
  <2>4. QED BY <2>2, <2>3
<1>4. QED BY <1>2, <1>3

LEMMA InsertType ==
  ASSUME NEW d \in DataSource, NEW h \in Heights
  PROVE  InsertLeaf(d, h) \in DataSource /\ InsertBlock(d, h) \in DataSource
<1> DEFINE b == Begin(d)
<1>1. b \in DataSource /\ Aborted(b) \in DataSource
  BY DEF Begin, Aborted, DataSource
<1>2. b.tables \in Tables
  BY <1>1 DEF DataSource
<1>3. /\ Push(b.leaf_stream, h) \in ChannelType(Heights \cup {Missing})
      /\ Push(b.block_stream, h) \in ChannelType(Heights \cup {Missing})
  <2>1. /\ b.leaf_stream \in ChannelType(Heights \cup {Missing})
        /\ b.block_stream \in ChannelType(Heights \cup {Missing})
        /\ h \in Heights \cup {Missing}
    BY <1>1 DEF DataSource
  <2> HIDE DEF b
  <2>2. QED BY <2>1, PushType
<1>4. \A t \in Tables : /\ [ b EXCEPT !.tables = t, !.leaf_stream = Push(@, h) ] \in DataSource
                        /\ [ b EXCEPT !.tables = t, !.block_stream = Push(@, h) ] \in DataSource
  <2> HIDE DEF b
  <2>1. QED BY <1>1, <1>3 DEF DataSource
<1>5. InsertLeaf(d, h) \in DataSource
  <2> DEFINE after == ExecuteMany(b.tables, LeafStatements, h)
  <2>1. InsertLeaf(d, h) = IF b.session = "open" /\ after # {}
                           THEN [ b EXCEPT !.tables = CHOOSE t \in after : TRUE, !.leaf_stream = Push(@, h) ]
                           ELSE Aborted(b)
    BY DEF InsertLeaf
  <2>2. after \in SUBSET Tables
    <3> HIDE DEF b
    <3>1. QED BY <1>2, StatementsType
  <2> HIDE DEF after, b
  <2>3. after # {} => (CHOOSE t \in after : TRUE) \in Tables
    BY <2>2
  <2>4. QED BY <1>1, <1>4, <2>1, <2>3
<1>6. InsertBlock(d, h) \in DataSource
  <2> DEFINE after == ExecuteMany(b.tables, BlockStatements(h), h)
  <2>1. InsertBlock(d, h) = IF b.session = "open" /\ after # {}
                            THEN [ b EXCEPT !.tables = CHOOSE t \in after : TRUE, !.block_stream = Push(@, h) ]
                            ELSE Aborted(b)
    BY DEF InsertBlock
  <2>2. after \in SUBSET Tables
    <3> HIDE DEF b
    <3>1. QED BY <1>2, StatementsType
  <2> HIDE DEF after, b
  <2>3. after # {} => (CHOOSE t \in after : TRUE) \in Tables
    BY <2>2
  <2>4. QED BY <1>1, <1>4, <2>1, <2>3
<1>7. QED BY <1>5, <1>6

LEMMA InsertPairType ==
  ASSUME NEW d \in DataSource, NEW e, NEW pair, pair.leaf \in Heights
  PROVE  InsertPair(d, e, pair) \in DataSource
BY InsertType DEF InsertPair

\* The data source after each of the pairs.
PairStates(d, e, n) ==
  { states \in [ 0 .. n -> DataSource ] :
      /\ states[0] = d
      /\ \A k \in 1 .. n : states[k] = InsertPair(states[k - 1], e, UpdatePairs(e)[k]) }

LEMMA InsertPairsTrace ==
  ASSUME NEW d \in DataSource, NEW e \in Event, NEW n \in 0 .. e.last - e.first + 1
  PROVE  \E states : states \in PairStates(d, e, n) /\ InsertPairs(d, e, n) = states[n]
<1> DEFINE pairs == SubSeq(UpdatePairs(e), 1, n)
           Op(acc, pair) == InsertPair(acc, e, pair)
           step == [ p \in (1 .. n) \X DataSource |-> Op(p[2], pairs[p[1]]) ]
           Is(it) == it = [ s \in SUBSET (1 .. n) |->
                              IF s = {} THEN d ELSE Op(it[s \ {Max(s)}], pairs[Max(s)]) ]
           F == CHOOSE it : Is(it)
<1>1. /\ n \in Nat /\ DOMAIN pairs = 1 .. n
      /\ \A k \in 1 .. n : pairs[k] = UpdatePairs(e)[k] /\ pairs[k].leaf \in Heights
  BY PairFacts
<1>2. InsertPairs(d, e, n) = F[1 .. n]
  BY <1>1 DEF InsertPairs, FoldLeft, MapThenFoldSet
<1> HIDE DEF pairs
<1>3. \A acc \in DataSource, k \in 1 .. n : Op(acc, pairs[k]) \in DataSource
  BY <1>1, InsertPairType
<1> HIDE DEF Op
<1>4. step \in StepFunctions(1 .. n, DataSource)
  BY <1>3 DEF StepFunctions
<1>5. \A s \in SUBSET (1 .. n) : s # {} => Max(s) \in 1 .. n
  BY <1>1, MaxOfSegment
<1>6. \E it : Is(it)
  <2>1. PICK it \in [ SUBSET (1 .. n) -> DataSource ] : \A s \in SUBSET (1 .. n) :
               it[s] = IF s = {} THEN d ELSE step[<< Max(s), it[s \ {Max(s)}] >>]
    <3> HIDE DEF step
    <3>1. \E it : it \in FoldFunctions(1 .. n, DataSource, d, step)
      BY <1>1, <1>4, FoldExists
    <3>2. QED BY <3>1 DEF FoldFunctions
  <2>2. ASSUME NEW s \in SUBSET (1 .. n), s # {}
        PROVE  step[<< Max(s), it[s \ {Max(s)}] >>] = Op(it[s \ {Max(s)}], pairs[Max(s)])
    BY <1>5, <2>2
  <2> HIDE DEF step
  <2>3. \A s \in SUBSET (1 .. n) :
          it[s] = IF s = {} THEN d ELSE Op(it[s \ {Max(s)}], pairs[Max(s)])
    BY <2>1, <2>2
  <2>4. Is(it)
    BY <2>3
  <2>5. QED BY <2>4
<1>7. Is(F)
  <2> HIDE DEF Is
  <2>1. QED BY <1>6
<1> HIDE DEF F
<1> DEFINE states == [ k \in 0 .. n |-> F[1 .. k] ]
<1>8. states[0] = d
  BY <1>1, <1>7
<1>9. ASSUME NEW k \in 1 .. n PROVE states[k] = Op(states[k - 1], pairs[k])
  <2>1. k \in Nat \ {0} /\ k - 1 \in 0 .. n /\ 1 .. k \in SUBSET (1 .. n)
    BY <1>1
  <2>2. Max(1 .. k) = k /\ (1 .. k) \ {Max(1 .. k)} = 1 .. k - 1 /\ 1 .. k # {}
    BY <2>1, GreatestOfSegment
  <2>3. F[1 .. k] = Op(F[1 .. k - 1], pairs[k])
    BY <1>7, <2>1, <2>2
  <2>4. QED BY <2>1, <2>3
<1> HIDE DEF states
<1>10. \A k \in 0 .. n : states[k] \in DataSource
  <2> DEFINE Good == { k \in 0 .. n : states[k] \in DataSource }
  <2>1. 0 \in Good
    BY <1>1, <1>8
  <2>2. \A k \in 0 .. n - 1 : k \in Good => k + 1 \in Good
    <3>1. SUFFICES ASSUME NEW k \in 0 .. n - 1, k \in Good PROVE k + 1 \in Good
      OBVIOUS
    <3>2. k + 1 \in 1 .. n /\ (k + 1) - 1 = k
      BY <1>1
    <3>3. states[k + 1] = Op(states[k], pairs[k + 1])
      BY <1>9, <3>2
    <3>4. QED BY <1>3, <3>1, <3>2, <3>3
  <2> HIDE DEF Good
  <2>3. \A k \in 0 .. n : k \in Good
    BY <1>1, <2>1, <2>2, Induction
  <2>4. QED BY <2>3 DEF Good
<1>11. states \in [ 0 .. n -> DataSource ] /\ states[n] = F[1 .. n]
  BY <1>1, <1>10 DEF states
<1>12. \A k \in 1 .. n : states[k] = InsertPair(states[k - 1], e, UpdatePairs(e)[k])
  BY <1>1, <1>9 DEF Op
<1>13. QED BY <1>2, <1>8, <1>11, <1>12 DEF PairStates
\* Insertion removes no row, and gives subscribers nothing.
Follows(d, n) ==
  /\ n.leaf_stream.received = d.leaf_stream.received
  /\ n.block_stream.received = d.block_stream.received
  /\ d.tables.leaf \subseteq n.tables.leaf
  /\ d.tables.data \subseteq n.tables.data

LEMMA StepsFollow ==
  ASSUME NEW d \in DataSource, NEW h \in Heights
  PROVE  /\ Follows(d, Begin(d)) /\ Follows(d, Aborted(d))
         /\ Follows(d, LeafInserted(d, h)) /\ Follows(d, BlockInserted(d, h))
<1>1. Follows(d, Begin(d)) /\ Follows(d, Aborted(d))
  BY DEF Follows, Begin, Aborted, DataSource
<1>2. /\ LeafAdded(d.tables, h).leaf = d.tables.leaf \cup {h} /\ LeafAdded(d.tables, h).data = d.tables.data
      /\ BlockAdded(d.tables, h).leaf = d.tables.leaf /\ BlockAdded(d.tables, h).data = d.tables.data \cup {h}
  BY DEF DataSource, Tables, LeafAdded, BlockAdded
<1>3. /\ Push(d.leaf_stream, h).received = d.leaf_stream.received
      /\ Push(d.block_stream, h).received = d.block_stream.received
  <2>1. /\ d.leaf_stream \in ChannelType(Heights \cup {Missing})
        /\ d.block_stream \in ChannelType(Heights \cup {Missing})
    BY DEF DataSource
  <2>2. QED BY <2>1, PushType
<1>4. /\ LeafInserted(d, h).tables = LeafAdded(d.tables, h)
      /\ LeafInserted(d, h).leaf_stream = Push(d.leaf_stream, h)
      /\ LeafInserted(d, h).block_stream = d.block_stream
  BY DEF LeafInserted, DataSource
<1>5. /\ BlockInserted(d, h).tables = BlockAdded(d.tables, h)
      /\ BlockInserted(d, h).block_stream = Push(d.block_stream, h)
      /\ BlockInserted(d, h).leaf_stream = d.leaf_stream
  BY DEF BlockInserted, DataSource
<1>6. QED BY <1>1, <1>2, <1>3, <1>4, <1>5 DEF Follows

LEMMA FollowsAll ==
  ASSUME NEW d, NEW n, NEW m, Follows(d, n), Follows(n, m)
  PROVE  Follows(d, m)
BY DEF Follows

\* The next leaf to insert is not above the block height, or nothing is inserted.
Reaches(d, h) == d.session # "aborted" => h <= BlockHeight(d.tables)

InTransaction(d) == d.session \in {"open", "aborted"}

LEMMA InsertLeafKeeps ==
  ASSUME NEW c, TableInv(c), NEW d, SourceInv(c, d), AtWork(d), NEW h \in Heights, Reaches(d, h)
  PROVE  /\ SourceInv(c, InsertLeaf(d, h)) /\ InTransaction(InsertLeaf(d, h))
         /\ InsertLeaf(d, h).session = "open" =>
              /\ h \in InsertLeaf(d, h).tables.header /\ h \notin InsertLeaf(d, h).tables.data
              /\ h \notin c.header /\ BlockHeight(InsertLeaf(d, h).tables) = h + 1
         /\ Follows(d, InsertLeaf(d, h))
<1> DEFINE b == Begin(d)
           n == InsertLeaf(d, h)
<1>0. Follows(d, b)
  BY StepsFollow DEF SourceInv
<1>1. /\ SourceInv(c, b) /\ b.tx_in_progress /\ b.session \in {"open", "aborted"}
      /\ (b.session = "aborted" <=> d.session = "aborted") /\ b.tables = d.tables
  BY BeginKeeps
<1>2. b \in DataSource /\ TableInv(b.tables) /\ b.tables.header # {}
  BY <1>1 DEF SourceInv
<1>3. n = IF b.session = "open" /\ h \notin b.tables.header THEN LeafInserted(b, h) ELSE Aborted(b)
  BY <1>2, InsertLeafIs
<1> HIDE DEF b, n
<1>4. CASE b.session = "open" /\ h \notin b.tables.header
  <2>1. h <= BlockHeight(b.tables)
    BY <1>1, <1>4 DEF Reaches
  <2>2. h = BlockHeight(b.tables)
    <3>1. /\ BlockHeight(b.tables) \in 0 .. MaxHeight + 1 /\ (h \in b.tables.header <=> h < BlockHeight(b.tables))
      BY <1>2, HeightFacts
    <3>2. h \in Nat /\ MaxHeight \in Nat
      BY LedgerAssumption DEF Heights
    <3>3. QED BY <3>1, <3>2, <2>1, <1>4
  <2>3. /\ SourceInv(c, LeafInserted(b, h)) /\ LeafInserted(b, h).session = "open"
        /\ LeafInserted(b, h).tables = LeafAdded(b.tables, h)
        /\ h \notin c.header /\ h \notin b.tables.data
    BY <1>1, <1>2, <1>4, <2>2, LeafInsertedKeeps
  <2>4. BlockHeight(LeafAdded(b.tables, h)) = h + 1
    BY <1>2, <2>2, LeafAddedInv
  <2>5. h \in LeafAdded(b.tables, h).header /\ h \notin LeafAdded(b.tables, h).data
    BY <1>2, <2>3 DEF LeafAdded, TableInv, Tables
  <2>6. n = LeafInserted(b, h)
    BY <1>3, <1>4
  <2>7. Follows(d, n)
    BY <1>0, <1>2, <2>6, StepsFollow, FollowsAll
  <2>8. QED BY <2>3, <2>4, <2>5, <2>6, <2>7 DEF n, InTransaction
<1>5. CASE ~ (b.session = "open" /\ h \notin b.tables.header)
  <2>1. SourceInv(c, Aborted(b)) /\ Aborted(b).session = "aborted"
    BY <1>1, AbortedKeeps
  <2>2. n = Aborted(b)
    BY <1>3, <1>5
  <2>3. Follows(d, n)
    BY <1>0, <1>2, <2>2, StepsFollow, FollowsAll
  <2>4. QED BY <2>1, <2>2, <2>3 DEF n, InTransaction
<1>6. QED BY <1>4, <1>5

LEMMA InsertBlockKeeps ==
  ASSUME NEW c, TableInv(c), NEW d, SourceInv(c, d), InTransaction(d), NEW h \in Heights,
         d.session = "open" => /\ h \in d.tables.header /\ h \notin d.tables.data
                               /\ h \notin c.header /\ BlockHeight(d.tables) = h + 1
  PROVE  /\ SourceInv(c, InsertBlock(d, h)) /\ InTransaction(InsertBlock(d, h))
         /\ InsertBlock(d, h).session = "open" => BlockHeight(InsertBlock(d, h).tables) = h + 1
         /\ Follows(d, InsertBlock(d, h))
<1> DEFINE n == InsertBlock(d, h)
<1>1. d \in DataSource /\ WorkInv(c, d) /\ TableInv(d.tables)
  BY DEF SourceInv, InTransaction
<1>2. Begin(d) = d
  BY <1>1 DEF Begin, WorkInv, InTransaction
<1>3. CASE d.session = "open"
  <2>1. n = BlockInserted(d, h)
    BY <1>1, <1>2, <1>3, InsertBlockIs
  <2>2. /\ SourceInv(c, BlockInserted(d, h)) /\ BlockInserted(d, h).session = "open"
        /\ BlockInserted(d, h).tables.header = d.tables.header
    BY <1>3, BlockInsertedKeeps
  <2>3. BlockHeight(BlockInserted(d, h).tables) = BlockHeight(d.tables)
    BY <2>2 DEF BlockHeight
  <2>4. Follows(d, BlockInserted(d, h))
    BY <1>1, StepsFollow
  <2>5. QED BY <1>3, <2>1, <2>2, <2>3, <2>4 DEF InTransaction
<1>4. CASE d.session # "open"
  <2>1. n = Aborted(d)
    BY <1>2, <1>4 DEF InsertBlock
  <2>2. SourceInv(c, Aborted(d)) /\ Aborted(d).session = "aborted"
    BY AbortedKeeps DEF InTransaction
  <2>3. Follows(d, Aborted(d))
    BY <1>1, StepsFollow
  <2>4. QED BY <2>1, <2>2, <2>3 DEF InTransaction
<1>5. QED BY <1>3, <1>4

LEMMA InsertPairKeeps ==
  ASSUME NEW c, TableInv(c), NEW d, SourceInv(c, d), AtWork(d), NEW e, NEW pair, pair.leaf \in Heights,
         Reaches(d, pair.leaf)
  PROVE  /\ SourceInv(c, InsertPair(d, e, pair)) /\ AtWork(InsertPair(d, e, pair))
         /\ Reaches(InsertPair(d, e, pair), pair.leaf + 1)
         /\ Follows(d, InsertPair(d, e, pair))
<1> DEFINE h == pair.leaf
           stored == InsertLeaf(d, h)
<1>1. /\ SourceInv(c, stored) /\ InTransaction(stored)
      /\ stored.session = "open" =>
              /\ h \in stored.tables.header /\ h \notin stored.tables.data
              /\ h \notin c.header /\ BlockHeight(stored.tables) = h + 1
      /\ Follows(d, stored)
  BY InsertLeafKeeps
<1>2. /\ SourceInv(c, InsertBlock(stored, h)) /\ InTransaction(InsertBlock(stored, h))
      /\ InsertBlock(stored, h).session = "open" => BlockHeight(InsertBlock(stored, h).tables) = h + 1
      /\ Follows(stored, InsertBlock(stored, h))
  <2> HIDE DEF stored
  <2>1. QED BY <1>1, InsertBlockKeeps
<1>3. h + 1 <= h + 1
  BY DEF Heights
<1>4. InsertPair(d, e, pair) \in { stored, InsertBlock(stored, h) }
  BY DEF InsertPair
<1> HIDE DEF stored
<1>5. Follows(d, InsertPair(d, e, pair))
  BY <1>1, <1>2, <1>4, FollowsAll
<1>6. QED BY <1>1, <1>2, <1>3, <1>4, <1>5 DEF InTransaction, AtWork, Reaches

\* The first n leaves of an event that may happen.
LEMMA InsertPairsKeep ==
  ASSUME NEW c, TableInv(c), NEW d, SourceInv(c, d), AtWork(d), NEW e \in Event, e.first <= BlockHeight(d.tables),
         NEW n \in 0 .. e.last - e.first + 1
  PROVE  /\ SourceInv(c, InsertPairs(d, e, n)) /\ AtWork(InsertPairs(d, e, n))
         /\ Reaches(InsertPairs(d, e, n), e.first + n)
         /\ Follows(d, InsertPairs(d, e, n))
<1>1. d \in DataSource
  BY DEF SourceInv
<1>2. PICK states : states \in PairStates(d, e, n) /\ InsertPairs(d, e, n) = states[n]
  BY <1>1, InsertPairsTrace
<1>3. n \in Nat /\ e.first \in Nat
  BY EventFacts, PairFacts
<1> DEFINE Good == { k \in 0 .. n : /\ SourceInv(c, states[k]) /\ AtWork(states[k])
                                   /\ Reaches(states[k], e.first + k) /\ Follows(d, states[k]) }
<1>4. 0 \in Good
  <2>1. states[0] = d /\ e.first + 0 = e.first /\ 0 \in 0 .. n
    BY <1>2, <1>3 DEF PairStates
  <2>2. QED BY <2>1 DEF Reaches, Follows
<1>5. ASSUME NEW k \in 0 .. n - 1, k \in Good PROVE k + 1 \in Good
  <2>1. k + 1 \in 1 .. n /\ (k + 1) - 1 = k /\ k + 1 \in 0 .. n
    BY <1>3
  <2>2. states[k + 1] = InsertPair(states[k], e, UpdatePairs(e)[k + 1])
    BY <1>2, <2>1 DEF PairStates
  <2>3. UpdatePairs(e)[k + 1].leaf = e.first + (k + 1) - 1 /\ e.first + (k + 1) - 1 \in Heights
    BY <2>1, PairFacts
  <2>4. e.first + (k + 1) - 1 = e.first + k /\ e.first + k + 1 = e.first + (k + 1)
    BY <1>3
  <2> DEFINE pair == UpdatePairs(e)[k + 1]
             x == states[k]
  <2>5. /\ pair.leaf = e.first + k /\ pair.leaf \in Heights
        /\ SourceInv(c, x) /\ AtWork(x) /\ Reaches(x, pair.leaf) /\ Follows(d, x)
    BY <2>3, <2>4, <1>5
  <2> HIDE DEF pair, x
  <2>6. /\ SourceInv(c, InsertPair(x, e, pair)) /\ AtWork(InsertPair(x, e, pair))
        /\ Reaches(InsertPair(x, e, pair), pair.leaf + 1) /\ Follows(x, InsertPair(x, e, pair))
    BY <2>5, InsertPairKeeps
  <2>7. states[k + 1] = InsertPair(x, e, pair)
    BY <2>2 DEF x, pair
  <2>8. Follows(d, InsertPair(x, e, pair))
    BY <2>5, <2>6, FollowsAll
  <2>9. QED BY <2>1, <2>4, <2>5, <2>6, <2>7, <2>8
<1> HIDE DEF Good
<1>6. n \in Good
  <2>1. \A k \in 0 .. n - 1 : k \in Good => k + 1 \in Good
    BY <1>5
  <2>2. \A k \in 0 .. n : k \in Good
    BY <1>3, <1>4, <2>1, Induction
  <2>3. QED BY <1>3, <2>2
<1>7. QED BY <1>2, <1>6 DEF Good

LEMMA UpdateKeeps ==
  ASSUME NEW c, TableInv(c), NEW d, SourceInv(c, d), AtWork(d), NEW e \in Event, e.first <= BlockHeight(d.tables)
  PROVE  SourceInv(c, UpdateFrom(d, e)) /\ AtWork(UpdateFrom(d, e)) /\ Follows(d, UpdateFrom(d, e))
<1> DEFINE m == e.last - e.first + 1
<1>1. m \in 0 .. m /\ m \in 0 .. e.last - e.first + 1
  BY EventFacts
<1>2. UpdateFrom(d, e) = InsertPairs(d, e, m)
  BY <1>1, PairFacts DEF UpdateFrom
<1> HIDE DEF m
<1>3. QED BY <1>1, <1>2, InsertPairsKeep

LEMMA FailedUpdateKeeps ==
  ASSUME NEW c, TableInv(c), NEW d, SourceInv(c, d), AtWork(d), NEW e \in Event, e.first <= BlockHeight(d.tables),
         NEW f \in FailedUpdates(d, e)
  PROVE  SourceInv(c, f) /\ AtWork(f) /\ Follows(d, f)
<1>1. PICK n \in 0 .. e.last - e.first :
        \/ f = Aborted(Begin(InsertPairs(d, e, n)))
        \/ f = Aborted(InsertLeaf(InsertPairs(d, e, n), e.first + n))
  BY DEF FailedUpdates
<1> DEFINE before == InsertPairs(d, e, n)
           h == e.first + n
<1>2. n \in 0 .. e.last - e.first + 1 /\ h \in Heights
  BY EventFacts DEF Heights
<1>3. SourceInv(c, before) /\ AtWork(before) /\ Reaches(before, h) /\ Follows(d, before)
  BY <1>2, InsertPairsKeep
<1> HIDE DEF before, h
<1>4. CASE f = Aborted(Begin(before))
  <2>1. SourceInv(c, Begin(before)) /\ Begin(before).session \in {"open", "aborted"}
    BY <1>3, BeginKeeps
  <2>2. before \in DataSource /\ Begin(before) \in DataSource
    BY <1>3, <2>1 DEF SourceInv
  <2>3. Follows(d, f)
    BY <1>2, <1>3, <1>4, <2>2, StepsFollow, FollowsAll
  <2>4. QED BY <2>1, <2>3, <1>4, AbortedKeeps DEF AtWork
<1>5. CASE f = Aborted(InsertLeaf(before, h))
  <2> DEFINE stored == InsertLeaf(before, h)
  <2>1. SourceInv(c, stored) /\ InTransaction(stored) /\ Follows(before, stored)
    BY <1>2, <1>3, InsertLeafKeeps
  <2> HIDE DEF stored
  <2>2. Follows(stored, Aborted(stored))
    BY <1>2, <2>1, StepsFollow DEF SourceInv
  <2>3. Follows(d, Aborted(stored))
    BY <1>3, <2>1, <2>2, FollowsAll
  <2>4. SourceInv(c, Aborted(stored)) /\ Aborted(stored).session = "aborted"
    BY <2>1, AbortedKeeps DEF InTransaction
  <2>5. QED BY <2>3, <2>4, <1>5 DEF AtWork, stored
<1>6. QED BY <1>1, <1>4, <1>5 DEF before, h
-----------------------------------------------------------------------------
(* Subscriptions *)

\* A height is a bigint.
LEMMA LimitIs == BigintLimit \in Nat /\ MaxHeight < BigintLimit
<1>1. 2^(Width - 1) \in Int
  BY WidthAssumption
<1>2. QED BY <1>1, WidthAssumption, LedgerAssumption DEF BigintLimit

LEMMA BigintIs ==
  ASSUME NEW n \in Heights
  PROVE  Bigint(n) = n
<1>1. n < BigintLimit
  BY LimitIs, LedgerAssumption DEF Heights
<1>2. QED BY <1>1 DEF Bigint

\* The consecutive heights from one on.
LEMMA ListsConsecutive ==
  ASSUME NEW from \in Nat, NEW n \in Nat, from <= n
  PROVE  Lists([ i \in 1 .. n - from |-> from + i - 1 ], from .. n - 1)
<1> DEFINE s == [ i \in 1 .. n - from |-> from + i - 1 ]
           S == from .. n - 1
           k == n - from
<1>1. k \in Nat /\ s \in [ 1 .. k -> S ]
  OBVIOUS
<1>2. s \in Seq(S) /\ Len(s) = k
  <2> HIDE DEF k, s, S
  <2>1. QED BY <1>1
<1>3. S = { s[i] : i \in 1 .. k }
  <2>1. \A x \in S : x - from + 1 \in 1 .. k /\ s[x - from + 1] = x
    OBVIOUS
  <2>2. \A i \in 1 .. k : s[i] \in S
    BY <1>1
  <2>3. \A x \in S : \E i \in 1 .. k : s[i] = x
    BY <2>1
  <2> HIDE DEF S, s, k
  <2>4. QED BY <2>2, <2>3
<1>4. \A i, j \in 1 .. k : i < j => s[i] < s[j]
  OBVIOUS
<1>5. QED BY <1>2, <1>3, <1>4 DEF Lists

LEMMA ListsFrom ==
  ASSUME NEW t, TableInv(t), NEW from \in Heights
  PROVE  \E s : Lists(s, { h \in t.header : h >= from })
<1>1. from \in Nat /\ BlockHeight(t) \in Nat /\ t.header = 0 .. BlockHeight(t) - 1
  BY HeightFacts, LedgerAssumption DEF Heights
<1>2. CASE from <= BlockHeight(t)
  <2>1. { h \in t.header : h >= from } = from .. BlockHeight(t) - 1
    BY <1>1, <1>2
  <2>2. QED BY <1>1, <1>2, <2>1, ListsConsecutive
<1>3. CASE ~ from <= BlockHeight(t)
  <2>1. { h \in t.header : h >= from } = {}
    BY <1>1, <1>3
  <2>2. QED BY <2>1, ListsEmpty
<1>4. QED BY <1>2, <1>3

LEMMA LeavesFromIs ==
  ASSUME NEW t, TableInv(t), NEW from \in Heights
  PROVE  LeavesGiven(t, LeavesFrom(t, from), from)
<1> DEFINE S == { h \in t.leaf : h >= from }
<1>1. \A h \in t.leaf : WhereClause(h, From(from), Unbounded) <=> h >= from
  BY BigintIs DEF WhereClause, From, Unbounded
<1>2. LeavesFrom(t, from) = Ascending(S)
  BY <1>1 DEF LeavesFrom, GetLeafRange
<1>3. S \in SUBSET Int
  BY DEF TableInv, Tables, Heights
<1>4. PICK s : Lists(s, S)
  BY ListsFrom DEF TableInv
<1> HIDE DEF S
<1>5. Ascending(S) = s
  BY <1>3, <1>4, AscendingIs
<1>6. QED BY <1>2, <1>4, <1>5 DEF LeavesGiven, S

LEMMA BlocksFromIs ==
  ASSUME NEW t, TableInv(t), NEW from \in Heights
  PROVE  BlocksGiven(t, BlocksFrom(t, from), from)
<1> DEFINE S == { h \in t.header : h >= from }
           got == BlocksFrom(t, from)
<1>1. BlockRows(t) = t.header
  BY DEF BlockRows, TableInv
<1>2. \A h \in t.header : WhereClause(h, From(from), Unbounded) <=> h >= from
  BY BigintIs DEF WhereClause, From, Unbounded
<1>3. S \in SUBSET Int /\ S \subseteq Heights
  BY DEF TableInv, Tables, Heights
<1>4. PICK s : Lists(s, S)
  BY ListsFrom
<1>5. { h \in BlockRows(t) : WhereClause(h, From(from), Unbounded) } = S
  BY <1>1, <1>2
<1> HIDE DEF S
<1>6. Ascending(S) = s
  BY <1>3, <1>4, AscendingIs
<1>7. got = [ i \in DOMAIN s |-> Block(t, s[i]) ]
  BY <1>5, <1>6 DEF BlocksFrom, GetBlockRange
<1>8. /\ s \in [ 1 .. Len(s) -> S ] /\ Len(s) \in Nat /\ DOMAIN s = 1 .. Len(s)
      /\ S = { s[i] : i \in 1 .. Len(s) }
  BY <1>4, LenProperties DEF Lists
<1> HIDE DEF got
<1>9. \A i \in 1 .. Len(s) : got[i] = IF s[i] \in t.data THEN s[i] ELSE Missing
  BY <1>7, <1>8 DEF Block
<1>10. \A i \in 1 .. Len(s) : got[i] \in Heights \cup {Missing}
  BY <1>3, <1>8, <1>9
<1>11. got \in [ 1 .. Len(s) -> Heights \cup {Missing} ]
  BY <1>7, <1>8, <1>10
<1>12. got \in Seq(Heights \cup {Missing}) /\ DOMAIN got = 1 .. Len(s)
  BY <1>8, <1>11
<1>13. Range(got) \ {Missing} = { h \in t.data : h >= from }
  <2>1. Missing \notin S
    BY <1>3, StreamAssumption
  <2>2. \A h \in t.data : h >= from <=> h \in S
    BY DEF S, TableInv
  <2>3. \A i \in 1 .. Len(s) : got[i] # Missing => got[i] = s[i] /\ s[i] \in t.data /\ s[i] \in S
    BY <1>8, <1>9
  <2>4. \A h \in t.data \cap S : \E i \in 1 .. Len(s) : got[i] = h /\ h # Missing
    BY <1>8, <1>9, <2>1
  <2>5. Range(got) = { got[i] : i \in 1 .. Len(s) }
    BY <1>12 DEF Range
  <2>6. QED BY <2>2, <2>3, <2>4, <2>5
<1>14. ASSUME NEW i \in DOMAIN got, NEW j \in DOMAIN got, i < j, Missing \notin {got[i], got[j]}
       PROVE  got[i] < got[j]
  <2>1. i \in 1 .. Len(s) /\ j \in 1 .. Len(s)
    BY <1>12
  <2>2. got[i] = s[i] /\ got[j] = s[j]
    BY <2>1, <1>9, <1>14
  <2>3. QED BY <2>1, <2>2, <1>4, <1>14 DEF Lists
<1>15. QED BY <1>12, <1>13, <1>14 DEF BlocksGiven, got

-----------------------------------------------------------------------------
(* The ends of a transaction, and the beginning of a connection *)

LEMMA FlushType ==
  ASSUME NEW M, NEW ch \in ChannelType(M)
  PROVE  /\ Flush(ch) \in ChannelType(M)
         /\ Flush(ch).pending = << >>
         /\ \A cl \in Clients : Flush(ch).received[cl] =
              IF ch.received[cl] = NoStream THEN NoStream ELSE ch.received[cl] \o ch.pending
<1>1. ch.pending \in Seq(M) /\ \A cl \in Clients : ch.received[cl] \in Seq(M) \cup {NoStream}
  BY DEF ChannelType
<1>2. \A cl \in Clients : ch.received[cl] # NoStream => ch.received[cl] \o ch.pending \in Seq(M)
  BY <1>1, ConcatProperties
<1>3. << >> \in Seq(M)
  OBVIOUS
<1>4. QED BY <1>2, <1>3 DEF Flush, ChannelType

LEMMA ClearType ==
  ASSUME NEW M, NEW ch \in ChannelType(M)
  PROVE  /\ Clear(ch) \in ChannelType(M)
         /\ Clear(ch).pending = << >> /\ Clear(ch).received = ch.received
<1>1. << >> \in Seq(M)
  OBVIOUS
<1>2. QED BY <1>1 DEF Clear, ChannelType

LEMMA NewChannelType ==
  ASSUME NEW M
  PROVE  NewChannel \in ChannelType(M) /\ NewChannel.pending = << >>
<1>1. << >> \in Seq(M)
  OBVIOUS
<1>2. QED BY <1>1 DEF NewChannel, ChannelType

LEMMA GrownItself ==
  ASSUME NEW t, TableInv(t)
  PROVE  Grown(t, t)
<1>1. t.transaction \in Seq(Row)
  BY DEF TableInv, Tables, Row
<1>2. Len(t.transaction) \in Nat
  BY <1>1, LenProperties
<1>3. QED BY <1>2 DEF TableInv, Grown

\* A data source outside a transaction, with nothing to announce.
LEMMA RestedInv ==
  ASSUME NEW d \in DataSource, TableInv(d.tables), GenesisInv(d.tables), d.tables.header # {},
         d.session = "idle", ~ d.tx_in_progress,
         d.leaf_stream.pending = << >>, d.block_stream.pending = << >>
  PROVE  SourceInv(d.tables, d)
<1>1. d.tx_in_progress = FALSE
  BY DEF DataSource
<1>2. d.tables.leaf \ d.tables.leaf = {} /\ d.tables.data \ d.tables.data = {}
  OBVIOUS
<1>3. Lists(d.leaf_stream.pending, d.tables.leaf \ d.tables.leaf) /\ Lists(d.block_stream.pending, d.tables.data \ d.tables.data)
  BY <1>2, ListsEmpty
<1>4. WorkInv(d.tables, d)
  BY <1>1, <1>3 DEF WorkInv
<1>5. QED BY <1>4, GrownItself DEF SourceInv

LEMMA StoppedInv ==
  ASSUME NEW t, TableInv(t), GenesisInv(t)
  PROVE  SourceInv(t, Stopped(t)) /\ Stopped(t).session = "none" /\ Stopped(t).tables = t
<1>1. Stopped(t) \in DataSource /\ Stopped(t).session = "none" /\ Stopped(t).tables = t
  BY NewChannelType DEF Stopped, Connected, DataSource, TableInv
<1>2. QED BY <1>1, GrownItself DEF SourceInv

LEMMA EmptyInv == TableInv(EmptyTables) /\ GenesisInv(EmptyTables)
<1>1. EmptyTables.transaction = << >> /\ << >> \in Seq([ hash : Transactions, block_height : Heights, index : Nat ])
  BY DEF EmptyTables
<1>2. EmptyTables \in Tables
  BY <1>1 DEF EmptyTables, Tables
<1>3. \A h \in Heights : RowsAt(EmptyTables, h) = {}
  BY DEF EmptyTables, RowsAt, Range
<1>4. 0 \in 0 .. MaxHeight + 1 /\ 0 .. 0 - 1 = {}
  BY LedgerAssumption
<1>5. RowsOrdered(EmptyTables.transaction)
  BY <1>1 DEF RowsOrdered
<1>6. QED BY <1>2, <1>3, <1>4, <1>5 DEF TableInv, GenesisInv, EmptyTables

\* What a connection begins with: the tables that are there, or the genesis objects.
LEMMA GenesisIs ==
  ASSUME NEW c, TableInv(c), GenesisInv(c)
  PROVE  LET opened == InsertGenesis(Connected(c)) IN
         /\ opened \in DataSource
         /\ TableInv(opened.tables) /\ GenesisInv(opened.tables) /\ opened.tables.header # {}
         /\ Grown(c, opened.tables)
         /\ \/ opened.tables = c
            \/ c.header = {} /\ opened.tables.leaf = {0} /\ opened.tables.data = {0}
         /\ \A cl \in Clients : /\ opened.leaf_stream.received[cl] = NoStream
                                /\ opened.block_stream.received[cl] = NoStream
<1> DEFINE d == Connected(c)
           opened == InsertGenesis(d)
<1>1. /\ d \in DataSource /\ d.tables = c /\ ~ d.tx_in_progress
      /\ d.leaf_stream = NewChannel /\ d.block_stream = NewChannel
  BY NewChannelType DEF Connected, DataSource, TableInv
<1>2. \A cl \in Clients : NewChannel.received[cl] = NoStream
  BY DEF NewChannel
<1>3. /\ BlockHeight(c) \in 0 .. MaxHeight + 1 /\ c.header = 0 .. BlockHeight(c) - 1
      /\ Genesis \in Heights /\ Genesis = 0
  BY HeightFacts, LedgerAssumption DEF Genesis, Heights
<1> HIDE DEF d
<1>4. CASE BlockHeight(c) # 0
  <2>1. opened = d
    BY <1>1, <1>4 DEF InsertGenesis
  <2>2. c.header # {}
    <3>1. 0 \in c.header
      BY <1>3, <1>4, LedgerAssumption
    <3>2. QED BY <3>1
  <2>3. QED BY <2>1, <2>2, <1>1, <1>2, GrownItself DEF d
<1>5. CASE BlockHeight(c) = 0
  <2> DEFINE b == Begin(d)
             stored == LeafInserted(b, 0)
             t1 == LeafAdded(c, 0)
             t2 == BlockAdded(t1, 0)
  <2>1. c.header = {}
    BY <1>3, <1>5
  <2>2. /\ b \in DataSource /\ b.session = "open" /\ b.tx_in_progress /\ b.tables = c
        /\ b.leaf_stream = NewChannel /\ b.block_stream = NewChannel
    BY <1>1 DEF Begin, DataSource
  <2>3. InsertLeaf(d, 0) = stored
    <3> HIDE DEF stored, b
    <3>1. QED BY <1>3, <2>1, <2>2, InsertLeafIs DEF b, stored
  <2> HIDE DEF b
  <2>4. TableInv(t1)
    BY <1>3, <1>5, LeafAddedInv
  <2>5. t1.header = {0} /\ t1.leaf = {0} /\ t1.data = {} /\ t1.transaction = c.transaction
    BY <2>1 DEF LeafAdded, TableInv, Tables
  <2>6. TableInv(t2)
    BY <1>3, <2>4, <2>5, BlockAddedInv
  <2>7. /\ t2.header = {0} /\ t2.leaf = {0} /\ t2.data = {0}
        /\ t2.transaction = c.transaction \o TransactionRows(0)
    <3> HIDE DEF t1
    <3>1. QED BY <2>4, <2>5 DEF BlockAdded, TableInv, Tables
  <2> HIDE DEF t1
  <2>8. /\ stored.session = "open" /\ stored.tx_in_progress /\ stored.tables = t1
        /\ stored.leaf_stream = Push(NewChannel, 0) /\ stored.block_stream = NewChannel
    BY <2>2 DEF LeafInserted, DataSource, t1
  <2> HIDE DEF stored
  <2>9. Begin(stored) = stored
    BY <2>8 DEF Begin
  <2>10. InsertBlock(stored, 0) = BlockInserted(stored, 0)
    BY <1>3, <2>4, <2>5, <2>8, <2>9, InsertBlockIs
  <2>11. opened = BlockInserted(stored, 0)
    BY <1>1, <1>3, <1>5, <2>3, <2>10 DEF InsertGenesis
  <2>12. stored \in DataSource /\ opened \in DataSource
    <3>1. stored \in DataSource
      BY <1>1, <1>3, <2>3, InsertType
    <3>2. QED BY <3>1, <1>3, <2>10, <2>11, InsertType
  <2>13. /\ opened.tables = t2 /\ opened.leaf_stream = Push(NewChannel, 0)
         /\ opened.block_stream = Push(NewChannel, 0)
    BY <2>8, <2>11, <2>12 DEF BlockInserted, DataSource
  <2>14. Push(NewChannel, 0).received = NewChannel.received
    <3>1. NewChannel \in ChannelType(Heights)
      BY NewChannelType
    <3>2. QED BY <1>3, <3>1, PushType
  <2>15. GenesisInv(t2)
    BY <2>7 DEF GenesisInv
  <2>16. Grown(c, t2)
    <3>1. c.transaction \in Seq(Row) /\ TransactionRows(0) \in Seq(Row)
      BY <1>3, RowsType DEF TableInv, Tables, Row
    <3>2. Len(c.transaction) \in Nat /\ Len(TransactionRows(0)) \in Nat
      BY <3>1, LenProperties
    <3>3. /\ Len(t2.transaction) = Len(c.transaction) + Len(TransactionRows(0))
          /\ \A i \in 1 .. Len(c.transaction) + Len(TransactionRows(0)) :
                i <= Len(c.transaction) => t2.transaction[i] = c.transaction[i]
      <4> HIDE DEF t2
      <4>1. QED BY <3>1, <2>7, ConcatProperties
    <3>4. /\ Len(c.transaction) <= Len(t2.transaction)
          /\ \A i \in 1 .. Len(c.transaction) : t2.transaction[i] = c.transaction[i]
      BY <3>2, <3>3
    <3>5. c.data = {}
      BY <2>1 DEF TableInv
    <3>6. QED BY <2>1, <3>4, <3>5 DEF Grown
  <2> HIDE DEF t2, opened
  <2>17. QED BY <1>2, <2>1, <2>6, <2>7, <2>12, <2>13, <2>14, <2>15, <2>16 DEF opened, d
<1>6. QED BY <1>4, <1>5
\* After a commit, the first one included, and after a revert.
Settled(d, t) ==
  Flushed([ d EXCEPT !.tx_in_progress = FALSE, !.session = "idle", !.tables = t ])

LEMMA SettledIs ==
  ASSUME NEW d \in DataSource, NEW t, TableInv(t), GenesisInv(t), t.header # {}
  PROVE  /\ SourceInv(t, Settled(d, t))
         /\ Settled(d, t).tables = t /\ Settled(d, t).session = "idle"
         /\ Settled(d, t).leaf_stream = Flush(d.leaf_stream)
         /\ Settled(d, t).block_stream = Flush(d.block_stream)
<1> DEFINE n == Settled(d, t)
           M == Heights \cup {Missing}
<1>1. d.leaf_stream \in ChannelType(M) /\ d.block_stream \in ChannelType(M)
  BY DEF DataSource
<1>2. /\ Flush(d.leaf_stream) \in ChannelType(M) /\ Flush(d.leaf_stream).pending = << >>
      /\ Flush(d.block_stream) \in ChannelType(M) /\ Flush(d.block_stream).pending = << >>
  <2> HIDE DEF M
  <2>1. QED BY <1>1, FlushType
<1>3. /\ n.tables = t /\ n.session = "idle" /\ ~ n.tx_in_progress
      /\ n.leaf_stream = Flush(d.leaf_stream) /\ n.block_stream = Flush(d.block_stream)
  BY DEF Settled, Flushed, DataSource
<1>4. n \in DataSource
  BY <1>2 DEF Settled, Flushed, DataSource, TableInv
<1> HIDE DEF n
<1>5. SourceInv(n.tables, n)
  BY <1>2, <1>3, <1>4, RestedInv
<1>6. QED BY <1>3, <1>5 DEF n

LEMMA RevertedIs ==
  ASSUME NEW c, TableInv(c), GenesisInv(c), c.header # {}, NEW d, SourceInv(c, d), AtWork(d)
  PROVE  /\ SourceInv(c, Reverted(d, c))
         /\ Reverted(d, c).tables = c /\ Reverted(d, c).session = "idle"
         /\ Reverted(d, c).leaf_stream.received = d.leaf_stream.received
         /\ Reverted(d, c).block_stream.received = d.block_stream.received
<1> DEFINE n == Reverted(d, c)
           M == Heights \cup {Missing}
<1>1. d \in DataSource /\ WorkInv(c, d)
  BY DEF SourceInv, AtWork
<1>2. d.leaf_stream \in ChannelType(M) /\ d.block_stream \in ChannelType(M)
  BY <1>1 DEF DataSource
<1>3. /\ Clear(d.leaf_stream) \in ChannelType(M) /\ Clear(d.leaf_stream).pending = << >>
      /\ Clear(d.block_stream) \in ChannelType(M) /\ Clear(d.block_stream).pending = << >>
      /\ Clear(d.leaf_stream).received = d.leaf_stream.received
      /\ Clear(d.block_stream).received = d.block_stream.received
  <2> HIDE DEF M
  <2>1. QED BY <1>2, ClearType
<1>4. ~ d.tx_in_progress => d.session = "idle" /\ d.tables = c
  BY <1>1 DEF WorkInv, AtWork
<1>5. /\ n.tables = c /\ n.session = "idle" /\ ~ n.tx_in_progress
      /\ n.leaf_stream = Clear(d.leaf_stream) /\ n.block_stream = Clear(d.block_stream)
  BY <1>1, <1>4 DEF Reverted, DataSource
<1>6. n \in DataSource
  BY <1>1, <1>3, <1>4 DEF Reverted, DataSource, TableInv
<1> HIDE DEF n
<1>7. SourceInv(n.tables, n)
  BY <1>3, <1>5, <1>6, RestedInv
<1>8. QED BY <1>3, <1>5, <1>7 DEF n

\* A connection that ends, whatever was committed.
LEMMA LostInv ==
  ASSUME NEW c, NEW d, NEW t, SourceInv(c, d), d.session # "none",
         TableInv(t), t \in {c, d.tables}, NEW n, n = [ d EXCEPT !.session = "lost" ]
  PROVE  SourceInv(t, n) /\ n.session = "lost" /\ n.tables = d.tables
<1>1. d \in DataSource /\ TableInv(d.tables) /\ Grown(c, d.tables)
  BY DEF SourceInv
<1>2. n \in DataSource /\ n.session = "lost" /\ n.tables = d.tables
  BY <1>1 DEF DataSource
<1>3. Grown(t, n.tables)
  BY <1>1, <1>2, GrownItself
<1>4. QED BY <1>1, <1>2, <1>3 DEF SourceInv

LEMMA LeavesFromType ==
  ASSUME NEW t, TableInv(t), NEW from \in Heights
  PROVE  /\ LeavesFrom(t, from) \in Seq(Heights \cup {Missing})
         /\ BlocksFrom(t, from) \in Seq(Heights \cup {Missing})
<1>1. { h \in t.leaf : h >= from } \subseteq Heights \cup {Missing}
  BY DEF TableInv, Tables
<1>2. LeavesFrom(t, from) \in Seq({ h \in t.leaf : h >= from })
  BY LeavesFromIs DEF LeavesGiven, Lists
<1>3. LeavesFrom(t, from) \in Seq(Heights \cup {Missing})
  BY <1>1, <1>2, SeqMonotonic
<1>4. BlocksFrom(t, from) \in Seq(Heights \cup {Missing})
  BY BlocksFromIs DEF BlocksGiven
<1>5. QED BY <1>3, <1>4

LEMMA SubscribedIs ==
  ASSUME NEW M, NEW ch \in ChannelType(M), NEW cl \in Clients, NEW got \in Seq(M)
  PROVE  /\ Subscribed(ch, cl, got) \in ChannelType(M)
         /\ Subscribed(ch, cl, got).pending = ch.pending
         /\ \A x \in Clients :
              Subscribed(ch, cl, got).received[x] = IF x = cl THEN got ELSE ch.received[x]
BY DEF Subscribed, ChannelType

\* The data source after a subscription to one of its channels.
LeavesSubscribed(d, cl, got) == [ d EXCEPT !.leaf_stream = Subscribed(@, cl, got) ]
BlocksSubscribed(d, cl, got) == [ d EXCEPT !.block_stream = Subscribed(@, cl, got) ]

\* n is d but for its receivers.
SameWork(d, n) ==
  /\ n \in DataSource
  /\ n.tables = d.tables /\ n.session = d.session /\ n.tx_in_progress = d.tx_in_progress
  /\ n.leaf_stream.pending = d.leaf_stream.pending
  /\ n.block_stream.pending = d.block_stream.pending

\* A new subscription changes no table, and nothing that is pending.
LEMMA SubscriptionIs ==
  ASSUME NEW d \in DataSource, NEW cl \in Clients, NEW got \in Seq(Heights \cup {Missing})
  PROVE  /\ SameWork(d, LeavesSubscribed(d, cl, got))
         /\ SameWork(d, BlocksSubscribed(d, cl, got))
<1> DEFINE M == Heights \cup {Missing}
<1>2. d.leaf_stream \in ChannelType(M) /\ d.block_stream \in ChannelType(M)
  BY DEF DataSource
<1>3. /\ Subscribed(d.leaf_stream, cl, got) \in ChannelType(M)
      /\ Subscribed(d.block_stream, cl, got) \in ChannelType(M)
      /\ Subscribed(d.leaf_stream, cl, got).pending = d.leaf_stream.pending
      /\ Subscribed(d.block_stream, cl, got).pending = d.block_stream.pending
  <2> HIDE DEF M
  <2>1. got \in Seq(M)
    BY DEF M
  <2>2. QED BY <1>2, <2>1, SubscribedIs
<1>4. QED BY <1>3 DEF DataSource, SameWork, LeavesSubscribed, BlocksSubscribed

LEMMA SameWorkInv ==
  ASSUME NEW c, NEW d, NEW n, SourceInv(c, d), SameWork(d, n)
  PROVE  SourceInv(c, n)
BY DEF SameWork, SourceInv, WorkInv
-----------------------------------------------------------------------------
(* Every step keeps it *)

LEMMA SqlInit == Init => SqlInv
<1>1. SUFFICES ASSUME Init PROVE SqlInv
  OBVIOUS
<1>2. db = EmptyTables /\ ds = Stopped(EmptyTables) /\ asked = {}
  BY <1>1 DEF Init
<1>3. SourceInv(db, ds) /\ ds.session = "none"
  BY <1>2, EmptyInv, StoppedInv
<1>4. QED BY <1>2, <1>3, EmptyInv DEF SqlInv

LEMMA ConnectKeeps ==
  ASSUME SqlInv, Connect
  PROVE  /\ SqlInv' /\ Grown(db, db')
         /\ ds'.session = "idle" /\ ds'.tables = db'
<1> DEFINE opened == InsertGenesis(Connected(db))
<1>1. TableInv(db) /\ GenesisInv(db)
  BY DEF SqlInv
<1>2. /\ opened \in DataSource
      /\ TableInv(opened.tables) /\ GenesisInv(opened.tables) /\ opened.tables.header # {}
      /\ Grown(db, opened.tables)
  BY <1>1, GenesisIs
<1>3. /\ db' = opened.tables /\ asked' = {}
      /\ ds' = Flushed([ opened EXCEPT !.tx_in_progress = FALSE, !.session = "idle" ])
  BY DEF Connect
<1> HIDE DEF opened
<1>4. [ opened EXCEPT !.tx_in_progress = FALSE, !.session = "idle" ]
        = [ opened EXCEPT !.tx_in_progress = FALSE, !.session = "idle", !.tables = opened.tables ]
  BY <1>2 DEF DataSource
<1>5. ds' = Settled(opened, db')
  BY <1>3, <1>4 DEF Settled
<1>6. SourceInv(db', ds') /\ ds'.session = "idle" /\ ds'.tables = db'
  BY <1>2, <1>3, <1>5, SettledIs
<1>7. QED BY <1>2, <1>3, <1>6 DEF SqlInv

LEMMA ConnectFailsKeeps ==
  ASSUME SqlInv, ConnectFails
  PROVE  SqlInv' /\ Grown(db, db')
<1>1. TableInv(db) /\ GenesisInv(db)
  BY DEF SqlInv
<1>2. PICK t : /\ t \in { db, InsertGenesis(Connected(db)).tables }
               /\ db' = t /\ ds' = Stopped(t) /\ asked' = {}
  BY DEF ConnectFails
<1>3. TableInv(t) /\ GenesisInv(t) /\ Grown(db, t)
  BY <1>1, <1>2, GenesisIs, GrownItself
<1>4. SourceInv(t, Stopped(t)) /\ Stopped(t).session = "none"
  BY <1>3, StoppedInv
<1>5. QED BY <1>2, <1>3, <1>4 DEF SqlInv

\* An event that may happen is not above the block height.
LEMMA EventReaches ==
  ASSUME TableInv(ds.tables), NEW e \in Event, MayHappen(e)
  PROVE  e.first <= BlockHeight(ds.tables)
<1>1. BlockHeight(ds.tables) \in 0 .. MaxHeight + 1
  BY HeightFacts
<1>2. e.first <= BlockHeight(ds.tables) \/ e.first = BlockHeight(ds.tables)
  BY DEF MayHappen
<1>3. QED BY <1>1, <1>2, LedgerAssumption

\* The updates, and an application's own statement.
LEMMA UpdatesKeep ==
  ASSUME SqlInv,
         \/ \E e \in Event : Update(e) \/ UpdateFails(e)
         \/ ExecuteCustom
  PROVE  /\ SqlInv' /\ Grown(db, db')
         /\ AtWork(ds) /\ AtWork(ds') /\ Follows(ds, ds') /\ UNCHANGED << db, asked >>
<1>1. TableInv(db) /\ SourceInv(db, ds) /\ TableInv(ds.tables) /\ ds \in DataSource
  BY DEF SqlInv, SourceInv
<1>2. AtWork(ds) /\ UNCHANGED << db, asked >>
  BY DEF Update, UpdateFails, ExecuteCustom, Usable, AtWork
<1>3. SourceInv(db, ds') /\ AtWork(ds') /\ Follows(ds, ds')
  <2>1. CASE \E e \in Event : Update(e)
    <3>1. PICK e \in Event : MayHappen(e) /\ ds' = UpdateFrom(ds, e)
      BY <2>1 DEF Update
    <3>2. e.first <= BlockHeight(ds.tables)
      BY <1>1, <3>1, EventReaches
    <3>3. SourceInv(db, UpdateFrom(ds, e)) /\ AtWork(UpdateFrom(ds, e)) /\ Follows(ds, UpdateFrom(ds, e))
      BY <1>1, <1>2, <3>2, UpdateKeeps
    <3>4. QED BY <3>1, <3>3
  <2>2. CASE \E e \in Event : UpdateFails(e)
    <3>1. PICK e \in Event : MayHappen(e) /\ ds' \in FailedUpdates(ds, e)
      BY <2>2 DEF UpdateFails
    <3>2. e.first <= BlockHeight(ds.tables)
      BY <1>1, <3>1, EventReaches
    <3>3. QED BY <1>1, <1>2, <3>1, <3>2, FailedUpdateKeeps
  <2>3. CASE ExecuteCustom
    <3> DEFINE b == Begin(ds)
    <3>1. SourceInv(db, b) /\ b.session \in {"open", "aborted"}
      BY <1>1, <1>2, BeginKeeps
    <3>2. ds' = b \/ ds' = Aborted(b)
      BY <2>3 DEF ExecuteCustom
    <3>3. Follows(ds, b)
      BY <1>1, StepsFollow, LedgerAssumption DEF Heights
    <3> HIDE DEF b
    <3>4. SourceInv(db, Aborted(b)) /\ Aborted(b).session = "aborted"
      BY <3>1, AbortedKeeps
    <3>5. Follows(ds, Aborted(b))
      <4>1. b \in DataSource /\ 0 \in Heights
        BY <3>1, LedgerAssumption DEF SourceInv, Heights
      <4>2. Follows(b, Aborted(b))
        BY <4>1, StepsFollow
      <4>3. QED BY <3>3, <4>2, FollowsAll
    <3>6. QED BY <3>1, <3>2, <3>3, <3>4, <3>5 DEF AtWork
  <2>4. QED BY <2>1, <2>2, <2>3
<1>4. SqlInv'
  BY <1>2, <1>3 DEF SqlInv, AtWork
<1>5. QED BY <1>1, <1>2, <1>3, <1>4, GrownItself

\* What is committed.
LEMMA CommitKeeps ==
  ASSUME SqlInv, Commit
  PROVE  /\ SqlInv' /\ Grown(db, db')
         /\ AtWork(ds) /\ db' \in {db, ds.tables} /\ (ds.session # "aborted" => db' = ds.tables)
         /\ ds' = Settled(ds, db') /\ ds'.tables = db' /\ ds'.session = "idle" /\ asked' = Remembered
<1>1. /\ TableInv(db) /\ GenesisInv(db) /\ SourceInv(db, ds) /\ ds \in DataSource
      /\ TableInv(ds.tables) /\ GenesisInv(ds.tables) /\ Grown(db, ds.tables)
  BY DEF SqlInv, SourceInv
<1>2. /\ AtWork(ds) /\ asked' = Remembered /\ db' = IF ds.session = "open" THEN ds.tables ELSE db
      /\ ds' = Settled(ds, db')
  BY DEF Commit, MayCommit, Usable, AtWork, Settled
<1>3. WorkInv(db, ds)
  BY <1>1, <1>2 DEF SourceInv, AtWork
<1>4. ds.session # "aborted" => db' = ds.tables
  BY <1>2, <1>3 DEF WorkInv, AtWork
<1>5. db' \in {db, ds.tables}
  BY <1>2
<1>6. db.header # {} /\ ds.tables.header # {}
  BY <1>1, <1>2 DEF SqlInv, SourceInv, AtWork
<1>7. TableInv(db') /\ GenesisInv(db') /\ db'.header # {} /\ Grown(db, db')
  BY <1>1, <1>5, <1>6, GrownItself
<1>8. SourceInv(db', ds') /\ ds'.tables = db' /\ ds'.session = "idle"
  BY <1>1, <1>2, <1>7, SettledIs
<1>9. Remembered \subseteq Subscription
  BY DEF SqlInv, Remembered, Subscription
<1>10. SqlInv'
  BY <1>2, <1>7, <1>8, <1>9 DEF SqlInv
<1>11. QED BY <1>2, <1>4, <1>5, <1>7, <1>8, <1>10

\* The connection ends.
LEMMA LossesKeep ==
  ASSUME SqlInv, CommitFails \/ LoseConnection
  PROVE  /\ SqlInv' /\ Grown(db, db')
         /\ db' \in {db, ds.tables} /\ ds'.session = "lost" /\ ds'.tables = ds.tables
         /\ ds.session # "none"
<1>1. /\ TableInv(db) /\ GenesisInv(db) /\ SourceInv(db, ds)
      /\ TableInv(ds.tables) /\ GenesisInv(ds.tables) /\ Grown(db, ds.tables)
  BY DEF SqlInv, SourceInv
<1>2. /\ ds.session # "none" /\ UNCHANGED asked /\ db' \in {db, ds.tables}
      /\ ds' = [ ds EXCEPT !.session = "lost" ]
  BY DEF CommitFails, LoseConnection, Usable
<1>3. db.header # {} /\ ds.tables.header # {}
  BY <1>1, <1>2 DEF SqlInv, SourceInv
<1>4. TableInv(db') /\ GenesisInv(db') /\ db'.header # {} /\ Grown(db, db')
  BY <1>1, <1>2, <1>3, GrownItself
<1>5. SourceInv(db', ds') /\ ds'.session = "lost" /\ ds'.tables = ds.tables
  BY <1>1, <1>2, <1>4, LostInv
<1>6. SqlInv'
  BY <1>2, <1>4, <1>5 DEF SqlInv
<1>7. QED BY <1>2, <1>4, <1>5, <1>6

\* The ways back to what is committed.
LEMMA RevertKeeps ==
  ASSUME SqlInv, Revert
  PROVE  /\ SqlInv' /\ Grown(db, db')
         /\ AtWork(ds) /\ ds'.tables = db /\ UNCHANGED << db, asked >>
         /\ ds'.session = "idle"
         /\ ds'.leaf_stream.received = ds.leaf_stream.received
         /\ ds'.block_stream.received = ds.block_stream.received
<1>1. TableInv(db) /\ GenesisInv(db) /\ SourceInv(db, ds)
  BY DEF SqlInv
<1>2. AtWork(ds) /\ UNCHANGED << db, asked >> /\ ds' = Reverted(ds, db)
  BY DEF Revert, Usable, AtWork
<1>3. db.header # {}
  BY <1>2 DEF SqlInv, AtWork
<1>4. /\ SourceInv(db, ds') /\ ds'.tables = db /\ ds'.session = "idle"
      /\ ds'.leaf_stream.received = ds.leaf_stream.received
      /\ ds'.block_stream.received = ds.block_stream.received
  BY <1>1, <1>2, <1>3, RevertedIs
<1>5. SqlInv'
  BY <1>2, <1>3, <1>4 DEF SqlInv
<1>6. QED BY <1>1, <1>2, <1>4, <1>5, GrownItself

LEMMA RevertPanicsKeeps ==
  ASSUME SqlInv, RevertPanics
  PROVE  SqlInv' /\ Grown(db, db')
<1>1. TableInv(db) /\ GenesisInv(db)
  BY DEF SqlInv
<1>2. ds' = Stopped(db) /\ asked' = {} /\ db' = db
  BY DEF RevertPanics
<1>3. SourceInv(db, ds') /\ ds'.session = "none"
  BY <1>1, <1>2, StoppedInv
<1>4. QED BY <1>1, <1>2, <1>3, GrownItself DEF SqlInv

LEMMA SubscribeKeeps ==
  ASSUME SqlInv, NEW cl \in Clients, NEW from \in Heights, SubscribeLeaves(cl, from) \/ SubscribeBlocks(cl, from)
  PROVE  /\ SqlInv' /\ Grown(db, db')
         /\ ds'.tables = ds.tables /\ ds'.session = ds.session /\ db' = db
<1>1. TableInv(db) /\ SourceInv(db, ds) /\ TableInv(ds.tables)
  BY DEF SqlInv, SourceInv
<1>2. /\ LeavesFrom(ds.tables, from) \in Seq(Heights \cup {Missing})
      /\ BlocksFrom(ds.tables, from) \in Seq(Heights \cup {Missing})
  BY <1>1, LeavesFromType
<1>3. /\ db' = db /\ asked' \subseteq Subscription
      /\ \/ ds' = LeavesSubscribed(ds, cl, LeavesFrom(ds.tables, from))
         \/ ds' = BlocksSubscribed(ds, cl, BlocksFrom(ds.tables, from))
  <2>1. \A stream \in {"leaves", "blocks"} : SubscriptionNow(stream, cl, from) \in Subscription
    BY <1>1 DEF SubscriptionNow, Subscription, TableInv
  <2>2. QED BY <2>1 DEF SqlInv, SubscribeLeaves, SubscribeBlocks, LeavesSubscribed, BlocksSubscribed
<1>4. SourceInv(db, ds') /\ ds'.tables = ds.tables /\ ds'.session = ds.session
  <2>1. ds \in DataSource
    BY <1>1 DEF SourceInv
  <2>2. SameWork(ds, ds')
    BY <1>2, <1>3, <2>1, SubscriptionIs
  <2>3. SourceInv(db, ds')
    BY <1>1, <2>2, SameWorkInv
  <2>4. QED BY <2>2, <2>3 DEF SameWork
<1>5. SqlInv'
  BY <1>3, <1>4 DEF SqlInv
<1>6. QED BY <1>1, <1>3, <1>4, <1>5, GrownItself

LEMMA SqlStep ==
  ASSUME SqlInv, [Next]_vars
  PROVE  SqlInv' /\ Grown(db, db')
<1>1. CASE UNCHANGED vars
  <2>1. db' = db /\ ds' = ds /\ asked' = asked
    BY <1>1 DEF vars
  <2>2. TableInv(db)
    BY DEF SqlInv
  <2>3. QED BY <2>1, <2>2, GrownItself DEF SqlInv
<1>2. CASE Connect
  BY <1>2, ConnectKeeps
<1>3. CASE ConnectFails
  BY <1>3, ConnectFailsKeeps
<1>4. CASE (\E e \in Event : Update(e) \/ UpdateFails(e)) \/ ExecuteCustom
  BY <1>4, UpdatesKeep
<1>5. CASE Commit
  BY <1>5, CommitKeeps
<1>6. CASE CommitFails \/ LoseConnection
  BY <1>6, LossesKeep
<1>7. CASE Revert
  BY <1>7, RevertKeeps
<1>8. CASE RevertPanics
  BY <1>8, RevertPanicsKeeps
<1>9. CASE \E cl \in Clients, from \in Heights : SubscribeLeaves(cl, from) \/ SubscribeBlocks(cl, from)
  BY <1>9, SubscribeKeeps
<1>10. QED BY <1>1, <1>2, <1>3, <1>4, <1>5, <1>6, <1>7, <1>8, <1>9 DEF Next

THEOREM SqlInvariance == Spec => []SqlInv
BY SqlInit, SqlStep, PTL DEF Spec
-----------------------------------------------------------------------------
(* What holds at every moment *)

\* Every state of the data source and of its database has its type.
THEOREM TypeCorrect == Spec => []TypeOK
<1>1. SqlInv => TypeOK
  BY DEF SqlInv, SourceInv, TableInv, TypeOK
<1>2. QED BY <1>1, SqlInvariance, PTL

\* Tables without headers have no row at all.
LEMMA NoHeaderNoRow ==
  ASSUME NEW t, TableInv(t), t.header = {}
  PROVE  t = EmptyTables
<1>1. t \in Tables /\ t.payload = {} /\ t.leaf = {} /\ t.data = {}
  BY DEF TableInv
<1>2. t.transaction \in Seq(Row)
  BY <1>1 DEF Tables, Row
<1> DEFINE n == Len(t.transaction)
<1>3. n \in Nat /\ t.transaction \in [ 1 .. n -> Row ]
  BY <1>2, LenProperties
<1>4. \A h \in Heights : RowsAt(t, h) = {}
  BY <1>1 DEF TableInv
<1>5. n = 0
  <2>1. SUFFICES ASSUME n # 0 PROVE FALSE
    OBVIOUS
  <2>2. 1 \in 1 .. n /\ t.transaction[1] \in Row
    BY <1>3, <2>1
  <2>3. t.transaction[1] \in Range(t.transaction) /\ t.transaction[1].block_height \in Heights
    BY <1>3, <2>2 DEF Range, Row
  <2>4. QED BY <1>4, <2>3 DEF RowsAt
<1>6. t.transaction = << >>
  BY <1>2, <1>5, EmptySeq
<1>7. QED BY <1>1, <1>6 DEF Tables, EmptyTables

\* The tables agree with one another whatever statement or commit failed before, on
\* storage and in the open transaction (`update` and `insert_genesis` in sql.rs).
THEOREM TablesCorrect == Spec => []TablesAgree
<1>1. ASSUME NEW t, TableInv(t), GenesisInv(t), t # EmptyTables
      PROVE  0 \in t.leaf \cap t.data
  BY <1>1, NoHeaderNoRow DEF TableInv, GenesisInv
<1>2. SqlInv => TablesAgree
  BY <1>1 DEF SqlInv, SourceInv, TableInv, TablesAgree, RowsAt
<1>3. QED BY <1>2, SqlInvariance, PTL

\* What the channels still have to announce is exactly what the transaction in
\* progress has inserted, in order: no way out of a transaction leaves messages of
\* it behind, and `tx_in_progress` is true of the server.
THEOREM BuffersCorrect == Spec => []BuffersMatchTransaction
<1>1. ASSUME SqlInv, Usable PROVE BuffersMatchTransaction
  <2>1. WorkInv(db, ds)
    BY <1>1 DEF SqlInv, SourceInv, Usable
  <2>2. ds.tables.leaf \ db.leaf \in SUBSET Int /\ ds.tables.data \ db.data \in SUBSET Int
    BY <1>1, LedgerAssumption DEF SqlInv, SourceInv, TableInv, Tables, Heights
  <2>3. /\ Ascending(ds.tables.leaf \ db.leaf) = ds.leaf_stream.pending
        /\ Ascending(ds.tables.data \ db.data) = ds.block_stream.pending
    BY <2>1, <2>2, AscendingIs DEF WorkInv
  <2>4. QED BY <2>1, <2>3 DEF WorkInv, BuffersMatchTransaction
<1>2. SqlInv => BuffersMatchTransaction
  BY <1>1 DEF BuffersMatchTransaction
<1>3. QED BY <1>2, SqlInvariance, PTL

-----------------------------------------------------------------------------
(* What queries answer *)

\* The rows of a transaction that a query joins with their blocks are its places
\* among the blocks whose payload is known.
PlacesOf(t, x) ==
  UNION { { << h, i >> : i \in { j \in DOMAIN Payload[h] : Payload[h][j] = x } } : h \in t.data }

RowIds(t, x) ==
  { i \in DOMAIN t.transaction :
      t.transaction[i].hash = x /\ t.transaction[i].block_height \in BlockRows(t) }

PlaceOf(row) == << row.block_height, row.index >>

LEMMA RowIsPlace ==
  ASSUME NEW t, TableInv(t), NEW x, NEW i \in RowIds(t, x)
  PROVE  /\ i \in 1 .. Len(t.transaction) /\ t.transaction[i] \in Row
         /\ t.transaction[i].block_height \in t.data
         /\ PlaceOf(t.transaction[i]) \in PlacesOf(t, x)
<1> DEFINE row == t.transaction[i]
           h   == row.block_height
<1>1. t.transaction \in Seq(Row)
  BY DEF TableInv, Tables, Row
<1>2. t.transaction \in [ 1 .. Len(t.transaction) -> Row ]
  BY <1>1, LenProperties
<1>3. i \in 1 .. Len(t.transaction) /\ i \in DOMAIN t.transaction /\ row \in Row /\ row.hash = x
  BY <1>2 DEF RowIds
<1>4. h \in Heights /\ row \in RowsAt(t, h)
  BY <1>3 DEF Row, RowsAt, Range
<1> HIDE DEF row
<1>5. h \in t.data /\ row \in Range(TransactionRows(h))
  BY <1>4 DEF TableInv
<1>6. PICK j \in DOMAIN Payload[h] :
        row = [ hash |-> Payload[h][j], block_height |-> h, index |-> j ]
  BY <1>5 DEF Range, TransactionRows
<1>7. row.index = j /\ Payload[h][j] = x
  BY <1>3, <1>6
<1>8. << h, row.index >> \in PlacesOf(t, x)
  BY <1>5, <1>7 DEF PlacesOf
<1>9. QED BY <1>3, <1>5, <1>8 DEF row, PlaceOf

LEMMA PlaceIsRow ==
  ASSUME NEW t, TableInv(t), NEW x, NEW p \in PlacesOf(t, x)
  PROVE  \E i \in RowIds(t, x) : p = PlaceOf(t.transaction[i])
<1>1. PICK h \in t.data : p \in { << h, i >> : i \in { j \in DOMAIN Payload[h] : Payload[h][j] = x } }
  BY DEF PlacesOf
<1>2. PICK j \in DOMAIN Payload[h] : Payload[h][j] = x /\ p = << h, j >>
  BY <1>1
<1>3. h \in Heights /\ h \in BlockRows(t)
  BY DEF TableInv, Tables, BlockRows
<1> DEFINE row == [ hash |-> Payload[h][j], block_height |-> h, index |-> j ]
<1>4. row \in Range(TransactionRows(h))
  <2>1. TransactionRows(h)[j] = row /\ j \in DOMAIN TransactionRows(h)
    BY DEF TransactionRows
  <2> HIDE DEF row
  <2>2. QED BY <2>1 DEF Range
<1>5. row.hash = x /\ row.block_height = h /\ row.index = j
  BY <1>2
<1> HIDE DEF row
<1>6. row \in RowsAt(t, h)
  BY <1>3, <1>4 DEF TableInv
<1>7. PICK i \in DOMAIN t.transaction : t.transaction[i] = row
  BY <1>6 DEF RowsAt, Range
<1>8. i \in RowIds(t, x)
  BY <1>3, <1>5, <1>7 DEF RowIds
<1>9. QED BY <1>2, <1>5, <1>7, <1>8 DEF PlaceOf

\* Of two places one is before the other, not both, and rows are in the order of places.
LEMMA PlacesOrdered ==
  ASSUME NEW a \in Nat, NEW b \in Nat, NEW c \in Nat, NEW d \in Nat
  PROVE  PlaceBefore(<< a, b >>, << c, d >>) <=> (a < c \/ (a = c /\ b < d))
<1>1. ASSUME PlaceBefore(<< a, b >>, << c, d >>) PROVE a < c \/ (a = c /\ b < d)
  <2>1. PICK k \in 1 .. 2 : /\ << a, b >>[k] < << c, d >>[k]
                            /\ \A j \in 1 .. k - 1 : << a, b >>[j] = << c, d >>[j]
    BY <1>1 DEF PlaceBefore
  <2>2. CASE k = 1
    BY <2>1, <2>2
  <2>3. CASE k = 2
    <3>1. 1 \in 1 .. k - 1
      BY <2>3
    <3>2. QED BY <2>1, <2>3, <3>1
  <2>4. QED BY <2>2, <2>3
<1>2. ASSUME a < c PROVE PlaceBefore(<< a, b >>, << c, d >>)
  <2>1. 1 \in DOMAIN << a, b >> /\ << a, b >>[1] < << c, d >>[1] /\ 1 .. 1 - 1 = {}
    BY <1>2
  <2>2. QED BY <2>1 DEF PlaceBefore
<1>3. ASSUME a = c, b < d PROVE PlaceBefore(<< a, b >>, << c, d >>)
  <2>1. 2 \in DOMAIN << a, b >> /\ << a, b >>[2] < << c, d >>[2]
    BY <1>3
  <2>2. \A j \in 1 .. 2 - 1 : << a, b >>[j] = << c, d >>[j]
    BY <1>3
  <2>3. QED BY <2>1, <2>2 DEF PlaceBefore
<1>4. QED BY <1>1, <1>2, <1>3

\* The least of a set of positions.
LEMMA LeastIs ==
  ASSUME NEW S \in SUBSET Nat, S # {}
  PROVE  Min(S) \in S /\ \A i \in S : Min(S) <= i
<1> DEFINE R == OpToRel(<, Nat)
<1>1. IsWellFoundedOn(R, Nat)
  BY NatLessThanWellFounded
<1>2. \A x, y \in Nat : y < x => << y, x >> \in R
  BY DEF OpToRel
<1> HIDE DEF R
<1>3. \E x \in S : \A y \in S : ~ (<< y, x >> \in R)
  BY <1>1, WFMin
<1>4. \A x, y \in Nat : ~ (y < x) => x <= y
  OBVIOUS
<1>5. \E i \in S : \A j \in S : i <= j
  BY <1>2, <1>3, <1>4
<1>6. QED BY <1>5 DEF Min

\* A query by a transaction's hash finds its first place in the ledger, among the blocks
\* whose payload is known: the first row of the table is the first in the ledger, since
\* rows are only ever added for a leaf that is the newest.
THEOREM FirstCorrect == Spec => []FirstIsFound
<1>1. ASSUME NEW t, TableInv(t), NEW x
      PROVE  GetBlockWithTransaction(t, x) =
               IF PlacesOf(t, x) = {} THEN NotFound
               ELSE CHOOSE p \in PlacesOf(t, x) : \A q \in PlacesOf(t, x) : p = q \/ PlaceBefore(p, q)
  <2> DEFINE ids    == RowIds(t, x)
             places == PlacesOf(t, x)
             row    == t.transaction[Min(ids)]
  <2>1. ids = {} <=> places = {}
    BY <1>1, RowIsPlace, PlaceIsRow
  <2>2. GetBlockWithTransaction(t, x) =
          IF ids = {} THEN NotFound
          ELSE IF Block(t, row.block_height) = Missing THEN Missing ELSE PlaceOf(row)
    BY DEF GetBlockWithTransaction, RowIds, PlaceOf
  <2>3. CASE ids = {}
    BY <2>1, <2>2, <2>3
  <2>4. CASE ids # {}
    <3> DEFINE First(p) == \A q \in places : p = q \/ PlaceBefore(p, q)
    <3>1. \A i \in ids : /\ i \in 1 .. Len(t.transaction) /\ t.transaction[i] \in Row
                          /\ t.transaction[i].block_height \in t.data
                          /\ PlaceOf(t.transaction[i]) \in places
      BY <1>1, RowIsPlace
    <3>2. Min(ids) \in ids /\ \A i \in ids : Min(ids) <= i
      <4>1. ids \in SUBSET Nat
        BY <3>1
      <4> HIDE DEF ids
      <4>2. QED BY <4>1, <2>4, LeastIs
    <3>3. \A p \in places : \E i \in ids : p = PlaceOf(t.transaction[i])
      BY <1>1, PlaceIsRow
    <3> HIDE DEF ids, places
    <3>4. ASSUME NEW a \in Row, NEW b \in Row
          PROVE  PlaceBefore(PlaceOf(a), PlaceOf(b)) <=> RowBefore(a, b)
      <4>1. /\ a.block_height \in Nat /\ a.index \in Nat
            /\ b.block_height \in Nat /\ b.index \in Nat
        BY DEF Row, Heights
      <4>2. QED BY <4>1, PlacesOrdered DEF PlaceOf, RowBefore
    <3>5. First(PlaceOf(row))
      <4>1. SUFFICES ASSUME NEW q \in places PROVE PlaceOf(row) = q \/ PlaceBefore(PlaceOf(row), q)
        OBVIOUS
      <4>2. PICK i \in ids : q = PlaceOf(t.transaction[i])
        BY <3>3
      <4>3. CASE i = Min(ids)
        BY <4>2, <4>3
      <4>4. CASE i # Min(ids)
        <5>1. /\ Min(ids) \in 1 .. Len(t.transaction) /\ i \in 1 .. Len(t.transaction)
              /\ Min(ids) < i
          BY <3>1, <3>2, <4>4
        <5>2. RowBefore(row, t.transaction[i])
          BY <1>1, <5>1 DEF TableInv, RowsOrdered
        <5>3. row \in Row /\ t.transaction[i] \in Row
          BY <3>1, <3>2
        <5> HIDE DEF row
        <5>4. QED BY <3>4, <4>2, <5>2, <5>3
      <4>5. QED BY <4>3, <4>4
    <3>6. row \in Row /\ row.block_height \in t.data /\ PlaceOf(row) \in places
      BY <3>1, <3>2
    <3>7. ASSUME NEW p \in places, First(p) PROVE p = PlaceOf(row)
      <4>1. PICK i \in ids : p = PlaceOf(t.transaction[i])
        BY <3>3
      <4>2. t.transaction[i] \in Row
        BY <3>1
      <4>3. SUFFICES ASSUME p # PlaceOf(row) PROVE FALSE
        OBVIOUS
      <4>4. PlaceBefore(p, PlaceOf(row)) /\ PlaceBefore(PlaceOf(row), p)
        <5> HIDE DEF row
        <5>1. QED BY <3>5, <3>6, <3>7, <4>3
      <4>5. RowBefore(t.transaction[i], row) /\ RowBefore(row, t.transaction[i])
        <5> HIDE DEF row
        <5>1. QED BY <3>4, <3>6, <4>1, <4>2, <4>4
      <4>6. /\ t.transaction[i].block_height \in Nat /\ t.transaction[i].index \in Nat
            /\ row.block_height \in Nat /\ row.index \in Nat
        BY <3>6, <4>2 DEF Row, Heights
      <4> HIDE DEF row
      <4>7. QED BY <4>5, <4>6 DEF RowBefore
    <3> HIDE DEF row
    <3>8. (CHOOSE p \in places : First(p)) = PlaceOf(row)
      <4> HIDE DEF First
      <4>1. QED BY <3>5, <3>6, <3>7
    <3>9. Block(t, row.block_height) # Missing
      <4>1. row.block_height \in Heights
        BY <3>6 DEF Row
      <4>2. QED BY <4>1, <3>6, StreamAssumption DEF Block
    <3>10. places # {}
      BY <2>1, <2>4
    <3>11. QED BY <2>2, <2>4, <3>8, <3>9, <3>10 DEF places
  <2>5. QED BY <2>3, <2>4
<1>2. SqlInv => FirstIsFound
  <2>1. SqlInv => TableInv(ds.tables)
    BY DEF SqlInv, SourceInv
  <2>2. QED BY <1>1, <2>1 DEF FirstIsFound, PlacesOf
<1>3. QED BY <1>2, SqlInvariance, PTL

\* A set of numbers below another can be listed.
LEMMA ListsBelow ==
  ASSUME NEW n \in Nat, NEW S \in SUBSET (0 .. n - 1)
  PROVE  \E s : Lists(s, S)
<1> DEFINE Good == { k \in 0 .. n : \A T \in SUBSET (0 .. k - 1) : \E s : Lists(s, T) }
<1>1. 0 \in Good
  <2>1. 0 .. 0 - 1 = {} /\ 0 \in 0 .. n
    OBVIOUS
  <2>2. \A T \in SUBSET (0 .. 0 - 1) : T = {}
    BY <2>1
  <2>3. QED BY <2>1, <2>2, ListsEmpty
<1>2. ASSUME NEW k \in 0 .. n - 1, k \in Good PROVE k + 1 \in Good
  <2>1. k + 1 \in 0 .. n /\ k \in Int
    OBVIOUS
  <2>2. ASSUME NEW T \in SUBSET (0 .. (k + 1) - 1) PROVE \E s : Lists(s, T)
    <3> DEFINE U == T \ {k}
    <3>1. U \in SUBSET (0 .. k - 1)
      BY <2>1
    <3>2. PICK s : Lists(s, U)
      BY <3>1, <1>2
    <3>3. CASE k \notin T
      <4>1. U = T
        BY <3>3
      <4>2. QED BY <3>2, <4>1
    <3>4. CASE k \in T
      <4>1. T = U \cup {k}
        BY <3>4
      <4>2. U \in SUBSET Int /\ \A y \in U : y < k
        BY <3>1
      <4> HIDE DEF U
      <4>3. Lists(Append(s, k), U \cup {k})
        BY <2>1, <3>2, <4>2, ListsAppend
      <4>4. QED BY <4>1, <4>3
    <3>5. QED BY <3>3, <3>4
  <2>3. QED BY <2>1, <2>2
<1> HIDE DEF Good
<1>3. \A k \in 0 .. n : k \in Good
  BY <1>1, <1>2, Induction
<1>4. n \in Good
  BY <1>3
<1>5. QED BY <1>4 DEF Good

\* A sequence reversed.
LEMMA ReverseIs ==
  ASSUME NEW T, NEW s \in Seq(T)
  PROVE  /\ Reverse(s) \in Seq(T) /\ Len(Reverse(s)) = Len(s)
         /\ \A i \in 1 .. Len(s) : Reverse(s)[i] = s[(Len(s) - i) + 1]
<1> DEFINE n == Len(s)
           r == Reverse(s)
<1>1. n \in Nat /\ s \in [ 1 .. n -> T ]
  BY LenProperties
<1>2. \A i \in 1 .. n : (n - i) + 1 \in 1 .. n /\ (n - ((n - i) + 1)) + 1 = i
  BY <1>1
<1>3. r \in [ 1 .. n -> T ] /\ \A i \in 1 .. n : r[i] = s[(n - i) + 1]
  BY <1>1, <1>2 DEF Reverse
<1>4. r \in Seq(T) /\ Len(r) = n
  <2> HIDE DEF r, n
  <2>1. QED BY <1>1, <1>3
<1> HIDE DEF r
<1>5. QED BY <1>3, <1>4 DEF r

\* The first k of the reverse of a sequence, reversed, are its last k.
LEMMA LastAre ==
  ASSUME NEW T, NEW s \in Seq(T), NEW k \in 0 .. Len(s)
  PROVE  LET last == Reverse(SubSeq(Reverse(s), 1, k))
         IN  /\ Len(last) = k /\ DOMAIN last = 1 .. k
             /\ \A i \in 1 .. k : last[i] = s[(Len(s) - k) + i]
<1> DEFINE n == Len(s)
           r == Reverse(s)
           q == SubSeq(r, 1, k)
           last == Reverse(q)
<1>1. r \in Seq(T) /\ Len(r) = n /\ n \in Nat /\ \A i \in 1 .. n : r[i] = s[(n - i) + 1]
  BY ReverseIs, LenProperties
<1> HIDE DEF r, n
<1>2. k \in 0 .. n
  BY DEF n
<1>3. q \in Seq(T) /\ Len(q) = k /\ \A i \in 1 .. k : q[i] = r[i]
  BY <1>1, <1>2
<1> HIDE DEF q
<1>4. last \in Seq(T) /\ Len(last) = k /\ \A i \in 1 .. k : last[i] = q[(k - i) + 1]
  BY <1>3, ReverseIs
<1>5. DOMAIN last = 1 .. k
  BY <1>4, LenProperties
<1> HIDE DEF last
<1>6. ASSUME NEW i \in 1 .. k PROVE last[i] = s[(n - k) + i]
  <2>1. (k - i) + 1 \in 1 .. k /\ (k - i) + 1 \in 1 .. n /\ (n - ((k - i) + 1)) + 1 = (n - k) + i
    BY <1>1, <1>2
  <2>2. last[i] = r[(k - i) + 1]
    BY <1>3, <1>4, <2>1
  <2>3. r[(k - i) + 1] = s[(n - ((k - i) + 1)) + 1]
    BY <1>1, <2>1
  <2>4. QED BY <2>1, <2>2, <2>3
<1>7. QED BY <1>4, <1>5, <1>6 DEF last, q, r, n

\* Whatever the order of the query of all, it yields every row of the proposer once.
LEMMA AllAre ==
  ASSUME NEW t, NEW p, IsFiniteSet(ProposalRows(t, p)), NEW all \in GetProposals(t, p)
  PROVE  /\ Len(all) = CountProposals(t, p)
         /\ Range(all) = ProposalRows(t, p)
<1> DEFINE S == ProposalRows(t, p)
           n == Cardinality(S)
<1>1. /\ n \in Nat
      /\ all \in [ 1 .. n -> S ]
      /\ \A i, j \in 1 .. n : all[i] = all[j] => i = j
  <2>1. n \in Nat
    BY FS_CardinalityType
  <2>2. QED BY <2>1 DEF GetProposals, SetToSeqs
<1> HIDE DEF n
<1>2. Cardinality(Range(all)) = n
  BY <1>1, CountOfRange
<1>3. Range(all) \subseteq S
  BY <1>1 DEF Range
<1>4. Range(all) = S
  BY <1>2, <1>3, FS_Subset DEF n
<1>5. Len(all) = n
  BY <1>1
<1>6. QED BY <1>4, <1>5 DEF CountProposals, n

\* The latest proposals of a proposer are the highest of all, ascending, as many as
\* are counted or as the limit allows, whatever the order in which the query of all
\* of them yields them.
THEOREM LatestCorrect == Spec => []LatestProposalsAreLast
<1>1. ASSUME NEW t, TableInv(t), NEW p, NEW limit \in 0 .. BigintLimit - 1
      PROVE  LET latest == GetLatestProposals(t, p, limit)
             IN  /\ \A i, j \in DOMAIN latest : i < j => latest[i] < latest[j]
                 /\ Len(latest) = Min({limit, CountProposals(t, p)})
                 /\ \A all \in GetProposals(t, p) :
                      /\ Len(all) = CountProposals(t, p)
                      /\ Range(latest) \subseteq Range(all)
                      /\ \A h \in Range(all) \ Range(latest) : \A i \in DOMAIN latest : h < latest[i]
  <2> DEFINE S == ProposalRows(t, p)
             n == BlockHeight(t)
  <2>1. n \in Nat /\ S \in SUBSET (0 .. n - 1)
    BY <1>1, HeightFacts, LedgerAssumption DEF ProposalRows, TableInv
  <2>2. PICK s : Lists(s, S)
    <3> HIDE DEF S, n
    <3>1. QED BY <2>1, ListsBelow
  <2>3. S \in SUBSET Int
    BY <2>1
  <2> HIDE DEF S, n
  <2>4. Ascending(S) = s
    BY <2>2, <2>3, AscendingIs
  <2>5. /\ s \in Seq(S) /\ Len(s) \in Nat /\ s \in [ 1 .. Len(s) -> S ]
        /\ S = { s[j] : j \in 1 .. Len(s) }
        /\ \A i, j \in 1 .. Len(s) : i < j => s[i] < s[j]
    BY <2>2, LenProperties DEF Lists
  <2>6. \A i, j \in 1 .. Len(s) : i # j => s[i] # s[j]
    <3>1. \A i \in 1 .. Len(s) : s[i] \in Int
      BY <2>3, <2>5
    <3>2. \A i, j \in 1 .. Len(s) : i # j => i < j \/ j < i
      BY <2>5
    <3>3. \A i, j \in 1 .. Len(s) : s[i] < s[j] => s[i] # s[j]
      BY <3>1
    <3>4. QED BY <2>5, <3>2, <3>3
  <2>7. Cardinality(S) = Len(s)
    <3>1. Range(s) = S
      BY <2>5 DEF Range
    <3>2. QED BY <2>5, <2>6, <3>1, CountOfRange
  <2>8. IsFiniteSet(S)
    <3>1. Range(s) = S
      BY <2>5 DEF Range
    <3>2. IsFiniteSet(Range(s))
      BY <2>5, <2>6, CountOfRange
    <3>3. QED BY <3>1, <3>2
  <2> DEFINE k == Min({limit, Len(s)})
  <2>9. limit \in Nat /\ limit < BigintLimit
    BY LimitIs
  <2>10. k \in 0 .. Len(s) /\ k = Min({limit, CountProposals(t, p)})
    <3>1. k \in {limit, Len(s)} /\ \A i \in {limit, Len(s)} : k <= i
      BY <2>5, <2>9, LeastIs
    <3>2. CountProposals(t, p) = Len(s)
      BY <2>7 DEF CountProposals, S
    <3> HIDE DEF k
    <3>3. QED BY <2>5, <2>9, <3>1, <3>2 DEF k
  <2>11. GetLatestProposals(t, p, limit) = Reverse(SubSeq(Reverse(s), 1, k))
    <3>1. Len(Reverse(s)) = Len(s)
      BY <2>5, ReverseIs
    <3>2. GetLatestProposals(t, p, limit)
            = Reverse(SubSeq(Reverse(s), 1, Min({limit, Len(Reverse(s))})))
      BY <2>4, <2>9 DEF GetLatestProposals, S
    <3>3. QED BY <3>1, <3>2
  <2> DEFINE latest == Reverse(SubSeq(Reverse(s), 1, k))
  <2>12. /\ Len(latest) = k /\ DOMAIN latest = 1 .. k
         /\ \A i \in 1 .. k : latest[i] = s[(Len(s) - k) + i]
    <3> HIDE DEF k
    <3>1. QED BY <2>5, <2>10, LastAre
  <2> HIDE DEF latest
  <2> DEFINE m == Len(s) - k
  <2>13. k \in Nat /\ m \in Nat /\ Len(s) = m + k
    <3> HIDE DEF k
    <3>1. QED BY <2>5, <2>10
  <2> HIDE DEF k, m
  <2>14. \A i \in 1 .. k : latest[i] = s[m + i] /\ m + i \in 1 .. Len(s)
    BY <2>12, <2>13 DEF m
  <2>15. \A i, j \in DOMAIN latest : i < j => latest[i] < latest[j]
    BY <2>5, <2>12, <2>13, <2>14
  <2>16. Range(latest) \subseteq S
    BY <2>5, <2>12, <2>14 DEF Range
  <2>17. ASSUME NEW h \in S \ Range(latest), NEW i \in DOMAIN latest PROVE h < latest[i]
    <3>1. PICK j \in 1 .. Len(s) : h = s[j]
      BY <2>5
    <3>2. j <= m
      <4>1. SUFFICES ASSUME m < j PROVE FALSE
        BY <2>13
      <4>2. j - m \in 1 .. k /\ m + (j - m) = j
        BY <2>13, <4>1
      <4>3. latest[j - m] = h /\ j - m \in DOMAIN latest
        BY <2>12, <2>14, <3>1, <4>2
      <4>4. QED BY <4>3 DEF Range
    <3>3. i \in 1 .. k /\ latest[i] = s[m + i] /\ m + i \in 1 .. Len(s) /\ j < m + i
      BY <2>12, <2>13, <2>14, <3>2
    <3>4. QED BY <2>5, <3>1, <3>3
  <2>18. ASSUME NEW all \in GetProposals(t, p)
         PROVE  Len(all) = CountProposals(t, p) /\ Range(all) = S
    BY <2>8, AllAre DEF S
  <2>19. QED BY <2>10, <2>11, <2>12, <2>15, <2>16, <2>17, <2>18 DEF latest
<1>2. SqlInv => LatestProposalsAreLast
  <2>1. SqlInv => TableInv(ds.tables)
    BY DEF SqlInv, SourceInv
  <2>2. QED BY <1>1, <2>1 DEF LatestProposalsAreLast
<1>3. QED BY <1>2, SqlInvariance, PTL

\* The rows a range selects are the numbers in it that have a row.
InRange(n, start, end) ==
  /\ start.kind = "included" => n >= start.n
  /\ start.kind = "excluded" => n > start.n
  /\ end.kind = "included" => n <= end.n
  /\ end.kind = "excluded" => n < end.n

BigintBounds(start, end) ==
  \A bound \in {start, end} : bound.kind # "unbounded" => bound.n < BigintLimit

LEMMA SelectedIs ==
  ASSUME NEW R \in SUBSET Heights, NEW start \in Bound, NEW end \in Bound, BigintBounds(start, end)
  PROVE  { n \in Usize : InRange(n, start, end) /\ Bigint(n) \in R }
           = { h \in R : WhereClause(h, start, end) }
<1>1. BigintLimit \in Nat /\ MaxHeight < BigintLimit /\ MaxHeight \in Nat
  BY LimitIs, LedgerAssumption
<1>2. ASSUME NEW n \in Usize, Bigint(n) \in R PROVE Bigint(n) = n
  <2>1. n \in Nat /\ n <= 2 * BigintLimit - 1
    BY <1>1 DEF Usize
  <2>2. Bigint(n) \in Nat
    <3>1. Bigint(n) \in Heights
      BY <1>2
    <3>2. QED BY <3>1, <1>1 DEF Heights
  <2>3. QED BY <1>1, <2>1, <2>2 DEF Bigint
<1>3. ASSUME NEW h \in R PROVE h \in Usize /\ Bigint(h) = h
  <2>1. h \in Usize
    BY <1>1 DEF Usize, Heights
  <2>2. QED BY <2>1, BigintIs
<1>4. \A bound \in {start, end} : bound.kind \in {"included", "excluded"} => Bigint(bound.n) = bound.n
  BY DEF BigintBounds, Bound, Bigint
<1>5. \A h : WhereClause(h, start, end) <=> InRange(h, start, end)
  BY <1>4 DEF WhereClause, InRange
<1>6. QED BY <1>2, <1>3, <1>5

\* In the ascending order of rows each has the place of its height among them.
LEMMA PlaceInOrder ==
  ASSUME NEW n \in Nat, NEW S \in SUBSET (0 .. n - 1)
  PROVE  /\ DOMAIN Ascending(S) = 1 .. Cardinality(S)
         /\ \A h \in S : /\ Cardinality({ m \in S : m < h }) + 1 \in DOMAIN Ascending(S)
                         /\ Ascending(S)[Cardinality({ m \in S : m < h }) + 1] = h
<1>1. DOMAIN Ascending(S) = 1 .. Cardinality(S)
  BY DEF Ascending
<1>2. PICK s : Lists(s, S)
  BY ListsBelow
<1>3. S \in SUBSET Int
  OBVIOUS
<1>4. Ascending(S) = s
  BY <1>2, <1>3, AscendingIs
<1>5. Len(s) \in Nat /\ DOMAIN s = 1 .. Len(s) /\ S = { s[i] : i \in 1 .. Len(s) }
  BY <1>2, LenProperties DEF Lists
<1>6. ASSUME NEW h \in S
      PROVE  /\ Cardinality({ m \in S : m < h }) + 1 \in DOMAIN s
             /\ s[Cardinality({ m \in S : m < h }) + 1] = h
  <2>1. PICK i \in 1 .. Len(s) : h = s[i]
    BY <1>5
  <2>2. Cardinality({ m \in S : m < s[i] }) = i - 1
    BY <1>2, <1>3, CountBelow
  <2>3. Cardinality({ m \in S : m < h }) + 1 = i
    BY <1>5, <2>1, <2>2
  <2>4. QED BY <1>5, <2>1, <2>3
<1>7. QED BY <1>1, <1>4, <1>6

\* A range query over leaves or blocks yields what the queries by number answer, in order
\* and nothing else, as far as its bounds are bigints.
THEOREM RangesCorrect == Spec => []RangesMatchQueries
<1>1. ASSUME NEW t, TableInv(t), NEW start \in Bound, NEW end \in Bound, BigintBounds(start, end)
      PROVE  LET inside == { n \in Usize : InRange(n, start, end) }
                 leaves == { n \in inside : GetLeaf(t, n) # NotFound }
                 blocks == { n \in inside : GetBlock(t, n) # NotFound }
                 leaf   == GetLeafRange(t, start, end)
                 block  == GetBlockRange(t, start, end)
                 place(n, numbers) == Cardinality({ m \in numbers : m < n }) + 1
             IN  /\ DOMAIN leaf  = 1 .. Cardinality(leaves)
                 /\ \A n \in leaves : leaf[place(n, leaves)] = GetLeaf(t, n)
                 /\ DOMAIN block = 1 .. Cardinality(blocks)
                 /\ \A n \in blocks : block[place(n, blocks)] = GetBlock(t, n)
  <2> DEFINE R == t.header
             S == { h \in R : WhereClause(h, start, end) }
             N == BlockHeight(t)
             inside == { n \in Usize : InRange(n, start, end) }
             leaves == { n \in inside : GetLeaf(t, n) # NotFound }
             blocks == { n \in inside : GetBlock(t, n) # NotFound }
             place(n) == Cardinality({ m \in S : m < n }) + 1
  <2>1. /\ R \in SUBSET Heights /\ t.leaf = R /\ BlockRows(t) = R
        /\ N \in Nat /\ R = 0 .. N - 1
    <3>1. R \in SUBSET Heights /\ t.leaf = R /\ BlockRows(t) = R
      BY <1>1 DEF TableInv, Tables, BlockRows
    <3>2. N \in 0 .. MaxHeight + 1 /\ R = 0 .. N - 1
      BY <1>1, HeightFacts
    <3> HIDE DEF N, R
    <3>3. QED BY <3>1, <3>2, LedgerAssumption
  <2> HIDE DEF N
  <2>2. S \in SUBSET (0 .. N - 1) /\ S \in SUBSET Heights
    BY <2>1
  <2>3. { n \in Usize : InRange(n, start, end) /\ Bigint(n) \in R } = S
    <3>1. \A Q \in SUBSET Heights :
            { n \in Usize : InRange(n, start, end) /\ Bigint(n) \in Q }
              = { h \in Q : WhereClause(h, start, end) }
      BY <1>1, SelectedIs
    <3> HIDE DEF R
    <3>2. QED BY <2>1, <3>1
  <2>4. /\ \A n \in Usize : GetLeaf(t, n) # NotFound <=> Bigint(n) \in R
        /\ \A n \in Usize : GetBlock(t, n) # NotFound <=> Bigint(n) \in R
    <3>1. \A n \in Usize : Bigint(n) \in R => n # NotFound
      <4>1. ASSUME NEW n \in Usize, Bigint(n) \in R PROVE n \in Heights
        <5>1. BigintLimit \in Nat
          BY LimitIs
        <5>2. n \in Nat /\ n <= 2 * BigintLimit - 1
          BY <5>1 DEF Usize
        <5>3. Bigint(n) \in Nat
          <6> HIDE DEF R
          <6>1. QED BY <2>1, <4>1 DEF Heights
        <5>4. Bigint(n) = n
          BY <5>1, <5>2, <5>3 DEF Bigint
        <5>5. QED BY <2>1, <4>1, <5>4
      <4>2. QED BY <4>1, ErrorAssumption
    <3>2. \A n \in Usize : Bigint(n) \in R => Block(t, n) # NotFound
      BY <3>1, ErrorAssumption DEF Block
    <3> HIDE DEF R
    <3>3. QED BY <2>1, <3>1, <3>2 DEF GetLeaf, GetBlock
  <2>5. leaves = S /\ blocks = S
    BY <2>3, <2>4
  <2>6. /\ DOMAIN Ascending(S) = 1 .. Cardinality(S)
        /\ \A h \in S : place(h) \in DOMAIN Ascending(S) /\ Ascending(S)[place(h)] = h
    <3> HIDE DEF S
    <3>1. QED BY <2>1, <2>2, PlaceInOrder
  <2>7. \A h \in S : GetLeaf(t, h) = h /\ GetBlock(t, h) = Block(t, h)
    BY <2>1, <2>2, BigintIs DEF GetLeaf, GetBlock
  <2>8. GetLeafRange(t, start, end) = Ascending(S)
    BY <2>1 DEF GetLeafRange
  <2>9. GetBlockRange(t, start, end) = [ i \in DOMAIN Ascending(S) |-> Block(t, Ascending(S)[i]) ]
    BY <2>1 DEF GetBlockRange
  <2> HIDE DEF S, leaves, blocks
  <2>10. /\ DOMAIN GetLeafRange(t, start, end) = 1 .. Cardinality(S)
         /\ \A n \in S : GetLeafRange(t, start, end)[place(n)] = GetLeaf(t, n)
    BY <2>6, <2>7, <2>8
  <2>11. /\ DOMAIN GetBlockRange(t, start, end) = 1 .. Cardinality(S)
         /\ \A n \in S : GetBlockRange(t, start, end)[place(n)] = GetBlock(t, n)
    <3> HIDE DEF place
    <3>1. QED BY <2>6, <2>7, <2>9
  <2>12. QED BY <2>5, <2>10, <2>11 DEF leaves, blocks
<1>2. SqlInv => RangesMatchQueries
  <2>1. SqlInv => TableInv(ds.tables)
    BY DEF SqlInv, SourceInv
  <2>2. QED BY <1>1, <2>1 DEF RangesMatchQueries, BigintBounds, InRange
<1>3. QED BY <1>2, SqlInvariance, PTL

-----------------------------------------------------------------------------
(* What no step takes back *)

\* Tables that grew begin with the transactions that were there.
LEMMA GrownPrefix ==
  ASSUME NEW c, NEW t, TableInv(c), TableInv(t), Grown(c, t)
  PROVE  IsPrefix(c.transaction, t.transaction)
<1>1. c.transaction \in Seq(Row) /\ t.transaction \in Seq(Row)
  BY DEF TableInv, Tables, Row
<1>2. Len(c.transaction) \in Nat /\ Len(t.transaction) \in Nat /\ Len(c.transaction) <= Len(t.transaction)
  BY <1>1, LenProperties DEF Grown
<1>3. SubSeq(c.transaction, 1, Len(c.transaction)) = SubSeq(t.transaction, 1, Len(c.transaction))
  BY <1>1, <1>2 DEF Grown
<1>4. QED BY <1>2, <1>3 DEF IsPrefix

\* The queries of one leaf and of one block.
LEMMA QueriesFind ==
  ASSUME NEW t, TableInv(t), NEW h \in Heights
  PROVE  /\ h \in t.leaf => GetLeaf(t, h) = h
         /\ h \in t.data => GetBlock(t, h) = h
BY BigintIs DEF TableInv, GetLeaf, GetBlock, Block, BlockRows

\* A committed leaf, payload or transaction row is never removed, and a query of a
\* connection that works finds it, with or without an open transaction.
THEOREM StaysCommitted == Spec => CommittedStays
<1> DEFINE Found == ds'.session \in {"idle", "open"} =>
             \A h \in Heights : /\ h \in db.leaf => GetLeaf(ds'.tables, h) = h
                                /\ h \in db.data => GetBlock(ds'.tables, h) = h
           Stays == db.leaf \subseteq db'.leaf /\ db.data \subseteq db'.data
                    /\ IsPrefix(db.transaction, db'.transaction) /\ Found
<1>1. ASSUME SqlInv, [Next]_vars PROVE Stays
  <2>1. SqlInv' /\ Grown(db, db')
    BY <1>1, SqlStep
  <2>2. TableInv(db) /\ TableInv(db') /\ TableInv(ds'.tables) /\ Grown(db', ds'.tables)
    BY <1>1, <2>1 DEF SqlInv, SourceInv
  <2>3. db.leaf \subseteq db'.leaf /\ db.data \subseteq db'.data
    BY <2>1, <2>2 DEF TableInv, Grown
  <2>4. db.leaf \subseteq ds'.tables.leaf /\ db.data \subseteq ds'.tables.data
    BY <2>2, <2>3 DEF TableInv, Grown
  <2>5. IsPrefix(db.transaction, db'.transaction)
    BY <2>1, <2>2, GrownPrefix
  <2>6. Found
    BY <2>2, <2>4, QueriesFind
  <2>7. QED BY <2>3, <2>5, <2>6
<1>2. QED BY <1>1, SqlInvariance, PTL DEF Spec, CommittedStays
-----------------------------------------------------------------------------
(* What subscribers are given *)

\* Tables that grew are not lower.
LEMMA GrownHeight ==
  ASSUME NEW c, NEW t, TableInv(c), TableInv(t), Grown(c, t)
  PROVE  BlockHeight(c) <= BlockHeight(t)
<1> DEFINE m == BlockHeight(c)
           n == BlockHeight(t)
<1>1. m \in Nat /\ n \in Nat /\ c.header = 0 .. m - 1 /\ t.header = 0 .. n - 1 /\ c.header \subseteq t.header
  BY HeightFacts, LedgerAssumption DEF Grown
<1> HIDE DEF m, n
<1>2. SUFFICES ASSUME m > n PROVE FALSE
  BY <1>1 DEF m, n
<1>3. n \in 0 .. m - 1 /\ n \notin 0 .. n - 1
  BY <1>1, <1>2
<1>4. QED BY <1>1, <1>3

\* The rows of a stream are heights, and those of grown tables that were there before
\* are those of the headers that were.
LEMMA RowsAre ==
  ASSUME NEW c, TableInv(c), NEW t, TableInv(t), Grown(c, t), NEW sub
  PROVE  /\ Rows(c, sub) = Rows(t, sub) \cap c.header
         /\ Rows(t, sub) \subseteq Heights /\ Rows(t, sub) \subseteq Int /\ Missing \notin Rows(t, sub)
         /\ \A x \in Rows(c, sub), y \in Rows(t, sub) \ Rows(c, sub) : x < y
         /\ \A y \in Rows(t, sub) \ Rows(c, sub) : BlockHeight(c) <= y
<1>1. /\ \A h \in Heights : h \in c.header <=> h < BlockHeight(c)
      /\ BlockHeight(c) \in Int /\ c.header \subseteq Heights
  <2>1. /\ BlockHeight(c) \in 0 .. MaxHeight + 1
        /\ \A h \in Heights : h \in c.header <=> h < BlockHeight(c)
    BY HeightFacts
  <2>2. BlockHeight(c) \in Int
    BY <2>1, LedgerAssumption
  <2>3. QED BY <2>1, <2>2 DEF TableInv, Tables
<1>2. Rows(c, sub) = Rows(t, sub) \cap c.header
  BY DEF Rows, TableInv, Grown
<1>3. Rows(t, sub) \subseteq Heights
  BY DEF Rows, TableInv, Tables
<1>4. Heights \subseteq Int /\ Missing \notin Heights
  BY StreamAssumption DEF Heights
<1>5. \A y \in Rows(t, sub) \ Rows(c, sub) : BlockHeight(c) <= y
  <2>1. SUFFICES ASSUME NEW y \in Rows(t, sub) \ Rows(c, sub) PROVE BlockHeight(c) <= y
    OBVIOUS
  <2>2. y \in Heights /\ y \in Int /\ ~ y < BlockHeight(c)
    BY <1>1, <1>2, <1>3, <1>4
  <2>3. QED BY <1>1, <2>2
<1>6. \A x \in Rows(c, sub) : x \in Int /\ x < BlockHeight(c)
  BY <1>1, <1>2, <1>4
<1>7. \A x \in Rows(c, sub), y \in Rows(t, sub) \ Rows(c, sub) : x < y
  <2>1. SUFFICES ASSUME NEW x \in Rows(c, sub), NEW y \in Rows(t, sub) \ Rows(c, sub) PROVE x < y
    OBVIOUS
  <2>2. y \in Int /\ BlockHeight(c) <= y /\ x \in Int /\ x < BlockHeight(c)
    BY <1>3, <1>4, <1>5, <1>6
  <2>3. QED BY <1>1, <2>2
<1>8. QED BY <1>2, <1>3, <1>4, <1>5, <1>7

\* What a query yields when a subscription begins.
LEMMA RowsFromIs ==
  ASSUME NEW t, TableInv(t), NEW sub, sub.from \in Heights
  PROVE  /\ RowsFrom(t, sub) \in Seq(Heights \cup {Missing})
         /\ GivesAll(t, sub, RowsFrom(t, sub))
<1>1. CASE sub.stream = "leaves"
  <2> DEFINE got == LeavesFrom(t, sub.from)
             S   == { h \in t.leaf : h >= sub.from }
  <2>1. Lists(got, S)
    BY LeavesFromIs DEF LeavesGiven
  <2>2. got \in Seq(Heights \cup {Missing})
    BY LeavesFromType
  <2>3. S \subseteq Heights /\ Missing \notin S
    BY StreamAssumption DEF TableInv, Tables
  <2> HIDE DEF got, S
  <2>4. DOMAIN got = 1 .. Len(got)
    BY <2>2, LenProperties
  <2>5. Range(got) = S
    BY <2>1, <2>4 DEF Lists, Range
  <2>6. \A i, j \in DOMAIN got : i < j => got[i] < got[j]
    BY <2>1, <2>4 DEF Lists
  <2>7. Range(got) \ {Missing} = { h \in Rows(t, sub) : h >= sub.from }
    BY <1>1, <2>3, <2>5 DEF Rows, S
  <2>8. RowsFrom(t, sub) = got
    BY <1>1 DEF RowsFrom, got
  <2>9. QED BY <2>2, <2>6, <2>7, <2>8 DEF GivesAll
<1>2. CASE sub.stream # "leaves"
  BY <1>2, BlocksFromIs DEF BlocksGiven, RowsFrom, Rows, GivesAll
<1>3. QED BY <1>1, <1>2

\* What was given, and what is announced of the rows that are added.
LEMMA GivesMore ==
  ASSUME NEW c, TableInv(c), NEW t, TableInv(t), Grown(c, t), NEW sub, sub.from \in Heights,
         NEW got \in Seq(Heights \cup {Missing}),
         NEW pending, Lists(pending, Rows(t, sub) \ Rows(c, sub))
  PROVE  /\ pending \in Seq(Heights \cup {Missing})
         /\ got \o pending \in Seq(Heights \cup {Missing})
         /\ Range(got \o pending) = Range(got) \cup (Rows(t, sub) \ Rows(c, sub))
         /\ sub.from <= BlockHeight(c) /\ GivesAll(c, sub, got) => GivesAll(t, sub, got \o pending)
<1> DEFINE U == Rows(t, sub) \ Rows(c, sub)
           M == Heights \cup {Missing}
           all == got \o pending
<1>1. /\ Rows(c, sub) \subseteq Rows(t, sub) /\ U \subseteq Heights /\ Missing \notin U
      /\ \A x \in Rows(c, sub), y \in U : x < y
      /\ \A y \in U : BlockHeight(c) <= y
  BY RowsAre
<1>2. pending \in Seq(U) /\ U \subseteq M
  BY <1>1 DEF Lists
<1>3. pending \in Seq(M) /\ got \in Seq(M)
  BY <1>2, SeqMonotonic
<1>4. all \in Seq(M) /\ Range(all) = Range(got) \cup Range(pending)
  <2> HIDE DEF M
  <2>1. QED BY <1>3, ConcatProperties, RangeConcatenation
<1>5. /\ Len(got) \in Nat /\ Len(pending) \in Nat /\ Len(all) = Len(got) + Len(pending)
      /\ DOMAIN all = 1 .. Len(all) /\ DOMAIN got = 1 .. Len(got) /\ DOMAIN pending = 1 .. Len(pending)
      /\ \A i \in 1 .. Len(got) + Len(pending) : all[i] = IF i <= Len(got) THEN got[i] ELSE pending[i - Len(got)]
  <2> HIDE DEF M
  <2>1. /\ Len(got) \in Nat /\ Len(pending) \in Nat /\ DOMAIN got = 1 .. Len(got) /\ DOMAIN pending = 1 .. Len(pending)
    BY <1>3, LenProperties
  <2>2. DOMAIN all = 1 .. Len(all)
    BY <1>4, LenProperties
  <2>3. QED BY <1>3, <2>1, <2>2, ConcatProperties
<1>6. Range(pending) = U
  <2> HIDE DEF U
  <2>1. Lists(pending, U)
    BY DEF U
  <2>2. QED BY <2>1, <1>5 DEF Range, Lists
<1> HIDE DEF all
<1>7. ASSUME sub.from <= BlockHeight(c), GivesAll(c, sub, got) PROVE GivesAll(t, sub, all)
  <2>1. \A y \in U : y >= sub.from
    <3>1. BlockHeight(c) \in 0 .. MaxHeight + 1
      BY HeightFacts
    <3>2. BlockHeight(c) \in Int /\ sub.from \in Int /\ Heights \subseteq Int
      BY <3>1, LedgerAssumption DEF Heights
    <3> HIDE DEF U
    <3>3. QED BY <1>1, <1>7, <3>2
  <2>2. { h \in Rows(t, sub) : h >= sub.from } = { h \in Rows(c, sub) : h >= sub.from } \cup U
    BY <1>1, <2>1
  <2>3. Range(all) \ {Missing} = { h \in Rows(t, sub) : h >= sub.from }
    BY <1>1, <1>4, <1>6, <1>7, <2>2 DEF GivesAll
  <2>4. ASSUME NEW i \in DOMAIN all, NEW j \in DOMAIN all, i < j, Missing \notin {all[i], all[j]}
        PROVE  all[i] < all[j]
    <3>1. i \in 1 .. Len(got) + Len(pending) /\ j \in 1 .. Len(got) + Len(pending)
      BY <1>5
    <3>2. CASE j <= Len(got)
      <4>1. i \in DOMAIN got /\ j \in DOMAIN got /\ all[i] = got[i] /\ all[j] = got[j]
        BY <3>1, <3>2, <1>5, <2>4
      <4>2. QED BY <4>1, <2>4, <1>7 DEF GivesAll
    <3>3. CASE ~ j <= Len(got) /\ i <= Len(got)
      <4>1. /\ i \in DOMAIN got /\ all[i] = got[i]
            /\ j - Len(got) \in DOMAIN pending /\ all[j] = pending[j - Len(got)]
        BY <3>1, <3>3, <1>5
      <4>2. all[i] \in Rows(c, sub)
        BY <4>1, <2>4, <1>7 DEF GivesAll, Range
      <4>3. all[j] \in U
        <5> HIDE DEF U
        <5>1. QED BY <4>1, <1>6 DEF Range
      <4>4. QED BY <4>2, <4>3, <1>1
    <3>4. CASE ~ j <= Len(got) /\ ~ i <= Len(got)
      <4>1. /\ i - Len(got) \in 1 .. Len(pending) /\ all[i] = pending[i - Len(got)]
            /\ j - Len(got) \in 1 .. Len(pending) /\ all[j] = pending[j - Len(got)]
        BY <3>1, <3>4, <1>5
      <4>2. i - Len(got) < j - Len(got)
        BY <3>1, <1>5, <2>4
      <4>3. QED BY <4>1, <4>2 DEF Lists
    <3>5. QED BY <3>2, <3>3, <3>4
  <2>5. QED BY <2>3, <2>4 DEF GivesAll
<1>8. QED BY <1>3, <1>4, <1>6, <1>7 DEF all

\* One sequence and then another.  (The provers do not see through `\o` what a fact
\* is an instance of.)
Chained(s, u) == s \o u

\* What is promised when more is committed is what was, and the rows that are added.
LEMMA PromisedMore ==
  ASSUME NEW c, TableInv(c), NEW t, TableInv(t), Grown(c, t), NEW sub, SubInv(c, sub),
         NEW pending, Lists(pending, Rows(t, sub) \ Rows(c, sub))
  PROVE  /\ SubInv(t, sub)
         /\ Promised(c, sub) \in Seq(Heights \cup {Missing})
         /\ Promised(t, sub) = Chained(Promised(c, sub), pending)
<1> DEFINE K == Rows(sub.kept, sub)
           S == Rows(c, sub) \ K
           U == Rows(t, sub) \ Rows(c, sub)
           M == Heights \cup {Missing}
           first == RowsFrom(sub.seen, sub)
<1>1. /\ Rows(c, sub) \subseteq Rows(t, sub) /\ K \subseteq Rows(c, sub)
      /\ Rows(t, sub) \subseteq Int /\ Rows(t, sub) \subseteq Heights
      /\ \A x \in Rows(c, sub), y \in U : x < y
  BY RowsAre DEF SubInv
<1>2. PICK s : Lists(s, S)
  BY DEF SubInv
<1>3. S \in SUBSET Int /\ U \in SUBSET Int /\ S \subseteq M /\ U \subseteq M
  BY <1>1
<1>4. \A x \in S, y \in U : x < y
  BY <1>1
<1>5. Rows(t, sub) \ K = S \cup U
  BY <1>1
<1>6. first \in Seq(M)
  BY RowsFromIs DEF SubInv, Subscription
<1> HIDE DEF S, U, K, M
<1>7. Lists(pending, U)
  BY DEF U
<1>8. Lists(s \o pending, S \cup U)
  BY <1>2, <1>3, <1>4, <1>7, ListsConcat
<1>9. Ascending(S) = s /\ Ascending(S \cup U) = s \o pending
  BY <1>2, <1>3, <1>8, AscendingIs
<1>10. s \in Seq(M) /\ pending \in Seq(M)
  <2>1. s \in Seq(S) /\ pending \in Seq(U)
    BY <1>2, <1>7 DEF Lists
  <2>2. QED BY <1>3, <2>1, SeqMonotonic
<1>11. Promised(c, sub) = first \o s
  BY <1>9 DEF Promised, S, K
<1>12. Promised(t, sub) = first \o (s \o pending)
  BY <1>5, <1>9 DEF Promised, K
<1> HIDE DEF first
<1>13. Promised(c, sub) \in Seq(M) /\ Promised(t, sub) = Promised(c, sub) \o pending
  BY <1>6, <1>10, <1>11, <1>12, ConcatProperties, ConcatAssociative
<1>14. SubInv(t, sub)
  BY <1>1, <1>5, <1>8 DEF SubInv, K
<1>15. QED BY <1>13, <1>14 DEF M, Chained

\* A sequence is a prefix of itself and of what continues it.
LEMMA PrefixIs ==
  ASSUME NEW M, NEW s \in Seq(M), NEW u \in Seq(M)
  PROVE  IsPrefix(s, s) /\ IsPrefix(s, s \o u)
<1>1. Len(s) \in Nat /\ Len(u) \in Nat
  BY LenProperties
<1>2. s \o u \in Seq(M) /\ Len(s \o u) = Len(s) + Len(u)
  BY ConcatProperties
<1>3. SubSeq(s \o u, 1, Len(s)) = s
  <2>1. \A i \in 1 .. Len(s) : (s \o u)[i] = s[i]
    BY <1>1, ConcatProperties
  <2>2. SubSeq(s \o u, 1, Len(s)) = [ i \in 1 .. Len(s) |-> (s \o u)[i] ]
    BY <1>1, <1>2
  <2>3. s = [ i \in 1 .. Len(s) |-> s[i] ]
    BY <1>1
  <2>4. QED BY <2>1, <2>2, <2>3
<1>4. SubSeq(s, 1, Len(s)) = s
  BY <1>1, SubSeqFull
<1>5. QED BY <1>1, <1>2, <1>3, <1>4 DEF IsPrefix

\* It depends on the streams only, whatever else the data source is.
LEMMA GivenFollows ==
  ASSUME NEW c, NEW d, NEW n, NEW sub, GivenInv(c, d, sub),
         n.leaf_stream.received = d.leaf_stream.received,
         n.block_stream.received = d.block_stream.received
  PROVE  GivenInv(c, n, sub)
<1>1. Received(n, sub) = Received(d, sub)
  BY DEF Received, Channel
<1>2. QED BY <1>1 DEF GivenInv

\* What is pending for a subscriber, and what it has after a flush.
LEMMA FlushGives ==
  ASSUME NEW c, NEW d \in DataSource, WorkInv(c, d), NEW t, TableInv(t), GenesisInv(t), t.header # {},
         NEW sub \in Subscription, GivenInv(c, d, sub)
  PROVE  /\ Lists(Channel(d, sub).pending, Rows(d.tables, sub) \ Rows(c, sub))
         /\ Channel(d, sub).pending \in Seq(Heights \cup {Missing})
         /\ Received(Settled(d, t), sub) = Chained(Received(d, sub), Channel(d, sub).pending)
<1> DEFINE M == Heights \cup {Missing}
           ch == Channel(d, sub)
           n == Settled(d, t)
<1>1. d.leaf_stream \in ChannelType(M) /\ d.block_stream \in ChannelType(M)
  BY DEF DataSource
<1>2. n.leaf_stream = Flush(d.leaf_stream) /\ n.block_stream = Flush(d.block_stream)
  BY SettledIs
<1> HIDE DEF n
<1>3. ch \in ChannelType(M) /\ Channel(n, sub) = Flush(ch)
  BY <1>1, <1>2 DEF Channel
<1>4. Lists(ch.pending, Rows(d.tables, sub) \ Rows(c, sub))
  BY DEF WorkInv, Channel, Rows
<1>5. sub.client \in Clients
  BY DEF Subscription
<1>6. Received(d, sub) = ch.received[sub.client] /\ Received(n, sub) = Flush(ch).received[sub.client]
  BY <1>3 DEF Received
<1>7. Received(d, sub) # NoStream
  BY StreamAssumption DEF GivenInv
<1> HIDE DEF M, ch
<1>8. ch.pending \in Seq(M)
  BY <1>3 DEF ChannelType
<1>9. Received(n, sub) = Received(d, sub) \o ch.pending
  BY <1>3, <1>5, <1>6, <1>7, FlushType
<1>10. QED BY <1>4, <1>8, <1>9 DEF M, ch, n, Chained

\* A commit gives every subscriber what is pending, which is what it lacks.
LEMMA CommitGives ==
  ASSUME NEW c, TableInv(c), NEW d, SourceInv(c, d), WorkInv(c, d), d.tables.header # {},
         NEW sub, SubInv(c, sub), GivenInv(c, d, sub)
  PROVE  /\ SubInv(d.tables, sub)
         /\ GivenInv(d.tables, Settled(d, d.tables), sub)
         /\ LeftInv(d.tables, d, sub)
<1> DEFINE t == d.tables
           n == Settled(d, t)
           M == Heights \cup {Missing}
           got == Received(d, sub)
           pending == Channel(d, sub).pending
<1>1. d \in DataSource /\ TableInv(t) /\ GenesisInv(t) /\ Grown(c, t)
  BY DEF SourceInv
<1>2. sub \in Subscription /\ sub.from \in Heights /\ TableInv(sub.kept)
  BY DEF SubInv, Subscription
<1>3. /\ Lists(pending, Rows(t, sub) \ Rows(c, sub)) /\ pending \in Seq(M)
      /\ Received(n, sub) = got \o pending
  <2>1. /\ Lists(pending, Rows(t, sub) \ Rows(c, sub)) /\ pending \in Seq(M)
        /\ Received(n, sub) = Chained(got, pending)
    BY <1>1, <1>2, FlushGives
  <2>2. QED BY <2>1 DEF Chained
<1>4. got \in Seq(M) /\ (Steady(sub) => sub.from <= BlockHeight(c) /\ GivesAll(c, sub, got))
  BY DEF GivenInv
<1> HIDE DEF t, n, got, pending
<1>5. /\ got \o pending \in Seq(M)
      /\ Range(got \o pending) = Range(got) \cup (Rows(t, sub) \ Rows(c, sub))
      /\ sub.from <= BlockHeight(c) /\ GivesAll(c, sub, got) => GivesAll(t, sub, got \o pending)
  BY <1>1, <1>2, <1>3, <1>4, GivesMore
<1>6. /\ SubInv(t, sub) /\ Promised(c, sub) \in Seq(M)
      /\ Promised(t, sub) = Promised(c, sub) \o pending
  <2>1. Lists(pending, Rows(t, sub) \ Rows(c, sub)) /\ TableInv(t) /\ Grown(c, t)
    BY <1>1, <1>3
  <2>2. /\ SubInv(t, sub) /\ Promised(c, sub) \in Seq(M)
        /\ Promised(t, sub) = Chained(Promised(c, sub), pending)
    BY <2>1, PromisedMore
  <2>3. QED BY <2>2 DEF Chained
<1>7. sub.misled = 0 => got = Promised(c, sub)
  BY DEF GivenInv, got
<1>8. { h \in Rows(t, sub) : h >= sub.from } \subseteq Range(got \o pending)
  BY <1>5 DEF GivenInv, got
<1>9. sub.from <= BlockHeight(c) => sub.from <= BlockHeight(t)
  <2>1. BlockHeight(c) \in 0 .. MaxHeight + 1 /\ BlockHeight(t) \in 0 .. MaxHeight + 1
    BY <1>1, HeightFacts
  <2>2. BlockHeight(c) <= BlockHeight(t)
    BY <1>1, GrownHeight
  <2>3. BlockHeight(c) \in Int /\ BlockHeight(t) \in Int /\ sub.from \in Int
    BY <1>2, <2>1, LedgerAssumption DEF Heights
  <2>4. QED BY <2>2, <2>3
<1>10. GivenInv(t, n, sub)
  <2>1. sub.misled = 0 => got \o pending = Promised(t, sub)
    BY <1>6, <1>7
  <2>2. Steady(sub) => sub.from <= BlockHeight(t) /\ GivesAll(t, sub, got \o pending)
    BY <1>4, <1>5, <1>9
  <2>3. QED BY <1>3, <1>5, <1>8, <2>1, <2>2 DEF GivenInv
<1>11. LeftInv(t, d, sub)
  <2>1. IsPrefix(Promised(c, sub), Promised(c, sub) \o pending)
    <3> HIDE DEF M
    <3>1. QED BY <1>3, <1>6, PrefixIs
  <2>2. QED BY <1>6, <1>7, <2>1 DEF LeftInv, got
<1>12. QED BY <1>6, <1>10, <1>11 DEF t, n

\* A commit that rolls back takes nothing away from what was received, and adds
\* nothing to it if nothing is pending.
LEMMA RollbackKeeps ==
  ASSUME NEW c, TableInv(c), GenesisInv(c), c.header # {}, NEW d \in DataSource, WorkInv(c, d),
         NEW sub \in Subscription, GivenInv(c, d, sub)
  PROVE  /\ Received(Settled(d, c), sub) \in Seq(Heights \cup {Missing})
         /\ Range(Received(d, sub)) \subseteq Range(Received(Settled(d, c), sub))
         /\ d.leaf_stream.pending = << >> /\ d.block_stream.pending = << >>
              => Received(Settled(d, c), sub) = Received(d, sub)
<1> DEFINE M == Heights \cup {Missing}
           got == Received(d, sub)
           pending == Channel(d, sub).pending
           more == Received(Settled(d, c), sub)
<1>1. pending \in Seq(M) /\ more = Chained(got, pending)
  BY FlushGives
<1>2. got \in Seq(M)
  BY DEF GivenInv
<1>3. d.leaf_stream.pending = << >> /\ d.block_stream.pending = << >> => pending = << >>
  BY DEF Channel
<1> HIDE DEF M, got, pending, more
<1>4. more = got \o pending
  BY <1>1 DEF Chained
<1>5. more \in Seq(M) /\ Range(more) = Range(got) \cup Range(pending)
  BY <1>1, <1>2, <1>4, ConcatProperties, RangeConcatenation
<1>6. pending = << >> => more = got
  BY <1>2, <1>4, ConcatEmptySeq
<1>7. QED BY <1>3, <1>5, <1>6 DEF M, got, more

\* A commit that rolls back keeps what there is; whoever it gives anything is misled.
LEMMA RollbackGives ==
  ASSUME NEW c, TableInv(c), GenesisInv(c), c.header # {}, NEW d, SourceInv(c, d), WorkInv(c, d),
         NEW sub, SubInv(c, sub), GivenInv(c, d, sub),
         NEW m, m \in Subscription, m = [ sub EXCEPT !.misled = m.misled ],
         \/ m.misled # 0
         \/ m = sub /\ d.leaf_stream.pending = << >> /\ d.block_stream.pending = << >>
  PROVE  SubInv(c, m) /\ GivenInv(c, Settled(d, c), m)
<1> DEFINE n == Settled(d, c)
           M == Heights \cup {Missing}
<1>1. d \in DataSource /\ sub \in Subscription
  BY DEF SourceInv, SubInv
<1>2. /\ Received(n, sub) \in Seq(M) /\ Range(Received(d, sub)) \subseteq Range(Received(n, sub))
      /\ d.leaf_stream.pending = << >> /\ d.block_stream.pending = << >> => Received(n, sub) = Received(d, sub)
  BY <1>1, RollbackKeeps
<1>3. /\ m.stream = sub.stream /\ m.client = sub.client /\ m.from = sub.from
      /\ m.seen = sub.seen /\ m.kept = sub.kept
  BY <1>1 DEF Subscription
<1>4. /\ Rows(c, m) = Rows(c, sub) /\ Rows(m.kept, m) = Rows(sub.kept, sub)
      /\ Received(n, m) = Received(n, sub)
  BY <1>3 DEF Rows, Received, Channel
<1>5. SubInv(c, m)
  BY <1>3, <1>4 DEF SubInv
<1> HIDE DEF n
<1>6. CASE m.misled # 0
  <2>1. { h \in Rows(c, m) : h >= m.from } \subseteq Range(Received(n, m))
    BY <1>2, <1>3, <1>4 DEF GivenInv
  <2>2. QED BY <1>2, <1>4, <1>5, <1>6, <2>1 DEF GivenInv, Steady, n
<1>7. CASE m = sub /\ d.leaf_stream.pending = << >> /\ d.block_stream.pending = << >>
  BY <1>2, <1>5, <1>7 DEF GivenInv, n
<1>8. QED BY <1>6, <1>7

\* A new subscriber is given the rows of the tables that its query sees.
LEMMA FirstGives ==
  ASSUME NEW c, TableInv(c), NEW d, SourceInv(c, d), NEW sub \in Subscription,
         sub.seen = d.tables, sub.kept = c, sub.misled = 0,
         NEW n, Received(n, sub) = RowsFrom(d.tables, sub)
  PROVE  SubInv(c, sub) /\ GivenInv(c, n, sub)
<1> DEFINE t == d.tables
           M == Heights \cup {Missing}
           got == RowsFrom(t, sub)
<1>1. TableInv(t) /\ Grown(c, t) /\ sub.from \in Heights
  BY DEF SourceInv, Subscription
<1>2. got \in Seq(M) /\ GivesAll(t, sub, got)
  BY <1>1, RowsFromIs
<1>3. Rows(c, sub) \subseteq Rows(t, sub)
  BY <1>1, RowsAre
<1>4. Rows(c, sub) \ Rows(sub.kept, sub) = {}
  OBVIOUS
<1>5. SubInv(c, sub)
  BY <1>1, <1>4, ListsEmpty DEF SubInv
<1> HIDE DEF t, got, M
<1>6. { h \in Rows(c, sub) : h >= sub.from } \subseteq Range(got)
  BY <1>2, <1>3 DEF GivesAll
<1>7. got = Promised(c, sub)
  <2>1. Ascending({}) = << >>
    BY ListsEmpty, AscendingIs
  <2>2. Promised(c, sub) = got \o << >>
    BY <1>4, <2>1 DEF Promised, got, t
  <2>3. QED BY <1>2, <2>2, ConcatEmptySeq
<1>8. Steady(sub) => sub.from <= BlockHeight(c) /\ GivesAll(c, sub, got)
  BY <1>2 DEF Steady, t
<1>9. QED BY <1>2, <1>5, <1>6, <1>7, <1>8 DEF GivenInv, got, t, M

\* A new subscriber is given what its query yields, and no other subscriber is given
\* anything.
LEMMA SubscriptionGives ==
  ASSUME NEW c, TableInv(c), NEW d, SourceInv(c, d), NEW cl \in Clients, NEW from \in Heights,
         NEW stream \in {"leaves", "blocks"}, NEW new \in Subscription,
         new = [ stream |-> stream, client |-> cl, from |-> from,
                 seen |-> d.tables, kept |-> c, misled |-> 0 ],
         Channel(d, new).received[cl] = NoStream,
         NEW n, n = IF stream = "leaves" THEN LeavesSubscribed(d, cl, LeavesFrom(d.tables, from))
                                         ELSE BlocksSubscribed(d, cl, BlocksFrom(d.tables, from)),
         NEW sub, sub = new \/ (SubInv(c, sub) /\ GivenInv(c, d, sub))
  PROVE  SubInv(c, sub) /\ GivenInv(c, n, sub)
<1> DEFINE M == Heights \cup {Missing}
           got == RowsFrom(d.tables, new)
           ch == Channel(d, new)
<1>1. d \in DataSource /\ TableInv(d.tables)
  BY DEF SourceInv
<1>2. got \in Seq(M)
  BY <1>1, RowsFromIs
<1>3. d.leaf_stream \in ChannelType(M) /\ d.block_stream \in ChannelType(M)
  BY <1>1 DEF DataSource
<1>4. got = IF stream = "leaves" THEN LeavesFrom(d.tables, from) ELSE BlocksFrom(d.tables, from)
  BY DEF RowsFrom
<1>5. /\ n.leaf_stream = IF stream = "leaves" THEN Subscribed(d.leaf_stream, cl, got) ELSE d.leaf_stream
      /\ n.block_stream = IF stream = "leaves" THEN d.block_stream ELSE Subscribed(d.block_stream, cl, got)
  BY <1>1, <1>4 DEF LeavesSubscribed, BlocksSubscribed, DataSource
<1> HIDE DEF M, got
<1>6. \A other \in Subscription :
        Received(n, other) = IF other.stream = stream /\ other.client = cl THEN got ELSE Received(d, other)
  <2>1. /\ \A x \in Clients : Subscribed(d.leaf_stream, cl, got).received[x]
                                = IF x = cl THEN got ELSE d.leaf_stream.received[x]
        /\ \A x \in Clients : Subscribed(d.block_stream, cl, got).received[x]
                                = IF x = cl THEN got ELSE d.block_stream.received[x]
    BY <1>2, <1>3, SubscribedIs
  <2>2. \A other \in Subscription : other.client \in Clients /\ other.stream \in {"leaves", "blocks"}
    BY DEF Subscription
  <2>3. QED BY <1>5, <2>1, <2>2 DEF Received, Channel
<1>7. CASE sub = new
  <2>1. Received(n, new) = got
    BY <1>6
  <2>2. QED BY <1>7, <2>1, FirstGives DEF got
<1>8. CASE SubInv(c, sub) /\ GivenInv(c, d, sub)
  <2>1. sub \in Subscription
    BY <1>8 DEF SubInv
  <2>2. Received(d, sub) # NoStream
    BY <1>8, StreamAssumption DEF GivenInv
  <2>3. ~ (sub.stream = stream /\ sub.client = cl)
    BY <2>1, <2>2 DEF Received, Channel
  <2>4. Received(n, sub) = Received(d, sub)
    BY <1>6, <2>1, <2>3
  <2>5. QED BY <1>8, <2>4 DEF GivenInv
<1>9. QED BY <1>7, <1>8

\* Every step keeps what subscribers were given.
LEMMA StreamStep ==
  ASSUME SqlInv, StreamInv, [Next]_vars
  PROVE  StreamInv'
<1>1. /\ TableInv(db) /\ SourceInv(db, ds) /\ ds \in DataSource /\ asked \subseteq Subscription
      /\ Usable <=> AtWork(ds)
  BY DEF SqlInv, SourceInv, Usable, AtWork
<1>2. StreamInv' <=> /\ ds'.session = "none" => asked' = {}
                     /\ AtWork(ds') => \A sub \in asked' : SubInv(db', sub) /\ GivenInv(db', ds', sub)
                     /\ ds'.session = "lost" => \A sub \in asked' : LeftInv(db', ds', sub)
  BY DEF StreamInv, Usable, AtWork
<1>3. AtWork(ds) => /\ WorkInv(db, ds)
                    /\ \A sub \in asked : SubInv(db, sub) /\ GivenInv(db, ds, sub)
  BY <1>1 DEF StreamInv, SourceInv, AtWork
<1>4. CASE UNCHANGED vars
  <2>1. db' = db /\ ds' = ds /\ asked' = asked
    BY <1>4 DEF vars
  <2>2. QED BY <1>1, <1>2, <2>1 DEF StreamInv
<1>5. CASE Connect \/ ConnectFails \/ RevertPanics
  BY <1>2, <1>5 DEF Connect, ConnectFails, RevertPanics
<1>6. CASE (\E e \in Event : Update(e) \/ UpdateFails(e)) \/ ExecuteCustom
  <2>1. AtWork(ds) /\ AtWork(ds') /\ Follows(ds, ds') /\ db' = db /\ asked' = asked
    BY <1>6, UpdatesKeep
  <2>2. \A sub \in asked : GivenInv(db, ds', sub)
    BY <1>3, <2>1, GivenFollows DEF Follows
  <2>3. QED BY <1>2, <1>3, <2>1, <2>2 DEF AtWork
<1>7. CASE Commit
  <2>1. /\ AtWork(ds) /\ asked' = Remembered /\ ds' = Settled(ds, db') /\ ds'.session = "idle"
        /\ db' \in {db, ds.tables} /\ (ds.session # "aborted" => db' = ds.tables)
    BY <1>7, CommitKeeps
  <2>2. SUFFICES ASSUME NEW m \in asked' PROVE SubInv(db', m) /\ GivenInv(db', ds', m)
    BY <1>2, <2>1 DEF AtWork
  <2>3. CASE ds.session # "aborted"
    <3>1. db' = ds.tables /\ asked' = asked
      BY <2>1, <2>3 DEF Remembered, Misleads
    <3>2. ds.tables.header # {}
      BY <1>1, <2>1 DEF SourceInv, AtWork
    <3>3. QED BY <1>1, <1>3, <2>1, <2>2, <3>1, <3>2, CommitGives
  <2>4. CASE ds.session = "aborted"
    <3>1. db' = db
      BY <1>7, <2>4 DEF Commit
    <3>2. GenesisInv(db) /\ db.header # {}
      BY <2>4 DEF SqlInv
    <3>3. PICK sub \in asked : /\ m \in Subscription /\ m = [ sub EXCEPT !.misled = m.misled ]
                               /\ \/ m.misled # 0
                                  \/ m = sub /\ ds.leaf_stream.pending = << >> /\ ds.block_stream.pending = << >>
      <4>1. CASE Misleads
        <5>1. PICK sub \in asked : m = [ sub EXCEPT !.misled = @ + 1 ]
          BY <2>1, <2>2, <4>1 DEF Remembered
        <5>2. sub \in Subscription
          BY <1>1
        <5>3. m.misled = sub.misled + 1 /\ sub.misled \in Nat
          BY <5>1, <5>2 DEF Subscription
        <5>4. m = [ sub EXCEPT !.misled = m.misled ] /\ m \in Subscription
          BY <5>1, <5>2, <5>3 DEF Subscription
        <5>5. m.misled # 0
          BY <5>3
        <5>6. QED BY <5>4, <5>5
      <4>2. CASE ~ Misleads
        <5>1. m \in asked /\ m \in Subscription
          BY <1>1, <2>1, <2>2, <4>2 DEF Remembered
        <5>2. m = [ m EXCEPT !.misled = m.misled ]
          BY <5>1 DEF Subscription
        <5>3. ds.leaf_stream.pending = << >> /\ ds.block_stream.pending = << >>
          BY <2>4, <4>2 DEF Misleads
        <5>4. QED BY <5>1, <5>2, <5>3
      <4>3. QED BY <4>1, <4>2
    <3>4. SubInv(db, sub) /\ GivenInv(db, ds, sub) /\ WorkInv(db, ds)
      BY <1>3, <2>1
    <3>5. SubInv(db, m) /\ GivenInv(db, Settled(ds, db), m)
      BY <1>1, <3>2, <3>3, <3>4, RollbackGives
    <3>6. QED BY <2>1, <3>1, <3>5
  <2>5. QED BY <2>3, <2>4
<1>8. CASE CommitFails \/ LoseConnection
  <2>1. /\ ds'.session = "lost" /\ AtWork(ds) /\ asked' = asked /\ db' \in {db, ds.tables}
        /\ ds' = [ ds EXCEPT !.session = "lost" ]
    <3>1. ds'.session = "lost" /\ db' \in {db, ds.tables}
      BY <1>8, LossesKeep
    <3>2. QED BY <1>1, <1>8, <3>1 DEF CommitFails, LoseConnection, AtWork
  <2>2. SUFFICES ASSUME NEW sub \in asked PROVE LeftInv(db', ds', sub)
    BY <1>2, <2>1 DEF AtWork
  <2>3. SubInv(db, sub) /\ GivenInv(db, ds, sub) /\ WorkInv(db, ds)
    BY <1>3, <2>1, <2>2
  <2>4. Received(ds', sub) = Received(ds, sub)
    <3>1. ds'.leaf_stream = ds.leaf_stream /\ ds'.block_stream = ds.block_stream
      BY <1>1, <2>1 DEF DataSource
    <3>2. QED BY <3>1 DEF Received, Channel
  <2>5. CASE db' = db
    <3>1. Received(ds, sub) \in Seq(Heights \cup {Missing})
      BY <2>3 DEF GivenInv
    <3>2. IsPrefix(Received(ds, sub), Received(ds, sub))
      BY <3>1, PrefixIs
    <3>3. sub.misled = 0 => Received(ds, sub) = Promised(db, sub)
      BY <2>3 DEF GivenInv
    <3>4. QED BY <2>4, <2>5, <3>2, <3>3 DEF LeftInv
  <2>6. CASE db' = ds.tables
    <3>1. ds.tables.header # {}
      BY <1>1, <2>1 DEF SourceInv, AtWork
    <3>2. LeftInv(ds.tables, ds, sub)
      BY <1>1, <2>3, <3>1, CommitGives
    <3>3. QED BY <2>4, <2>6, <3>2 DEF LeftInv
  <2>7. QED BY <2>1, <2>5, <2>6
<1>9. CASE Revert
  <2>1. /\ AtWork(ds) /\ db' = db /\ asked' = asked /\ ds'.session = "idle"
        /\ ds'.leaf_stream.received = ds.leaf_stream.received
        /\ ds'.block_stream.received = ds.block_stream.received
    BY <1>9, RevertKeeps
  <2>2. \A sub \in asked : GivenInv(db, ds', sub)
    BY <1>3, <2>1, GivenFollows
  <2>3. QED BY <1>2, <1>3, <2>1, <2>2 DEF AtWork
<1>10. CASE \E cl \in Clients, from \in Heights : SubscribeLeaves(cl, from) \/ SubscribeBlocks(cl, from)
  <2>1. PICK cl \in Clients, from \in Heights : SubscribeLeaves(cl, from) \/ SubscribeBlocks(cl, from)
    BY <1>10
  <2>2. PICK stream \in {"leaves", "blocks"} :
          /\ Channel(ds, SubscriptionNow(stream, cl, from)).received[cl] = NoStream
          /\ asked' = asked \cup { SubscriptionNow(stream, cl, from) }
          /\ ds' = IF stream = "leaves" THEN LeavesSubscribed(ds, cl, LeavesFrom(ds.tables, from))
                                        ELSE BlocksSubscribed(ds, cl, BlocksFrom(ds.tables, from))
    <3>1. CASE SubscribeLeaves(cl, from)
      <4>1. SubscriptionNow("leaves", cl, from).stream = "leaves"
        BY DEF SubscriptionNow
      <4>2. QED BY <3>1, <4>1 DEF SubscribeLeaves, LeavesSubscribed, Channel
    <3>2. CASE SubscribeBlocks(cl, from)
      <4>1. SubscriptionNow("blocks", cl, from).stream = "blocks"
        BY DEF SubscriptionNow
      <4>2. QED BY <3>2, <4>1 DEF SubscribeBlocks, BlocksSubscribed, Channel
    <3>3. QED BY <2>1, <3>1, <3>2
  <2>3. db' = db /\ ds'.session = ds.session /\ AtWork(ds) /\ AtWork(ds')
    <3>1. db' = db /\ ds'.session = ds.session
      BY <2>1, SubscribeKeeps
    <3>2. ds.session \in {"idle", "open"}
      BY <2>1 DEF SubscribeLeaves, SubscribeBlocks, MaySubscribe
    <3>3. QED BY <3>1, <3>2 DEF AtWork
  <2> DEFINE new == SubscriptionNow(stream, cl, from)
  <2>4. new \in Subscription
    BY <1>1 DEF SubscriptionNow, Subscription, TableInv, SourceInv
  <2>5. ASSUME NEW sub \in asked' PROVE SubInv(db, sub) /\ GivenInv(db, ds', sub)
    <3>1. sub = new \/ (SubInv(db, sub) /\ GivenInv(db, ds, sub))
      BY <1>3, <2>2, <2>3
    <3>2. new = [ stream |-> stream, client |-> cl, from |-> from,
                  seen |-> ds.tables, kept |-> db, misled |-> 0 ]
      BY DEF SubscriptionNow
    <3> HIDE DEF new
    <3>3. Channel(ds, new).received[cl] = NoStream
      BY <2>2 DEF new
    <3>4. QED BY <1>1, <2>2, <2>4, <3>1, <3>2, <3>3, SubscriptionGives
  <2>6. QED BY <1>2, <2>3, <2>5 DEF AtWork
<1>11. QED BY <1>4, <1>5, <1>6, <1>7, <1>8, <1>9, <1>10 DEF Next

\* Whenever it subscribed, a subscriber misses nothing that is committed from the
\* height it asked for on; unless the COMMIT of an aborted transaction announced what
\* it rolled back, it receives what its query saw and then what is committed, or the
\* beginning of that if the connection is lost; and if it asked, outside a
\* transaction, for a height up to the block height, that is every object from there
\* on, in order, once.
THEOREM StreamsCorrect == Spec => []StreamsFollowDatabase
<1>1. Init => StreamInv
  <2>1. Stopped(EmptyTables).session = "none"
    BY DEF Stopped, Connected
  <2>2. QED BY <2>1 DEF Init, StreamInv, Usable
<1>2. SqlInv /\ StreamInv /\ [Next]_vars => StreamInv'
  BY StreamStep
<1>3. SqlInv /\ StreamInv => StreamsFollowDatabase
  <2>1. SUFFICES ASSUME SqlInv, StreamInv PROVE StreamsFollowDatabase
    OBVIOUS
  <2>2. ds.session \in {"idle", "open", "aborted", "lost", "none"}
    BY <2>1 DEF SqlInv, SourceInv, DataSource
  <2>3. CASE Usable
    <3>1. \A sub \in asked : GivenInv(db, ds, sub)
      BY <2>1, <2>3 DEF StreamInv
    <3>2. QED BY <2>3, <3>1 DEF StreamsFollowDatabase, GivenInv, Steady
  <2>4. CASE ds.session = "lost"
    <3>1. ~ Usable /\ \A sub \in asked : LeftInv(db, ds, sub)
      BY <2>1, <2>4 DEF StreamInv, Usable
    <3>2. QED BY <3>1 DEF StreamsFollowDatabase, LeftInv
  <2>5. CASE ds.session = "none"
    BY <2>1, <2>5 DEF StreamInv, StreamsFollowDatabase
  <2>6. QED BY <2>2, <2>3, <2>4, <2>5 DEF Usable
<1>4. QED BY <1>1, <1>2, <1>3, SqlInvariance, PTL DEF Spec
-----------------------------------------------------------------------------
(* The versioned store *)

\* What is always there, and what the data source shows.
GenesisObjects == {"leaf", "block"} \X {0}

Shown(c, d) == IF d.session = "none" THEN Visible(c) \cup GenesisObjects ELSE Visible(d.tables)

\* Tables show objects, and the genesis objects if they have any row.
LEMMA VisibleIs ==
  ASSUME NEW t, TableInv(t), GenesisInv(t)
  PROVE  /\ Visible(t) \in SUBSET ({"leaf", "block"} \X Heights)
         /\ t.header # {} => Visible(t) \cup GenesisObjects = Visible(t)
<1>1. t.leaf \subseteq Heights /\ t.data \subseteq Heights
  BY DEF TableInv, Tables
<1>2. t.header # {} => 0 \in t.leaf /\ 0 \in t.data
  BY DEF TableInv, GenesisInv
<1>3. QED BY <1>1, <1>2 DEF Visible, GenesisObjects

LEMMA VisibleGrows ==
  ASSUME NEW t, NEW u, t.leaf \subseteq u.leaf, t.data \subseteq u.data
  PROVE  Visible(t) \subseteq Visible(u)
BY DEF Visible

\* A connection that begins shows what is committed and the genesis objects.
LEMMA GenesisShown ==
  ASSUME NEW c, TableInv(c), GenesisInv(c)
  PROVE  /\ Visible(InsertGenesis(Connected(c)).tables) = Visible(c) \cup GenesisObjects
         /\ \/ InsertGenesis(Connected(c)).tables = c
            \/ c.header = {}
<1> DEFINE t == InsertGenesis(Connected(c)).tables
<1> SUFFICES Visible(t) = Visible(c) \cup GenesisObjects /\ (t = c \/ c.header = {})
  OBVIOUS
<1>1. /\ TableInv(t) /\ GenesisInv(t) /\ t.header # {}
      /\ \/ t = c
         \/ c.header = {} /\ t.leaf = {0} /\ t.data = {0}
  BY GenesisIs
<1> HIDE DEF t
<1>2. CASE t = c
  BY <1>1, <1>2, VisibleIs
<1>3. CASE c.header = {} /\ t.leaf = {0} /\ t.data = {0}
  <2>1. c.leaf = {} /\ c.data = {}
    BY <1>3 DEF TableInv
  <2>2. QED BY <1>3, <2>1 DEF Visible, GenesisObjects
<1>4. QED BY <1>1, <1>2, <1>3

\* Every step of the data source is a step of the versioned store, or none.
LEMMA VersionStep ==
  ASSUME SqlInv, [Next]_vars
  PROVE  Versions!Next \/ UNCHANGED << Shown(db, ds), Visible(db) >>
<1> DEFINE shown == Shown(db, ds)
           kept  == Visible(db)
           Modifies == /\ shown \subseteq shown' /\ shown' \in SUBSET ({"leaf", "block"} \X Heights)
                       /\ kept' = kept
           Commits  == kept' = shown /\ shown' = shown
           Reverts  == shown' = kept \cup GenesisObjects /\ kept' = kept
           Stutters == shown' = shown /\ kept' = kept
<1> SUFFICES Modifies \/ Commits \/ Reverts \/ Stutters
  BY DEF Versions!Next, Versions!Modify, Versions!Commit, Versions!Revert, Shown, GenesisObjects
<1>1. /\ TableInv(db) /\ GenesisInv(db)
      /\ TableInv(ds.tables) /\ GenesisInv(ds.tables)
  BY DEF SqlInv, SourceInv
<1>2. TableInv(ds'.tables) /\ GenesisInv(ds'.tables)
  BY SqlStep DEF SqlInv, SourceInv
<1>3. ds.session # "none" => db.header # {} /\ shown = Visible(ds.tables)
  BY DEF SqlInv, Shown
<1>4. CASE UNCHANGED vars
  <2>1. db' = db /\ ds' = ds
    BY <1>4 DEF vars
  <2>2. QED BY <2>1
<1>5. CASE Connect \/ ConnectFails
  <2> DEFINE t == InsertGenesis(Connected(db)).tables
  <2>1. Visible(t) = kept \cup GenesisObjects /\ (t = db \/ db.header = {})
    BY <1>1, GenesisShown
  <2>2. db' \in {db, t} /\ shown' = Visible(db') \cup GenesisObjects
    <3>1. CASE Connect
      <4>1. db' = t /\ Visible(t) = Visible(t) \cup GenesisObjects
        BY <2>1, <3>1 DEF Connect
      <4>2. ds'.session = "idle" /\ ds'.tables = db'
        BY <3>1, ConnectKeeps
      <4>3. QED BY <4>1, <4>2 DEF Shown
    <3>2. CASE ConnectFails
      <4>1. db' \in {db, t} /\ ds' = Stopped(db')
        BY <3>2 DEF ConnectFails
      <4>2. ds'.session = "none"
        BY <4>1 DEF Stopped, Connected
      <4>3. QED BY <4>1, <4>2 DEF Shown
    <3>3. QED BY <1>5, <3>1, <3>2
  <2> HIDE DEF t
  <2>3. shown' = kept \cup GenesisObjects
    BY <2>1, <2>2
  <2>4. CASE db' = db
    BY <2>3, <2>4
  <2>5. CASE db' = t /\ db.header = {}
    <3>1. shown = kept \cup GenesisObjects
      BY <1>3, <2>5 DEF Shown
    <3>2. kept' = kept \cup GenesisObjects
      BY <2>1, <2>5
    <3>3. QED BY <2>3, <3>1, <3>2
  <2>6. QED BY <2>1, <2>2, <2>4, <2>5
<1>6. CASE (\E e \in Event : Update(e) \/ UpdateFails(e)) \/ ExecuteCustom
  <2>1. AtWork(ds) /\ AtWork(ds') /\ Follows(ds, ds') /\ db' = db
    BY <1>6, UpdatesKeep
  <2>2. shown = Visible(ds.tables) /\ shown' = Visible(ds'.tables)
    BY <2>1 DEF AtWork, Shown
  <2>3. QED BY <1>2, <2>1, <2>2, VisibleIs, VisibleGrows DEF Follows
<1>7. CASE Commit
  <2>1. /\ ds'.tables = db' /\ ds'.session = "idle" /\ ds.session # "none"
        /\ db' \in {db, ds.tables}
    BY <1>7, CommitKeeps DEF AtWork
  <2>2. shown' = Visible(db')
    BY <2>1 DEF Shown
  <2>3. CASE db' = ds.tables
    BY <1>3, <2>1, <2>2, <2>3
  <2>4. CASE db' = db
    BY <1>1, <1>3, <2>1, <2>2, <2>4, VisibleIs
  <2>5. QED BY <2>1, <2>3, <2>4
<1>8. CASE CommitFails \/ LoseConnection
  <2>1. /\ db' \in {db, ds.tables} /\ ds'.session = "lost" /\ ds'.tables = ds.tables
        /\ ds.session # "none"
    BY <1>8, LossesKeep
  <2>2. shown = Visible(ds.tables) /\ shown' = shown
    BY <2>1 DEF Shown
  <2>3. QED BY <2>1, <2>2
<1>9. CASE Revert
  <2>1. AtWork(ds) /\ ds'.tables = db /\ db' = db /\ ds'.session = "idle"
    BY <1>9, RevertKeeps
  <2>2. shown' = Visible(db) /\ db.header # {}
    BY <1>3, <2>1 DEF Shown, AtWork
  <2>3. QED BY <1>1, <2>1, <2>2, VisibleIs
<1>10. CASE RevertPanics
  <2>1. ds' = Stopped(db) /\ db' = db
    BY <1>10 DEF RevertPanics
  <2>2. ds'.session = "none"
    BY <2>1 DEF Stopped, Connected
  <2>3. QED BY <2>1, <2>2 DEF Shown
<1>11. CASE \E cl \in Clients, from \in Heights : SubscribeLeaves(cl, from) \/ SubscribeBlocks(cl, from)
  <2>1. ds'.tables = ds.tables /\ ds'.session = ds.session /\ db' = db
    BY <1>11, SubscribeKeeps
  <2>2. QED BY <2>1 DEF Shown
<1>12. QED
  BY <1>4, <1>5, <1>6, <1>7, <1>8, <1>9, <1>10, <1>11 DEF Next

\* The SQL data source is a versioned data source, whatever fails and for every
\* choice of what its owner and its clients may do: a change is seen at once, a
\* commit keeps all that is seen, a revert or a restart goes back to what is kept.
THEOREM ImplementsVersions == Spec => ImplementsVersionedStore
<1>1. Init => Versions!Init
  <2>1. Visible(EmptyTables) = {}
    BY DEF Visible, EmptyTables
  <2>2. Stopped(EmptyTables).session = "none"
    BY DEF Stopped, Connected
  <2>3. QED BY <2>1, <2>2 DEF Init, Versions!Init
<1>2. SqlInv /\ [Next]_vars => [Versions!Next]_(Versions!vsVars)
  BY VersionStep DEF Versions!vsVars, Shown, GenesisObjects
<1>3. QED
  BY <1>1, <1>2, SqlInvariance, PTL DEF Spec, ImplementsVersionedStore, Versions!Spec
=============================================================================
