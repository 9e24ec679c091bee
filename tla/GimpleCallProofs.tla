-------------------------- MODULE GimpleCallProofs --------------------------
(***************************************************************************)
(* Theorems about STEP4 to STEP6 of GimplePhases and about mark_entry, for *)
(* every set of images and every set of programs that refer to what they   *)
(* declare: the depths are distances, callers and callees belong together, *)
(* and only two things stop the program.                                   *)
(***************************************************************************)
EXTENDS GimpleDetailProofs

(***************************************************************************)
(* Lists of lists                                                          *)
(***************************************************************************)
Longer(q, S) == [p \in Nat \X Seq(S) |->
                   IF p[1] + 1 \in 1..Len(q) THEN p[2] \o q[p[1] + 1] ELSE p[2]]

LEMMA FlattenKeeps ==
    ASSUME NEW S, NEW q \in Seq(Seq(S))
    PROVE  FlattenSeq(q) \in Seq(S)
<1> DEFINE n == Len(q)
           Step(f, i) == IF i = 1 THEN q[i] ELSE f[i - 1] \o q[i]
<1>1. n \in Nat /\ \A i \in 1..n : q[i] \in Seq(S)
  OBVIOUS
<1>2. PICK F : F \in [Nat -> Seq(S)] /\ F[0] = <<>>
               /\ \A i \in Nat : F[i + 1] = IF i + 1 \in 1..n THEN F[i] \o q[i + 1] ELSE F[i]
  <2>1. Longer(q, S) \in [Nat \X Seq(S) -> Seq(S)]
    <3>1. ASSUME NEW p \in Nat \X Seq(S), p[1] + 1 \in 1..Len(q)
          PROVE  p[2] \o q[p[1] + 1] \in Seq(S)
      <4>1. p[2] \in Seq(S) /\ q[p[1] + 1] \in Seq(S)
        BY <1>1, <3>1
      <4> QED
        BY <4>1
    <3> QED
      BY <3>1 DEF Longer
  <2>2. PICK st, V, a : st = Longer(q, S) /\ V = Seq(S) /\ a = <<>>
    OBVIOUS
  <2>3. a \in V /\ IsStep(st, V)
    BY <2>1, <2>2 DEF IsStep
  <2>4. PICK F : Sequel(F, V, a, st)
    BY <2>3, Recursion, Zenon
  <2>5. F \in [Nat -> Seq(S)] /\ F[0] = <<>>
    BY <2>2, <2>4 DEF Sequel
  <2>6. ASSUME NEW i \in Nat
        PROVE  F[i + 1] = IF i + 1 \in 1..n THEN F[i] \o q[i + 1] ELSE F[i]
    <3>1. F[i + 1] = Longer(q, S)[<<i, F[i]>>]
      BY <2>2, <2>4 DEF Sequel
    <3> QED
      BY <2>5, <3>1 DEF Longer
  <2> QED
    BY <2>5, <2>6
<1> DEFINE G == [i \in 1..n |-> F[i]]
           U == CHOOSE f : f = [i \in 1..n |-> Step(f, i)]
<1>3. ASSUME NEW i \in 1..n PROVE G[i] = Step(G, i)
  <2>1. i - 1 \in Nat /\ (i - 1) + 1 = i /\ F[i - 1] \in Seq(S) /\ q[i] \in Seq(S)
    BY <1>1, <1>2
  <2>2. F[i] = F[i - 1] \o q[i]
    BY <1>2, <2>1
  <2>3. CASE i = 1
    <3>1. i - 1 = 0 /\ F[i - 1] = <<>>
      BY <1>2, <2>3
    <3>2. F[i] = <<>> \o q[i]
      BY <2>2, <3>1
    <3> QED
      BY <2>1, <2>3, <3>2
  <2>4. CASE i # 1
    <3>1. i - 1 \in 1..n
      BY <1>1, <2>4
    <3> QED
      BY <2>2, <2>4, <3>1
  <2> QED
    BY <2>3, <2>4
<1>4. G = [i \in 1..n |-> Step(G, i)]
  BY <1>3
<1>5. U = [i \in 1..n |-> Step(U, i)]
  <2> HIDE DEF G, Step
  <2> QED
    BY <1>4
<1>6. FlattenSeq(q) = IF n = 0 THEN q ELSE U[n]
  BY DEF FlattenSeq
<1> DEFINE T == {i \in Nat : i \in 1..n => U[i] = F[i]}
<1>7. \A i \in 1..n : U[i] = Step(U, i)
  <2> HIDE DEF U, Step
  <2> QED
    BY <1>5
<1> HIDE DEF U, G
<1>8. 0 \in T
  OBVIOUS
<1>9. ASSUME NEW i \in Nat, i \in T PROVE i + 1 \in T
  <2> SUFFICES ASSUME i + 1 \in 1..n PROVE U[i + 1] = F[i + 1]
    OBVIOUS
  <2>1. F[i + 1] = F[i] \o q[i + 1] /\ q[i + 1] \in Seq(S)
    BY <1>1, <1>2
  <2>2. CASE i = 0
    <3>1. F[i] = <<>> /\ i + 1 = 1
      BY <1>2, <2>2
    <3>2. F[i + 1] = <<>> \o q[i + 1]
      BY <2>1, <3>1
    <3>3. U[i + 1] = q[i + 1]
      BY <1>7, <3>1
    <3> QED
      BY <2>1, <3>2, <3>3
  <2>3. CASE i # 0
    <3>1. i \in 1..n /\ i + 1 # 1 /\ (i + 1) - 1 = i
      BY <1>1, <2>3
    <3> QED
      BY <1>7, <1>9, <2>1, <3>1
  <2> QED
    BY <2>2, <2>3
<1>10. \A i \in Nat : i \in T
  <2> HIDE DEF T
  <2> QED
    BY <1>8, <1>9, AllNumbers
<1>11. CASE n = 0
  BY <1>6, <1>11
<1>12. CASE n # 0
  <2>1. n \in 1..n
    BY <1>1, <1>12
  <2>2. U[n] = F[n]
    BY <1>1, <1>10, <2>1
  <2>3. FlattenSeq(q) = F[n] /\ F[n] \in Seq(S)
    BY <1>1, <1>2, <1>6, <1>12, <2>2
  <2> QED
    BY <2>3
<1> QED
  BY <1>11, <1>12

(* A list whose entries are of S.                                          *)
LEMMA ListIn ==
    ASSUME NEW s, NEW S, IsList(s)
    PROVE  s \in Seq(S) <=> \A i \in DOMAIN s : s[i] \in S
<1> DEFINE A == {s[i] : i \in DOMAIN s}
<1>1. s \in Seq(A)
  BY DEF IsList
<1>2. DOMAIN s = 1..Len(s) /\ Len(s) \in Nat
  BY ListFacts
<1>3. ASSUME \A i \in DOMAIN s : s[i] \in S PROVE s \in Seq(S)
  <2>1. A \subseteq S
    BY <1>3
  <2> HIDE DEF A
  <2> QED
    BY <1>1, <2>1, SeqMonotonic
<1>4. ASSUME s \in Seq(S) PROVE \A i \in DOMAIN s : s[i] \in S
  BY <1>4
<1> QED
  BY <1>3, <1>4

LEMMA SeqIsList ==
    ASSUME NEW S, NEW s \in Seq(S)
    PROVE  IsList(s) /\ DOMAIN s = 1..Len(s) /\ Len(s) \in Nat
           /\ \A i \in DOMAIN s : s[i] \in S
<1>1. PICK n \in Nat : n = Len(s)
  OBVIOUS
<1>2. s = [i \in 1..n |-> s[i]]
  BY <1>1
<1> QED
  BY <1>1, <1>2, ListOf

(* A list made by a rule, from one to n.                                   *)
LEMMA RuleList ==
    ASSUME NEW n \in Nat, NEW S, NEW s, DOMAIN s = 1..n,
           s = [i \in 1..n |-> s[i]], \A i \in 1..n : s[i] \in S
    PROVE  s \in Seq(S)
BY ListOf, ListIn

(***************************************************************************)
(* What tasks and lists are about                                          *)
(***************************************************************************)
CFunc == {f \in Func : fns[f].home \notin Asm}
Uses == {p \in Func \X Nat : p[2] \in DOMAIN fns[p[1]].stmts}

UsesTasks == [do : {"uses"}, f : CFunc, i : Nat]
CallerTasks == [do : {"caller"}, f : Func, g : Func, alias : BOOLEAN]
ValuesTasks == [do : {"values"}, f : CFunc, k : Nat, v : DOMAIN vars_, i : Nat]
NameTasks == [do : {"name", "var of", "pop"}, f : CFunc, k : Nat,
              n : DOMAIN names, inner : BOOLEAN]

ValueSound(x) == x.kind = "func" => x.id \in Func

(* Assembly code is followed by the tasks of its own step only.            *)
TaskSound(t) ==
    /\ t.do = "init" => t.v \in DOMAIN vars_ /\ ValueSound(t.value)
    /\ t.do = "var" => t.f \in Func /\ t.v \in DOMAIN vars_
    /\ t.do = "fn" => t.f \in Func /\ t.g \in Func /\ <<t.f, t.k>> \in Uses
    /\ t.do \in {"call", "asm call"} =>
          /\ t.f \in Func /\ <<t.f, t.k>> \in Uses /\ Stmt(t.f, t.k).op = "call"
          /\ t.do = "call" <=> t.f \in CFunc
    /\ t.do = "callee" => t.f \in Func /\ t.k \in Nat /\ ValueSound(t)
    /\ t.do = "caller" => t \in CallerTasks /\ (t.alias <=> t.f \in CFunc)
    /\ t.do = "uses" => t \in UsesTasks
    /\ t.do = "values" => t \in ValuesTasks
    /\ t.do \in {"name", "var of", "pop"} => t \in NameTasks
    /\ t.do = "pop" => names[t.n].var # 0

TasksSound(s) == IsList(s) /\ \A i \in DOMAIN s : TaskSound(s[i])
TodoSound == DOMAIN todo = Image /\ \A u \in Image : TasksSound(todo[u])

UsedSound == fnUsed \in [Func -> Seq(Uses)]
PossibleSound ==
    /\ DOMAIN possible = DOMAIN vars_
    /\ \A v \in DOMAIN vars_ :
          IsList(possible[v]) /\ \A i \in DOMAIN possible[v] : ValueSound(possible[v][i])
IsEntryOf(c) == c = [kind |-> c.kind, id |-> c.id, missing |-> c.missing,
                     stmts |-> c.stmts]
ListSound(list) ==
    /\ IsList(list)
    /\ \A i \in DOMAIN list : /\ ValueSound(list[i]) /\ list[i].stmts \in Seq(Nat)
                              /\ IsEntryOf(list[i])
CalleesSound == DOMAIN callees = Func /\ \A f \in Func : ListSound(callees[f])
CallersSound == callers \in [Func -> Seq(Func)]
TrailSound ==
    /\ trail \in [Image -> Seq(DOMAIN names)]
    /\ \A u \in Image : Len(trail[u]) < SsaNameDepth

CallTypes ==
    /\ CallsSound(fns, vars_, names)
    /\ TodoSound /\ UsedSound /\ PossibleSound /\ CalleesSound /\ CallersSound
    /\ TrailSound /\ bug \in {"", "name", "depth", "null"}

LEMMA SameTasks ==
    ASSUME UNCHANGED progVars
    PROVE  /\ \A t : TaskSound(t) <=> TaskSound(t)'
           /\ \A s : TasksSound(s) <=> TasksSound(s)'
           /\ \A l : ListSound(l) <=> ListSound(l)'
           /\ \A x : ValueSound(x) <=> ValueSound(x)'
           /\ Func' = Func /\ Uses' = Uses /\ CFunc' = CFunc
<1>1. fns' = fns /\ vars_' = vars_ /\ names' = names
  BY DEF progVars
<1>2. Func' = Func /\ Uses' = Uses /\ CFunc' = CFunc
  BY <1>1 DEF Func, Uses, CFunc
<1>3. \A x : ValueSound(x) <=> ValueSound(x)'
  BY <1>2 DEF ValueSound
<1>4. \A t : TaskSound(t) <=> TaskSound(t)'
  <2>1. /\ UsesTasks' = UsesTasks /\ CallerTasks' = CallerTasks
        /\ ValuesTasks' = ValuesTasks /\ NameTasks' = NameTasks
    BY <1>1, <1>2 DEF UsesTasks, CallerTasks, ValuesTasks, NameTasks
  <2>2. \A f, k : Stmt(f, k)' = Stmt(f, k)
    BY <1>1 DEF Stmt
  <2> TAKE t
  <2>3. ValueSound(t)' <=> ValueSound(t)
    BY <1>3
  <2>4. t.do = "init" => (ValueSound(t.value)' <=> ValueSound(t.value))
    BY <1>3
  <2> QED
    BY <1>1, <1>2, <2>1, <2>2, <2>3, <2>4, ZenonT(60) DEF TaskSound
<1>5. \A s : TasksSound(s) <=> TasksSound(s)'
  BY <1>4 DEF TasksSound
<1>6. \A l : ListSound(l) <=> ListSound(l)'
  BY <1>3 DEF ListSound
<1> QED
  BY <1>2, <1>3, <1>4, <1>5, <1>6

(* A worker's tasks when the first of them is replaced by others.          *)
Replaced(r, tasks, s) ==
    /\ IsList(r) /\ Len(r) + 1 = Len(tasks) + Len(s)
    /\ \A i \in 1..Len(tasks) : r[i] = tasks[i]
    /\ \A i \in 1..Len(s) : i # 1 => r[Len(tasks) + i - 1] = s[i]
    /\ \A i \in 1..Len(r) : \/ i \in 1..Len(tasks)
                            \/ \E j \in 1..Len(s) : j # 1 /\ i = Len(tasks) + j - 1

LEMMA ReplacedTask ==
    ASSUME NEW s, NEW tasks, IsList(s), s # <<>>, IsList(tasks)
    PROVE  /\ Replaced(tasks \o Tail(s), tasks, s)
           /\ Len(s) \in Nat \ {0} /\ Head(s) = s[1] /\ 1 \in DOMAIN s
<1> DEFINE A == {s[i] : i \in DOMAIN s}
<1>1. s \in Seq(A)
  BY DEF IsList
<1> HIDE DEF A
<1>2. /\ Len(s) \in Nat \ {0} /\ Head(s) = s[1] /\ DOMAIN s = 1..Len(s)
      /\ Tail(s) \in Seq(A) /\ Len(Tail(s)) = Len(s) - 1
      /\ \A i \in 1..(Len(s) - 1) : Tail(s)[i] = s[i + 1]
  BY <1>1
<1>3. PICK q : q = Tail(s)
  OBVIOUS
<1>4. PICK r : r = tasks \o q
  OBVIOUS
<1>5. PICK a \in Nat, b \in Nat \ {0} : a = Len(tasks) /\ b = Len(s)
  BY <1>2, ListFacts
<1>6. IsList(q)
  BY <1>2, <1>3, SeqIsList
<1>7. Joined(r, tasks, q)
  BY <1>4, <1>6, JoinedLists
<1>8. Len(q) = b - 1
  BY <1>2, <1>3, <1>5
<1>9. IsList(r) /\ Len(r) + 1 = a + b /\ Len(r) \in Nat
  BY <1>5, <1>7, <1>8 DEF Joined
<1>10. \A i \in 1..a : r[i] = tasks[i]
  BY <1>5, <1>7 DEF Joined
<1>11. ASSUME NEW i \in 1..b, i # 1 PROVE r[a + i - 1] = s[i]
  <2>1. i - 1 \in 1..(b - 1) /\ (i - 1) + 1 = i /\ a + i - 1 = a + (i - 1)
    BY <1>11
  <2>2. r[a + (i - 1)] = q[i - 1]
    BY <1>5, <1>7, <1>8, <2>1 DEF Joined
  <2>3. q[i - 1] = s[i]
    BY <1>2, <1>3, <1>5, <2>1
  <2> QED
    BY <2>1, <2>2, <2>3
<1>12. ASSUME NEW i \in 1..Len(r), i \notin 1..a
       PROVE  \E j \in 1..b : j # 1 /\ i = a + j - 1
  <2>1. i - a + 1 \in 1..b /\ i - a + 1 # 1 /\ i = a + (i - a + 1) - 1
    BY <1>9, <1>12
  <2> QED
    BY <2>1
<1>13. Replaced(r, tasks, s)
  BY <1>5, <1>9, <1>10, <1>11, <1>12 DEF Replaced
<1> QED
  BY <1>2, <1>3, <1>4, <1>13

(* The task at hand, and what is left to do behind it.                     *)
LEMMA TaskFacts ==
    ASSUME CallTypes, NEW u \in Image, todo[u] # <<>>
    PROVE  /\ Task(u) = todo[u][1] /\ TaskSound(Task(u)) /\ 1 \in DOMAIN todo[u]
           /\ Len(todo[u]) \in Nat \ {0} /\ DOMAIN todo[u] = 1..Len(todo[u])
<1>1. TasksSound(todo[u])
  BY DEF CallTypes, TodoSound
<1>2. IsList(todo[u]) /\ IsList(<<>>)
  BY <1>1, NoneIsList DEF TasksSound
<1>3. Len(todo[u]) \in Nat \ {0} /\ Head(todo[u]) = todo[u][1] /\ 1 \in DOMAIN todo[u]
  BY <1>2, ReplacedTask
<1>4. DOMAIN todo[u] = 1..Len(todo[u])
  BY <1>2, ListFacts
<1> QED
  BY <1>1, <1>3, <1>4 DEF TasksSound, Task

LEMMA ThenFacts ==
    ASSUME CallTypes, NEW u \in Image, todo[u] # <<>>, NEW tasks, TasksSound(tasks),
           Then(u, tasks), UNCHANGED progVars
    PROVE  /\ TodoSound'
           /\ Replaced(todo'[u], tasks, todo[u])
           /\ \A v \in Image : v # u => todo'[v] = todo[v]
<1>1. TasksSound(todo[u]) /\ DOMAIN todo = Image
  BY DEF CallTypes, TodoSound
<1>2. PICK r, s : r = todo'[u] /\ s = todo[u]
  OBVIOUS
<1>3. /\ r = tasks \o Tail(s) /\ DOMAIN todo' = Image
      /\ \A v \in Image : v # u => todo'[v] = todo[v]
  BY <1>1, <1>2 DEF Then
<1>4. IsList(s) /\ IsList(tasks) /\ s # <<>>
  BY <1>1, <1>2 DEF TasksSound
<1>5. Replaced(r, tasks, s)
  BY <1>3, <1>4, ReplacedTask
<1>6. TasksSound(r)
  <2>1. DOMAIN r = 1..Len(r) /\ DOMAIN s = 1..Len(s) /\ DOMAIN tasks = 1..Len(tasks)
    BY <1>4, <1>5, ListFacts DEF Replaced
  <2>2. ASSUME NEW i \in DOMAIN r PROVE TaskSound(r[i])
    <3>1. CASE i \in 1..Len(tasks)
      BY <1>5, <2>1, <3>1 DEF Replaced, TasksSound
    <3>2. CASE i \notin 1..Len(tasks)
      <4>1. PICK j \in 1..Len(s) : j # 1 /\ i = Len(tasks) + j - 1
        BY <1>5, <2>1, <3>2 DEF Replaced
      <4>2. r[i] = s[j]
        BY <1>5, <4>1 DEF Replaced
      <4> QED
        BY <1>1, <1>2, <2>1, <4>1, <4>2 DEF TasksSound
    <3> QED
      BY <3>1, <3>2
  <2> QED
    BY <1>5, <2>2 DEF Replaced, TasksSound
<1>7. ASSUME NEW v \in Image PROVE TasksSound(todo[v])'
  <2>1. TasksSound(todo'[v])
    <3>1. CASE v = u
      BY <1>2, <1>6, <3>1
    <3>2. CASE v # u
      BY <1>3, <3>2 DEF CallTypes, TodoSound
    <3> QED
      BY <3>1, <3>2
  <2>2. PICK q : q = todo'[v]
    OBVIOUS
  <2>3. TasksSound(q)'
    BY <2>1, <2>2, SameTasks
  <2> QED
    BY <2>2, <2>3
<1>8. TodoSound'
  BY <1>3, <1>7 DEF TodoSound
<1> QED
  BY <1>2, <1>3, <1>5, <1>8

LEMMA TwoIsList ==
    ASSUME NEW a, NEW b
    PROVE  /\ IsList(<<a, b>>) /\ Len(<<a, b>>) = 2 /\ DOMAIN <<a, b>> = 1..2
           /\ <<a, b>>[1] = a /\ <<a, b>>[2] = b
<1>1. <<a, b>> \in Seq({a, b}) /\ Len(<<a, b>>) = 2 /\ DOMAIN <<a, b>> = 1..2
  OBVIOUS
<1> QED
  BY <1>1, SeqIsList

LEMMA TasksFacts ==
    /\ TasksSound(<<>>)
    /\ \A t : TaskSound(t) => TasksSound(<<t>>)
    /\ \A t, q : TaskSound(t) /\ TaskSound(q) => TasksSound(<<t, q>>)
<1>1. ASSUME NEW t, TaskSound(t) PROVE TasksSound(<<t>>)
  BY <1>1, OneIsList DEF TasksSound
<1>2. ASSUME NEW t, NEW q, TaskSound(t), TaskSound(q) PROVE TasksSound(<<t, q>>)
  <2>1. PICK s : s = <<t, q>>
    OBVIOUS
  <2>2. IsList(s) /\ DOMAIN s = 1..2 /\ s[1] = t /\ s[2] = q
    BY <2>1, TwoIsList
  <2>3. \A i \in 1..2 : i = 1 \/ i = 2
    OBVIOUS
  <2>4. TasksSound(s)
    BY <1>2, <2>2, <2>3 DEF TasksSound
  <2> QED
    BY <2>1, <2>4
<1> QED
  BY <1>1, <1>2, NoneIsList DEF TasksSound

LEMMA JoinedTasks ==
    ASSUME NEW s, NEW t, TasksSound(s), TasksSound(t)
    PROVE  TasksSound(s \o t)
<1>1. PICK r : r = s \o t
  OBVIOUS
<1>2. Joined(r, s, t)
  BY <1>1, JoinedLists DEF TasksSound
<1>3. DOMAIN r = 1..Len(r) /\ DOMAIN s = 1..Len(s) /\ DOMAIN t = 1..Len(t)
  BY <1>2, ListFacts DEF Joined, TasksSound
<1>4. ASSUME NEW i \in DOMAIN r PROVE TaskSound(r[i])
  <2>1. CASE i \in 1..Len(s)
    BY <1>2, <1>3, <2>1 DEF Joined, TasksSound
  <2>2. CASE i \notin 1..Len(s)
    BY <1>2, <1>3, <2>2, SMTT(30) DEF Joined, TasksSound
  <2> QED
    BY <2>1, <2>2
<1>5. TasksSound(r)
  BY <1>2, <1>4 DEF Joined, TasksSound
<1> QED
  BY <1>1, <1>5

(* Tasks that the code makes.                                              *)
LEMMA ProgramFacts ==
    ASSUME CallTypes
    PROVE  /\ DOMAIN vars_ = 1..Len(vars_) /\ Len(vars_) \in Nat /\ 0 \notin DOMAIN vars_
           /\ Func = 1..Len(fns) /\ Len(fns) \in Nat
           /\ DOMAIN names = 1..Len(names) /\ Len(names) \in Nat
           /\ \A f \in Func : /\ fns[f].home \in Image /\ fns[f].alias \in Func \cup {0}
                              /\ fns[f].global \in BOOLEAN /\ fns[f].body \in BOOLEAN
                              /\ IsList(fns[f].stmts)
           /\ \A p \in Uses : StmtSound(Stmt(p[1], p[2]), Func, DOMAIN vars_, DOMAIN names)
           /\ \A v \in DOMAIN vars_ :
                 /\ IsList(vars_[v].init)
                 /\ \A i \in DOMAIN vars_[v].init : ValueSound(vars_[v].init[i])
           /\ \A n \in DOMAIN names : NameSound(names[n], Func, DOMAIN vars_, DOMAIN names)
<1>1. IsList(fns) /\ IsList(vars_) /\ IsList(names) /\ CodeRefersTo(fns, vars_, names)
  BY DEF CallTypes, CallsSound
<1>2. /\ DOMAIN vars_ = 1..Len(vars_) /\ Len(vars_) \in Nat
      /\ Func = 1..Len(fns) /\ Len(fns) \in Nat
      /\ DOMAIN names = 1..Len(names) /\ Len(names) \in Nat
  BY <1>1, ListFacts DEF Func
<1>3. \A p \in Uses : StmtSound(Stmt(p[1], p[2]), Func, DOMAIN vars_, DOMAIN names)
  BY <1>1 DEF CodeRefersTo, Uses, Stmt, Func
<1>4. ASSUME NEW v \in DOMAIN vars_
      PROVE  /\ IsList(vars_[v].init)
             /\ \A i \in DOMAIN vars_[v].init : ValueSound(vars_[v].init[i])
  BY <1>1 DEF CodeRefersTo, ValueSound, Func
<1>5. \A n \in DOMAIN names : NameSound(names[n], Func, DOMAIN vars_, DOMAIN names)
  BY <1>1 DEF CodeRefersTo, Func
<1>6. ASSUME NEW f \in Func
      PROVE  /\ fns[f].home \in Image /\ fns[f].alias \in Func \cup {0}
             /\ fns[f].global \in BOOLEAN /\ fns[f].body \in BOOLEAN
             /\ IsList(fns[f].stmts)
  BY <1>1 DEF CodeRefersTo, Func
<1> QED
  BY <1>2, <1>3, <1>4, <1>5, <1>6

LEMMA InitsSound ==
    ASSUME CallTypes, NEW v \in DOMAIN vars_
    PROVE  TasksSound(InitsOf(v))
<1>1. IsList(vars_[v].init) /\ \A i \in DOMAIN vars_[v].init : ValueSound(vars_[v].init[i])
  BY ProgramFacts
<1>2. PICK n \in Nat : DOMAIN vars_[v].init = 1..n
  BY <1>1, ListFacts
<1>3. PICK s : s = InitsOf(v)
  OBVIOUS
<1>4. /\ DOMAIN s = 1..n /\ s = [i \in 1..n |-> s[i]]
      /\ \A i \in 1..n : s[i] = [do |-> "init", v |-> v, value |-> vars_[v].init[i]]
  BY <1>2, <1>3 DEF InitsOf
<1>5. \A i \in 1..n : TaskSound(s[i])
  <2>1. \A i \in 1..n : s[i].do = "init" /\ s[i].v = v /\ s[i].value = vars_[v].init[i]
    BY <1>4
  <2> QED
    BY <1>1, <1>2, <2>1 DEF TaskSound
<1>6. TasksSound(s)
  BY <1>4, <1>5, ListOf DEF TasksSound
<1> QED
  BY <1>3, <1>6

LEMMA CallSound ==
    ASSUME NEW t, t.f \in Func, t.k \in Nat
    PROVE  /\ \A g \in Func, a \in BOOLEAN : (a <=> t.f \in CFunc) =>
                 \A m : TasksSound(<<Callee(t, "func", g, m), Caller(t, g, a)>>)
           /\ \A kind, id, m : kind # "func" => TasksSound(<<Callee(t, kind, id, m)>>)
<1>1. ASSUME NEW kind, NEW id, NEW m, kind = "func" => id \in Func
      PROVE  TaskSound(Callee(t, kind, id, m))
  <2>1. PICK c : c = Callee(t, kind, id, m)
    OBVIOUS
  <2>2. c.do = "callee" /\ c.f = t.f /\ c.k = t.k /\ c.kind = kind /\ c.id = id
    BY <2>1 DEF Callee
  <2> QED
    BY <1>1, <2>1, <2>2 DEF TaskSound, ValueSound
<1>2. ASSUME NEW g \in Func, NEW a \in BOOLEAN, a <=> t.f \in CFunc
      PROVE  TaskSound(Caller(t, g, a))
  <2>1. PICK c : c = Caller(t, g, a)
    OBVIOUS
  <2>2. c.do = "caller" /\ c.f = t.f /\ c.alias = a /\ c \in CallerTasks
    BY <2>1 DEF Caller, CallerTasks
  <2> QED
    BY <1>2, <2>1, <2>2 DEF TaskSound
<1> QED
  BY <1>1, <1>2, TasksFacts

LEMMA ValuesSound ==
    ASSUME CallTypes, NEW t, t.f \in CFunc, t.k \in Nat, NEW v \in DOMAIN vars_ \cup {0}
    PROVE  TasksSound(Values(t, v))
<1>1. CASE get_target_var_node(t.f, v) = 0
  BY <1>1, TasksFacts DEF Values
<1>2. CASE get_target_var_node(t.f, v) # 0
  <2>1. PICK c : c = [do |-> "values", f |-> t.f, k |-> t.k, v |-> v, i |-> 1]
    OBVIOUS
  <2>2. v # 0
    BY <1>2 DEF get_target_var_node
  <2>3. c \in ValuesTasks /\ c.do = "values"
    BY <2>1, <2>2 DEF ValuesTasks
  <2>4. TaskSound(c)
    BY <2>3 DEF TaskSound
  <2> QED
    BY <1>2, <2>1, <2>4, TasksFacts DEF Values
<1> QED
  BY <1>1, <1>2

LEMMA NameIsTask ==
    ASSUME NEW t, t.f \in CFunc, t.k \in Nat, NEW n \in DOMAIN names, NEW inner \in BOOLEAN
    PROVE  TaskSound(Name(t, n, inner)) /\ Name(t, n, inner) \in NameTasks
<1>1. PICK c : c = Name(t, n, inner)
  OBVIOUS
<1>2. c.do = "name" /\ c \in NameTasks
  BY <1>1 DEF Name, NameTasks
<1> QED
  BY <1>1, <1>2 DEF TaskSound

(* What a join makes a worker do: it follows the names that feed it.       *)
JoinTasks(t) == {Name(t, m, TRUE) : m \in FedBy(t.n)}

LEMMA DefinitionJoins ==
    ASSUME CallTypes, NEW t \in NameTasks, names[t.n].def = "phi"
    PROVE  Definition(t) \in Seq(JoinTasks(t)) /\ FedBy(t.n) \subseteq DOMAIN names
<1>1. /\ t.n \in DOMAIN names
      /\ NameSound(names[t.n], Func, DOMAIN vars_, DOMAIN names)
  BY ProgramFacts DEF NameTasks, CFunc
<1>2. PICK d : d = names[t.n].args
  OBVIOUS
<1>3. /\ IsList(d)
      /\ \A i \in DOMAIN d : d[i].kind = "name" => d[i].id \in DOMAIN names
  BY <1>1, <1>2 DEF NameSound
<1>4. PICK n \in Nat : DOMAIN d = 1..n
  BY <1>3, ListFacts
<1>5. PICK q : q = [i \in DOMAIN d |-> call_ssaname_gphi_op(t, d[i])]
  OBVIOUS
<1>6. FedBy(t.n) = {op.id : op \in {x \in Range(d) : x.kind = "name"}}
  BY <1>2 DEF FedBy
<1>7. ASSUME NEW i \in 1..n PROVE q[i] \in Seq(JoinTasks(t))
  <2>1. q[i] = call_ssaname_gphi_op(t, d[i])
    BY <1>4, <1>5, <1>7
  <2>2. CASE d[i].kind = "name"
    <3>1. PICK c : c = Name(t, d[i].id, TRUE)
      OBVIOUS
    <3>2. d[i].id \in FedBy(t.n)
      BY <1>4, <1>6, <2>2 DEF Range
    <3>3. c \in JoinTasks(t)
      BY <3>1, <3>2 DEF JoinTasks
    <3>4. q[i] = <<c>>
      BY <2>1, <2>2, <3>1 DEF call_ssaname_gphi_op
    <3> QED
      BY <3>3, <3>4
  <2>3. CASE d[i].kind # "name"
    BY <2>1, <2>3 DEF call_ssaname_gphi_op
  <2> QED
    BY <2>2, <2>3
<1>8. q \in Seq(Seq(JoinTasks(t)))
  <2>1. DOMAIN q = 1..n /\ q = [i \in 1..n |-> q[i]]
    BY <1>4, <1>5
  <2> QED
    BY <1>7, <2>1, RuleList
<1>9. Definition(t) = FlattenSeq(q)
  BY <1>2, <1>5 DEF Definition
<1>10. FedBy(t.n) \subseteq DOMAIN names
  BY <1>3, <1>6 DEF Range
<1> QED
  BY <1>8, <1>9, <1>10, FlattenKeeps

LEMMA DefinitionSound ==
    ASSUME CallTypes, NEW t \in NameTasks
    PROVE  TasksSound(Definition(t))
<1>1. /\ t.f \in CFunc /\ t.f \in Func /\ t.k \in Nat /\ t.n \in DOMAIN names
      /\ NameSound(names[t.n], Func, DOMAIN vars_, DOMAIN names)
  BY ProgramFacts DEF NameTasks, CFunc
<1>2. CASE names[t.n].def = "phi"
  <2>1. PICK s : s = Definition(t)
    OBVIOUS
  <2>2. s \in Seq(JoinTasks(t)) /\ FedBy(t.n) \subseteq DOMAIN names
    BY <1>2, <2>1, DefinitionJoins
  <2>3. IsList(s) /\ \A i \in DOMAIN s : s[i] \in JoinTasks(t)
    BY <2>2, SeqIsList
  <2>4. \A m \in FedBy(t.n) : TaskSound(Name(t, m, TRUE))
    BY <1>1, <2>2, NameIsTask
  <2>5. \A i \in DOMAIN s : TaskSound(s[i])
    BY <2>3, <2>4 DEF JoinTasks
  <2> QED
    BY <2>1, <2>3, <2>5 DEF TasksSound
<1>3. CASE names[t.n].def = "var"
  <2>1. names[t.n].args[1] \in DOMAIN vars_
    BY <1>1, <1>3 DEF NameSound
  <2>2. Definition(t) = Values(t, names[t.n].args[1])
    BY <1>3 DEF Definition
  <2> QED
    BY <1>1, <2>1, <2>2, ValuesSound
<1>4. CASE names[t.n].def = "fn"
  <2>1. names[t.n].args[1] \in Func
    BY <1>1, <1>4 DEF NameSound
  <2>2. Definition(t) = call_func_decl(t, names[t.n].args[1])
    BY <1>4 DEF Definition
  <2> QED
    BY <1>1, <2>1, <2>2, CallSound DEF call_func_decl
<1>5. CASE names[t.n].def \notin {"phi", "var", "fn"}
  BY <1>5, TasksFacts DEF Definition
<1> QED
  BY <1>2, <1>3, <1>4, <1>5

(***************************************************************************)
(* The tasks, one by one                                                   *)
(***************************************************************************)
LEMMA ListsKeep ==
    ASSUME CallTypes, UNCHANGED progVars
    PROVE  /\ CallsSound(fns, vars_, names)'
           /\ UNCHANGED fnUsed => UsedSound'
           /\ UNCHANGED possible => PossibleSound'
           /\ UNCHANGED callees => CalleesSound'
           /\ UNCHANGED callers => CallersSound'
           /\ UNCHANGED trail => TrailSound'
<1>1. fns' = fns /\ vars_' = vars_ /\ names' = names
  BY DEF progVars
<1>2. Func' = Func /\ Uses' = Uses
  BY SameTasks
<1>3. CallsSound(fns, vars_, names)'
  BY <1>1, ZenonT(60) DEF CallTypes, CallsSound, CodeRefersTo, NameSound, StmtSound
<1>4. UNCHANGED fnUsed => UsedSound'
  BY <1>2 DEF CallTypes, UsedSound
<1>5. UNCHANGED possible => PossibleSound'
  BY <1>1, <1>2 DEF CallTypes, PossibleSound, ValueSound
<1>6. UNCHANGED callees => CalleesSound'
  BY <1>1, <1>2 DEF CallTypes, CalleesSound, ListSound, ValueSound
<1>7. UNCHANGED callers => CallersSound'
  BY <1>2 DEF CallTypes, CallersSound
<1>8. UNCHANGED trail => TrailSound'
  BY <1>1 DEF CallTypes, TrailSound
<1> QED
  BY <1>3, <1>4, <1>5, <1>6, <1>7, <1>8

LEMMA AddFacts ==
    ASSUME NEW S, NEW s \in Seq(S), NEW x \in S
    PROVE  /\ Add(s, x) \in Seq(S)
           /\ Range(Add(s, x)) = Range(s) \cup {x}
           /\ IsInjective(s) => IsInjective(Add(s, x))
<1>1. CASE Contains(s, x)
  <2>1. Add(s, x) = s
    BY <1>1 DEF Add
  <2>2. x \in Range(s)
    BY <1>1 DEF Contains, Range
  <2> QED
    BY <2>1, <2>2
<1>2. CASE ~ Contains(s, x)
  <2>1. PICK r : r = Append(s, x)
    OBVIOUS
  <2>2. Add(s, x) = r
    BY <1>2, <2>1 DEF Add
  <2>3. PICK n \in Nat : n = Len(s)
    OBVIOUS
  <2>4. /\ r \in Seq(S) /\ DOMAIN r = 1..(n + 1) /\ DOMAIN s = 1..n /\ r[n + 1] = x
        /\ \A i \in 1..n : r[i] = s[i] /\ s[i] # x
    BY <1>2, <2>1, <2>3 DEF Contains
  <2>5. Range(r) = Range(s) \cup {x}
    <3>1. \A i \in 1..(n + 1) : i = n + 1 \/ i \in 1..n
      BY <2>3
    <3>2. 1..n \subseteq 1..(n + 1) /\ n + 1 \in 1..(n + 1)
      BY <2>3
    <3> QED
      BY <2>4, <3>1, <3>2 DEF Range
  <2>6. ASSUME IsInjective(s), NEW i \in 1..(n + 1), NEW j \in 1..(n + 1), r[i] = r[j]
        PROVE  i = j
    <3>1. CASE i = n + 1 \/ j = n + 1
      BY <2>3, <2>4, <2>6, <3>1
    <3>2. CASE i # n + 1 /\ j # n + 1
      <4>1. i \in 1..n /\ j \in 1..n
        BY <2>3, <3>2
      <4> QED
        BY <2>4, <2>6, <4>1 DEF IsInjective
    <3> QED
      BY <3>1, <3>2
  <2>7. IsInjective(s) => IsInjective(r)
    BY <2>4, <2>6 DEF IsInjective
  <2> QED
    BY <2>2, <2>4, <2>5, <2>7
<1> QED
  BY <1>1, <1>2

LEMMA AddPossibleSound ==
    ASSUME CallTypes, UNCHANGED progVars, NEW v \in DOMAIN vars_, NEW value,
           ValueSound(value), AddPossible(v, value)
    PROVE  PossibleSound'
<1>1. DOMAIN possible' = DOMAIN vars_ /\ vars_' = vars_
  BY DEF AddPossible, CallTypes, PossibleSound, progVars
<1>2. ASSUME NEW w \in DOMAIN vars_
      PROVE  IsList(possible'[w]) /\ \A i \in DOMAIN possible'[w] : ValueSound(possible'[w][i])
  <2>1. PICK s : s = possible[w]
    OBVIOUS
  <2>2. IsList(s) /\ \A i \in DOMAIN s : ValueSound(s[i])
    BY <2>1 DEF CallTypes, PossibleSound
  <2>3. possible'[w] \in {s, Append(s, value)}
    BY <2>1 DEF AddPossible, CallTypes, PossibleSound
  <2>4. PICK r : r = Append(s, value)
    OBVIOUS
  <2>5. IsList(r) /\ \A i \in DOMAIN r : ValueSound(r[i])
    <3>1. PICK S : S = {s[i] : i \in DOMAIN s} \cup {value}
      OBVIOUS
    <3>2. s \in Seq(S)
      BY <2>2, <3>1, ListIn
    <3>3. r \in Seq(S)
      BY <2>4, <3>1, <3>2
    <3> QED
      BY <2>2, <3>1, <3>3, SeqIsList
  <2> QED
    BY <2>2, <2>3, <2>4, <2>5
<1>3. \A x : ValueSound(x)' <=> ValueSound(x)
  BY SameTasks
<1> QED
  BY <1>1, <1>2, <1>3 DEF PossibleSound

(* A task is made another, or others, and the rest is as it was.           *)
LEMMA InitValueSound ==
    ASSUME CallTypes, NEW u \in Image, do_init_value(u), UNCHANGED progVars
    PROVE  CallTypes'
<1>1. /\ todo[u] # <<>> /\ Task(u).do = "init" /\ Then(u, <<>>)
      /\ AddPossible(Task(u).v, Task(u).value)
      /\ UNCHANGED <<known, fnUsed, varUsed, callees, callers, trail, bug>>
  BY DEF do_init_value, Busy, Task
<1>2. Task(u).v \in DOMAIN vars_ /\ ValueSound(Task(u).value)
  BY <1>1, TaskFacts DEF TaskSound
<1>3. PossibleSound'
  BY <1>1, <1>2, AddPossibleSound
<1>4. TodoSound'
  BY <1>1, TasksFacts, ThenFacts
<1> QED
  BY <1>1, <1>3, <1>4, ListsKeep DEF CallTypes

LEMMA VarDeclSound ==
    ASSUME CallTypes, NEW u \in Image, do_var_decl_phase4(u), UNCHANGED progVars
    PROVE  CallTypes'
<1>1. /\ todo[u] # <<>> /\ Task(u).do = "var"
      /\ Then(u, IF vars_[Task(u).v].class = "local" THEN InitsOf(Task(u).v) ELSE <<>>)
      /\ UNCHANGED <<fnUsed, possible, callees, callers, trail, bug>>
  BY DEF do_var_decl_phase4, Busy, Task
<1>2. Task(u).v \in DOMAIN vars_
  BY <1>1, TaskFacts DEF TaskSound
<1>3. TasksSound(IF vars_[Task(u).v].class = "local" THEN InitsOf(Task(u).v) ELSE <<>>)
  BY <1>2, InitsSound, TasksFacts
<1>4. TodoSound'
  BY <1>1, <1>3, ThenFacts
<1> QED
  BY <1>1, <1>4, ListsKeep DEF CallTypes

LEMMA FunctionDeclSound ==
    ASSUME CallTypes, NEW u \in Image, do_function_decl(u), UNCHANGED progVars
    PROVE  CallTypes'
<1>1. /\ todo[u] # <<>> /\ Task(u).do = "fn" /\ Then(u, <<>>)
      /\ UNCHANGED <<known, varUsed, possible, callees, callers, trail, bug>>
      /\ \/ fnUsed' = [fnUsed EXCEPT ![Task(u).g] = Add(@, <<Task(u).f, Task(u).k>>)]
         \/ fnUsed' = fnUsed
  BY DEF do_function_decl, Busy, Task
<1>2. PICK g, x : g = Task(u).g /\ x = <<Task(u).f, Task(u).k>>
  OBVIOUS
<1>3. g \in Func /\ x \in Uses
  BY <1>1, <1>2, TaskFacts DEF TaskSound
<1>4. UsedSound'
  <2>1. fnUsed \in [Func -> Seq(Uses)]
    BY DEF CallTypes, UsedSound
  <2>2. Add(fnUsed[g], x) \in Seq(Uses)
    BY <1>3, <2>1, AddFacts
  <2>3. fnUsed' \in [Func -> Seq(Uses)]
    BY <1>1, <1>2, <2>1, <2>2
  <2> QED
    BY <2>3, SameTasks DEF UsedSound
<1>5. TodoSound'
  BY <1>1, TasksFacts, ThenFacts
<1> QED
  BY <1>1, <1>4, <1>5, ListsKeep DEF CallTypes

LEMMA UsedAtSound ==
    ASSUME CallTypes, NEW u \in Image, __do_func_used_at(u), UNCHANGED progVars
    PROVE  CallTypes'
<1>1. /\ todo[u] # <<>> /\ Task(u).do = "uses"
      /\ UNCHANGED <<known, fnUsed, varUsed, callees, callers, trail, bug>>
  BY Zenon DEF __do_func_used_at, Busy, Task
<1>2. PICK t : t = Task(u)
  OBVIOUS
<1>3. t \in UsesTasks /\ t.f \in Func
  BY <1>1, <1>2, TaskFacts DEF TaskSound, UsesTasks, CFunc
<1>4. CASE t.i \notin DOMAIN fnUsed[t.f]
  <2>1. Then(u, <<>>) /\ UNCHANGED possible
    BY <1>2, <1>4 DEF __do_func_used_at, Task
  <2>2. TodoSound'
    BY <1>1, <2>1, TasksFacts, ThenFacts
  <2> QED
    BY <1>1, <2>1, <2>2, ListsKeep, ZenonT(60) DEF CallTypes
<1>5. CASE t.i \in DOMAIN fnUsed[t.f]
  <2>1. PICK use, s, q : /\ use = fnUsed[t.f][t.i] /\ s = Stmt(use[1], use[2])
                         /\ q = [t EXCEPT !.i = @ + 1]
    OBVIOUS
  <2>2. PICK v : v = IF s.op = "assign" THEN __func_assigned(use[1], s.to) ELSE 0
    OBVIOUS
  <2>3. /\ IF v = 0 THEN UNCHANGED possible
           ELSE AddPossible(v, [kind |-> "func", id |-> t.f])
        /\ Then(u, <<q>>)
    BY <1>2, <1>5, <2>1, <2>2, Zenon DEF __do_func_used_at, Task
  <2>4. use \in Uses
    <3>1. fnUsed[t.f] \in Seq(Uses)
      BY <1>3 DEF CallTypes, UsedSound
    <3> QED
      BY <1>5, <2>1, <3>1, SeqIsList
  <2>5. v # 0 => v \in DOMAIN vars_
    <3>1. StmtSound(s, Func, DOMAIN vars_, DOMAIN names)
      BY <2>1, <2>4, ProgramFacts
    <3> QED
      BY <2>2, <3>1 DEF StmtSound, __func_assigned, get_target_var_node
  <2>6. PossibleSound'
    <3>1. CASE v = 0
      BY <2>3, <3>1, ListsKeep
    <3>2. CASE v # 0
      <4>1. ValueSound([kind |-> "func", id |-> t.f])
        BY <1>3 DEF ValueSound
      <4> QED
        BY <2>3, <2>5, <3>2, <4>1, AddPossibleSound
    <3> QED
      BY <3>1, <3>2
  <2>7. q \in UsesTasks /\ q.do = "uses"
    BY <1>3, <2>1 DEF UsesTasks
  <2>8. TodoSound'
    <3>1. TasksSound(<<q>>)
      BY <2>7, TasksFacts DEF TaskSound
    <3> QED
      BY <1>1, <2>3, <3>1, ThenFacts
  <2> QED
    BY <1>1, <2>6, <2>8, ListsKeep DEF CallTypes
<1> QED
  BY <1>4, <1>5, SMTT(30)

LEMMA TraceCallSound ==
    ASSUME CallTypes, NEW u \in Image, __trace_call_gs(u), UNCHANGED progVars
    PROVE  CallTypes'
<1>1. /\ todo[u] # <<>> /\ Task(u).do = "call"
      /\ UNCHANGED <<listVars, callees, callers, bug>>
  BY DEF __trace_call_gs, Busy, Task
<1>2. PICK t, s : t = Task(u) /\ s = Stmt(t.f, t.k)
  OBVIOUS
<1>3. /\ t.f \in CFunc /\ t.f \in Func /\ t.k \in Nat /\ s.op = "call"
      /\ StmtSound(s, Func, DOMAIN vars_, DOMAIN names)
  <2>1. TaskSound(t)
    BY <1>1, <1>2, TaskFacts
  <2>2. t.f \in CFunc /\ <<t.f, t.k>> \in Uses /\ s.op = "call" /\ t.f \in Func
    BY <1>1, <1>2, <2>1 DEF TaskSound
  <2>3. t.k \in Nat
    BY <2>2 DEF Uses
  <2>4. StmtSound(s, Func, DOMAIN vars_, DOMAIN names)
    BY <1>2, <2>2, ProgramFacts
  <2> QED
    BY <2>2, <2>3, <2>4
<1>4. PICK q : q = CASE s.via = "fn" -> call_func_decl(t, s.id)
                     [] s.via \in {"tree", "internal"} -> <<Callee(t, s.via, s.id, TRUE)>>
                     [] s.via = "var" -> Values(t, s.id)
                     [] s.via = "name" -> <<Name(t, s.id, FALSE)>>
                     [] OTHER -> <<>>
  OBVIOUS
<1>5. /\ Then(u, q)
      /\ trail' = IF s.via = "name" THEN [trail EXCEPT ![u] = <<>>] ELSE trail
  BY <1>2, <1>4, Zenon DEF __trace_call_gs, Task
<1>6. TasksSound(q)
  <2>1. CASE s.via = "fn"
    <3>1. s.id \in Func /\ q = <<Callee(t, "func", s.id, FALSE), Caller(t, s.id, TRUE)>>
      BY <1>3, <1>4, <2>1 DEF StmtSound, call_func_decl
    <3> QED
      BY <1>3, <3>1, CallSound
  <2>2. CASE s.via \in {"tree", "internal"}
    <3>1. q = <<Callee(t, s.via, s.id, TRUE)>> /\ s.via # "func"
      BY <1>4, <2>2
    <3> QED
      BY <1>3, <3>1, CallSound
  <2>3. CASE s.via = "var"
    <3>1. s.id \in DOMAIN vars_ /\ q = Values(t, s.id)
      BY <1>3, <1>4, <2>3 DEF StmtSound
    <3> QED
      BY <1>3, <3>1, ValuesSound
  <2>4. CASE s.via = "name"
    <3>1. s.id \in DOMAIN names /\ q = <<Name(t, s.id, FALSE)>>
      BY <1>3, <1>4, <2>4 DEF StmtSound
    <3>2. TaskSound(Name(t, s.id, FALSE))
      BY <1>3, <3>1, NameIsTask
    <3> QED
      BY <3>1, <3>2, TasksFacts
  <2>5. CASE s.via \notin {"fn", "tree", "internal", "var", "name"}
    BY <1>4, <2>5, TasksFacts
  <2> QED
    BY <2>1, <2>2, <2>3, <2>4, <2>5
<1>7. TodoSound'
  BY <1>1, <1>5, <1>6, ThenFacts
<1>8. TrailSound'
  <2>1. trail \in [Image -> Seq(DOMAIN names)] /\ \A v \in Image : Len(trail[v]) < SsaNameDepth
    BY DEF CallTypes, TrailSound
  <2>2. <<>> \in Seq(DOMAIN names) /\ Len(<<>>) = 0 /\ 0 < SsaNameDepth
    BY ProgramAssumption
  <2>3. /\ trail' \in [Image -> Seq(DOMAIN names)]
        /\ \A v \in Image : trail'[v] = trail[v] \/ trail'[v] = <<>>
    BY <1>5, <2>1, <2>2
  <2>4. \A v \in Image : Len(trail'[v]) < SsaNameDepth
    BY <2>1, <2>2, <2>3
  <2>5. names' = names
    BY DEF progVars
  <2> QED
    BY <2>3, <2>4, <2>5 DEF TrailSound
<1> QED
  BY <1>1, <1>7, <1>8, ListsKeep DEF CallTypes, listVars

LEMMA AsmCallSound ==
    ASSUME CallTypes, NEW u \in Image, indcfg1_do_call(u), UNCHANGED progVars
    PROVE  CallTypes'
<1>1. /\ todo[u] # <<>> /\ Task(u).do = "asm call"
      /\ UNCHANGED <<listVars, callees, callers, trail, bug>>
  BY DEF indcfg1_do_call, Busy, Task
<1>2. PICK t, s : t = Task(u) /\ s = Stmt(t.f, t.k)
  OBVIOUS
<1>3. PICK g : g = addr2sinode(s)
  OBVIOUS
<1>4. PICK q : q = IF g = 0 THEN <<>>
                   ELSE <<Callee(t, "func", g, ~ HasBody(g)), Caller(t, g, FALSE)>>
  OBVIOUS
<1>5. Then(u, q)
  BY <1>2, <1>3, <1>4 DEF indcfg1_do_call, Task
<1>6. TaskSound(t)
  BY <1>1, <1>2, TaskFacts
<1>7. t.f \notin CFunc /\ t.f \in Func /\ <<t.f, t.k>> \in Uses /\ s.op = "call" /\ t.k \in Nat
  BY <1>1, <1>2, <1>6 DEF TaskSound, Uses
<1>8. g # 0 => g \in Func
  <2>1. StmtSound(s, Func, DOMAIN vars_, DOMAIN names)
    BY <1>2, <1>7, ProgramFacts
  <2> QED
    BY <1>3, <1>7, <2>1 DEF StmtSound, addr2sinode
<1>9. TasksSound(q)
  <2>1. CASE g = 0
    BY <1>4, <2>1, TasksFacts
  <2>2. CASE g # 0
    BY <1>4, <1>7, <1>8, <2>2, CallSound
  <2> QED
    BY <2>1, <2>2
<1>10. TodoSound'
  BY <1>1, <1>5, <1>9, ThenFacts
<1> QED
  BY <1>1, <1>10, ListsKeep DEF CallTypes, listVars

LEMMA AddCallerSound ==
    ASSUME CallTypes, NEW u \in Image, add_caller(u), UNCHANGED progVars
    PROVE  CallTypes'
<1>1. /\ todo[u] # <<>> /\ Task(u).do = "caller" /\ bug = ""
      /\ UNCHANGED <<listVars, callees, trail>>
  BY DEF add_caller, Busy, Task
<1>2. PICK t, a : t = Task(u) /\ a = AliasOf(t.g)
  OBVIOUS
<1>3. TaskSound(t) /\ t \in CallerTasks /\ (t.alias <=> t.f \in CFunc) /\ t.g \in Func
      /\ t.f \in Func /\ t.alias \in BOOLEAN
  <2>1. TaskSound(t)
    BY <1>1, <1>2, TaskFacts
  <2>2. t \in CallerTasks /\ (t.alias <=> t.f \in CFunc)
    BY <1>1, <1>2, <2>1 DEF TaskSound
  <2> QED
    BY <2>1, <2>2 DEF CallerTasks
<1>4. CASE HasBody(t.g)
  <2>1. /\ callers' = [callers EXCEPT ![t.g] = Add(@, t.f)]
        /\ Then(u, <<>>) /\ UNCHANGED bug
    BY <1>2, <1>4 DEF add_caller, Task
  <2>2. TodoSound'
    BY <1>1, <2>1, TasksFacts, ThenFacts
  <2>3. callers \in [Func -> Seq(Func)]
    BY DEF CallTypes, CallersSound
  <2>4. Add(callers[t.g], t.f) \in Seq(Func)
    BY <1>3, <2>3, AddFacts
  <2>5. callers' \in [Func -> Seq(Func)]
    BY <2>1, <2>3, <2>4
  <2>6. CallersSound'
    BY <2>5, SameTasks DEF CallersSound
  <2> QED
    BY <1>1, <2>1, <2>2, <2>6, ListsKeep DEF CallTypes, listVars
<1>5. CASE ~ HasBody(t.g)
  <2>1. PICK q : q = [t EXCEPT !.g = a]
    OBVIOUS
  <2>2. PICK r : r = IF t.alias /\ a # 0 THEN <<q>> ELSE <<>>
    OBVIOUS
  <2>3. /\ bug' = IF t.alias /\ a # 0 /\ ~ fns[a].global THEN "null" ELSE bug
        /\ Then(u, r) /\ UNCHANGED callers
    BY <1>2, <1>5, <2>1, <2>2 DEF add_caller, Task
  <2>4. a \in Func \cup {0}
    BY <1>2, <1>3, ProgramFacts DEF AliasOf
  <2>5. a # 0 => q \in CallerTasks /\ q.do = "caller" /\ q.alias = t.alias /\ q.f = t.f
    BY <1>3, <2>1, <2>4 DEF CallerTasks
  <2>6. a # 0 => TaskSound(q)
    BY <1>3, <2>5 DEF TaskSound
  <2>7. TasksSound(r)
    BY <2>2, <2>6, TasksFacts
  <2>8. TodoSound'
    BY <1>1, <2>3, <2>7, ThenFacts
  <2>9. bug' \in {"", "null"}
    BY <1>1, <2>3
  <2> QED
    BY <1>1, <2>3, <2>8, <2>9, ListsKeep DEF CallTypes, listVars
<1> QED
  BY <1>4, <1>5

LEMMA PossibleCalleeSound ==
    ASSUME CallTypes, NEW u \in Image, add_possible_callee(u), UNCHANGED progVars
    PROVE  CallTypes'
<1>1. /\ todo[u] # <<>> /\ Task(u).do = "values"
      /\ UNCHANGED <<listVars, callees, callers, trail, bug>>
  BY DEF add_possible_callee, Busy, Task
<1>2. PICK t, p, q : /\ t = Task(u) /\ p = possible[t.v][t.i]
                     /\ q = [t EXCEPT !.i = @ + 1]
  OBVIOUS
<1>3. t \in ValuesTasks /\ t.f \in CFunc /\ t.f \in Func /\ t.k \in Nat
      /\ t.v \in DOMAIN vars_
  <2>1. t \in ValuesTasks
    BY <1>1, <1>2, TaskFacts DEF TaskSound
  <2> QED
    BY <2>1 DEF ValuesTasks, CFunc
<1>4. PICK r : r = IF p.kind # "func" THEN <<>>
                   ELSE <<Callee(t, "func", p.id, ~ HasBody(p.id)),
                          Caller(t, p.id, TRUE)>>
  OBVIOUS
<1>5. Then(u, IF t.i \notin DOMAIN possible[t.v] THEN <<>> ELSE r \o <<q>>)
  BY <1>2, <1>4, Zenon DEF add_possible_callee, Task
<1>6. ASSUME t.i \in DOMAIN possible[t.v]
      PROVE  TasksSound(r \o <<q>>)
  <2>1. ValueSound(p)
    BY <1>2, <1>3, <1>6 DEF CallTypes, PossibleSound
  <2>2. TasksSound(r)
    <3>1. CASE p.kind # "func"
      BY <1>4, <3>1, TasksFacts
    <3>2. CASE p.kind = "func"
      <4>1. p.id \in Func
        BY <2>1, <3>2 DEF ValueSound
      <4> QED
        BY <1>3, <1>4, <3>2, <4>1, CallSound
    <3> QED
      BY <3>1, <3>2
  <2>3. q \in ValuesTasks /\ q.do = "values"
    BY <1>2, <1>3 DEF ValuesTasks
  <2>4. TasksSound(<<q>>)
    BY <2>3, TasksFacts DEF TaskSound
  <2> QED
    BY <2>2, <2>4, JoinedTasks
<1>7. TodoSound'
  <2>1. TasksSound(IF t.i \notin DOMAIN possible[t.v] THEN <<>> ELSE r \o <<q>>)
    BY <1>6, TasksFacts
  <2> QED
    BY <1>1, <1>5, <2>1, ThenFacts
<1> QED
  BY <1>1, <1>7, ListsKeep, ZenonT(60) DEF CallTypes, listVars

(* The place of a callee in the list, 0 when it is not there.              *)
Same(c, kind, id) == c.kind = kind /\ c.id = id

LEMMA FindFacts ==
    ASSUME NEW list, IsList(list), NEW kind, NEW id
    PROVE  LET i == callf_list_find(list, kind, id)
           IN IF \E j \in DOMAIN list : Same(list[j], kind, id)
              THEN i \in DOMAIN list /\ Same(list[i], kind, id) /\ i # 0
              ELSE i = 0
<1> DEFINE I == {j \in 1..Len(list) : list[j].kind = kind /\ list[j].id = id}
           i == callf_list_find(list, kind, id)
<1>1. Len(list) \in Nat /\ DOMAIN list = 1..Len(list)
  BY ListFacts
<1>2. i = IF I # {} THEN Min(I) ELSE 0
  BY DEF callf_list_find, SelectInSeq
<1>3. I # {} => Min(I) \in I
  <2>1. SUFFICES ASSUME I # {} PROVE Min(I) \in I
    OBVIOUS
  <2>2. I \subseteq Nat
    BY <1>1
  <2>3. PICK T : T = I
    OBVIOUS
  <2>4. PICK x \in T : \A y \in T : x <= y
    <3>1. T \subseteq Nat /\ T # {}
      BY <2>1, <2>2, <2>3
    <3> QED
      BY <3>1, LeastOf
  <2>5. Min(T) = CHOOSE x1 \in T : \A y \in T : x1 <= y
    BY DEF Min
  <2>6. Min(T) \in T
    BY <2>4, <2>5
  <2> QED
    BY <2>3, <2>6
<1>4. CASE I = {}
  <2>1. ~ \E j \in DOMAIN list : Same(list[j], kind, id)
    BY <1>1, <1>4 DEF Same
  <2> QED
    BY <1>2, <1>4, <2>1
<1>5. CASE I # {}
  <2>1. i \in I
    BY <1>2, <1>3, <1>5
  <2>2. PICK k : k = i
    OBVIOUS
  <2>3. k \in DOMAIN list /\ Same(list[k], kind, id) /\ k # 0
    <3>1. k \in I
      BY <2>1, <2>2
    <3> QED
      BY <1>1, <3>1 DEF Same
  <2>4. \E j \in DOMAIN list : Same(list[j], kind, id)
    BY <2>3
  <2> HIDE DEF i
  <2>5. i \in DOMAIN list /\ Same(list[i], kind, id) /\ i # 0
    BY <2>2, <2>3
  <2> QED
    BY <2>4, <2>5 DEF i
<1> QED
  BY <1>4, <1>5

(* A callee is entered into a function's list, or its call into the entry. *)
Entry(t) == [kind |-> t.kind, id |-> t.id, missing |-> t.missing, stmts |-> <<t.k>>]
ListAdded(r, list, t) ==
    \/ /\ r = Append(list, Entry(t))
       /\ \A j \in DOMAIN list : ~ Same(list[j], t.kind, t.id)
    \/ \E i \in DOMAIN list : /\ Same(list[i], t.kind, t.id)
                              /\ r = [list EXCEPT ![i].stmts = Add(@, t.k)]

LEMMA AddCallList ==
    ASSUME CallTypes, NEW u \in Image, __add_call(u)
    PROVE  /\ Task(u).f \in Func /\ DOMAIN callees' = Func
           /\ ListAdded(callees'[Task(u).f], callees[Task(u).f], Task(u))
           /\ \A g \in Func : g # Task(u).f => callees'[g] = callees[g]
<1>1. /\ todo[u] # <<>> /\ Task(u).do = "callee"
  BY Zenon DEF __add_call, Busy, Task
<1>2. PICK t : t = Task(u)
  OBVIOUS
<1>3. t.f \in Func
  BY <1>1, <1>2, TaskFacts DEF TaskSound
<1>4. PICK list : list = callees[t.f]
  OBVIOUS
<1>5. PICK i : i = callf_list_find(list, t.kind, t.id)
  OBVIOUS
<1>6. callees' = [callees EXCEPT ![t.f] =
          IF i # 0 THEN [list EXCEPT ![i].stmts = Add(@, t.k)]
          ELSE Append(list, Entry(t))]
  BY <1>2, <1>4, <1>5, Zenon DEF __add_call, Task, Entry
<1>7. DOMAIN callees = Func /\ IsList(list)
  BY <1>3, <1>4 DEF CallTypes, CalleesSound, ListSound
<1>8. callees'[t.f] = IF i # 0 THEN [list EXCEPT ![i].stmts = Add(@, t.k)]
                      ELSE Append(list, Entry(t))
  BY <1>3, <1>6, <1>7
<1>9. IF \E j \in DOMAIN list : Same(list[j], t.kind, t.id)
      THEN i \in DOMAIN list /\ Same(list[i], t.kind, t.id) /\ i # 0
      ELSE i = 0
  BY <1>5, <1>7, FindFacts
<1>10. ListAdded(callees'[t.f], list, t)
  BY <1>8, <1>9 DEF ListAdded
<1> QED
  BY <1>2, <1>3, <1>4, <1>6, <1>7, <1>10, SMTT(30)

LEMMA ListAddedFacts ==
    ASSUME NEW r, NEW list, NEW t, ListSound(list), t.k \in Nat, ListAdded(r, list, t)
    PROVE  /\ IsList(r)
           /\ \A i \in DOMAIN r : r[i].stmts \in Seq(Nat) /\ IsEntryOf(r[i])
           /\ \A i \in DOMAIN r : Same(r[i], t.kind, t.id)
                  \/ \E j \in DOMAIN list : Same(r[i], list[j].kind, list[j].id)
           /\ \A j \in DOMAIN list : \E i \in DOMAIN r : Same(r[i], list[j].kind, list[j].id)
           /\ \E i \in DOMAIN r : Same(r[i], t.kind, t.id)
<1>1. /\ IsList(list)
      /\ \A i \in DOMAIN list : list[i].stmts \in Seq(Nat) /\ IsEntryOf(list[i])
  BY DEF ListSound
<1>2. PICK n \in Nat : n = Len(list) /\ DOMAIN list = 1..n
  BY <1>1, ListFacts
<1>3. CASE r = Append(list, Entry(t))
  <2>1. PICK S : S = {list[i] : i \in DOMAIN list} \cup {Entry(t)}
    OBVIOUS
  <2>2. list \in Seq(S) /\ Entry(t) \in S
    BY <1>1, <2>1, ListIn
  <2>3. /\ r \in Seq(S) /\ DOMAIN r = 1..(n + 1) /\ r[n + 1] = Entry(t)
        /\ \A i \in 1..n : r[i] = list[i]
    BY <1>2, <1>3, <2>2
  <2>4. \A i \in 1..(n + 1) : i = n + 1 \/ i \in 1..n
    OBVIOUS
  <2>5. Same(Entry(t), t.kind, t.id) /\ Entry(t).stmts \in Seq(Nat) /\ IsEntryOf(Entry(t))
    BY DEF Same, Entry, IsEntryOf
  <2>6. IsList(r)
    BY <2>3, SeqIsList
  <2>7. n + 1 \in 1..(n + 1) /\ \A i \in 1..n : i \in 1..(n + 1)
    OBVIOUS
  <2>8. \A i \in DOMAIN r : r[i].stmts \in Seq(Nat) /\ IsEntryOf(r[i])
    BY <1>1, <1>2, <2>3, <2>4, <2>5
  <2>9. \A i \in DOMAIN r : Same(r[i], t.kind, t.id)
            \/ \E j \in DOMAIN list : Same(r[i], list[j].kind, list[j].id)
    BY <1>2, <2>3, <2>4, <2>5 DEF Same
  <2>10. \A j \in DOMAIN list : \E i \in DOMAIN r : Same(r[i], list[j].kind, list[j].id)
    BY <1>2, <2>3, <2>7 DEF Same
  <2> QED
    BY <2>3, <2>5, <2>6, <2>7, <2>8, <2>9, <2>10
<1>4. CASE \E i \in DOMAIN list : /\ Same(list[i], t.kind, t.id)
                                  /\ r = [list EXCEPT ![i].stmts = Add(@, t.k)]
  <2>1. PICK i \in DOMAIN list : /\ Same(list[i], t.kind, t.id)
                                 /\ r = [list EXCEPT ![i].stmts = Add(@, t.k)]
    BY <1>4
  <2>2. /\ DOMAIN r = 1..n /\ r = [j \in 1..n |-> r[j]]
        /\ \A j \in 1..n : j # i => r[j] = list[j]
        /\ r[i] = [list[i] EXCEPT !.stmts = Add(@, t.k)]
    <3>1. list = [j \in 1..n |-> list[j]]
      <4>1. PICK S : list \in Seq(S)
        BY <1>1 DEF IsList
      <4> QED
        BY <1>2, <4>1
    <3> QED
      BY <1>2, <2>1, <3>1
  <2>9. PICK e, d : e = list[i] /\ d = r[i]
    OBVIOUS
  <2>10. e = [kind |-> e.kind, id |-> e.id, missing |-> e.missing, stmts |-> e.stmts]
         /\ e.stmts \in Seq(Nat)
    BY <1>1, <2>1, <2>9 DEF IsEntryOf
  <2>11. d = [kind |-> e.kind, id |-> e.id, missing |-> e.missing,
              stmts |-> Add(e.stmts, t.k)]
    <3>1. d = [e EXCEPT !.stmts = Add(@, t.k)]
      BY <2>2, <2>9
    <3> QED
      BY <2>10, <3>1
  <2>3. r[i].kind = list[i].kind /\ r[i].id = list[i].id
    BY <2>9, <2>11
  <2>4. IsList(r)
    BY <2>2, ListOf
  <2>5. r[i].stmts \in Seq(Nat) /\ IsEntryOf(r[i])
    <3>1. Add(e.stmts, t.k) \in Seq(Nat)
      BY <2>10, AddFacts
    <3>2. d.stmts \in Seq(Nat) /\ IsEntryOf(d)
      BY <2>11, <3>1 DEF IsEntryOf
    <3> QED
      BY <2>9, <3>2
  <2>6. \A j \in DOMAIN r : Same(r[j], list[j].kind, list[j].id)
    BY <2>2, <2>3 DEF Same
  <2> QED
    BY <1>1, <1>2, <2>1, <2>2, <2>3, <2>4, <2>5, <2>6 DEF Same
<1> QED
  BY <1>3, <1>4 DEF ListAdded

LEMMA AddCallSound ==
    ASSUME CallTypes, NEW u \in Image, __add_call(u), UNCHANGED progVars
    PROVE  CallTypes'
<1>1. /\ todo[u] # <<>> /\ Task(u).do = "callee" /\ Then(u, <<>>)
      /\ UNCHANGED <<listVars, callers, trail, bug>>
  BY Zenon DEF __add_call, Busy, Task
<1>2. PICK t : t = Task(u)
  OBVIOUS
<1>3. t.f \in Func /\ t.k \in Nat /\ ValueSound(t)
  BY <1>1, <1>2, TaskFacts DEF TaskSound
<1>4. TodoSound'
  BY <1>1, TasksFacts, ThenFacts
<1>5. PICK r, list : r = callees'[t.f] /\ list = callees[t.f]
  OBVIOUS
<1>6. ListSound(list) /\ ListAdded(r, list, t)
  BY <1>2, <1>3, <1>5, AddCallList DEF CallTypes, CalleesSound
<1>7. /\ IsList(r) /\ \A i \in DOMAIN r : r[i].stmts \in Seq(Nat) /\ IsEntryOf(r[i])
      /\ \A i \in DOMAIN r : Same(r[i], t.kind, t.id)
             \/ \E j \in DOMAIN list : Same(r[i], list[j].kind, list[j].id)
  BY <1>3, <1>6, ListAddedFacts
<1>8. \A i \in DOMAIN r : ValueSound(r[i])
  BY <1>3, <1>6, <1>7 DEF ListSound, ValueSound, Same
<1>9. ListSound(r)
  BY <1>7, <1>8 DEF ListSound
<1>10. CalleesSound'
  <2>1. DOMAIN callees' = Func /\ \A g \in Func : g # t.f => callees'[g] = callees[g]
    BY <1>2, AddCallList
  <2>2. \A g \in Func : ListSound(callees'[g])
    BY <1>5, <1>9, <2>1 DEF CallTypes, CalleesSound
  <2>3. \A l : ListSound(l) <=> ListSound(l)'
    BY SameTasks
  <2>4. \A g \in Func : ListSound(callees[g])'
    <3> TAKE g \in Func
    <3>1. PICK l : l = callees'[g]
      OBVIOUS
    <3>2. ListSound(l)'
      BY <2>2, <2>3, <3>1
    <3> QED
      BY <3>1, <3>2 DEF ListSound, ValueSound
  <2>5. Func' = Func
    BY SameTasks
  <2> QED
    BY <2>1, <2>4, <2>5 DEF CalleesSound
<1> QED
  BY <1>1, <1>4, <1>10, ListsKeep, ZenonT(60) DEF CallTypes, listVars

LEMMA SsaNameSound ==
    ASSUME CallTypes, NEW u \in Image, call_ssaname(u), UNCHANGED progVars
    PROVE  CallTypes'
<1>1. /\ todo[u] # <<>> /\ Task(u).do = "name"
      /\ UNCHANGED <<listVars, callees, callers>>
  BY DEF call_ssaname, Busy, Task
<1>2. PICK t : t = Task(u)
  OBVIOUS
<1>3. t \in NameTasks /\ t.n \in DOMAIN names
  BY <1>1, <1>2, TaskFacts DEF TaskSound, NameTasks
<1>4. CASE t.inner /\ Len(trail[u]) >= SsaNameDepth - 1
  <2>1. bug' = "depth" /\ UNCHANGED <<todo, trail>>
    BY <1>2, <1>4 DEF call_ssaname, Task
  <2>2. TodoSound'
    <3>1. \A v \in Image : TasksSound(todo[v])'
      <4> TAKE v \in Image
      <4>1. PICK s : s = todo[v] /\ s = todo'[v]
        BY <2>1
      <4>2. TasksSound(s)'
        BY <4>1, SameTasks DEF CallTypes, TodoSound
      <4> QED
        BY <4>1, <4>2
    <3> QED
      BY <2>1, <3>1 DEF CallTypes, TodoSound
  <2> QED
    BY <1>1, <2>1, <2>2, ListsKeep DEF CallTypes, listVars
<1>5. CASE ~ (t.inner /\ Len(trail[u]) >= SsaNameDepth - 1)
  <2>1. UNCHANGED bug
    BY <1>2, <1>5 DEF call_ssaname, Task
  <2>2. CASE t.inner /\ ssaname_node_check(u, t.n)
    <3>1. Then(u, <<>>) /\ UNCHANGED trail
      BY <1>2, <1>5, <2>2 DEF call_ssaname, Task
    <3>2. TodoSound'
      BY <1>1, <3>1, TasksFacts, ThenFacts
    <3> QED
      BY <1>1, <2>1, <3>1, <3>2, ListsKeep DEF CallTypes, listVars
  <2>3. CASE ~ (t.inner /\ ssaname_node_check(u, t.n))
    <3>1. PICK q : q = [t EXCEPT !.do = "var of"]
      OBVIOUS
    <3>2. /\ trail' = IF t.inner THEN [trail EXCEPT ![u] = Append(@, t.n)] ELSE trail
          /\ Then(u, Definition(t) \o <<q>>)
      BY <1>2, <1>5, <2>3, <3>1 DEF call_ssaname, Task
    <3>3. q \in NameTasks /\ q.do = "var of"
      BY <1>3, <3>1 DEF NameTasks
    <3>4. TasksSound(<<q>>) /\ TasksSound(Definition(t))
      BY <1>3, <3>3, TasksFacts, DefinitionSound DEF TaskSound
    <3>5. TodoSound'
      BY <1>1, <3>2, <3>4, JoinedTasks, ThenFacts
    <3>6. TrailSound'
      <4>1. trail \in [Image -> Seq(DOMAIN names)] /\ \A v \in Image : Len(trail[v]) < SsaNameDepth
        BY DEF CallTypes, TrailSound
      <4>2. CASE t.inner
        <5>7. trail[u] \in Seq(DOMAIN names)
          BY <4>1
        <5>8. Len(trail[u]) \in Nat
          BY <5>7
        <5>1. PICK s, n : s = Append(trail[u], t.n) /\ n = Len(trail[u]) /\ n \in Nat
          BY <5>8
        <5>2. s \in Seq(DOMAIN names) /\ Len(s) = n + 1
          BY <1>3, <4>1, <5>1
        <5>3. Len(s) < SsaNameDepth
          BY <1>5, <4>2, <5>1, <5>2, ProgramAssumption
        <5>4. /\ trail' \in [Image -> Seq(DOMAIN names)]
              /\ \A v \in Image : trail'[v] = trail[v] \/ trail'[v] = s
          BY <3>2, <4>1, <4>2, <5>1, <5>2
        <5>5. \A v \in Image : Len(trail'[v]) < SsaNameDepth
          BY <4>1, <5>3, <5>4
        <5>6. names' = names
          BY DEF progVars
        <5> QED
          BY <5>4, <5>5, <5>6 DEF TrailSound
      <4>3. CASE ~ t.inner
        BY <3>2, <4>3, ListsKeep
      <4> QED
        BY <4>2, <4>3
    <3> QED
      BY <1>1, <2>1, <3>5, <3>6, ListsKeep DEF CallTypes, listVars
  <2> QED
    BY <2>2, <2>3
<1> QED
  BY <1>4, <1>5

LEMMA LeaveNameSound ==
    ASSUME CallTypes, NEW u \in Image, LeaveName(u), UNCHANGED progVars
    PROVE  CallTypes'
<1>1. /\ todo[u] # <<>> /\ Task(u).do = "var of"
      /\ UNCHANGED <<listVars, callees, callers, trail, bug>>
  BY DEF LeaveName, Busy, Task
<1>2. PICK t, q : t = Task(u) /\ q = [t EXCEPT !.do = "pop"]
  OBVIOUS
<1>3. t \in NameTasks /\ t.n \in DOMAIN names /\ t.f \in CFunc /\ t.k \in Nat
  <2>1. t \in NameTasks
    BY <1>1, <1>2, TaskFacts DEF TaskSound
  <2> QED
    BY <2>1 DEF NameTasks
<1>4. PICK v : v = names[t.n].var
  OBVIOUS
<1>5. v \in DOMAIN vars_ \cup {0}
  BY <1>3, <1>4, ProgramFacts DEF NameSound
<1>6. Then(u, IF v = 0 THEN <<>> ELSE Values(t, v) \o <<q>>)
  BY <1>2, <1>4 DEF LeaveName, Task
<1>7. TasksSound(IF v = 0 THEN <<>> ELSE Values(t, v) \o <<q>>)
  <2>1. CASE v = 0
    BY <2>1, TasksFacts
  <2>2. CASE v # 0
    <3>1. q \in NameTasks /\ q.do = "pop" /\ q.n = t.n
      BY <1>2, <1>3 DEF NameTasks
    <3>2. TasksSound(<<q>>) /\ TasksSound(Values(t, v))
      BY <1>3, <1>4, <1>5, <2>2, <3>1, TasksFacts, ValuesSound DEF TaskSound
    <3> QED
      BY <2>2, <3>2, JoinedTasks
  <2> QED
    BY <2>1, <2>2
<1>8. TodoSound'
  BY <1>1, <1>6, <1>7, ThenFacts
<1> QED
  BY <1>1, <1>8, ListsKeep DEF CallTypes, listVars

LEMMA FrontFacts ==
    ASSUME NEW S, NEW s \in Seq(S)
    PROVE  /\ Front(s) \in Seq(S)
           /\ s # <<>> => Len(Front(s)) = Len(s) - 1
           /\ Len(Front(s)) <= Len(s)
           /\ \A i \in 1..Len(Front(s)) : Front(s)[i] = s[i]
<1>1. CASE s = <<>>
  BY <1>1 DEF Front
<1>2. CASE s # <<>>
  <2>1. PICK n \in Nat \ {0} : n = Len(s)
    BY <1>2
  <2>2. /\ Front(s) \in Seq(S) /\ Len(Front(s)) = n - 1
        /\ \A i \in 1..(n - 1) : Front(s)[i] = s[i]
    BY <2>1 DEF Front
  <2> QED
    BY <2>1, <2>2
<1> QED
  BY <1>1, <1>2

LEMMA PopSound ==
    ASSUME CallTypes, NEW u \in Image, ssaname_node_pop(u), UNCHANGED progVars
    PROVE  CallTypes'
<1>1. /\ todo[u] # <<>> /\ Task(u).do = "pop"
      /\ UNCHANGED <<listVars, callees, callers>>
  BY DEF ssaname_node_pop, Busy, Task
<1>2. PICK t : t = Task(u)
  OBVIOUS
<1>3. CASE ~ t.inner
  <2>1. Then(u, <<>>) /\ UNCHANGED <<trail, bug>>
    BY <1>2, <1>3 DEF ssaname_node_pop, Task
  <2>2. TodoSound'
    BY <1>1, <2>1, TasksFacts, ThenFacts
  <2> QED
    BY <1>1, <2>1, <2>2, ListsKeep DEF CallTypes, listVars
<1>4. CASE t.inner /\ Last(trail[u]) # t.n
  <2>1. bug' = "name" /\ UNCHANGED <<todo, trail>>
    BY <1>2, <1>4 DEF ssaname_node_pop, Task
  <2>2. TodoSound'
    <3>1. \A v \in Image : TasksSound(todo[v])'
      <4> TAKE v \in Image
      <4>1. PICK s : s = todo[v] /\ s = todo'[v]
        BY <2>1
      <4>2. TasksSound(s)'
        BY <4>1, SameTasks DEF CallTypes, TodoSound
      <4> QED
        BY <4>1, <4>2
    <3> QED
      BY <2>1, <3>1 DEF CallTypes, TodoSound
  <2> QED
    BY <1>1, <2>1, <2>2, ListsKeep DEF CallTypes, listVars
<1>5. CASE t.inner /\ Last(trail[u]) = t.n
  <2>1. /\ trail' = [trail EXCEPT ![u] = Front(@)]
        /\ Then(u, <<>>) /\ UNCHANGED bug
    BY <1>2, <1>5 DEF ssaname_node_pop, Task
  <2>2. TodoSound'
    BY <1>1, <2>1, TasksFacts, ThenFacts
  <2>3. TrailSound'
    <3>1. trail \in [Image -> Seq(DOMAIN names)] /\ \A v \in Image : Len(trail[v]) < SsaNameDepth
      BY DEF CallTypes, TrailSound
    <3>2. PICK s, r : s = trail[u] /\ r = Front(s)
      OBVIOUS
    <3>3. r \in Seq(DOMAIN names) /\ Len(r) < SsaNameDepth
      <4>1. s \in Seq(DOMAIN names) /\ Len(s) < SsaNameDepth
        BY <3>1, <3>2
      <4>2. r \in Seq(DOMAIN names) /\ Len(r) <= Len(s)
        BY <3>2, <4>1, FrontFacts
      <4>3. Len(r) \in Nat /\ Len(s) \in Nat
        BY <4>1, <4>2
      <4> QED
        BY <4>1, <4>2, <4>3, ProgramAssumption
    <3>4. /\ trail' \in [Image -> Seq(DOMAIN names)]
          /\ \A v \in Image : trail'[v] = trail[v] \/ trail'[v] = r
      BY <2>1, <3>1, <3>2, <3>3
    <3>5. \A v \in Image : Len(trail'[v]) < SsaNameDepth
      BY <3>1, <3>3, <3>4
    <3>6. names' = names
      BY DEF progVars
    <3> QED
      BY <3>4, <3>5, <3>6 DEF TrailSound
  <2> QED
    BY <1>1, <2>1, <2>2, <2>3, ListsKeep DEF CallTypes, listVars
<1> QED
  BY <1>3, <1>4, <1>5

(***************************************************************************)
(* What a worker has to do when a step begins                              *)
(***************************************************************************)
Calls_(F) == {p \in Uses : p[1] \in F /\ Stmt(p[1], p[2]).op = "call"}
InitStarts == UNION {{[do |-> "init", v |-> v, value |-> vars_[v].init[i]] :
                         i \in DOMAIN vars_[v].init} : v \in DOMAIN vars_}
VarStarts == {[do |-> "var", f |-> p[1], k |-> p[2], v |-> v] :
                 p \in Uses, v \in DOMAIN vars_}
FnStarts == {[do |-> "fn", f |-> p[1], k |-> p[2], g |-> g] : p \in Uses, g \in Func}
UsesStarts == {[do |-> "uses", f |-> f, i |-> 1] : f \in CFunc}
CallStarts == {[do |-> "call", f |-> p[1], k |-> p[2]] : p \in Calls_(CFunc)}
AsmStarts == {[do |-> "asm call", f |-> p[1], k |-> p[2]] : p \in Calls_(Func \ CFunc)}
StartTasks == InitStarts \cup VarStarts \cup FnStarts \cup UsesStarts
              \cup CallStarts \cup AsmStarts

LEMMA StartTaskFacts ==
    ASSUME CallTypes, NEW t \in StartTasks
    PROVE  TaskSound(t) /\ t.do \in {"init", "var", "fn", "uses", "call", "asm call"}
<1>1. CASE t \in InitStarts
  <2>1. PICK v \in DOMAIN vars_ : t \in {[do |-> "init", v |-> v, value |-> vars_[v].init[i]] :
                                           i \in DOMAIN vars_[v].init}
    BY <1>1 DEF InitStarts
  <2>2. PICK i \in DOMAIN vars_[v].init : t = [do |-> "init", v |-> v, value |-> vars_[v].init[i]]
    BY <2>1
  <2>3. t.do = "init" /\ t.v = v /\ t.value = vars_[v].init[i]
    BY <2>2
  <2> QED
    BY <2>3, ProgramFacts DEF TaskSound
<1>2. CASE t \in VarStarts
  <2>1. PICK p \in Uses, v \in DOMAIN vars_ : t = [do |-> "var", f |-> p[1], k |-> p[2], v |-> v]
    BY <1>2 DEF VarStarts
  <2>2. t.do = "var" /\ t.f = p[1] /\ t.v = v /\ p[1] \in Func
    BY <2>1 DEF Uses
  <2> QED
    BY <2>2 DEF TaskSound
<1>3. CASE t \in FnStarts
  <2>1. PICK p \in Uses, g \in Func : t = [do |-> "fn", f |-> p[1], k |-> p[2], g |-> g]
    BY <1>3 DEF FnStarts
  <2>2. p[1] \in Func /\ p = <<p[1], p[2]>>
    BY DEF Uses
  <2>3. t.do = "fn" /\ t.f = p[1] /\ t.k = p[2] /\ t.g = g
    BY <2>1
  <2> QED
    BY <2>2, <2>3 DEF TaskSound
<1>4. CASE t \in UsesStarts
  <2>1. PICK f \in CFunc : t = [do |-> "uses", f |-> f, i |-> 1]
    BY <1>4 DEF UsesStarts
  <2>2. t \in UsesTasks /\ t.do = "uses"
    BY <2>1 DEF UsesTasks
  <2> QED
    BY <2>2 DEF TaskSound
<1>5. CASE t \in CallStarts \cup AsmStarts
  <2>1. \E p \in Uses :
           /\ Stmt(p[1], p[2]).op = "call"
           /\ \/ p[1] \in CFunc /\ t = [do |-> "call", f |-> p[1], k |-> p[2]]
              \/ p[1] \in Func \ CFunc /\ t = [do |-> "asm call", f |-> p[1], k |-> p[2]]
    BY <1>5 DEF Calls_, CallStarts, AsmStarts
  <2>4. PICK p \in Uses :
           /\ Stmt(p[1], p[2]).op = "call"
           /\ \/ p[1] \in CFunc /\ t = [do |-> "call", f |-> p[1], k |-> p[2]]
              \/ p[1] \in Func \ CFunc /\ t = [do |-> "asm call", f |-> p[1], k |-> p[2]]
    BY <2>1
  <2>2. p[1] \in Func /\ p = <<p[1], p[2]>>
    BY DEF Uses
  <2>3. /\ t.f = p[1] /\ t.k = p[2] /\ t.do \in {"call", "asm call"}
        /\ t.do = "call" <=> p[1] \in CFunc
    <3>0. PICK f, k : f = p[1] /\ k = p[2]
      OBVIOUS
    <3>1. CASE p[1] \in CFunc
      <4>1. t = [do |-> "call", f |-> f, k |-> k]
        BY <2>4, <3>0, <3>1
      <4>2. t.f = f /\ t.k = k /\ t.do = "call"
        BY <4>1
      <4> QED
        BY <3>0, <3>1, <4>2
    <3>2. CASE p[1] \notin CFunc
      <4>1. t = [do |-> "asm call", f |-> f, k |-> k]
        BY <2>4, <3>0, <3>2
      <4>2. t.f = f /\ t.k = k /\ t.do = "asm call"
        BY <4>1
      <4> QED
        BY <3>0, <3>2, <4>2
    <3> QED
      BY <3>1, <3>2
  <2> QED
    BY <2>2, <2>3, <2>4 DEF TaskSound
<1> QED
  BY <1>1, <1>2, <1>3, <1>4, <1>5 DEF StartTasks

LEMMA HomeFacts ==
    ASSUME CallTypes, NEW u \in Image
    PROVE  /\ FuncsOf(u) \in Seq({f \in Func : fns[f].home = u})
           /\ VarsOf(u) \in Seq(DOMAIN vars_)
           /\ \A f \in Func : CallsOf(f) \in
                 Seq({k \in DOMAIN fns[f].stmts : Stmt(f, k).op = "call"})
<1>1. ASSUME NEW n \in Nat, NEW S, NEW B, S \subseteq B PROVE InOrder(n, S) \in Seq(B)
  <2>1. PICK r : r = InOrder(n, S)
    OBVIOUS
  <2>2. InOrderOf(r, n, S)
    BY <2>1, InOrderFacts
  <2>3. r \in Seq(Nat) /\ \A k \in 1..Len(r) : r[k] \in S
    BY <2>2 DEF InOrderOf
  <2>4. IsList(r) /\ DOMAIN r = 1..Len(r)
    BY <2>3, SeqIsList
  <2>5. r \in Seq(B)
    BY <1>1, <2>3, <2>4, ListIn
  <2> QED
    BY <2>1, <2>5
<1>2. Len(fns) \in Nat /\ Len(vars_) \in Nat
  BY ProgramFacts
<1>3. FuncsOf(u) \in Seq({f \in Func : fns[f].home = u})
  <2>1. PICK S, B : /\ S = {f \in Func : fns[f].home = u /\ HasBody(f)}
                    /\ B = {f \in Func : fns[f].home = u}
    OBVIOUS
  <2>2. S \subseteq B
    BY <2>1
  <2>3. InOrder(Len(fns), S) \in Seq(B)
    BY <1>1, <1>2, <2>2
  <2> QED
    BY <2>1, <2>3 DEF FuncsOf
<1>4. VarsOf(u) \in Seq(DOMAIN vars_)
  <2>1. PICK S : S = {v \in DOMAIN vars_ : vars_[v].home = u}
    OBVIOUS
  <2>2. S \subseteq DOMAIN vars_
    BY <2>1
  <2>3. InOrder(Len(vars_), S) \in Seq(DOMAIN vars_)
    BY <1>1, <1>2, <2>2
  <2> QED
    BY <2>1, <2>3 DEF VarsOf
<1>5. ASSUME NEW f \in Func
      PROVE  CallsOf(f) \in Seq({k \in DOMAIN fns[f].stmts : Stmt(f, k).op = "call"})
  <2>1. PICK S : S = {k \in DOMAIN fns[f].stmts : Stmt(f, k).op = "call"}
    OBVIOUS
  <2>2. Len(fns[f].stmts) \in Nat
    BY ProgramFacts, ListFacts
  <2>3. InOrder(Len(fns[f].stmts), S) \in Seq(S)
    BY <1>1, <2>2
  <2> QED
    BY <2>1, <2>3 DEF CallsOf
<1> QED
  BY <1>3, <1>4, <1>5

(* A list made of another one, entry by entry.                             *)
LEMMA MadeList ==
    ASSUME NEW A, NEW q \in Seq(A), NEW S, NEW s, s = [i \in DOMAIN q |-> s[i]],
           \A i \in DOMAIN q : s[i] \in S
    PROVE  s \in Seq(S)
<1>1. PICK n \in Nat : n = Len(q) /\ DOMAIN q = 1..n
  OBVIOUS
<1> QED
  BY <1>1, RuleList

LEMMA InitsStart ==
    ASSUME CallTypes, NEW v \in DOMAIN vars_
    PROVE  InitsOf(v) \in Seq(StartTasks)
<1>1. IsList(vars_[v].init)
  BY ProgramFacts
<1>2. PICK n \in Nat : DOMAIN vars_[v].init = 1..n
  BY <1>1, ListFacts
<1>3. PICK s : s = InitsOf(v)
  OBVIOUS
<1>4. /\ DOMAIN s = 1..n /\ s = [i \in 1..n |-> s[i]]
      /\ \A i \in 1..n : s[i] = [do |-> "init", v |-> v, value |-> vars_[v].init[i]]
  BY <1>2, <1>3 DEF InitsOf
<1>5. \A i \in 1..n : s[i] \in StartTasks
  BY <1>2, <1>4 DEF StartTasks, InitStarts
<1> QED
  BY <1>3, <1>4, <1>5, RuleList

LEMMA MarksStart ==
    ASSUME CallTypes, NEW f, NEW k, <<f, k>> \in Uses
    PROVE  MarksOf(f, k) \in Seq(StartTasks)
<1>1. PICK s : s = Stmt(f, k)
  OBVIOUS
<1>2. StmtSound(s, Func, DOMAIN vars_, DOMAIN names)
  BY <1>1, ProgramFacts
<1>3. VarsIn(s) \in Seq(DOMAIN vars_)
  <2>1. ASSUME s.op = "call", s.via = "name", names[s.id].var # 0
        PROVE  names[s.id].var \in DOMAIN vars_
    <3>1. s.id \in DOMAIN names
      BY <1>2, <2>1 DEF StmtSound
    <3>2. names[s.id].var \in DOMAIN vars_ \cup {0}
      BY <3>1, ProgramFacts DEF NameSound
    <3> QED
      BY <2>1, <3>2
  <2>2. s.op = "call" /\ s.via = "var" => s.id \in DOMAIN vars_
    BY <1>2 DEF StmtSound
  <2>3. s.op \in {"assign", "read"} => s.to \in DOMAIN vars_ \cup {0}
    BY <1>2 DEF StmtSound
  <2>4. PICK V : V = DOMAIN vars_
    OBVIOUS
  <2>5. \A v \in V : <<v>> \in Seq(V)
    OBVIOUS
  <2>6. <<>> \in Seq(V)
    OBVIOUS
  <2>7. CASE s.op \in {"assign", "read"}
    BY <2>3, <2>4, <2>5, <2>6, <2>7 DEF VarsIn
  <2>8. CASE s.op \notin {"assign", "read"}
    BY <2>1, <2>2, <2>4, <2>5, <2>6, <2>8 DEF VarsIn
  <2> QED
    BY <2>7, <2>8
<1>4. FuncsIn(s) \in Seq(Func)
  BY <1>2 DEF FuncsIn, StmtSound
<1>5. PICK a, b : /\ a = [i \in DOMAIN VarsIn(s) |->
                            [do |-> "var", f |-> f, k |-> k, v |-> VarsIn(s)[i]]]
                  /\ b = [i \in DOMAIN FuncsIn(s) |->
                            [do |-> "fn", f |-> f, k |-> k, g |-> FuncsIn(s)[i]]]
  OBVIOUS
<1>6. a \in Seq(StartTasks)
  <2>1. PICK q : q = VarsIn(s)
    OBVIOUS
  <2>2. a = [i \in DOMAIN q |-> a[i]]
    BY <1>5, <2>1
  <2>3. \A i \in DOMAIN q : a[i] = [do |-> "var", f |-> f, k |-> k, v |-> q[i]]
                            /\ q[i] \in DOMAIN vars_
    BY <1>3, <1>5, <2>1
  <2>4. \A v \in DOMAIN vars_ : [do |-> "var", f |-> f, k |-> k, v |-> v] \in StartTasks
    <3> TAKE v \in DOMAIN vars_
    <3>1. PICK p \in Uses : p = <<f, k>>
      OBVIOUS
    <3>2. [do |-> "var", f |-> p[1], k |-> p[2], v |-> v] \in VarStarts
      BY DEF VarStarts
    <3> QED
      BY <3>1, <3>2 DEF StartTasks
  <2>5. \A i \in DOMAIN q : a[i] \in StartTasks
    BY <2>3, <2>4
  <2> QED
    BY <1>3, <2>1, <2>2, <2>5, MadeList
<1>7. b \in Seq(StartTasks)
  <2>1. PICK q : q = FuncsIn(s)
    OBVIOUS
  <2>2. b = [i \in DOMAIN q |-> b[i]]
    BY <1>5, <2>1
  <2>3. \A i \in DOMAIN q : b[i] = [do |-> "fn", f |-> f, k |-> k, g |-> q[i]]
                            /\ q[i] \in Func
    BY <1>4, <1>5, <2>1
  <2>4. \A g \in Func : [do |-> "fn", f |-> f, k |-> k, g |-> g] \in StartTasks
    <3> TAKE g \in Func
    <3>1. PICK p \in Uses : p = <<f, k>>
      OBVIOUS
    <3>2. [do |-> "fn", f |-> p[1], k |-> p[2], g |-> g] \in FnStarts
      BY DEF FnStarts
    <3> QED
      BY <3>1, <3>2 DEF StartTasks
  <2>5. \A i \in DOMAIN q : b[i] \in StartTasks
    BY <2>3, <2>4
  <2> QED
    BY <1>4, <2>1, <2>2, <2>5, MadeList
<1>8. MarksOf(f, k) = a \o b
  BY <1>1, <1>5 DEF MarksOf
<1> QED
  BY <1>6, <1>7, <1>8

LEMMA StatementsStart ==
    ASSUME CallTypes, NEW f \in Func
    PROVE  FlattenSeq([k \in DOMAIN fns[f].stmts |-> MarksOf(f, k)]) \in Seq(StartTasks)
<1>1. IsList(fns[f].stmts)
  BY ProgramFacts
<1>2. PICK n \in Nat : DOMAIN fns[f].stmts = 1..n
  BY <1>1, ListFacts
<1>3. PICK q : q = [k \in DOMAIN fns[f].stmts |-> MarksOf(f, k)]
  OBVIOUS
<1>4. ASSUME NEW k \in 1..n PROVE q[k] \in Seq(StartTasks)
  <2>1. <<f, k>> \in Uses
    BY <1>2 DEF Uses
  <2> QED
    BY <1>2, <1>3, <2>1, MarksStart
<1>5. DOMAIN q = 1..n /\ q = [k \in 1..n |-> q[k]]
  BY <1>2, <1>3
<1>6. q \in Seq(Seq(StartTasks))
  BY <1>4, <1>5, RuleList
<1> QED
  BY <1>3, <1>6, FlattenKeeps

LEMMA Phase4Starts ==
    ASSUME CallTypes, NEW u \in Image
    PROVE  do_phase4(u) \in Seq(StartTasks)
<1>1. PICK a, b : /\ a = [i \in DOMAIN VarsOf(u) |-> InitsOf(VarsOf(u)[i])]
                  /\ b = [i \in DOMAIN FuncsOf(u) |->
                            FlattenSeq([k \in DOMAIN fns[FuncsOf(u)[i]].stmts |->
                                          MarksOf(FuncsOf(u)[i], k)])]
  OBVIOUS
<1>2. FlattenSeq(a) \in Seq(StartTasks)
  <2>1. PICK q : q = VarsOf(u)
    OBVIOUS
  <2>2. q \in Seq(DOMAIN vars_)
    BY <2>1, HomeFacts
  <2>3. a = [i \in DOMAIN q |-> a[i]] /\ \A i \in DOMAIN q : a[i] = InitsOf(q[i])
    BY <1>1, <2>1
  <2>4. \A i \in DOMAIN q : a[i] \in Seq(StartTasks)
    BY <2>2, <2>3, InitsStart
  <2>5. a \in Seq(Seq(StartTasks))
    BY <2>2, <2>3, <2>4, MadeList
  <2> QED
    BY <2>5, FlattenKeeps
<1>3. FlattenSeq(b) \in Seq(StartTasks)
  <2>1. PICK q : q = FuncsOf(u)
    OBVIOUS
  <2>2. q \in Seq({f \in Func : fns[f].home = u})
    BY <2>1, HomeFacts
  <2>3. /\ b = [i \in DOMAIN q |-> b[i]]
        /\ \A i \in DOMAIN q : b[i] = FlattenSeq([k \in DOMAIN fns[q[i]].stmts |-> MarksOf(q[i], k)])
    BY <1>1, <2>1
  <2>4. ASSUME NEW i \in DOMAIN q PROVE b[i] \in Seq(StartTasks)
    <3>1. PICK f \in Func : f = q[i]
      BY <2>2, SeqIsList
    <3> QED
      BY <2>3, <3>1, StatementsStart
  <2>5. b \in Seq(Seq(StartTasks))
    BY <2>2, <2>3, <2>4, MadeList
  <2> QED
    BY <2>5, FlattenKeeps
<1>4. do_phase4(u) = FlattenSeq(a) \o FlattenSeq(b)
  BY <1>1 DEF do_phase4
<1> QED
  BY <1>2, <1>3, <1>4

LEMMA CallsStart ==
    ASSUME CallTypes, NEW f \in Func
    PROVE  /\ f \in CFunc =>
                 <<[do |-> "uses", f |-> f, i |-> 1]>> \o
                 [j \in DOMAIN CallsOf(f) |-> [do |-> "call", f |-> f, k |-> CallsOf(f)[j]]]
                 \in Seq(StartTasks)
           /\ f \notin CFunc =>
                 [j \in DOMAIN CallsOf(f) |-> [do |-> "asm call", f |-> f, k |-> CallsOf(f)[j]]]
                 \in Seq(StartTasks)
<1>1. PICK q : q = CallsOf(f)
  OBVIOUS
<1>2. q \in Seq({k \in DOMAIN fns[f].stmts : Stmt(f, k).op = "call"})
  <2>1. \E u : u \in Image
    BY ProgramFacts
  <2> QED
    BY <1>1, <2>1, HomeFacts
<1>3. ASSUME NEW i \in DOMAIN q PROVE <<f, q[i]>> \in Uses /\ Stmt(f, q[i]).op = "call"
  <2>1. q[i] \in DOMAIN fns[f].stmts /\ Stmt(f, q[i]).op = "call"
    BY <1>2, SeqIsList
  <2>2. q[i] \in Nat
    BY <2>1, ProgramFacts, ListFacts
  <2> QED
    BY <2>1, <2>2 DEF Uses
<1>4. ASSUME f \in CFunc
      PROVE  [j \in DOMAIN q |-> [do |-> "call", f |-> f, k |-> q[j]]] \in Seq(StartTasks)
  <2>1. PICK s : s = [j \in DOMAIN q |-> [do |-> "call", f |-> f, k |-> q[j]]]
    OBVIOUS
  <2>2. s = [j \in DOMAIN q |-> s[j]]
    BY <2>1
  <2>3. ASSUME NEW i \in DOMAIN q PROVE s[i] \in StartTasks
    <3>1. PICK p : p = <<f, q[i]>>
      OBVIOUS
    <3>2. p \in Calls_(CFunc) /\ p[1] = f /\ p[2] = q[i]
      BY <1>3, <1>4, <3>1 DEF Calls_
    <3>3. [do |-> "call", f |-> p[1], k |-> p[2]] \in CallStarts
      BY <3>2 DEF CallStarts
    <3> QED
      BY <2>1, <3>2, <3>3 DEF StartTasks
  <2>4. s \in Seq(StartTasks)
    BY <1>2, <2>2, <2>3, MadeList
  <2> QED
    BY <2>1, <2>4
<1>5. ASSUME f \notin CFunc
      PROVE  [j \in DOMAIN q |-> [do |-> "asm call", f |-> f, k |-> q[j]]] \in Seq(StartTasks)
  <2>1. PICK s : s = [j \in DOMAIN q |-> [do |-> "asm call", f |-> f, k |-> q[j]]]
    OBVIOUS
  <2>2. s = [j \in DOMAIN q |-> s[j]]
    BY <2>1
  <2>3. ASSUME NEW i \in DOMAIN q PROVE s[i] \in StartTasks
    <3>1. PICK p : p = <<f, q[i]>>
      OBVIOUS
    <3>2. p \in Calls_(Func \ CFunc) /\ p[1] = f /\ p[2] = q[i]
      BY <1>3, <1>5, <3>1 DEF Calls_
    <3>3. [do |-> "asm call", f |-> p[1], k |-> p[2]] \in AsmStarts
      BY <3>2 DEF AsmStarts
    <3> QED
      BY <2>1, <3>2, <3>3 DEF StartTasks
  <2>4. s \in Seq(StartTasks)
    BY <1>2, <2>2, <2>3, MadeList
  <2> QED
    BY <2>1, <2>4
<1>6. ASSUME f \in CFunc PROVE <<[do |-> "uses", f |-> f, i |-> 1]>> \in Seq(StartTasks)
  <2>1. [do |-> "uses", f |-> f, i |-> 1] \in UsesStarts
    BY <1>6 DEF UsesStarts
  <2> QED
    BY <2>1 DEF StartTasks
<1> QED
  BY <1>1, <1>4, <1>5, <1>6, ConcatProperties

LEMMA Phase5Starts ==
    ASSUME CallTypes, NEW u \in Image
    PROVE  /\ u \notin Asm => do_phase5(u) \in Seq(StartTasks)
           /\ u \in Asm => getindcfg1(u) \in Seq(StartTasks)
<1>1. PICK q : q = FuncsOf(u)
  OBVIOUS
<1>2. q \in Seq({f \in Func : fns[f].home = u})
  BY <1>1, HomeFacts
<1>3. CASE u \notin Asm
  <2>1. PICK b : b = [i \in DOMAIN q |-> LET f == q[i]
        IN <<[do |-> "uses", f |-> f, i |-> 1]>> \o
           [j \in DOMAIN CallsOf(f) |-> [do |-> "call", f |-> f, k |-> CallsOf(f)[j]]]]
    OBVIOUS
  <2>2. b = [i \in DOMAIN q |-> b[i]]
    BY <2>1
  <2>3. ASSUME NEW i \in DOMAIN q PROVE b[i] \in Seq(StartTasks)
    <3>1. PICK f \in Func : f = q[i] /\ fns[f].home = u
      BY <1>2, SeqIsList
    <3>2. f \in CFunc
      BY <1>3, <3>1 DEF CFunc
    <3>3. b[i] = <<[do |-> "uses", f |-> f, i |-> 1]>> \o
                 [j \in DOMAIN CallsOf(f) |-> [do |-> "call", f |-> f, k |-> CallsOf(f)[j]]]
      BY <2>1, <3>1
    <3> QED
      BY <3>2, <3>3, CallsStart
  <2>4. b \in Seq(Seq(StartTasks))
    BY <1>2, <2>2, <2>3, MadeList
  <2>5. FlattenSeq(b) \in Seq(StartTasks)
    BY <2>4, FlattenKeeps
  <2> QED
    BY <1>1, <1>3, <2>1, <2>5 DEF do_phase5
<1>4. CASE u \in Asm
  <2>1. PICK b : b = [i \in DOMAIN q |-> LET f == q[i]
        IN [j \in DOMAIN CallsOf(f) |-> [do |-> "asm call", f |-> f, k |-> CallsOf(f)[j]]]]
    OBVIOUS
  <2>2. b = [i \in DOMAIN q |-> b[i]]
    BY <2>1
  <2>3. ASSUME NEW i \in DOMAIN q PROVE b[i] \in Seq(StartTasks)
    <3>1. PICK f \in Func : f = q[i] /\ fns[f].home = u
      BY <1>2, SeqIsList
    <3>2. f \notin CFunc
      BY <1>4, <3>1 DEF CFunc
    <3>3. b[i] = [j \in DOMAIN CallsOf(f) |-> [do |-> "asm call", f |-> f, k |-> CallsOf(f)[j]]]
      BY <2>1, <3>1
    <3> QED
      BY <3>2, <3>3, CallsStart
  <2>4. b \in Seq(Seq(StartTasks))
    BY <1>2, <2>2, <2>3, MadeList
  <2>5. FlattenSeq(b) \in Seq(StartTasks)
    BY <2>4, FlattenKeeps
  <2> QED
    BY <1>1, <1>4, <2>1, <2>5 DEF getindcfg1
<1> QED
  BY <1>3, <1>4

(* The tasks of the next step are no calls that are under way.             *)
StartSound(s) == TasksSound(s) /\ s \in Seq(StartTasks)

LEMMA StepStarts ==
    ASSUME CallTypes, NEW u \in Image, NEW step
    PROVE  StartSound(IF u \in Asm THEN parse(u, step) ELSE c_parse(u, step))
<1>1. PICK s : s = IF u \in Asm THEN parse(u, step) ELSE c_parse(u, step)
  OBVIOUS
<1>2. <<>> \in Seq(StartTasks)
  OBVIOUS
<1>3. s \in Seq(StartTasks)
  <2>1. CASE u \in Asm
    BY <1>1, <1>2, <2>1, Phase5Starts DEF parse, phase4, getindcfg2
  <2>2. CASE u \notin Asm
    BY <1>1, <1>2, <2>2, Phase4Starts, Phase5Starts DEF c_parse, do_phase6
  <2> QED
    BY <2>1, <2>2
<1>4. IsList(s) /\ \A i \in DOMAIN s : s[i] \in StartTasks
  BY <1>3, SeqIsList
<1>5. TasksSound(s)
  BY <1>4, StartTaskFacts DEF TasksSound
<1> QED
  BY <1>1, <1>3, <1>5 DEF StartSound

LEMMA CallsStutter ==
    ASSUME CallTypes, UNCHANGED progVars, UNCHANGED callVars
    PROVE  CallTypes'
<1>1. /\ todo' = todo
      /\ UNCHANGED <<listVars, callees, callers, trail, bug>>
  BY DEF callVars
<1>2. TodoSound'
  <2>1. \A v \in Image : TasksSound(todo[v])'
    <3> TAKE v \in Image
    <3>1. PICK s : s = todo[v] /\ s = todo'[v]
      BY <1>1
    <3>2. TasksSound(s)'
      BY <3>1, SameTasks DEF CallTypes, TodoSound
    <3> QED
      BY <3>1, <3>2
  <2> QED
    BY <1>1, <2>1 DEF CallTypes, TodoSound
<1> QED
  BY <1>1, <1>2, ListsKeep DEF CallTypes, listVars

LEMMA CallStepSound ==
    ASSUME CallTypes, NEW u \in Image, CallStep(u), UNCHANGED progVars
    PROVE  CallTypes'
BY InitValueSound, VarDeclSound, FunctionDeclSound, UsedAtSound, TraceCallSound,
   PossibleCalleeSound, AsmCallSound, AddCallSound, AddCallerSound, SsaNameSound,
   LeaveNameSound, PopSound DEF CallStep

LEMMA NextStepTodo ==
    ASSUME CallTypes, NextStep
    PROVE  /\ DOMAIN todo' = Image
           /\ \A u \in Image : todo[u] = <<>> /\ StartSound(todo'[u])
           /\ \A u \in Image : phase > 5 => todo'[u] = <<>>
           /\ UNCHANGED <<progVars, listVars, callees, callers, trail, bug>>
<1>1. /\ todo' = [u \in Image |-> IF u \in Asm THEN parse(u, phase')
                                  ELSE c_parse(u, phase')]
      /\ phase' = phase + 1 /\ phase \in 3..6 /\ \A u \in Image : todo[u] = <<>>
      /\ UNCHANGED <<progVars, listVars, callees, callers, trail, bug>>
  BY DEF NextStep, StepDone, CallsDone
<1>2. ASSUME NEW u \in Image PROVE StartSound(todo'[u])
  <2>1. PICK step : step = phase'
    OBVIOUS
  <2>2. StartSound(IF u \in Asm THEN parse(u, step) ELSE c_parse(u, step))
    BY StepStarts
  <2>3. todo'[u] = IF u \in Asm THEN parse(u, step) ELSE c_parse(u, step)
    BY <1>1, <2>1
  <2> QED
    BY <2>2, <2>3
<1>3. ASSUME NEW u \in Image, phase > 5 PROVE todo'[u] = <<>>
  <2>1. phase' = 7
    BY <1>1, <1>3
  <2> QED
    BY <1>1, <2>1 DEF parse, c_parse
<1> QED
  BY <1>1, <1>2, <1>3

LEMMA NextStepSound ==
    ASSUME CallTypes, NextStep
    PROVE  CallTypes'
<1>1. /\ DOMAIN todo' = Image /\ \A u \in Image : TasksSound(todo'[u])
      /\ UNCHANGED <<progVars, listVars, callees, callers, trail, bug>>
  BY NextStepTodo DEF StartSound
<1>2. TodoSound'
  <2>1. \A v \in Image : TasksSound(todo[v])'
    <3> TAKE v \in Image
    <3>1. PICK s : s = todo'[v]
      OBVIOUS
    <3>2. TasksSound(s)'
      BY <1>1, <3>1, SameTasks
    <3> QED
      BY <3>1, <3>2
  <2> QED
    BY <1>1, <2>1 DEF TodoSound
<1> QED
  BY <1>1, <1>2, ListsKeep DEF CallTypes, listVars

(* Between the steps nothing is left to do, and in mark_entry.             *)
CallInv == CallTypes /\ (phase \notin 4..6 => CallsDone)

LEMMA CallsBegin ==
    ASSUME Init
    PROVE  CallInv
<1>1. /\ CallsSound(fns, vars_, names) /\ phase = 3
      /\ todo = [u \in Image |-> <<>>] /\ fnUsed = [f \in Func |-> <<>>]
      /\ possible = [v \in DOMAIN vars_ |-> <<>>] /\ callees = [f \in Func |-> <<>>]
      /\ callers = [f \in Func |-> <<>>] /\ trail = [u \in Image |-> <<>>] /\ bug = ""
  BY ProgramAssumption DEF Init, InitCalls
<1>2. TodoSound
  BY <1>1, TasksFacts DEF TodoSound
<1>3. UsedSound
  <2>1. <<>> \in Seq(Uses)
    OBVIOUS
  <2> QED
    BY <1>1, <2>1 DEF UsedSound
<1>4. PossibleSound /\ CalleesSound
  BY <1>1, NoneIsList DEF PossibleSound, CalleesSound, ListSound
<1>5. CallersSound
  <2>1. <<>> \in Seq(Func)
    OBVIOUS
  <2> QED
    BY <1>1, <2>1 DEF CallersSound
<1>6. TrailSound
  <2>1. <<>> \in Seq(DOMAIN names) /\ Len(<<>>) = 0 /\ 0 < SsaNameDepth
    BY ProgramAssumption
  <2> QED
    BY <1>1, <2>1 DEF TrailSound
<1>7. CallsDone
  BY <1>1 DEF CallsDone
<1> QED
  BY <1>1, <1>2, <1>3, <1>4, <1>5, <1>6, <1>7 DEF CallTypes, CallInv

LEMMA MarkEntryCalls ==
    ASSUME MarkEntry
    PROVE  UNCHANGED progVars /\ UNCHANGED callVars /\ phase = 7 /\ phase' = 7
BY DEF MarkEntry, NextEntry, mark_subcall_entry, callVars

LEMMA CallsNext ==
    ASSUME CallInv, [Next]_vars, phase \in 3..8
    PROVE  CallInv'
<1>1. ASSUME UNCHANGED progVars, UNCHANGED callVars,
             phase' = phase \/ (phase = 7 /\ phase' = 8)
      PROVE  CallInv'
  <2>1. CallTypes'
    BY <1>1, CallsStutter DEF CallInv
  <2>2. todo' = todo
    BY <1>1 DEF callVars
  <2> QED
    BY <1>1, <2>1, <2>2 DEF CallInv, CallsDone
<1>2. CASE \E u \in Image : Step3(u) \/ MarkField(u)
  BY <1>1, <1>2 DEF Step3, MarkField
<1>3. CASE \E u \in Image : Step456(u)
  <2>1. PICK u \in Image : Step456(u)
    BY <1>3
  <2>2. CallStep(u) /\ UNCHANGED progVars /\ phase \in 4..6 /\ phase' = phase
    BY <2>1 DEF Step456
  <2>3. CallTypes'
    BY <2>2, CallStepSound DEF CallInv
  <2> QED
    BY <2>2, <2>3 DEF CallInv
<1>4. CASE NextStep
  <2>1. CallTypes'
    BY <1>4, NextStepSound DEF CallInv
  <2>2. phase' = phase + 1 /\ phase \in 3..6
    BY <1>4 DEF NextStep
  <2>3. phase > 5 => CallsDone'
    BY <1>4, NextStepTodo DEF CallsDone, CallInv
  <2> QED
    BY <2>1, <2>2, <2>3 DEF CallInv
<1>5. CASE MarkEntry
  BY <1>1, <1>5, MarkEntryCalls
<1>6. CASE MarksOver
  BY <1>1, <1>6 DEF MarksOver
<1>7. CASE UNCHANGED vars
  <2>1. UNCHANGED progVars /\ UNCHANGED callVars /\ phase' = phase
    BY <1>7 DEF vars
  <2> QED
    BY <1>1, <2>1
<1> QED
  BY <1>2, <1>3, <1>4, <1>5, <1>6, <1>7 DEF Next, Main, Worker

(* The invariant of STEP4 to STEP6: tasks, lists and trails are about      *)
(* functions, variables and names that the program has.                    *)
THEOREM CallInvariant == Spec => []CallInv
<1>1. Init => CallInv
  BY CallsBegin
<1>2. CallInv /\ DetailInv /\ [Next]_vars => CallInv'
  BY CallsNext DEF DetailInv
<1> QED
  BY <1>1, <1>2, DetailInvariant, PTL DEF Spec

(***************************************************************************)
(* Distances                                                               *)
(***************************************************************************)
Entered == {f \in Func : IsEntry(f)}
Called(S) == {g \in Func : \E f \in S : \E i \in DOMAIN Into(f) : Into(f)[i].id = g}
Further == [p \in Nat \X SUBSET Func |-> Entered \cup Called(p[2])]

LEMMA LevelFacts ==
    /\ Level[0] = {}
    /\ \A n \in Nat : Level[n + 1] = Entered \cup Called(Level[n])
    /\ \A n \in Nat : Level[n] \subseteq Func
<1> DEFINE Step(f, n) == IF n = 0 THEN {}
                         ELSE {g \in Func : IsEntry(g)} \cup
                              {g \in Func : \E h \in f[n - 1] :
                                  \E i \in DOMAIN Into(h) : Into(h)[i].id = g}
<1>1. PICK F : F \in [Nat -> SUBSET Func] /\ F[0] = {}
               /\ \A n \in Nat : F[n + 1] = Entered \cup Called(F[n])
  <2>1. PICK st, V, a : st = Further /\ V = SUBSET Func /\ a = {}
    OBVIOUS
  <2>2. a \in V /\ IsStep(st, V)
    BY <2>1 DEF IsStep, Further, Entered, Called
  <2>3. PICK F : Sequel(F, V, a, st)
    BY <2>2, Recursion, Zenon
  <2>4. F \in [Nat -> SUBSET Func] /\ F[0] = {}
    BY <2>1, <2>3 DEF Sequel
  <2>5. ASSUME NEW n \in Nat PROVE F[n + 1] = Entered \cup Called(F[n])
    <3>1. F[n + 1] = Further[<<n, F[n]>>]
      BY <2>1, <2>3 DEF Sequel
    <3> QED
      BY <2>4, <3>1 DEF Further
  <2> QED
    BY <2>4, <2>5
<1>2. F = [n \in Nat |-> Step(F, n)]
  <2>1. ASSUME NEW n \in Nat PROVE F[n] = Step(F, n)
    <3>1. CASE n = 0
      BY <1>1, <3>1
    <3>2. CASE n # 0
      <4>1. n - 1 \in Nat /\ (n - 1) + 1 = n
        BY <3>2
      <4>2. F[n] = Entered \cup Called(F[n - 1])
        BY <1>1, <4>1
      <4> QED
        BY <3>2, <4>2 DEF Entered, Called
    <3> QED
      BY <3>1, <3>2
  <2> QED
    BY <1>1, <2>1
<1>3. Level = [n \in Nat |-> Step(Level, n)]
  <2>1. Level = CHOOSE f : f = [n \in Nat |-> Step(f, n)]
    BY DEF Level
  <2> HIDE DEF Step
  <2> QED
    BY <1>2, <2>1
<1>4. Level[0] = {}
  BY <1>3
<1>5. ASSUME NEW n \in Nat PROVE Level[n + 1] = Entered \cup Called(Level[n])
  <2>1. n + 1 \in Nat /\ n + 1 # 0 /\ (n + 1) - 1 = n
    OBVIOUS
  <2>2. Level[n + 1] = Step(Level, n + 1)
    <3> HIDE DEF Step
    <3> QED
      BY <1>3, <2>1
  <2> QED
    BY <2>1, <2>2 DEF Entered, Called
<1>6. ASSUME NEW n \in Nat PROVE Level[n] \subseteq Func
  <2>1. Level[n] = Step(Level, n)
    <3> HIDE DEF Step
    <3> QED
      BY <1>3
  <2> QED
    BY <2>1
<1> QED
  BY <1>4, <1>5, <1>6

LEMMA LevelGrows ==
    \A n \in Nat : \A k \in Nat : Level[n] \subseteq Level[n + k]
<1>1. \A n \in Nat : Level[n] \subseteq Level[n + 1]
  <2> DEFINE T == {n \in Nat : Level[n] \subseteq Level[n + 1]}
  <2>1. 0 \in T
    BY LevelFacts
  <2>2. ASSUME NEW n \in Nat, n \in T PROVE n + 1 \in T
    <3>1. Level[n + 1] = Entered \cup Called(Level[n])
          /\ Level[(n + 1) + 1] = Entered \cup Called(Level[n + 1])
      BY LevelFacts
    <3>2. Called(Level[n]) \subseteq Called(Level[n + 1])
      BY <2>2 DEF Called
    <3> QED
      BY <3>1, <3>2
  <2>3. \A n \in Nat : n \in T
    <3> HIDE DEF T
    <3> QED
      BY <2>1, <2>2, AllNumbers
  <2> QED
    BY <2>3
<1> TAKE n \in Nat
<1> DEFINE T == {k \in Nat : Level[n] \subseteq Level[n + k]}
<1>2. 0 \in T
  OBVIOUS
<1>3. ASSUME NEW k \in Nat, k \in T PROVE k + 1 \in T
  <2>1. PICK m \in Nat : m = n + k /\ m + 1 = n + (k + 1)
    OBVIOUS
  <2> QED
    BY <1>1, <1>3, <2>1
<1>4. \A k \in Nat : k \in T
  <2> HIDE DEF T
  <2> QED
    BY <1>2, <1>3, AllNumbers
<1> QED
  BY <1>4

(* What is known of depth while the walk goes on: what is marked has a     *)
(* path, and what is called by it, or is an entry that was come to, is     *)
(* marked or about to be visited, from no further away.                    *)
Visited(g, n) ==
    \/ depth[g] # 0 /\ depth[g] <= n
    \/ \E i \in DOMAIN visits : visits[i].fn = g /\ visits[i].level <= n

VisitsSound ==
    /\ IsList(visits)
    /\ \A i \in DOMAIN visits :
          /\ visits[i].fn \in Func /\ visits[i].level \in Nat \ {0}
          /\ visits[i].fn \in Level[visits[i].level]

DepthSound ==
    /\ DOMAIN depth = Func /\ root \in 1..(Len(fns) + 1)
    /\ \A f \in Func : /\ depth[f] \in 0..CallDepthMax
                       /\ depth[f] # 0 => f \in Level[depth[f]]
    /\ \A f \in Func : depth[f] # 0 /\ depth[f] + 1 <= CallDepthMax =>
          \A i \in DOMAIN Into(f) : Visited(Into(f)[i].id, depth[f] + 1)
    /\ \A f \in Func : IsEntry(f) /\ f < root => Visited(f, 1)

MarksInv ==
    /\ IsList(fns)
    /\ phase < 7 => root = 1 /\ visits = <<>> /\ depth = [f \in Func |-> 0]
    /\ VisitsSound /\ DepthSound

LEMMA DistancesFound ==
    ASSUME MarksInv, MarksDone
    PROVE  DepthIsDistance
<1>1. CallDepthMax \in Nat \ {0}
  BY DepthAssumption
<1>2. /\ DOMAIN visits = {} /\ root = Len(fns) + 1 /\ Func = 1..Len(fns) /\ Len(fns) \in Nat
  BY ListFacts, NoneIsList DEF MarksInv, DepthSound, MarksDone, Func
<1> DEFINE Near(n) == \A f \in Level[n] : depth[f] # 0 /\ depth[f] <= n
           T == {n \in Nat : n <= CallDepthMax => Near(n)}
<1>3. 0 \in T
  BY LevelFacts
<1>4. ASSUME NEW n \in Nat, n \in T PROVE n + 1 \in T
  <2> SUFFICES ASSUME n + 1 <= CallDepthMax, NEW g \in Level[n + 1]
               PROVE  depth[g] # 0 /\ depth[g] <= n + 1
    OBVIOUS
  <2>1. g \in Entered \cup Called(Level[n]) /\ Level[n] \subseteq Func
    BY LevelFacts
  <2>2. CASE g \in Entered
    <3>1. Visited(g, 1)
      BY <1>2, <2>2 DEF Entered, MarksInv, DepthSound
    <3>2. depth[g] # 0 /\ depth[g] <= 1 /\ depth[g] \in 0..CallDepthMax
      BY <1>2, <2>2, <3>1 DEF Visited, Entered, MarksInv, DepthSound
    <3> QED
      BY <1>1, <3>2
  <2>3. CASE g \in Called(Level[n])
    <3>1. PICK f \in Level[n] : \E i \in DOMAIN Into(f) : Into(f)[i].id = g
      BY <2>3 DEF Called
    <3>2. f \in Func /\ g \in Func /\ n <= CallDepthMax
      BY <1>1, <2>1, <2>3, <3>1 DEF Called
    <3>3. depth[f] # 0 /\ depth[f] <= n
      BY <1>4, <3>2
    <3>4. PICK d \in 0..CallDepthMax, e \in 0..CallDepthMax : d = depth[f] /\ e = depth[g]
      BY <3>2 DEF MarksInv, DepthSound
    <3>5. d # 0 /\ d <= n /\ d + 1 <= CallDepthMax
      BY <1>1, <3>3, <3>4
    <3>6. Visited(g, d + 1)
      BY <3>1, <3>2, <3>4, <3>5 DEF MarksInv, DepthSound
    <3>7. e # 0 /\ e <= d + 1
      BY <1>2, <3>4, <3>6 DEF Visited
    <3> QED
      BY <1>1, <3>4, <3>5, <3>7
  <2> QED
    BY <2>1, <2>2, <2>3
<1>5. \A n \in Nat : n <= CallDepthMax => Near(n)
  <2>1. \A n \in Nat : n \in T
    <3> HIDE DEF T
    <3> QED
      BY <1>3, <1>4, AllNumbers
  <2> HIDE DEF Near
  <2> QED
    BY <2>1
<1>6. ASSUME NEW f \in Func, f \in Level[CallDepthMax]
      PROVE  f \in Level[depth[f]] /\ f \notin Level[depth[f] - 1]
  <2>1. PICK d \in 0..CallDepthMax : d = depth[f]
    BY DEF MarksInv, DepthSound
  <2>2. d # 0
    BY <1>1, <1>5, <1>6, <2>1
  <2>3. f \in Level[d]
    BY <2>1, <2>2 DEF MarksInv, DepthSound
  <2>4. PICK m \in Nat : m = d - 1 /\ m <= CallDepthMax /\ ~ (d <= m)
    BY <1>1, <2>1, <2>2
  <2>5. f \notin Level[m]
    BY <1>5, <2>1, <2>4
  <2> QED
    BY <2>1, <2>3, <2>4, <2>5
<1>7. ASSUME NEW f \in Func, f \notin Level[CallDepthMax] PROVE depth[f] = 0
  <2>1. PICK d \in 0..CallDepthMax : d = depth[f]
    BY DEF MarksInv, DepthSound
  <2>2. PICK k \in Nat : d + k = CallDepthMax
    <3>1. CallDepthMax - d \in Nat /\ d + (CallDepthMax - d) = CallDepthMax
      BY <1>1, <2>1
    <3> QED
      BY <3>1
  <2>3. Level[d] \subseteq Level[CallDepthMax]
    <3>1. d \in Nat
      BY <1>1
    <3> QED
      BY <2>2, <3>1, LevelGrows
  <2> QED
    BY <1>7, <2>1, <2>3 DEF MarksInv, DepthSound
<1> QED
  BY <1>6, <1>7 DEF DepthIsDistance

(***************************************************************************)
(* The walk of mark_entry                                                  *)
(***************************************************************************)
LEMMA IntoFacts ==
    ASSUME CallTypes, NEW f \in Func
    PROVE  IsList(Into(f)) /\ \A i \in DOMAIN Into(f) : Into(f)[i].id \in Func
<1>1. PICK list : list = callees[f]
  OBVIOUS
<1>2. ListSound(list)
  BY <1>1 DEF CallTypes, CalleesSound
<1>3. PICK S : S = {i \in DOMAIN list : list[i].kind = "func" /\ HasBody(list[i].id)}
  OBVIOUS
<1>4. Len(list) \in Nat
  BY <1>2, ListFacts DEF ListSound
<1>5. PICK at_ : at_ = InOrder(Len(list), S)
  OBVIOUS
<1>6. InOrderOf(at_, Len(list), S)
  BY <1>4, <1>5, InOrderFacts
<1>7. IsList(at_) /\ DOMAIN at_ = 1..Len(at_) /\ Len(at_) \in Nat
  BY <1>6, SeqIsList DEF InOrderOf
<1>8. PICK r : r = Into(f)
  OBVIOUS
<1>9. r = [i \in DOMAIN at_ |-> list[at_[i]]]
  BY <1>1, <1>3, <1>5, <1>8 DEF Into
<1>10. DOMAIN r = 1..Len(at_) /\ r = [i \in 1..Len(at_) |-> r[i]]
  BY <1>7, <1>9
<1>11. \A i \in DOMAIN r : r[i].id \in Func
  BY <1>2, <1>3, <1>6, <1>7, <1>9 DEF InOrderOf, ListSound, ValueSound
<1> QED
  BY <1>7, <1>8, <1>10, <1>11, ListOf

LEMMA LevelKeeps ==
    ASSUME UNCHANGED <<fns, kernel, callees, callers>>
    PROVE  /\ \A n \in Nat : Level'[n] = Level[n]
           /\ \A f : Into(f)' = Into(f) /\ (IsEntry(f)' <=> IsEntry(f))
           /\ Func' = Func
<1>1. Func' = Func
  BY DEF Func
<1>2. \A f : Into(f)' = Into(f)
  <2> TAKE f
  <2>1. callees' = callees /\ fns' = fns
    OBVIOUS
  <2> QED
    BY <2>1 DEF Into, HasBody
<1>3. \A f : IsEntry(f)' <=> IsEntry(f)
  BY DEF IsEntry, HasBody
<1>4. Entered' = Entered /\ \A S : Called(S)' = Called(S)
  BY <1>1, <1>2, <1>3 DEF Entered, Called
<1>5. (/\ Level[0] = {}
       /\ \A n \in Nat : Level[n + 1] = Entered \cup Called(Level[n])
       /\ \A n \in Nat : Level[n] \subseteq Func)'
  BY LevelFacts, PTL
<1> DEFINE T == {n \in Nat : Level'[n] = Level[n]}
<1>6. 0 \in T
  BY <1>5, LevelFacts
<1>7. ASSUME NEW n \in Nat, n \in T PROVE n + 1 \in T
  <2>1. PICK S : S = Level[n] /\ S = Level'[n]
    BY <1>7
  <2>2. Level'[n + 1] = Entered' \cup Called(S)'
    BY <1>5, <2>1 DEF Called
  <2>3. Level[n + 1] = Entered \cup Called(S)
    BY <2>1, LevelFacts
  <2>4. Called(S)' = Called(S)
    BY <1>4
  <2>5. Level'[n + 1] = Level[n + 1]
    BY <1>4, <2>2, <2>3, <2>4
  <2> QED
    BY <2>5
<1>8. \A n \in Nat : n \in T
  <2> HIDE DEF T
  <2> QED
    BY <1>6, <1>7, AllNumbers
<1> QED
  BY <1>1, <1>2, <1>3, <1>8

Near(d, vs, g, n) ==
    \/ d[g] # 0 /\ d[g] <= n
    \/ \E i \in DOMAIN vs : vs[i].fn = g /\ vs[i].level <= n

VisitsAre(vs) ==
    /\ IsList(vs)
    /\ \A i \in DOMAIN vs : /\ vs[i].fn \in Func /\ vs[i].level \in Nat \ {0}
                            /\ vs[i].fn \in Level[vs[i].level]
DepthIs(d, r) ==
    /\ DOMAIN d = Func /\ r \in 1..(Len(fns) + 1)
    /\ \A f \in Func : d[f] \in 0..CallDepthMax /\ (d[f] # 0 => f \in Level[d[f]])
CallsNear(d, vs) ==
    \A f \in Func : d[f] # 0 /\ d[f] + 1 <= CallDepthMax =>
        \A i \in DOMAIN Into(f) : Near(d, vs, Into(f)[i].id, d[f] + 1)
EntriesNear(d, r, vs) == \A f \in Func : IsEntry(f) /\ f < r => Near(d, vs, f, 1)
MarksAre(d, r, vs) ==
    VisitsAre(vs) /\ DepthIs(d, r) /\ CallsNear(d, vs) /\ EntriesNear(d, r, vs)

LEMMA MarksSame ==
    /\ VisitsSound /\ DepthSound <=> MarksAre(depth, root, visits)
    /\ UNCHANGED <<fns, kernel, callees, callers>> /\ MarksAre(depth', root', visits')
          => (VisitsSound /\ DepthSound)'
<1>1. VisitsSound /\ DepthSound <=> MarksAre(depth, root, visits)
  BY DEF VisitsSound, DepthSound, MarksAre, VisitsAre, DepthIs, CallsNear, EntriesNear,
         Near, Visited
<1>2. ASSUME UNCHANGED <<fns, kernel, callees, callers>>, MarksAre(depth', root', visits')
      PROVE  (VisitsSound /\ DepthSound)'
  <2>1. /\ \A n \in Nat : Level'[n] = Level[n]
        /\ \A f : Into(f)' = Into(f) /\ (IsEntry(f)' <=> IsEntry(f))
        /\ Func' = Func /\ fns' = fns
    BY <1>2, LevelKeeps
  <2>2. VisitsSound'
    BY <1>2, <2>1 DEF VisitsSound, MarksAre, VisitsAre
  <2>3. \A g, n : Visited(g, n)' <=> Near(depth', visits', g, n)
    BY DEF Visited, Near
  <2>4. \A f \in Func : depth'[f] \in 0..CallDepthMax /\ depth'[f] \in Nat
    BY <1>2, DepthAssumption DEF MarksAre, DepthIs
  <2>5. \A f \in Func : depth'[f] # 0 => f \in Level'[depth'[f]]
    BY <1>2, <2>1, <2>4 DEF MarksAre, DepthIs
  <2>6. \A f \in Func : depth'[f] # 0 /\ depth'[f] + 1 <= CallDepthMax =>
            \A i \in DOMAIN Into(f) : Visited(Into(f)[i].id, depth[f] + 1)'
    BY <1>2, <2>1, <2>3 DEF MarksAre, CallsNear, Near, Visited
  <2>7. \A f \in Func : IsEntry(f) /\ f < root' => Visited(f, 1)'
    BY <1>2, <2>3 DEF MarksAre, EntriesNear
  <2>8. DepthSound'
    BY <1>2, <2>1, <2>4, <2>5, <2>6, <2>7 DEF DepthSound, MarksAre, DepthIs
  <2> QED
    BY <2>2, <2>8
<1> QED
  BY <1>1, <1>2

LEMMA EntryKeeps ==
    ASSUME CallTypes, NEW d, NEW r, NEW vs, MarksAre(d, r, <<>>), r \in Func,
           vs = IF IsEntry(r) THEN <<[fn |-> r, level |-> 1]>> ELSE <<>>
    PROVE  MarksAre(d, r + 1, vs)
<1>1. Func = 1..Len(fns) /\ Len(fns) \in Nat
  BY ProgramFacts
<1>2. DepthIs(d, r + 1)
  BY <1>1 DEF MarksAre, DepthIs
<1>3. VisitsAre(vs)
  <2>1. CASE IsEntry(r)
    <3>1. r \in Level[0 + 1]
      BY <2>1, LevelFacts DEF Entered
    <3> QED
      BY <2>1, <3>1, OneIsList DEF VisitsAre
  <2>2. CASE ~ IsEntry(r)
    BY <2>2, NoneIsList DEF VisitsAre
  <2> QED
    BY <2>1, <2>2
<1>4. \A g, n : Near(d, <<>>, g, n) => Near(d, vs, g, n)
  BY NoneIsList DEF Near
<1>5. CallsNear(d, vs)
  BY <1>4 DEF MarksAre, CallsNear
<1>6. ASSUME NEW f \in Func, IsEntry(f), f < r + 1 PROVE Near(d, vs, f, 1)
  <2>1. CASE f < r
    BY <1>4, <1>6, <2>1 DEF MarksAre, EntriesNear
  <2>2. CASE ~ (f < r)
    <3>1. f = r
      BY <1>1, <1>6, <2>2
    <3>2. DOMAIN vs = {1} /\ vs[1] = [fn |-> r, level |-> 1]
      BY <1>6, <3>1, OneIsList
    <3> QED
      BY <3>1, <3>2 DEF Near
  <2> QED
    BY <2>1, <2>2
<1> QED
  BY <1>2, <1>3, <1>5, <1>6 DEF MarksAre, EntriesNear

(* A visit that leads nowhere new: the function was come to from no        *)
(* further away, or it is too far.                                         *)
LEMMA DropKeeps ==
    ASSUME CallTypes, NEW d, NEW r, NEW vs, MarksAre(d, r, vs), vs # <<>>,
           (d[Head(vs).fn] # 0 /\ d[Head(vs).fn] <= Head(vs).level)
             \/ Head(vs).level > CallDepthMax
    PROVE  MarksAre(d, r, Tail(vs))
<1>1. IsList(vs) /\ IsList(<<>>) /\ Len(<<>>) = 0
  BY NoneIsList DEF MarksAre, VisitsAre
<1>2. PICK q : q = Tail(vs)
  OBVIOUS
<1>3. q = <<>> \o Tail(vs)
  <2>1. PICK A : vs \in Seq(A)
    BY <1>1 DEF IsList
  <2>2. Tail(vs) \in Seq(A)
    BY <2>1
  <2> QED
    BY <1>2, <2>2
<1>4. Replaced(q, <<>>, vs) /\ Len(vs) \in Nat \ {0} /\ Head(vs) = vs[1] /\ 1 \in DOMAIN vs
  BY <1>1, <1>3, ReplacedTask
<1>5. PICK n \in Nat \ {0} : n = Len(vs) /\ DOMAIN vs = 1..n
  BY <1>1, <1>4, ListFacts
<1>6. PICK v : v = vs[1]
  OBVIOUS
<1>7. /\ IsList(q) /\ DOMAIN q = 1..Len(q) /\ Len(q) + 1 = n
      /\ \A j \in 1..n : j # 1 => 0 + j - 1 \in DOMAIN q /\ q[0 + j - 1] = vs[j]
      /\ \A i \in 1..Len(q) : \E j \in 1..n : j # 1 /\ i = 0 + j - 1
  <2>1. IsList(q) /\ Len(q) + 1 = n /\ Len(q) \in Nat /\ DOMAIN q = 1..Len(q)
    BY <1>1, <1>4, <1>5, ListFacts DEF Replaced
  <2>2. \A j \in 1..n : j # 1 => 0 + j - 1 \in 1..Len(q)
    BY <2>1
  <2> QED
    BY <1>1, <1>4, <1>5, <2>1, <2>2 DEF Replaced
<1>8. VisitsAre(q)
  BY <1>5, <1>7 DEF MarksAre, VisitsAre
<1>9. v.fn \in Func /\ v.level \in Nat \ {0}
  BY <1>4, <1>6 DEF MarksAre, VisitsAre
<1>10. ASSUME NEW g, NEW m \in Nat, m <= CallDepthMax, Near(d, vs, g, m)
       PROVE  Near(d, q, g, m)
  <2>1. CASE d[g] # 0 /\ d[g] <= m
    BY <2>1 DEF Near
  <2>2. CASE \E i \in DOMAIN vs : vs[i].fn = g /\ vs[i].level <= m
    <3>1. PICK i \in 1..n : vs[i].fn = g /\ vs[i].level <= m
      BY <1>5, <2>2
    <3>2. CASE i # 1
      BY <1>7, <3>1, <3>2 DEF Near
    <3>3. CASE i = 1
      <4>1. v.fn = g /\ v.level <= m
        BY <1>6, <3>1, <3>3
      <4>2. ~ (v.level > CallDepthMax)
        BY <1>9, <1>10, <4>1, DepthAssumption
      <4>3. d[g] # 0 /\ d[g] <= v.level
        BY <1>4, <1>6, <4>1, <4>2
      <4>4. d[g] \in 0..CallDepthMax
        BY <1>9, <4>1 DEF MarksAre, DepthIs
      <4>5. d[g] <= m
        BY <1>9, <4>1, <4>3, <4>4, DepthAssumption
      <4> QED
        BY <4>3, <4>5 DEF Near
    <3> QED
      BY <3>2, <3>3
  <2> QED
    BY <1>10, <2>1, <2>2 DEF Near
<1>11. CallsNear(d, q)
  <2> SUFFICES ASSUME NEW f \in Func, d[f] # 0, d[f] + 1 <= CallDepthMax,
                      NEW i \in DOMAIN Into(f)
               PROVE  Near(d, q, Into(f)[i].id, d[f] + 1)
    BY DEF CallsNear
  <2>1. d[f] + 1 \in Nat
    BY DepthAssumption DEF MarksAre, DepthIs
  <2>2. Near(d, vs, Into(f)[i].id, d[f] + 1)
    BY DEF MarksAre, CallsNear
  <2> QED
    BY <1>10, <2>1, <2>2
<1>12. EntriesNear(d, r, q)
  <2>1. 1 <= CallDepthMax
    BY DepthAssumption
  <2> QED
    BY <1>10, <2>1 DEF MarksAre, EntriesNear
<1> QED
  BY <1>2, <1>8, <1>11, <1>12 DEF MarksAre

(* A function that is come to from nearer than before: what it calls is    *)
(* visited again.                                                          *)
Come(d, vs, g, l, e, calls) ==
    /\ vs # <<>> /\ g = Head(vs).fn /\ l = Head(vs).level
    /\ ~ (d[g] # 0 /\ d[g] <= l) /\ l <= CallDepthMax
    /\ e = [d EXCEPT ![g] = l]
    /\ calls = [i \in DOMAIN Into(g) |-> [fn |-> Into(g)[i].id, level |-> l + 1]]

LEMMA MarkKeeps ==
    ASSUME CallTypes, NEW d, NEW r, NEW vs, NEW g, NEW l, NEW e, NEW calls,
           MarksAre(d, r, vs), Come(d, vs, g, l, e, calls)
    PROVE  MarksAre(e, r, calls \o Tail(vs))
<1>0. /\ vs # <<>> /\ g = Head(vs).fn /\ l = Head(vs).level
      /\ ~ (d[g] # 0 /\ d[g] <= l) /\ l <= CallDepthMax
      /\ e = [d EXCEPT ![g] = l]
      /\ calls = [i \in DOMAIN Into(g) |-> [fn |-> Into(g)[i].id, level |-> l + 1]]
  BY DEF Come
<1>1. IsList(vs)
  BY DEF MarksAre, VisitsAre
<1>2. Len(vs) \in Nat \ {0} /\ Head(vs) = vs[1] /\ 1 \in DOMAIN vs
  BY <1>0, <1>1, NoneIsList, ReplacedTask
<1>3. g \in Func /\ l \in Nat \ {0} /\ g \in Level[l] /\ g = vs[1].fn /\ l = vs[1].level
  BY <1>0, <1>2 DEF MarksAre, VisitsAre
<1>4. IsList(Into(g)) /\ \A i \in DOMAIN Into(g) : Into(g)[i].id \in Func
  BY <1>3, IntoFacts
<1>5. PICK m \in Nat : m = Len(Into(g)) /\ DOMAIN Into(g) = 1..m
  BY <1>4, ListFacts
<1>6. IsList(calls) /\ Len(calls) = m /\ DOMAIN calls = 1..m
      /\ \A i \in 1..m : calls[i].fn = Into(g)[i].id /\ calls[i].level = l + 1
  <2>1. DOMAIN calls = 1..m /\ calls = [i \in 1..m |-> calls[i]]
    BY <1>0, <1>5
  <2>2. \A i \in 1..m : calls[i] = [fn |-> Into(g)[i].id, level |-> l + 1]
    BY <1>0, <1>5
  <2> QED
    BY <2>1, <2>2, ListOf
<1>7. PICK q : q = calls \o Tail(vs)
  OBVIOUS
<1>8. PICK n \in Nat \ {0} : n = Len(vs) /\ DOMAIN vs = 1..n
  BY <1>1, <1>2, ListFacts
<1>9. Replaced(q, calls, vs)
  BY <1>0, <1>1, <1>6, <1>7, ReplacedTask, Zenon
<1>10. /\ IsList(q) /\ DOMAIN q = 1..Len(q) /\ Len(q) \in Nat /\ Len(q) + 1 = m + n
       /\ \A i \in 1..m : i \in DOMAIN q /\ q[i] = calls[i]
       /\ \A j \in 1..n : j # 1 => m + j - 1 \in DOMAIN q /\ q[m + j - 1] = vs[j]
       /\ \A i \in 1..Len(q) : i \in 1..m \/ \E j \in 1..n : j # 1 /\ i = m + j - 1
  <2>1. IsList(q) /\ DOMAIN q = 1..Len(q) /\ Len(q) \in Nat /\ Len(q) + 1 = m + n
    BY <1>6, <1>8, <1>9, ListFacts DEF Replaced
  <2>2. /\ \A i \in 1..m : i \in 1..Len(q)
        /\ \A j \in 1..n : j # 1 => m + j - 1 \in 1..Len(q)
    BY <2>1
  <2> QED
    BY <1>6, <1>8, <1>9, <2>1, <2>2 DEF Replaced
<1>11. DOMAIN d = Func /\ \A f \in Func : d[f] \in 0..CallDepthMax
  BY DEF MarksAre, DepthIs
<1>12. e[g] = l /\ DOMAIN e = Func /\ \A f \in Func : f # g => e[f] = d[f]
  BY <1>0, <1>3, <1>11
<1>13. DepthIs(e, r)
  <2>1. l \in 0..CallDepthMax
    BY <1>0, <1>3, DepthAssumption
  <2> QED
    BY <1>3, <1>12, <2>1 DEF MarksAre, DepthIs
<1>14. VisitsAre(q)
  <2>1. ASSUME NEW i \in 1..m
        PROVE  /\ calls[i].fn \in Func /\ calls[i].level \in Nat \ {0}
               /\ calls[i].fn \in Level[calls[i].level]
    <3>1. calls[i].fn \in Called(Level[l])
      BY <1>3, <1>4, <1>5, <1>6 DEF Called
    <3>2. Level[l + 1] = Entered \cup Called(Level[l])
      BY <1>3, LevelFacts
    <3>3. calls[i].fn = Into(g)[i].id /\ calls[i].level = l + 1 /\ Into(g)[i].id \in Func
      BY <1>4, <1>5, <1>6
    <3>4. calls[i].fn \in Level[l + 1] /\ l + 1 \in Nat \ {0}
      BY <1>3, <3>1, <3>2
    <3> QED
      BY <3>3, <3>4
  <2>2. ASSUME NEW j \in 1..n
        PROVE  /\ vs[j].fn \in Func /\ vs[j].level \in Nat \ {0}
               /\ vs[j].fn \in Level[vs[j].level]
    BY <1>8 DEF MarksAre, VisitsAre
  <2>3. ASSUME NEW i \in DOMAIN q
        PROVE  /\ q[i].fn \in Func /\ q[i].level \in Nat \ {0}
               /\ q[i].fn \in Level[q[i].level]
    <3>1. CASE i \in 1..m
      <4>1. q[i] = calls[i]
        BY <1>10, <3>1
      <4> QED
        BY <2>1, <3>1, <4>1
    <3>2. CASE i \notin 1..m
      <4>1. PICK j \in 1..n : j # 1 /\ i = m + j - 1
        BY <1>10, <3>2
      <4>2. q[i] = vs[j]
        BY <1>10, <4>1
      <4> QED
        BY <2>2, <4>2
    <3> QED
      BY <3>1, <3>2
  <2> QED
    BY <1>10, <2>3 DEF VisitsAre
<1>15. ASSUME NEW h \in Func, NEW k \in Nat, Near(d, vs, h, k)
       PROVE  Near(e, q, h, k)
  <2>1. CASE d[h] # 0 /\ d[h] <= k
    <3>1. CASE h = g
      <4>1. l <= k
        BY <1>0, <1>3, <1>11, <2>1, <3>1, DepthAssumption
      <4> QED
        BY <1>3, <1>12, <3>1, <4>1 DEF Near
    <3>2. CASE h # g
      BY <1>12, <2>1, <3>2 DEF Near
    <3> QED
      BY <3>1, <3>2
  <2>2. CASE \E i \in DOMAIN vs : vs[i].fn = h /\ vs[i].level <= k
    <3>1. PICK i \in 1..n : vs[i].fn = h /\ vs[i].level <= k
      BY <1>8, <2>2
    <3>2. CASE i # 1
      BY <1>10, <3>1, <3>2 DEF Near
    <3>3. CASE i = 1
      BY <1>3, <1>12, <3>1, <3>3 DEF Near
    <3> QED
      BY <3>2, <3>3
  <2> QED
    BY <1>15, <2>1, <2>2 DEF Near
<1>16. CallsNear(e, q)
  <2> SUFFICES ASSUME NEW f \in Func, e[f] # 0, e[f] + 1 <= CallDepthMax,
                      NEW i \in DOMAIN Into(f)
               PROVE  Near(e, q, Into(f)[i].id, e[f] + 1)
    BY DEF CallsNear
  <2>1. CASE f = g
    <3>1. i \in 1..m /\ q[i].fn = Into(f)[i].id /\ q[i].level = l + 1 /\ i \in DOMAIN q
      <4>1. i \in 1..m
        BY <1>5, <2>1
      <4>2. q[i] = calls[i] /\ i \in DOMAIN q
        BY <1>10, <4>1
      <4>3. calls[i].fn = Into(g)[i].id /\ calls[i].level = l + 1
        BY <1>6, <4>1
      <4> QED
        BY <2>1, <4>1, <4>2, <4>3
    <3>2. q[i].level <= e[f] + 1
      BY <1>3, <1>12, <2>1, <3>1
    <3> QED
      BY <3>1, <3>2 DEF Near
  <2>2. CASE f # g
    <3>1. e[f] = d[f] /\ d[f] + 1 \in Nat
      BY <1>11, <1>12, <2>2, DepthAssumption
    <3>2. Near(d, vs, Into(f)[i].id, d[f] + 1)
      BY <3>1 DEF MarksAre, CallsNear
    <3>3. Into(f)[i].id \in Func
      BY IntoFacts
    <3> QED
      BY <1>15, <3>1, <3>2, <3>3
  <2> QED
    BY <2>1, <2>2
<1>17. EntriesNear(e, r, q)
  BY <1>15 DEF MarksAre, EntriesNear
<1> QED
  BY <1>7, <1>13, <1>14, <1>16, <1>17 DEF MarksAre

Fresh == root = 1 /\ visits = <<>> /\ depth = [f \in Func |-> 0]

LEMMA FreshMarks == IsList(fns) /\ Fresh => MarksInv
<1> SUFFICES ASSUME IsList(fns), Fresh PROVE MarksInv
  OBVIOUS
<1>1. Func = 1..Len(fns) /\ Len(fns) \in Nat
  BY ListFacts DEF Func
<1>2. VisitsSound
  BY NoneIsList DEF Fresh, VisitsSound
<1>3. 1 \in 1..(Len(fns) + 1) /\ 0 \in 0..CallDepthMax
  BY <1>1, DepthAssumption
<1>4. DepthSound
  BY <1>1, <1>3 DEF Fresh, DepthSound
<1> QED
  BY <1>2, <1>4 DEF Fresh, MarksInv

LEMMA MarksNext ==
    ASSUME MarksInv, CallInv, [Next]_vars, phase \in 3..8
    PROVE  MarksInv'
<1>1. CallTypes /\ IsList(fns) /\ (phase < 7 => Fresh) /\ MarksAre(depth, root, visits)
  BY MarksSame DEF MarksInv, CallInv, Fresh
<1>2. ASSUME UNCHANGED progVars, UNCHANGED markVars, phase < 7 PROVE MarksInv'
  <2>1. (IsList(fns) /\ Fresh => MarksInv)'
    BY FreshMarks, PTL
  <2>2. IsList(fns') /\ Fresh'
    BY <1>1, <1>2 DEF Fresh, progVars, markVars, Func
  <2> QED
    BY <2>1, <2>2
<1>3. ASSUME UNCHANGED progVars, UNCHANGED <<callees, callers>>, phase >= 7, phase' >= 7,
             phase' \in Nat, MarksAre(depth', root', visits')
      PROVE  MarksInv'
  <2>1. UNCHANGED <<fns, kernel, callees, callers>>
    BY <1>3 DEF progVars
  <2>2. (VisitsSound /\ DepthSound)'
    BY <1>3, <2>1, MarksSame
  <2> QED
    BY <1>1, <1>3, <2>1, <2>2 DEF MarksInv
<1>4. CASE \E u \in Image : Worker(u)
  <2>1. UNCHANGED progVars /\ UNCHANGED markVars /\ phase < 7
    BY <1>4 DEF Worker, Step3, MarkField, Step456
  <2> QED
    BY <1>2, <2>1
<1>5. CASE NextStep
  <2>1. UNCHANGED progVars /\ UNCHANGED markVars /\ phase < 7
    <3>1. phase \in 3..6 /\ UNCHANGED progVars /\ UNCHANGED markVars
      BY <1>5 DEF NextStep
    <3> QED
      BY <3>1
  <2> QED
    BY <1>2, <2>1
<1>6. CASE MarkEntry
  <2>1. /\ UNCHANGED progVars /\ UNCHANGED <<callees, callers>> /\ phase = 7 /\ phase' = 7
    BY <1>6, MarkEntryCalls DEF callVars
  <2>2. CASE NextEntry
    <3>1. /\ visits = <<>> /\ root \in Func /\ root' = root + 1 /\ depth' = depth
          /\ visits' = IF IsEntry(root) THEN <<[fn |-> root, level |-> 1]>> ELSE <<>>
      BY <2>2 DEF NextEntry
    <3>2. PICK vs : vs = visits'
      OBVIOUS
    <3>3. MarksAre(depth, root + 1, vs)
      BY <1>1, <3>1, <3>2, EntryKeeps
    <3> QED
      BY <1>3, <2>1, <3>1, <3>2, <3>3
  <2>3. CASE mark_subcall_entry
    <3>1. PICK g, l, v : v = Head(visits) /\ g = v.fn /\ l = v.level
      OBVIOUS
    <3>2. visits # <<>> /\ root' = root
      BY <2>3 DEF mark_subcall_entry
    <3>3. l \in Nat /\ CallDepthMax \in Nat
      <4>1. IsList(visits)
        BY <1>1 DEF MarksAre, VisitsAre
      <4>2. v = visits[1] /\ 1 \in DOMAIN visits
        BY <3>1, <3>2, <4>1, NoneIsList, ReplacedTask
      <4> QED
        BY <1>1, <3>1, <4>2, DepthAssumption DEF MarksAre, VisitsAre
    <3>4. CASE (depth[g] # 0 /\ depth[g] <= l) \/ l > CallDepthMax
      <4>1. visits' = Tail(visits) /\ depth' = depth
        BY <2>3, <3>1, <3>4 DEF mark_subcall_entry, NoNearer, TooDeep
      <4>2. MarksAre(depth, root, Tail(visits))
        BY <1>1, <3>1, <3>2, <3>4, DropKeeps
      <4> QED
        BY <1>3, <2>1, <3>2, <4>1, <4>2
    <3>5. CASE ~ ((depth[g] # 0 /\ depth[g] <= l) \/ l > CallDepthMax)
      <4>1. PICK e, calls :
               /\ e = [depth EXCEPT ![g] = l]
               /\ calls = [i \in DOMAIN Into(g) |-> [fn |-> Into(g)[i].id, level |-> l + 1]]
        OBVIOUS
      <4>2. depth' = e /\ visits' = calls \o Tail(visits)
        BY <2>3, <3>1, <3>5, <4>1 DEF mark_subcall_entry, NoNearer, TooDeep
      <4>3. l <= CallDepthMax
        BY <3>3, <3>5
      <4>5. g = Head(visits).fn /\ l = Head(visits).level
        BY <3>1
      <4>6. ~ (depth[g] # 0 /\ depth[g] <= l)
        BY <3>5
      <4>7. MarksAre(depth, root, visits)
        BY <1>1
      <4>4. MarksAre(e, root, calls \o Tail(visits))
        <5>1. Come(depth, visits, g, l, e, calls)
          BY <3>2, <4>1, <4>3, <4>5, <4>6 DEF Come
        <5> QED
          BY <1>1, <4>7, <5>1, MarkKeeps
      <4> QED
        BY <1>3, <2>1, <3>2, <4>2, <4>4
    <3> QED
      BY <3>4, <3>5
  <2> QED
    BY <1>6, <2>2, <2>3 DEF MarkEntry
<1>7. CASE MarksOver
  <2>1. /\ UNCHANGED progVars /\ UNCHANGED <<callees, callers>> /\ phase = 7 /\ phase' = 8
        /\ depth' = depth /\ root' = root /\ visits' = visits
    BY <1>7 DEF MarksOver, callVars, markVars
  <2> QED
    BY <1>1, <1>3, <2>1
<1>8. CASE UNCHANGED vars
  <2>1. /\ UNCHANGED progVars /\ UNCHANGED markVars /\ UNCHANGED <<callees, callers>>
        /\ phase' = phase /\ depth' = depth /\ root' = root /\ visits' = visits
    BY <1>8 DEF vars, callVars, markVars
  <2> QED
    BY <1>1, <1>2, <1>3, <2>1
<1> QED
  BY <1>4, <1>5, <1>6, <1>7, <1>8 DEF Next, Main

(***************************************************************************)
(* Types                                                                   *)
(***************************************************************************)
LEMMA TypesFollow == DetailInv /\ CallInv /\ MarksInv => TypeOK
<1> SUFFICES ASSUME DetailInv, CallInv, MarksInv PROVE TypeOK
  OBVIOUS
<1>1. phase \in 3..8 /\ isSet \subseteq Nodes /\ variant \subseteq isSet
  BY DEF DetailInv, DetailSound, DetailTypes
<1>2. ASSUME NEW u \in Image
      PROVE  at[u] \in 1..(Len(Objects(u)) + 1) /\ Len(trail[u]) < SsaNameDepth
  BY DEF DetailInv, DetailSound, StackSound, CallInv, CallTypes, TrailSound
<1>3. ASSUME NEW f \in Func
      PROVE  /\ depth[f] \in 0..CallDepthMax /\ Range(callers[f]) \subseteq Func
             /\ \A i \in DOMAIN callees[f] :
                   callees[f][i].kind = "func" => callees[f][i].id \in Func
  <2>1. callers[f] \in Seq(Func) /\ ListSound(callees[f])
    BY DEF CallInv, CallTypes, CallersSound, CalleesSound
  <2>2. Range(callers[f]) \subseteq Func
    BY <2>1 DEF Range
  <2> QED
    BY <2>1, <2>2 DEF ListSound, ValueSound, MarksInv, DepthSound
<1>4. bug \in {"", "name", "depth", "null"}
  BY DEF CallInv, CallTypes
<1> QED
  BY <1>1, <1>2, <1>3, <1>4 DEF TypeOK

LEMMA AllMarks == Spec => []MarksInv
<1>1. Init => MarksInv
  <2>1. Init => IsList(fns) /\ Fresh
    BY ProgramAssumption DEF Init, InitMarks, Fresh, CallsSound
  <2> QED
    BY <2>1, FreshMarks
<1>2. MarksInv /\ CallInv /\ DetailInv /\ [Next]_vars => MarksInv'
  BY MarksNext DEF DetailInv
<1> QED
  BY <1>1, <1>2, DetailInvariant, CallInvariant, PTL DEF Spec

(* What STEP3 to STEP6 and mark_entry keep is of its type: nothing that    *)
(* they refer to is beyond what the program declares, no trail is full and *)
(* no depth beyond CALL_DEPTH_MAX.                                         *)
THEOREM TypeCorrect == Spec => []TypeOK
<1>1. DetailInv /\ CallInv /\ MarksInv => TypeOK
  BY TypesFollow
<1> QED
  BY <1>1, DetailInvariant, CallInvariant, AllMarks, PTL

(* call_depth, once mark_entry is over, is the distance from the nearest   *)
(* entry, and 0 for what is farther than CALL_DEPTH_MAX: the walk comes to *)
(* functions by longer paths first and marks them again, and gives up what *)
(* it need not follow.                                                     *)
THEOREM DepthRight == Spec => []DepthIsDistance
<1>1. MarksInv => DepthIsDistance
  BY DistancesFound DEF DepthIsDistance
<1> QED
  BY <1>1, AllMarks, PTL

(***************************************************************************)
(* Lists of tasks                                                          *)
(***************************************************************************)
NameLike(t) == t.do \in {"name", "var of", "pop"}
FuncCallee(t) == t.do = "callee" /\ t.kind = "func"
PairOf(c, t) == FuncCallee(c) /\ t.do = "caller" /\ t.f = c.f /\ t.g = c.id

(* A call of a function is recorded with both of them, the callee first.   *)
Paired(s) == \A p \in 1..Len(s) : FuncCallee(s[p]) =>
                p + 1 \in 1..Len(s) /\ PairOf(s[p], s[p + 1])
Made(s) ==
    /\ IsList(s) /\ Paired(s)
    /\ \A p \in 1..Len(s) : s[p].do = "caller" => p # 1 /\ PairOf(s[p - 1], s[p])
Quiet(s) == Made(s) /\ \A p \in 1..Len(s) : ~ NameLike(s[p]) /\ s[p].do # "call"

LEMMA NoMade == Quiet(<<>>)
BY NoneIsList DEF Quiet, Made, Paired

LEMMA OneMade ==
    ASSUME NEW t, ~ FuncCallee(t), t.do # "caller"
    PROVE  Made(<<t>>) /\ (~ NameLike(t) /\ t.do # "call" => Quiet(<<t>>))
<1>1. PICK s : s = <<t>>
  OBVIOUS
<1>2. IsList(s) /\ Len(s) = 1 /\ s[1] = t /\ \A p \in 1..1 : p = 1
  BY <1>1, OneIsList
<1>3. Made(s)
  BY <1>2 DEF Made, Paired
<1> QED
  BY <1>1, <1>2, <1>3 DEF Quiet

LEMMA CallMade ==
    ASSUME NEW t, NEW g, NEW m, NEW a
    PROVE  Quiet(<<Callee(t, "func", g, m), Caller(t, g, a)>>)
<1>1. PICK c, d, s : c = Callee(t, "func", g, m) /\ d = Caller(t, g, a) /\ s = <<c, d>>
  OBVIOUS
<1>2. IsList(s) /\ Len(s) = 2 /\ s[1] = c /\ s[2] = d /\ \A p \in 1..2 : p = 1 \/ p = 2
  BY <1>1, TwoIsList
<1>3. /\ c.do = "callee" /\ c.kind = "func" /\ c.f = t.f /\ c.id = g
      /\ d.do = "caller" /\ d.f = t.f /\ d.g = g
  BY <1>1 DEF Callee, Caller
<1>4. PairOf(c, d)
  BY <1>3 DEF PairOf, FuncCallee
<1>5. Made(s)
  BY <1>2, <1>3, <1>4 DEF Made, Paired, FuncCallee
<1>6. Quiet(s)
  BY <1>2, <1>3, <1>5 DEF Quiet, NameLike
<1> QED
  BY <1>1, <1>6

(* Tasks of one kind, other than calls.                                    *)
LEMMA SameMade ==
    ASSUME NEW s, IsList(s), NEW do, do \notin {"callee", "caller"},
           \A i \in DOMAIN s : s[i].do = do
    PROVE  Made(s) /\ (do \notin {"name", "var of", "pop", "call"} => Quiet(s))
<1>1. DOMAIN s = 1..Len(s)
  BY ListFacts
<1>2. Made(s)
  BY <1>1 DEF Made, Paired, FuncCallee
<1> QED
  BY <1>1, <1>2 DEF Quiet, NameLike

LEMMA JoinedMade ==
    ASSUME NEW s, NEW t, Made(s), Made(t)
    PROVE  /\ Made(s \o t)
           /\ Quiet(s) /\ Quiet(t) => Quiet(s \o t)
<1>1. PICK r : r = s \o t
  OBVIOUS
<1>2. IsList(s) /\ IsList(t)
  BY DEF Made
<1>3. Joined(r, s, t)
  BY <1>1, <1>2, JoinedLists
<1>4. PICK a \in Nat, b \in Nat : a = Len(s) /\ b = Len(t)
  BY <1>2, ListFacts
<1>5. /\ IsList(r) /\ Len(r) = a + b
      /\ \A i \in 1..a : r[i] = s[i]
      /\ \A i \in 1..b : r[a + i] = t[i]
      /\ \A i \in 1..(a + b) : i \in 1..a \/ \E j \in 1..b : i = a + j
  BY <1>3, <1>4 DEF Joined
<1>6. ASSUME NEW i \in 1..(a + b), FuncCallee(r[i])
      PROVE  i + 1 \in 1..(a + b) /\ PairOf(r[i], r[i + 1])
  <2>1. CASE i \in 1..a
    <3>1. i + 1 \in 1..a /\ PairOf(s[i], s[i + 1])
      BY <1>4, <1>5, <1>6, <2>1 DEF Made, Paired
    <3> QED
      BY <1>5, <2>1, <3>1
  <2>2. CASE i \notin 1..a
    <3>1. PICK j \in 1..b : i = a + j
      BY <1>5, <2>2
    <3>2. j + 1 \in 1..b /\ PairOf(t[j], t[j + 1])
      BY <1>4, <1>5, <1>6, <3>1 DEF Made, Paired
    <3>3. r[a + (j + 1)] = t[j + 1] /\ i + 1 = a + (j + 1) /\ r[i] = t[j]
      BY <1>5, <3>1, <3>2
    <3> QED
      BY <3>1, <3>2, <3>3
  <2> QED
    BY <2>1, <2>2
<1>7. ASSUME NEW i \in 1..(a + b), r[i].do = "caller"
      PROVE  i # 1 /\ PairOf(r[i - 1], r[i])
  <2>1. CASE i \in 1..a
    <3>1. i # 1 /\ PairOf(s[i - 1], s[i])
      BY <1>4, <1>5, <1>7, <2>1 DEF Made
    <3>2. i - 1 \in 1..a
      BY <2>1, <3>1
    <3> QED
      BY <1>5, <2>1, <3>1, <3>2
  <2>2. CASE i \notin 1..a
    <3>1. PICK j \in 1..b : i = a + j
      BY <1>5, <2>2
    <3>2. j # 1 /\ PairOf(t[j - 1], t[j])
      BY <1>4, <1>5, <1>7, <3>1 DEF Made
    <3>3. j - 1 \in 1..b /\ i - 1 = a + (j - 1)
      BY <3>1, <3>2
    <3>4. r[i - 1] = t[j - 1] /\ r[i] = t[j] /\ i # 1
      BY <1>5, <3>1, <3>2, <3>3
    <3> QED
      BY <3>2, <3>4
  <2> QED
    BY <2>1, <2>2
<1>8. Made(r)
  BY <1>5, <1>6, <1>7 DEF Made, Paired
<1>9. ASSUME Quiet(s), Quiet(t) PROVE Quiet(r)
  <2>1. ASSUME NEW i \in 1..(a + b) PROVE ~ NameLike(r[i]) /\ r[i].do # "call"
    <3>1. CASE i \in 1..a
      BY <1>4, <1>5, <1>9, <3>1 DEF Quiet
    <3>2. CASE i \notin 1..a
      <4>1. PICK j \in 1..b : i = a + j
        BY <1>5, <3>2
      <4> QED
        BY <1>4, <1>5, <1>9, <4>1 DEF Quiet
    <3> QED
      BY <3>1, <3>2
  <2> QED
    BY <1>5, <1>8, <2>1 DEF Quiet
<1> QED
  BY <1>1, <1>8, <1>9

LEMMA ValuesMade ==
    ASSUME NEW t, NEW v
    PROVE  Quiet(Values(t, v))
<1>1. CASE get_target_var_node(t.f, v) = 0
  BY <1>1, NoMade DEF Values
<1>2. CASE get_target_var_node(t.f, v) # 0
  <2>1. PICK c : c = [do |-> "values", f |-> t.f, k |-> t.k, v |-> v, i |-> 1]
    OBVIOUS
  <2>2. c.do = "values" /\ Values(t, v) = <<c>>
    BY <1>2, <2>1 DEF Values
  <2> QED
    BY <2>2, OneMade DEF FuncCallee, NameLike
<1> QED
  BY <1>1, <1>2

LEMMA InitsMade ==
    ASSUME CallTypes, NEW v \in DOMAIN vars_
    PROVE  Quiet(InitsOf(v))
<1>1. PICK s : s = InitsOf(v)
  OBVIOUS
<1>2. IsList(s)
  BY <1>1, InitsSound DEF TasksSound
<1>3. \A i \in DOMAIN s : s[i].do = "init"
  BY <1>1 DEF InitsOf
<1> QED
  BY <1>1, <1>2, <1>3, SameMade

LEMMA DefinitionMade ==
    ASSUME CallTypes, NEW t \in NameTasks
    PROVE  /\ Made(Definition(t))
           /\ names[t.n].def # "phi" => Quiet(Definition(t))
           /\ names[t.n].def = "phi" =>
                 \A i \in DOMAIN Definition(t) :
                    /\ Definition(t)[i].do = "name" /\ Definition(t)[i].inner = TRUE
                    /\ Definition(t)[i].n \in FedBy(t.n)
<1>1. PICK s : s = Definition(t)
  OBVIOUS
<1>2. IsList(s)
  BY <1>1, DefinitionSound DEF TasksSound
<1>3. CASE names[t.n].def = "phi"
  <2>1. \A i \in DOMAIN s : s[i] \in JoinTasks(t)
    BY <1>1, <1>3, DefinitionJoins, SeqIsList
  <2>2. \A i \in DOMAIN s : /\ s[i].do = "name" /\ s[i].inner = TRUE
                            /\ s[i].n \in FedBy(t.n)
    BY <2>1 DEF JoinTasks, Name
  <2>3. Made(s)
    BY <1>2, <2>2, SameMade
  <2> QED
    BY <1>1, <1>3, <2>2, <2>3
<1>4. CASE names[t.n].def = "var"
  <2>1. s = Values(t, names[t.n].args[1])
    BY <1>1, <1>4 DEF Definition
  <2> QED
    BY <1>1, <1>4, <2>1, ValuesMade DEF Quiet
<1>5. CASE names[t.n].def = "fn"
  <2>1. s = call_func_decl(t, names[t.n].args[1])
    BY <1>1, <1>5 DEF Definition
  <2> QED
    BY <1>1, <1>5, <2>1, CallMade DEF Quiet, call_func_decl
<1>6. CASE names[t.n].def \notin {"phi", "var", "fn"}
  BY <1>6, NoMade DEF Definition, Quiet
<1> QED
  BY <1>3, <1>4, <1>5, <1>6

(* Steps that leave the lists of callers and callees and the trail alone,  *)
(* and the one that begins to follow a name.                               *)
QuietStep(u) ==
    \E tasks : /\ Then(u, tasks) /\ Quiet(tasks) /\ todo[u] # <<>>
               /\ Task(u).do \in {"init", "var", "fn", "uses", "values", "asm call", "call"}
               /\ UNCHANGED <<callees, callers, trail, bug>>
NameStep(u) ==
    \E t : /\ Then(u, <<t>>) /\ t \in NameTasks /\ t.do = "name" /\ ~ t.inner
           /\ todo[u] # <<>> /\ Task(u).do = "call"
           /\ trail' = [trail EXCEPT ![u] = <<>>]
           /\ UNCHANGED <<callees, callers, bug>>

LEMMA IsQuiet ==
    ASSUME NEW u, NEW t, NEW tasks, Then(u, tasks), Quiet(tasks),
           todo[u] # <<>>, t = Task(u),
           t.do \in {"init", "var", "fn", "uses", "values", "asm call", "call"},
           UNCHANGED <<callees, callers, trail, bug>>
    PROVE  QuietStep(u)
BY DEF QuietStep

(* The task that a call of the code begins with, as the proofs name it.    *)
LEMMA HeadTask ==
    ASSUME NEW u, NEW do, Busy(u, do)
    PROVE  todo[u] # <<>> /\ Task(u).do = do
BY DEF Busy, Task

LEMMA QuietSteps ==
    ASSUME CallTypes, NEW u \in Image, CallStep(u)
    PROVE  \/ QuietStep(u) \/ NameStep(u)
           \/ __add_call(u) \/ add_caller(u)
           \/ call_ssaname(u) \/ LeaveName(u) \/ ssaname_node_pop(u)
<1>1. PICK t : t = Task(u)
  OBVIOUS
<1>2. todo[u] # <<>>
  BY HeadTask DEF CallStep, do_init_value, do_var_decl_phase4, do_function_decl,
     __do_func_used_at, __trace_call_gs, add_possible_callee, indcfg1_do_call,
     __add_call, add_caller, call_ssaname, LeaveName, ssaname_node_pop
<1>10. TaskSound(t)
  BY <1>1, <1>2, TaskFacts DEF Task
<1>3. CASE do_init_value(u)
  <2>1. /\ t.do = "init" /\ UNCHANGED <<callees, callers, trail, bug>>
        /\ Then(u, <<>>)
    BY <1>1, <1>3, HeadTask DEF do_init_value
  <2> QED
    BY <1>1, <1>2, <2>1, NoMade, IsQuiet
<1>4. CASE do_var_decl_phase4(u)
  <2>1. /\ t.do = "var" /\ UNCHANGED <<callees, callers, trail, bug>>
        /\ Then(u, IF vars_[t.v].class = "local" THEN InitsOf(t.v) ELSE <<>>)
    BY <1>1, <1>4, HeadTask DEF do_var_decl_phase4
  <2>2. t.v \in DOMAIN vars_
    BY <1>10, <2>1 DEF TaskSound
  <2>3. Quiet(IF vars_[t.v].class = "local" THEN InitsOf(t.v) ELSE <<>>)
    BY <2>2, NoMade, InitsMade
  <2> QED
    BY <1>1, <1>2, <2>1, <2>3, IsQuiet
<1>5. CASE do_function_decl(u)
  <2>1. /\ t.do = "fn" /\ UNCHANGED <<callees, callers, trail, bug>>
        /\ Then(u, <<>>)
    BY <1>1, <1>5, HeadTask DEF do_function_decl
  <2> QED
    BY <1>1, <1>2, <2>1, NoMade, IsQuiet
<1>6. CASE __do_func_used_at(u)
  <2>1. t.do = "uses" /\ UNCHANGED <<callees, callers, trail, bug>>
    BY <1>1, <1>6, HeadTask DEF __do_func_used_at
  <2>2. PICK q : q = [t EXCEPT !.i = @ + 1]
    OBVIOUS
  <2>3. Then(u, <<>>) \/ Then(u, <<q>>)
    BY <1>1, <1>6, <2>2 DEF __do_func_used_at
  <2>4. q.do = "uses"
    BY <1>10, <2>1, <2>2 DEF TaskSound, UsesTasks
  <2>5. Quiet(<<q>>)
    BY <2>4, OneMade DEF FuncCallee, NameLike
  <2> QED
    BY <1>1, <1>2, <2>1, <2>3, <2>5, NoMade, IsQuiet
<1>7. CASE add_possible_callee(u)
  <2>1. t.do = "values" /\ UNCHANGED <<callees, callers, trail, bug>>
    BY <1>1, <1>7, HeadTask DEF add_possible_callee
  <2>2. PICK q, p : q = [t EXCEPT !.i = @ + 1] /\ p = possible[t.v][t.i]
    OBVIOUS
  <2>3. PICK r : r = IF p.kind # "func" THEN <<>>
                     ELSE <<Callee(t, "func", p.id, ~ HasBody(p.id)),
                            Caller(t, p.id, TRUE)>>
    OBVIOUS
  <2>4. Then(u, <<>>) \/ Then(u, r \o <<q>>)
    BY <1>1, <1>7, <2>2, <2>3 DEF add_possible_callee
  <2>5. q.do = "values"
    BY <1>10, <2>1, <2>2 DEF TaskSound, ValuesTasks
  <2>6. Quiet(<<q>>) /\ Quiet(r)
    BY <2>3, <2>5, OneMade, NoMade, CallMade DEF FuncCallee, NameLike
  <2>7. Quiet(r \o <<q>>)
    BY <2>6, JoinedMade DEF Quiet
  <2> QED
    BY <1>1, <1>2, <2>1, <2>4, <2>7, NoMade, IsQuiet
<1>8. CASE indcfg1_do_call(u)
  <2>1. t.do = "asm call" /\ UNCHANGED <<callees, callers, trail, bug>>
    BY <1>1, <1>8, HeadTask DEF indcfg1_do_call
  <2>2. PICK g, m : g = addr2sinode(Stmt(t.f, t.k)) /\ m = ~ HasBody(g)
    OBVIOUS
  <2>3. Then(u, IF g = 0 THEN <<>> ELSE <<Callee(t, "func", g, m), Caller(t, g, FALSE)>>)
    BY <1>1, <1>8, <2>2 DEF indcfg1_do_call
  <2> QED
    BY <1>1, <1>2, <2>1, <2>3, NoMade, CallMade, IsQuiet
<1>9. CASE __trace_call_gs(u)
  <2>1. PICK s : s = Stmt(t.f, t.k)
    OBVIOUS
  <2>2. t.do = "call" /\ UNCHANGED <<callees, callers, bug>>
    BY <1>1, <1>9, HeadTask DEF __trace_call_gs
  <2>3. CASE s.via = "fn"
    <3>8. UNCHANGED <<callees, callers, trail, bug>>
      BY <1>1, <1>9, <2>1, <2>2, <2>3 DEF __trace_call_gs
    <3>1. Then(u, <<Callee(t, "func", s.id, FALSE), Caller(t, s.id, TRUE)>>)
      BY <1>1, <1>9, <2>1, <2>3 DEF __trace_call_gs, call_func_decl
    <3> QED
      BY <1>1, <1>2, <2>2, <3>8, IsQuiet, <3>1, CallMade
  <2>4. CASE s.via \in {"tree", "internal"}
    <3>8. UNCHANGED <<callees, callers, trail, bug>>
      BY <1>1, <1>9, <2>1, <2>2, <2>4 DEF __trace_call_gs
    <3>1. PICK c : c = Callee(t, s.via, s.id, TRUE)
      OBVIOUS
    <3>2. Then(u, <<c>>)
      BY <1>1, <1>9, <2>1, <2>4, <3>1 DEF __trace_call_gs
    <3>3. c.do = "callee" /\ c.kind = s.via
      BY <3>1 DEF Callee
    <3>4. Quiet(<<c>>)
      BY <2>4, <3>3, OneMade DEF FuncCallee, NameLike
    <3> QED
      BY <1>1, <1>2, <2>2, <3>8, IsQuiet, <3>2, <3>4
  <2>5. CASE s.via = "var"
    <3>8. UNCHANGED <<callees, callers, trail, bug>>
      BY <1>1, <1>9, <2>1, <2>2, <2>5 DEF __trace_call_gs
    <3>1. Then(u, Values(t, s.id))
      BY <1>1, <1>9, <2>1, <2>5 DEF __trace_call_gs
    <3> QED
      BY <1>1, <1>2, <2>2, <3>8, IsQuiet, <3>1, ValuesMade
  <2>6. CASE s.via \notin {"fn", "tree", "internal", "var", "name"}
    <3>8. UNCHANGED <<callees, callers, trail, bug>>
      BY <1>1, <1>9, <2>1, <2>2, <2>6 DEF __trace_call_gs
    <3>1. Then(u, <<>>)
      BY <1>1, <1>9, <2>1, <2>6 DEF __trace_call_gs
    <3> QED
      BY <1>1, <1>2, <2>2, <3>8, IsQuiet, <3>1, NoMade
  <2>7. CASE s.via = "name"
    <3>3. <<t.f, t.k>> \in Uses /\ s.op = "call" /\ t.f \in CFunc
      BY <1>10, <2>1, <2>2 DEF TaskSound
    <3>4. StmtSound(s, Func, DOMAIN vars_, DOMAIN names)
      BY <2>1, <3>3, ProgramFacts
    <3>5. s.id \in DOMAIN names
      BY <2>7, <3>3, <3>4 DEF StmtSound
    <3>6. PICK n : n = Name(t, s.id, FALSE)
      OBVIOUS
    <3>7. n \in NameTasks
      <4>1. t.k \in Nat /\ FALSE \in BOOLEAN
        BY <3>3 DEF Uses
      <4> QED
        BY <3>3, <3>5, <3>6, <4>1, NameIsTask
    <3>8. n.do = "name" /\ ~ n.inner
      BY <3>6 DEF Name
    <3>9. /\ Then(u, <<n>>) /\ trail' = [trail EXCEPT ![u] = <<>>]
          /\ UNCHANGED <<callees, callers, bug>>
      BY <1>1, <1>9, <2>1, <2>7, <3>6 DEF __trace_call_gs
    <3> QED
      BY <1>1, <1>2, <2>2, <3>7, <3>8, <3>9 DEF NameStep
  <2> QED
    BY <2>3, <2>4, <2>5, <2>6, <2>7
<1> QED
  BY <1>3, <1>4, <1>5, <1>6, <1>7, <1>8, <1>9, SMTT(30) DEF CallStep

(***************************************************************************)
(* Callers and callees                                                     *)
(***************************************************************************)
KnownCall(cs, f, g) == \E i \in DOMAIN cs[f] : Same(cs[f][i], "func", g)
ListedCaller(rs, f, h) == f \in Range(rs[h])
Awaits(t, f, h) == t.do = "caller" /\ t.f = f /\ Reaches(f, t.g, h)
AwaitedIn(s, f, h) == \E p \in 1..Len(s) : Awaits(s[p], f, h)
Backed(cs, f, g) == \E x \in Func : /\ KnownCall(cs, f, x)
                                    /\ \A h \in Func : Reaches(f, g, h) => Reaches(f, x, h)

(* A caller that is still to be entered follows its callee, or the callee  *)
(* is entered already.                                                     *)
FollowsIn(cs, s) ==
    \A p \in 1..Len(s) : s[p].do = "caller" =>
        (p # 1 /\ PairOf(s[p - 1], s[p])) \/ Backed(cs, s[p].f, s[p].g)

CallersReal(cs, rs) ==
    \A f \in Func, h \in Func : HasBody(h) /\ ListedCaller(rs, f, h) =>
        \E g \in Func : KnownCall(cs, f, g) /\ Reaches(f, g, h)
CalleesTold(cs, rs, td) ==
    \A f \in Func, g \in Func, h \in Func :
        HasBody(h) /\ KnownCall(cs, f, g) /\ Reaches(f, g, h) =>
            ListedCaller(rs, f, h) \/ \E u \in Image : AwaitedIn(td[u], f, h)
GraphIs(cs, rs, td) ==
    /\ \A u \in Image : Paired(td[u]) /\ FollowsIn(cs, td[u])
    /\ CallersReal(cs, rs) /\ CalleesTold(cs, rs, td)

LEMMA ReplacedFollows ==
    ASSUME NEW s, NEW tasks, NEW r, IsList(s), s # <<>>, IsList(tasks),
           Replaced(r, tasks, s), Len(s) \in Nat \ {0},
           NEW cs, NEW ds, Paired(s), FollowsIn(cs, s), Paired(tasks), FollowsIn(ds, tasks),
           \A p \in 1..Len(s) : s[p].do = "caller" => s[p].f \in Func /\ s[p].g \in Func,
           \A f \in Func, g \in Func : KnownCall(cs, f, g) => KnownCall(ds, f, g),
           FuncCallee(s[1]) => KnownCall(ds, s[1].f, s[1].id)
    PROVE  Paired(r) /\ FollowsIn(ds, r)
<1>1. PICK a \in Nat, b \in Nat \ {0} : a = Len(tasks) /\ b = Len(s)
  BY ListFacts
<1>2. /\ IsList(r) /\ Len(r) + 1 = a + b
      /\ \A i \in 1..a : r[i] = tasks[i]
      /\ \A i \in 1..b : i # 1 => r[a + i - 1] = s[i]
      /\ \A i \in 1..Len(r) : i \in 1..a \/ \E j \in 1..b : j # 1 /\ i = a + j - 1
  BY <1>1 DEF Replaced
<1>3. PICK n \in Nat : n = Len(r) /\ n = a + b - 1
  BY <1>1, <1>2, ListFacts
<1>4. ASSUME NEW p \in 1..n, FuncCallee(r[p])
      PROVE  p + 1 \in 1..n /\ PairOf(r[p], r[p + 1])
  <2>1. CASE p \in 1..a
    <3>1. p + 1 \in 1..a /\ PairOf(tasks[p], tasks[p + 1])
      BY <1>1, <1>2, <1>4, <2>1 DEF Paired
    <3> QED
      BY <1>2, <1>3, <2>1, <3>1
  <2>2. CASE p \notin 1..a
    <3>1. PICK j \in 1..b : j # 1 /\ p = a + j - 1
      BY <1>2, <1>3, <2>2
    <3>2. r[p] = s[j]
      BY <1>2, <3>1
    <3>3. j + 1 \in 1..b /\ PairOf(s[j], s[j + 1])
      BY <1>1, <1>4, <3>2 DEF Paired
    <3>4. j + 1 # 1 /\ p + 1 = a + (j + 1) - 1 /\ p + 1 \in 1..n
      BY <1>1, <1>3, <3>1, <3>3
    <3>5. r[p + 1] = s[j + 1]
      BY <1>2, <3>3, <3>4
    <3> QED
      BY <3>2, <3>3, <3>4, <3>5
  <2> QED
    BY <2>1, <2>2
<1>5. \A f \in Func : \A g : Backed(cs, f, g) => Backed(ds, f, g)
  BY DEF Backed
<1>6. ASSUME NEW p \in 1..n, r[p].do = "caller"
      PROVE  (p # 1 /\ PairOf(r[p - 1], r[p])) \/ Backed(ds, r[p].f, r[p].g)
  <2>1. CASE p \in 1..a
    <3>1. (p # 1 /\ PairOf(tasks[p - 1], tasks[p])) \/ Backed(ds, tasks[p].f, tasks[p].g)
      BY <1>1, <1>2, <1>6, <2>1 DEF FollowsIn
    <3>2. p # 1 => p - 1 \in 1..a
      BY <1>1, <2>1
    <3> QED
      BY <1>2, <2>1, <3>1, <3>2
  <2>2. CASE p \notin 1..a
    <3>1. PICK j \in 1..b : j # 1 /\ p = a + j - 1
      BY <1>2, <1>3, <2>2
    <3>2. r[p] = s[j]
      BY <1>2, <3>1
    <3>3. s[j].f \in Func /\ s[j].g \in Func
      BY <1>1, <1>6, <3>2
    <3>4. PairOf(s[j - 1], s[j]) \/ Backed(cs, s[j].f, s[j].g)
      BY <1>1, <1>6, <3>2 DEF FollowsIn
    <3>5. CASE Backed(cs, s[j].f, s[j].g)
      BY <1>5, <3>2, <3>3, <3>5
    <3>6. CASE PairOf(s[j - 1], s[j]) /\ j = 2
      <4>1. FuncCallee(s[1]) /\ s[j].f = s[1].f /\ s[j].g = s[1].id
        BY <3>6 DEF PairOf
      <4>2. KnownCall(ds, s[j].f, s[j].g)
        BY <4>1
      <4> QED
        BY <3>2, <3>3, <4>2 DEF Backed
    <3>7. CASE PairOf(s[j - 1], s[j]) /\ j # 2
      <4>1. j - 1 \in 1..b /\ j - 1 # 1 /\ p - 1 = a + (j - 1) - 1 /\ p # 1
        BY <1>1, <3>1, <3>7
      <4>2. r[p - 1] = s[j - 1]
        BY <1>2, <4>1
      <4> QED
        BY <3>2, <3>7, <4>1, <4>2
    <3> QED
      BY <3>4, <3>5, <3>6, <3>7
  <2> QED
    BY <2>1, <2>2
<1> QED
  BY <1>3, <1>4, <1>6 DEF Paired, FollowsIn

LEMMA ReplacedAwaits ==
    ASSUME NEW s, NEW tasks, NEW r, IsList(s), s # <<>>, IsList(tasks),
           Replaced(r, tasks, s), Len(s) \in Nat \ {0}, NEW f, NEW h, AwaitedIn(s, f, h)
    PROVE  AwaitedIn(r, f, h) \/ (Awaits(s[1], f, h) /\ ~ AwaitedIn(tasks, f, h))
<1>1. PICK a \in Nat, b \in Nat \ {0} : a = Len(tasks) /\ b = Len(s)
  BY ListFacts
<1>2. /\ IsList(r) /\ Len(r) + 1 = a + b
      /\ \A i \in 1..a : r[i] = tasks[i]
      /\ \A i \in 1..b : i # 1 => r[a + i - 1] = s[i]
  BY <1>1 DEF Replaced
<1>3. PICK n \in Nat : n = Len(r) /\ n = a + b - 1
  BY <1>1, <1>2, ListFacts
<1>4. AwaitedIn(tasks, f, h) => AwaitedIn(r, f, h)
  <2>1. \A i \in 1..a : i \in 1..n
    BY <1>1, <1>3
  <2> QED
    BY <1>1, <1>2, <1>3, <2>1 DEF AwaitedIn
<1>5. PICK p \in 1..b : Awaits(s[p], f, h)
  BY <1>1 DEF AwaitedIn
<1>6. CASE p # 1
  <2>1. a + p - 1 \in 1..n
    BY <1>1, <1>3, <1>6
  <2>2. r[a + p - 1] = s[p]
    BY <1>2, <1>6
  <2> QED
    BY <1>3, <1>5, <2>1, <2>2 DEF AwaitedIn
<1> QED
  BY <1>4, <1>5, <1>6
(* What the task at hand leaves of the lists and puts in its own place.    *)
Told(t, tasks, cs, ds, rs) ==
    /\ Paired(tasks) /\ FollowsIn(ds, tasks)
    /\ \A f \in Func, g \in Func : KnownCall(cs, f, g) => KnownCall(ds, f, g)
    /\ FuncCallee(t) => KnownCall(ds, t.f, t.id)
    /\ \A f \in Func, g \in Func :
          KnownCall(ds, f, g) => \/ KnownCall(cs, f, g)
                                 \/ FuncCallee(t) /\ f = t.f /\ g = t.id
    /\ \A f \in Func, h \in Func : Awaits(t, f, h) /\ HasBody(h) =>
          ListedCaller(rs, f, h) \/ AwaitedIn(tasks, f, h)
Heard(t, qs, rs) ==
    /\ \A f \in Func, h \in Func : ListedCaller(qs, f, h) => ListedCaller(rs, f, h)
    /\ \A f \in Func, h \in Func : HasBody(h) /\ ListedCaller(rs, f, h) =>
          \/ ListedCaller(qs, f, h)
          \/ t.do = "caller" /\ f = t.f /\ h = t.g

LEMMA ReachesSelf == \A f, g : Reaches(f, g, g)
BY DEF Reaches, StandsFor

(* The step of one worker, in terms of what it changes.                    *)
LEMMA GraphMoves ==
    ASSUME CallTypes, NEW u \in Image, todo[u] # <<>>, NEW tasks, IsList(tasks),
           NEW cs, NEW rs, NEW td, GraphIs(callees, callers, todo),
           Replaced(td[u], tasks, todo[u]), \A v \in Image : v # u => td[v] = todo[v],
           Told(Task(u), tasks, callees, cs, rs), Heard(Task(u), callers, rs)
    PROVE  GraphIs(cs, rs, td)
<1>1. PICK s, r, t : s = todo[u] /\ r = td[u] /\ t = Task(u)
  OBVIOUS
<1>2. /\ IsList(s) /\ s # <<>> /\ Len(s) \in Nat \ {0} /\ t = s[1] /\ TaskSound(t)
      /\ \A p \in 1..Len(s) : TaskSound(s[p])
  <2>1. TasksSound(s)
    BY <1>1 DEF CallTypes, TodoSound
  <2> QED
    BY <1>1, <2>1, TaskFacts DEF TasksSound
<1>3. Told(t, tasks, callees, cs, rs) /\ Heard(t, callers, rs) /\ Replaced(r, tasks, s)
  BY <1>1
<1>4. Paired(s) /\ FollowsIn(callees, s)
  BY <1>1 DEF GraphIs
<1>5. \A p \in 1..Len(s) : s[p].do = "caller" => s[p].f \in Func /\ s[p].g \in Func
  <2> TAKE p \in 1..Len(s)
  <2> HAVE s[p].do = "caller"
  <2>1. s[p] \in CallerTasks
    BY <1>2 DEF TaskSound
  <2> QED
    BY <2>1 DEF CallerTasks
<1>6. \A f \in Func, g \in Func : KnownCall(callees, f, g) => KnownCall(cs, f, g)
  BY <1>3 DEF Told
<1>7. Paired(r) /\ FollowsIn(cs, r)
  <2>1. Paired(tasks) /\ FollowsIn(cs, tasks)
    BY <1>3 DEF Told
  <2>2. FuncCallee(s[1]) => KnownCall(cs, s[1].f, s[1].id)
    BY <1>2, <1>3 DEF Told
  <2> QED
    BY <1>2, <1>3, <1>4, <1>5, <1>6, <2>1, <2>2, ReplacedFollows
<1>8. ASSUME NEW v \in Image PROVE Paired(td[v]) /\ FollowsIn(cs, td[v])
  <2>1. CASE v = u
    BY <1>1, <1>7, <2>1
  <2>2. CASE v # u
    <3>1. PICK q : q = todo[v] /\ q = td[v]
      BY <2>2
    <3>2. Paired(q) /\ FollowsIn(callees, q)
      BY <3>1 DEF GraphIs
    <3>3. \A p \in 1..Len(q) : q[p].do = "caller" => q[p].f \in Func
      <4>1. TasksSound(q)
        BY <3>1 DEF CallTypes, TodoSound
      <4> TAKE p \in 1..Len(q)
      <4> HAVE q[p].do = "caller"
      <4>2. q[p] \in CallerTasks
        BY <4>1, ListFacts DEF TaskSound, TasksSound
      <4> QED
        BY <4>2 DEF CallerTasks
    <3>4. \A f \in Func : \A g : Backed(callees, f, g) => Backed(cs, f, g)
      BY <1>6 DEF Backed
    <3>5. FollowsIn(cs, q)
      BY <3>2, <3>3, <3>4 DEF FollowsIn
    <3> QED
      BY <3>1, <3>2, <3>5
  <2> QED
    BY <2>1, <2>2
<1>9. CallersReal(cs, rs)
  <2> SUFFICES ASSUME NEW f \in Func, NEW h \in Func, HasBody(h), ListedCaller(rs, f, h)
               PROVE  \E g \in Func : KnownCall(cs, f, g) /\ Reaches(f, g, h)
    BY DEF CallersReal
  <2>1. CASE ListedCaller(callers, f, h)
    <3>1. PICK g \in Func : KnownCall(callees, f, g) /\ Reaches(f, g, h)
      BY <2>1 DEF GraphIs, CallersReal
    <3> QED
      BY <1>6, <3>1
  <2>2. CASE t.do = "caller" /\ f = t.f /\ h = t.g
    <3>1. Backed(callees, f, h)
      <4>1. 1 \in 1..Len(s) /\ s[1].do = "caller"
        BY <1>2, <2>2
      <4> QED
        BY <1>2, <1>4, <2>2, <4>1 DEF FollowsIn
    <3>2. PICK x \in Func : KnownCall(callees, f, x) /\ (Reaches(f, h, h) => Reaches(f, x, h))
      BY <3>1 DEF Backed
    <3> QED
      BY <1>6, <3>2, ReachesSelf
  <2> QED
    BY <1>3, <2>1, <2>2 DEF Heard
<1>10. CalleesTold(cs, rs, td)
  <2> SUFFICES ASSUME NEW f \in Func, NEW g \in Func, NEW h \in Func,
                      HasBody(h), KnownCall(cs, f, g), Reaches(f, g, h)
               PROVE  ListedCaller(rs, f, h) \/ \E v \in Image : AwaitedIn(td[v], f, h)
    BY DEF CalleesTold
  <2>1. ASSUME NEW v \in Image, AwaitedIn(todo[v], f, h)
        PROVE  ListedCaller(rs, f, h) \/ AwaitedIn(td[v], f, h)
    <3>1. CASE v # u
      BY <2>1, <3>1
    <3>2. CASE v = u
      <4>1. AwaitedIn(s, f, h)
        BY <1>1, <2>1, <3>2
      <4>2. AwaitedIn(r, f, h) \/ (Awaits(s[1], f, h) /\ ~ AwaitedIn(tasks, f, h))
        BY <1>2, <1>3, <4>1, ReplacedAwaits
      <4>3. AwaitedIn(r, f, h) \/ (Awaits(t, f, h) /\ ~ AwaitedIn(tasks, f, h))
        BY <1>2, <4>2
      <4>4. AwaitedIn(r, f, h) \/ ListedCaller(rs, f, h)
        BY <1>3, <4>3 DEF Told
      <4> QED
        BY <1>1, <3>2, <4>4
    <3> QED
      BY <3>1, <3>2
  <2>2. CASE KnownCall(callees, f, g)
    <3>1. ListedCaller(callers, f, h) \/ \E v \in Image : AwaitedIn(todo[v], f, h)
      BY <2>2 DEF GraphIs, CalleesTold
    <3> QED
      BY <1>3, <2>1, <3>1 DEF Heard
  <2>3. CASE FuncCallee(t) /\ f = t.f /\ g = t.id
    <3>1. 1 \in 1..Len(s) /\ FuncCallee(s[1])
      BY <1>2, <2>3
    <3>2. 2 \in 1..Len(s) /\ PairOf(s[1], s[2])
      <4>1. 1 + 1 \in 1..Len(s) /\ PairOf(s[1], s[1 + 1])
        BY <1>4, <3>1 DEF Paired
      <4> QED
        BY <4>1
    <3>3. Awaits(s[2], f, h)
      BY <1>2, <2>3, <3>2 DEF Awaits, PairOf
    <3>4. AwaitedIn(todo[u], f, h)
      BY <1>1, <3>2, <3>3 DEF AwaitedIn
    <3> QED
      BY <2>1, <3>4
  <2> QED
    BY <1>3, <2>2, <2>3 DEF Told
<1> QED
  BY <1>8, <1>9, <1>10 DEF GraphIs
LEMMA GraphSame ==
    ASSUME UNCHANGED progVars, GraphIs(callees', callers', todo')
    PROVE  GraphIs(callees, callers, todo)'
<1>1. fns' = fns
  BY DEF progVars
<1>2. \A g : HasBody(g)' = HasBody(g)
  BY <1>1 DEF HasBody
<1>3. \A f, g, h : Reaches(f, g, h)' = Reaches(f, g, h)
  BY <1>1, <1>2 DEF Reaches, StandsFor, AliasClosed, Func
<1> QED
  BY <1>1, <1>2, <1>3 DEF GraphIs, CalleesTold, CallersReal, FollowsIn, Backed, AwaitedIn,
     ListedCaller, KnownCall, Paired, PairOf, FuncCallee, Same, Func, Awaits

LEMMA MadeTold ==
    ASSUME NEW t, NEW tasks, Made(tasks), ~ FuncCallee(t), t.do # "caller",
           NEW cs, NEW rs
    PROVE  Told(t, tasks, cs, cs, rs) /\ Heard(t, rs, rs)
<1>1. Paired(tasks) /\ FollowsIn(cs, tasks)
  BY DEF Made, FollowsIn
<1> QED
  BY <1>1 DEF Told, Heard, Awaits

(* The alias of a function without a body stands for what it stands for.   *)
LEMMA AliasFacts ==
    ASSUME CallTypes, NEW f \in Func, NEW g \in Func, NEW h \in Func
    PROVE  /\ HasBody(g) /\ Reaches(f, g, h) => h = g
           /\ ~ HasBody(g) /\ (AliasOf(g) = 0 \/ f \notin CFunc) /\ Reaches(f, g, h) => h = g
           /\ ~ HasBody(g) /\ AliasOf(g) # 0 /\ f \in CFunc =>
                 /\ AliasOf(g) \in Func
                 /\ Reaches(f, AliasOf(g), h) => Reaches(f, g, h)
                 /\ Reaches(f, g, h) => h = g \/ Reaches(f, AliasOf(g), h)
<1>1. AliasOf(g) \in Func \cup {0} /\ AliasOf(g) = fns[g].alias
  BY ProgramFacts DEF AliasOf
<1>2. Reaches(f, g, h) => h = g \/ (f \in CFunc /\ StandsFor(g, h))
  BY DEF Reaches, CFunc
<1>3. HasBody(g) \/ AliasOf(g) = 0 => AliasClosed({g})
  BY <1>1 DEF AliasClosed
<1>4. AliasClosed({g}) /\ StandsFor(g, h) => h = g
  BY DEF StandsFor
<1>5. ASSUME ~ HasBody(g), AliasOf(g) # 0, f \in CFunc
      PROVE  /\ AliasOf(g) \in Func
             /\ Reaches(f, AliasOf(g), h) => Reaches(f, g, h)
             /\ Reaches(f, g, h) => h = g \/ Reaches(f, AliasOf(g), h)
  <2>1. PICK a \in Func : a = AliasOf(g)
    BY <1>1, <1>5
  <2>2. \A x : Reaches(f, x, h) <=> StandsFor(x, h)
    BY <1>5 DEF Reaches, CFunc
  <2>3. StandsFor(a, h) => StandsFor(g, h)
    <3>1. \A S \in SUBSET Func : g \in S /\ AliasClosed(S) => a \in S
      BY <1>1, <1>5, <2>1 DEF AliasClosed
    <3> QED
      BY <3>1 DEF StandsFor
  <2>4. StandsFor(g, h) /\ h # g => StandsFor(a, h)
    <3> SUFFICES ASSUME StandsFor(g, h), h # g, NEW S \in SUBSET Func, a \in S, AliasClosed(S)
                 PROVE  h \in S
      BY DEF StandsFor
    <3>1. PICK T : T = S \cup {g}
      OBVIOUS
    <3>2. T \in SUBSET Func /\ g \in T /\ AliasClosed(T)
      BY <1>1, <2>1, <3>1 DEF AliasClosed
    <3>3. h \in T
      BY <3>2 DEF StandsFor
    <3> QED
      BY <3>1, <3>3
  <2> QED
    BY <2>1, <2>2, <2>3, <2>4
<1> QED
  BY <1>1, <1>2, <1>3, <1>4, <1>5
LEMMA ThenReplaces ==
    ASSUME CallTypes, NEW u \in Image, todo[u] # <<>>, NEW tasks, IsList(tasks),
           Then(u, tasks)
    PROVE  /\ Replaced(todo'[u], tasks, todo[u])
           /\ \A v \in Image : v # u => todo'[v] = todo[v]
<1>1. TasksSound(todo[u]) /\ DOMAIN todo = Image
  BY DEF CallTypes, TodoSound
<1>2. PICK r, s : r = todo'[u] /\ s = todo[u]
  OBVIOUS
<1>3. r = tasks \o Tail(s) /\ \A v \in Image : v # u => todo'[v] = todo[v]
  BY <1>1, <1>2 DEF Then
<1>4. IsList(s) /\ s # <<>>
  BY <1>1, <1>2 DEF TasksSound
<1>5. Replaced(r, tasks, s)
  BY <1>3, <1>4, ReplacedTask
<1> QED
  BY <1>2, <1>3, <1>5

(* A step that enters nothing into the lists.                              *)
MadeStep(u) ==
    \E tasks : /\ Then(u, tasks) /\ Made(tasks) /\ todo[u] # <<>>
               /\ Task(u).do \notin {"callee", "caller"}
               /\ UNCHANGED <<callees, callers>>

LEMMA IsMade ==
    ASSUME NEW u, NEW t, NEW tasks, Then(u, tasks), Made(tasks), todo[u] # <<>>,
           t = Task(u), t.do \notin {"callee", "caller"}, UNCHANGED <<callees, callers>>
    PROVE  MadeStep(u)
BY DEF MadeStep

LEMMA NameStepsMade ==
    ASSUME CallTypes, NEW u \in Image, call_ssaname(u) \/ LeaveName(u) \/ ssaname_node_pop(u)
    PROVE  MadeStep(u) \/ UNCHANGED <<todo, callees, callers>>
<1>1. PICK t : t = Task(u)
  OBVIOUS
<1>2. /\ todo[u] # <<>> /\ NameLike(t) /\ t.do \notin {"callee", "caller"}
      /\ UNCHANGED <<callees, callers>>
  <2>1. CASE call_ssaname(u)
    <3>1. todo[u] # <<>> /\ t.do = "name" /\ UNCHANGED <<listVars, callees, callers>>
      BY <1>1, <2>1, HeadTask DEF call_ssaname
    <3> QED
      BY <3>1 DEF NameLike
  <2>2. CASE LeaveName(u)
    <3>1. todo[u] # <<>> /\ t.do = "var of"
          /\ UNCHANGED <<listVars, callees, callers, trail, bug>>
      BY <1>1, <2>2, HeadTask DEF LeaveName
    <3> QED
      BY <3>1 DEF NameLike
  <2>3. CASE ssaname_node_pop(u)
    <3>1. todo[u] # <<>> /\ t.do = "pop" /\ UNCHANGED <<listVars, callees, callers>>
      BY <1>1, <2>3, HeadTask DEF ssaname_node_pop
    <3> QED
      BY <3>1 DEF NameLike
  <2> QED
    BY <2>1, <2>2, <2>3
<1>3. t \in NameTasks
  BY <1>1, <1>2, TaskFacts DEF TaskSound, NameLike
<1>4. Made(<<>>)
  BY NoMade DEF Quiet
<1>5. CASE call_ssaname(u)
  <2>1. PICK q : q = [t EXCEPT !.do = "var of"]
    OBVIOUS
  <2>2. UNCHANGED todo \/ Then(u, <<>>) \/ Then(u, Definition(t) \o <<q>>)
    BY <1>1, <1>5, <2>1 DEF call_ssaname
  <2>3. q.do = "var of"
    BY <1>3, <2>1 DEF NameTasks
  <2>4. Made(Definition(t) \o <<q>>)
    <3>1. Made(Definition(t)) /\ Made(<<q>>)
      BY <1>3, <2>3, DefinitionMade, OneMade DEF FuncCallee
    <3> QED
      BY <3>1, JoinedMade
  <2> QED
    BY <1>1, <1>2, <1>4, <2>2, <2>4, IsMade
<1>6. CASE LeaveName(u)
  <2>1. PICK q, v : q = [t EXCEPT !.do = "pop"] /\ v = names[t.n].var
    OBVIOUS
  <2>2. Then(u, IF v = 0 THEN <<>> ELSE Values(t, v) \o <<q>>)
    BY <1>1, <1>6, <2>1 DEF LeaveName
  <2>3. q.do = "pop"
    BY <1>3, <2>1 DEF NameTasks
  <2>4. Made(Values(t, v) \o <<q>>)
    <3>1. Made(Values(t, v)) /\ Made(<<q>>)
      BY <2>3, ValuesMade, OneMade DEF FuncCallee, Quiet
    <3> QED
      BY <3>1, JoinedMade
  <2>5. PICK w : w = IF v = 0 THEN <<>> ELSE Values(t, v) \o <<q>>
    OBVIOUS
  <2>6. Then(u, w) /\ Made(w)
    BY <1>4, <2>2, <2>4, <2>5
  <2> QED
    BY <1>1, <1>2, <2>6, IsMade
<1>7. CASE ssaname_node_pop(u)
  <2>1. UNCHANGED todo \/ Then(u, <<>>)
    BY <1>7 DEF ssaname_node_pop
  <2> QED
    BY <1>1, <1>2, <1>4, <2>1, IsMade
<1> QED
  BY <1>5, <1>6, <1>7

LEMMA MadeStepGraph ==
    ASSUME CallTypes, NEW u \in Image, MadeStep(u), GraphIs(callees, callers, todo)
    PROVE  GraphIs(callees', callers', todo')
<1>1. PICK tasks : /\ Then(u, tasks) /\ Made(tasks) /\ todo[u] # <<>>
                   /\ Task(u).do \notin {"callee", "caller"}
                   /\ UNCHANGED <<callees, callers>>
  BY DEF MadeStep
<1>2. IsList(tasks) /\ ~ FuncCallee(Task(u)) /\ Task(u).do # "caller"
  BY <1>1 DEF Made, FuncCallee
<1>3. Told(Task(u), tasks, callees, callees, callers) /\ Heard(Task(u), callers, callers)
  BY <1>1, <1>2, MadeTold
<1>4. /\ Replaced(todo'[u], tasks, todo[u])
      /\ \A v \in Image : v # u => todo'[v] = todo[v]
  BY <1>1, <1>2, ThenReplaces
<1>5. GraphIs(callees, callers, todo')
  BY <1>1, <1>2, <1>3, <1>4, GraphMoves
<1> QED
  BY <1>1, <1>5

LEMMA AddCallGraph ==
    ASSUME CallTypes, NEW u \in Image, __add_call(u), GraphIs(callees, callers, todo)
    PROVE  GraphIs(callees', callers', todo')
<1>1. PICK t, none : t = Task(u) /\ none = <<>>
  OBVIOUS
<1>2. /\ todo[u] # <<>> /\ t.do = "callee" /\ Then(u, none)
      /\ UNCHANGED <<listVars, callers, trail, bug>>
  BY <1>1, HeadTask DEF __add_call
<1>3. t.f \in Func /\ t.k \in Nat /\ (t.kind = "func" => t.id \in Func)
  BY <1>1, <1>2, TaskFacts DEF TaskSound, ValueSound
<1>4. PICK r, list : r = callees'[t.f] /\ list = callees[t.f]
  OBVIOUS
<1>5. ListSound(list) /\ ListAdded(r, list, t)
      /\ \A g \in Func : g # t.f => callees'[g] = callees[g]
  BY <1>1, <1>3, <1>4, AddCallList DEF CallTypes, CalleesSound
<1>6. /\ \A i \in DOMAIN r : Same(r[i], t.kind, t.id)
             \/ \E j \in DOMAIN list : Same(r[i], list[j].kind, list[j].id)
      /\ \A j \in DOMAIN list : \E i \in DOMAIN r : Same(r[i], list[j].kind, list[j].id)
      /\ \E i \in DOMAIN r : Same(r[i], t.kind, t.id)
  BY <1>3, <1>5, ListAddedFacts
<1>7. ASSUME NEW f \in Func, NEW g \in Func, KnownCall(callees, f, g)
      PROVE  KnownCall(callees', f, g)
  BY <1>4, <1>5, <1>6, <1>7 DEF KnownCall, Same
<1>8. ASSUME FuncCallee(t) PROVE KnownCall(callees', t.f, t.id)
  BY <1>4, <1>6, <1>8 DEF KnownCall, Same, FuncCallee
<1>9. ASSUME NEW f \in Func, NEW g \in Func, KnownCall(callees', f, g), ~ KnownCall(callees, f, g)
      PROVE  FuncCallee(t) /\ f = t.f /\ g = t.id
  BY <1>2, <1>4, <1>5, <1>6, <1>9 DEF KnownCall, Same, FuncCallee
<1>10. Made(none) /\ IsList(none)
  BY <1>1, NoMade DEF Quiet, Made
<1>11. Told(t, none, callees, callees', callers)
  <2>1. Paired(none) /\ FollowsIn(callees', none)
    BY <1>10 DEF Made, FollowsIn
  <2> QED
    BY <1>2, <1>7, <1>8, <1>9, <2>1 DEF Told, Awaits
<1>12. Heard(t, callers, callers)
  BY DEF Heard
<1>13. /\ Replaced(todo'[u], none, todo[u])
       /\ \A v \in Image : v # u => todo'[v] = todo[v]
  BY <1>2, <1>10, ThenReplaces
<1>14. GraphIs(callees', callers, todo')
  BY <1>1, <1>2, <1>10, <1>11, <1>12, <1>13, GraphMoves
<1> QED
  BY <1>2, <1>14

LEMMA AddCallerGraph ==
    ASSUME CallTypes, NEW u \in Image, add_caller(u), GraphIs(callees, callers, todo)
    PROVE  GraphIs(callees', callers', todo')
<1>1. PICK t, a, none : t = Task(u) /\ a = AliasOf(t.g) /\ none = <<>>
  OBVIOUS
<1>2. /\ todo[u] # <<>> /\ t.do = "caller" /\ UNCHANGED <<listVars, callees, trail>>
  BY <1>1, HeadTask DEF add_caller
<1>3. t \in CallerTasks /\ (t.alias <=> t.f \in CFunc) /\ t.f \in Func /\ t.g \in Func
  <2>1. t \in CallerTasks /\ (t.alias <=> t.f \in CFunc)
    BY <1>1, <1>2, TaskFacts DEF TaskSound
  <2> QED
    BY <2>1 DEF CallerTasks
<1>4. Made(none) /\ IsList(none) /\ AwaitedIn(none, 0, 0) \in BOOLEAN
  BY <1>1, NoMade DEF Quiet, Made, AwaitedIn
<1>5. ~ FuncCallee(t)
  BY <1>2 DEF FuncCallee
<1>6. \A f, h : Awaits(t, f, h) => f = t.f /\ Reaches(t.f, t.g, h)
  BY DEF Awaits
<1>7. ASSUME NEW tasks, Then(u, tasks), IsList(tasks), NEW rs,
             Told(t, tasks, callees, callees, rs), Heard(t, callers, rs)
      PROVE  GraphIs(callees, rs, todo')
  <2>1. /\ Replaced(todo'[u], tasks, todo[u])
        /\ \A v \in Image : v # u => todo'[v] = todo[v]
    BY <1>2, <1>7, ThenReplaces
  <2> QED
    BY <1>1, <1>2, <1>7, <2>1, GraphMoves
<1>8. CASE HasBody(t.g)
  <2>1. callers' = [callers EXCEPT ![t.g] = Add(@, t.f)] /\ Then(u, none)
    BY <1>1, <1>8 DEF add_caller
  <2>2. callers \in [Func -> Seq(Func)]
    BY DEF CallTypes, CallersSound
  <2>3. PICK old, new : old = callers[t.g] /\ new = Add(old, t.f)
    OBVIOUS
  <2>4. Range(new) = Range(old) \cup {t.f}
    <3>1. old \in Seq(Func)
      BY <1>3, <2>2, <2>3
    <3>2. PICK x \in Func : x = t.f
      BY <1>3
    <3>3. Range(Add(old, x)) = Range(old) \cup {x}
      BY <3>1, <3>2, AddFacts
    <3> QED
      BY <2>3, <3>2, <3>3
  <2>5. \A h \in Func : callers'[h] = IF h = t.g THEN new ELSE callers[h]
    BY <1>3, <2>1, <2>2, <2>3
  <2>6. \A f \in Func, h \in Func :
           ListedCaller(callers', f, h) <=>
               ListedCaller(callers, f, h) \/ (f = t.f /\ h = t.g)
    BY <2>3, <2>4, <2>5 DEF ListedCaller
  <2>7. Heard(t, callers, callers')
    BY <1>2, <2>6 DEF Heard
  <2>8. ASSUME NEW f \in Func, NEW h \in Func, Awaits(t, f, h)
        PROVE  ListedCaller(callers', f, h)
    BY <1>3, <1>6, <1>8, <2>6, <2>8, AliasFacts
  <2>9. Paired(none) /\ FollowsIn(callees, none)
    BY <1>4 DEF Made, FollowsIn
  <2>10. Told(t, none, callees, callees, callers')
    BY <1>5, <2>8, <2>9 DEF Told
  <2> QED
    BY <1>2, <1>4, <1>7, <2>1, <2>7, <2>10
<1>9. CASE ~ HasBody(t.g) /\ (~ t.alias \/ a = 0)
  <2>1. callers' = callers /\ Then(u, none)
    BY <1>1, <1>9 DEF add_caller
  <2>2. Heard(t, callers, callers)
    BY DEF Heard
  <2>3. ASSUME NEW f \in Func, NEW h \in Func, Awaits(t, f, h)
        PROVE  ~ HasBody(h)
    BY <1>1, <1>3, <1>6, <1>9, <2>3, AliasFacts
  <2>4. Paired(none) /\ FollowsIn(callees, none)
    BY <1>4 DEF Made, FollowsIn
  <2>5. Told(t, none, callees, callees, callers)
    BY <1>5, <2>3, <2>4 DEF Told
  <2> QED
    BY <1>2, <1>4, <1>7, <2>1, <2>2, <2>5
<1>10. CASE ~ HasBody(t.g) /\ t.alias /\ a # 0
  <2>1. PICK q : q = [t EXCEPT !.g = a]
    OBVIOUS
  <2>2. PICK tasks : tasks = <<q>>
    OBVIOUS
  <2>3. callers' = callers /\ Then(u, tasks)
    BY <1>1, <1>10, <2>1, <2>2 DEF add_caller
  <2>4. a \in Func /\ \A h \in Func : /\ Reaches(t.f, a, h) => Reaches(t.f, t.g, h)
                                      /\ Reaches(t.f, t.g, h) => h = t.g \/ Reaches(t.f, a, h)
    BY <1>1, <1>3, <1>10, AliasFacts
  <2>5. q.do = "caller" /\ q.f = t.f /\ q.g = a
    BY <1>3, <2>1 DEF CallerTasks
  <2>6. /\ IsList(tasks) /\ Len(tasks) = 1 /\ tasks[1] = q /\ \A p \in 1..1 : p = 1
    BY <2>2, OneIsList
  <2>7. Backed(callees, t.f, t.g)
    <3>1. PICK s : s = todo[u]
      OBVIOUS
    <3>2. FollowsIn(callees, s) /\ s[1] = t /\ 1 \in 1..Len(s)
      BY <1>1, <1>2, <3>1, TaskFacts DEF GraphIs
    <3> QED
      BY <1>2, <3>2 DEF FollowsIn
  <2>8. Backed(callees, q.f, q.g)
    BY <2>4, <2>5, <2>7 DEF Backed
  <2>9. Paired(tasks) /\ FollowsIn(callees, tasks)
    BY <2>5, <2>6, <2>8 DEF Paired, FollowsIn, FuncCallee
  <2>10. ASSUME NEW f \in Func, NEW h \in Func, Awaits(t, f, h), HasBody(h)
         PROVE  AwaitedIn(tasks, f, h)
    <3>1. f = t.f /\ Reaches(t.f, a, h)
      BY <1>6, <1>10, <2>4, <2>10
    <3>2. Awaits(q, f, h)
      BY <2>5, <3>1 DEF Awaits
    <3> QED
      BY <2>6, <3>2 DEF AwaitedIn
  <2>11. Told(t, tasks, callees, callees, callers)
    BY <1>5, <2>9, <2>10 DEF Told
  <2>12. Heard(t, callers, callers)
    BY DEF Heard
  <2> QED
    BY <1>2, <1>7, <2>3, <2>6, <2>11, <2>12
<1> QED
  BY <1>3, <1>8, <1>9, <1>10 DEF CallerTasks

LEMMA CallStepGraph ==
    ASSUME CallTypes, NEW u \in Image, CallStep(u), UNCHANGED progVars,
           GraphIs(callees, callers, todo)
    PROVE  GraphIs(callees, callers, todo)'
<1>1. CASE QuietStep(u)
  <2>1. PICK tasks : /\ Then(u, tasks) /\ Quiet(tasks) /\ todo[u] # <<>>
                     /\ Task(u).do \notin {"callee", "caller"}
                     /\ UNCHANGED <<callees, callers>>
    BY <1>1 DEF QuietStep
  <2>2. MadeStep(u)
    BY <2>1 DEF MadeStep, Quiet
  <2> QED
    BY <2>2, MadeStepGraph, GraphSame
<1>2. CASE NameStep(u)
  <2>1. PICK t : /\ Then(u, <<t>>) /\ t.do = "name" /\ todo[u] # <<>> /\ Task(u).do = "call"
                 /\ UNCHANGED <<callees, callers>>
    BY <1>2 DEF NameStep
  <2>2. Made(<<t>>)
    BY <2>1, OneMade DEF FuncCallee
  <2>3. MadeStep(u)
    BY <2>1, <2>2 DEF MadeStep
  <2> QED
    BY <2>3, MadeStepGraph, GraphSame
<1>3. CASE __add_call(u) \/ add_caller(u)
  BY <1>3, AddCallGraph, AddCallerGraph, GraphSame
<1>4. CASE call_ssaname(u) \/ LeaveName(u) \/ ssaname_node_pop(u)
  <2>1. CASE MadeStep(u)
    BY <2>1, MadeStepGraph, GraphSame
  <2>2. CASE UNCHANGED <<todo, callees, callers>>
    <3>1. GraphIs(callees', callers', todo')
      BY <2>2
    <3> QED
      BY <3>1, GraphSame
  <2> QED
    BY <1>4, <2>1, <2>2, NameStepsMade
<1> QED
  BY <1>1, <1>2, <1>3, <1>4, QuietSteps
LEMMA StartsGraph ==
    ASSUME CallTypes, NextStep, GraphIs(callees, callers, todo)
    PROVE  GraphIs(callees, callers, todo)'
<1>1. /\ \A u \in Image : todo[u] = <<>> /\ StartSound(todo'[u])
      /\ UNCHANGED <<progVars, callees, callers>>
  BY NextStepTodo
<1>2. PICK none : none = <<>> /\ 1..Len(none) = {}
  OBVIOUS
<1>3. \A f, h : ~ AwaitedIn(none, f, h)
  BY <1>2 DEF AwaitedIn
<1>4. CallersReal(callees, callers) /\ CalleesTold(callees, callers, todo')
  <2>1. \A f, h : \A u \in Image : ~ AwaitedIn(todo[u], f, h)
    BY <1>1, <1>2, <1>3
  <2> QED
    BY <2>1 DEF GraphIs, CalleesTold
<1>5. ASSUME NEW u \in Image PROVE Paired(todo'[u]) /\ FollowsIn(callees, todo'[u])
  <2>1. PICK s : s = todo'[u]
    OBVIOUS
  <2>2. IsList(s) /\ \A i \in DOMAIN s : s[i] \in StartTasks
    <3>1. s \in Seq(StartTasks)
      BY <1>1, <2>1 DEF StartSound
    <3> QED
      BY <3>1, SeqIsList
  <2>3. \A i \in 1..Len(s) : s[i].do \notin {"callee", "caller"}
    BY <2>2, ListFacts, StartTaskFacts
  <2> QED
    BY <2>1, <2>3 DEF Paired, FollowsIn, FuncCallee
<1>6. GraphIs(callees', callers', todo')
  BY <1>1, <1>4, <1>5 DEF GraphIs
<1> QED
  BY <1>1, <1>6, GraphSame

LEMMA DoublesAdded ==
    ASSUME CallTypes, NEW u \in Image, __add_call(u), \A f \in Func : NoDoubles(f)
    PROVE  \A f \in Func : NoDoubles(f)'
<1>1. PICK t : t = Task(u)
  OBVIOUS
<1>2. /\ todo[u] # <<>> /\ t.do = "callee" /\ UNCHANGED <<listVars, callers, trail, bug>>
  BY <1>1, HeadTask DEF __add_call
<1>3. t.f \in Func /\ t.k \in Nat
  BY <1>1, <1>2, TaskFacts DEF TaskSound
<1>4. PICK r, list : r = callees'[t.f] /\ list = callees[t.f]
  OBVIOUS
<1>5. ListSound(list) /\ ListAdded(r, list, t)
      /\ \A g \in Func : g # t.f => callees'[g] = callees[g]
  BY <1>1, <1>3, <1>4, AddCallList DEF CallTypes, CalleesSound
<1>6. PICK n \in Nat : n = Len(list) /\ DOMAIN list = 1..n
  BY <1>5, ListFacts DEF ListSound
<1>7. /\ \A i \in 1..n, j \in 1..n : Same(list[i], list[j].kind, list[j].id) => i = j
      /\ \A i \in 1..n : IsInjective(list[i].stmts) /\ list[i].stmts \in Seq(Nat)
                         /\ IsEntryOf(list[i])
  <2>1. NoDoubles(t.f)
    BY <1>3
  <2>2. PICK F : F = [i \in 1..n |-> <<list[i].kind, list[i].id>>]
    OBVIOUS
  <2>3. IsInjective(F) /\ \A i \in 1..n : IsInjective(list[i].stmts)
    BY <1>4, <1>6, <2>1, <2>2 DEF NoDoubles
  <2>4. ASSUME NEW i \in 1..n, NEW j \in 1..n, Same(list[i], list[j].kind, list[j].id)
        PROVE  i = j
    <3>1. F[i] = F[j] /\ DOMAIN F = 1..n
      BY <2>2, <2>4 DEF Same
    <3> QED
      BY <2>3, <3>1 DEF IsInjective
  <2>5. \A i \in 1..n : list[i].stmts \in Seq(Nat) /\ IsEntryOf(list[i])
    BY <1>5, <1>6 DEF ListSound
  <2> QED
    BY <2>3, <2>4, <2>5
<1>8. /\ \A i \in DOMAIN r, j \in DOMAIN r : Same(r[i], r[j].kind, r[j].id) => i = j
      /\ \A i \in DOMAIN r : IsInjective(r[i].stmts)
  <2>1. CASE /\ r = Append(list, Entry(t))
             /\ \A j \in DOMAIN list : ~ Same(list[j], t.kind, t.id)
    <3>1. PICK e : e = Entry(t)
      OBVIOUS
    <3>2. e.kind = t.kind /\ e.id = t.id /\ e.stmts = <<t.k>>
      BY <3>1 DEF Entry
    <3>3. /\ DOMAIN r = 1..(n + 1) /\ r[n + 1] = e
          /\ \A i \in 1..n : r[i] = list[i]
      <4>1. PICK S : S = {list[i] : i \in DOMAIN list} \cup {e}
        OBVIOUS
      <4>2. list \in Seq(S) /\ e \in S
        BY <1>5, <4>1, ListIn DEF ListSound
      <4> QED
        BY <1>6, <2>1, <3>1, <4>2
    <3>4. \A i \in 1..(n + 1) : i = n + 1 \/ i \in 1..n
      BY <1>6
    <3>5. IsInjective(<<t.k>>)
      BY DEF IsInjective
    <3>6. ASSUME NEW i \in 1..(n + 1), NEW j \in 1..(n + 1), Same(r[i], r[j].kind, r[j].id)
          PROVE  i = j
      <4>1. CASE i \in 1..n /\ j \in 1..n
        BY <1>7, <3>3, <3>6, <4>1
      <4>2. CASE i \in 1..n /\ j = n + 1
        BY <1>6, <2>1, <3>2, <3>3, <3>6, <4>2 DEF Same
      <4>3. CASE i = n + 1 /\ j \in 1..n
        BY <1>6, <2>1, <3>2, <3>3, <3>6, <4>3 DEF Same
      <4> QED
        BY <3>4, <4>1, <4>2, <4>3
    <3>7. ASSUME NEW i \in 1..(n + 1) PROVE IsInjective(r[i].stmts)
      BY <1>7, <3>2, <3>3, <3>4, <3>5
    <3> QED
      BY <3>3, <3>6, <3>7
  <2>2. CASE \E i \in DOMAIN list : /\ Same(list[i], t.kind, t.id)
                                    /\ r = [list EXCEPT ![i].stmts = Add(@, t.k)]
    <3>1. PICK i \in 1..n : r = [list EXCEPT ![i].stmts = Add(@, t.k)]
      BY <1>6, <2>2
    <3>2. PICK e, d : e = list[i] /\ d = r[i]
      OBVIOUS
    <3>3. list = [j \in 1..n |-> list[j]]
      <4>1. PICK S : list \in Seq(S)
        BY <1>5 DEF ListSound, IsList
      <4> QED
        BY <1>6, <4>1
    <3>4. /\ DOMAIN r = 1..n /\ \A j \in 1..n : j # i => r[j] = list[j]
          /\ d = [e EXCEPT !.stmts = Add(@, t.k)]
      BY <3>1, <3>2, <3>3
    <3>5. e = [kind |-> e.kind, id |-> e.id, missing |-> e.missing, stmts |-> e.stmts]
          /\ e.stmts \in Seq(Nat) /\ IsInjective(e.stmts)
      BY <1>7, <3>1, <3>2 DEF IsEntryOf
    <3>6. d = [kind |-> e.kind, id |-> e.id, missing |-> e.missing,
               stmts |-> Add(e.stmts, t.k)]
      BY <3>4, <3>5
    <3>7. IsInjective(d.stmts) /\ d.kind = e.kind /\ d.id = e.id
      BY <1>3, <3>5, <3>6, AddFacts
    <3>8. \A j \in 1..n : r[j].kind = list[j].kind /\ r[j].id = list[j].id
      BY <3>2, <3>4, <3>7
    <3>9. ASSUME NEW j \in 1..n, NEW k \in 1..n, Same(r[j], r[k].kind, r[k].id)
          PROVE  j = k
      <4>1. Same(list[j], list[k].kind, list[k].id)
        BY <3>8, <3>9 DEF Same
      <4> QED
        BY <1>7, <4>1
    <3>10. ASSUME NEW j \in 1..n PROVE IsInjective(r[j].stmts)
      BY <1>7, <3>2, <3>4, <3>7
    <3> QED
      BY <3>4, <3>9, <3>10
  <2> QED
    BY <1>5, <2>1, <2>2 DEF ListAdded
<1>9. ASSUME NEW f \in Func PROVE NoDoubles(f)'
  <2>1. callers'[f] = callers[f] /\ NoDoubles(f)
    BY <1>2
  <2>2. CASE f # t.f
    <3>1. callees'[f] = callees[f]
      BY <1>5, <2>2
    <3> QED
      BY <2>1, <3>1 DEF NoDoubles
  <2>3. CASE f = t.f
    <3>1. IsInjective([i \in DOMAIN r |-> <<r[i].kind, r[i].id>>])
      BY <1>8 DEF IsInjective, Same
    <3> QED
      BY <1>4, <1>8, <2>1, <2>3, <3>1 DEF NoDoubles
  <2> QED
    BY <2>2, <2>3
<1> QED
  BY <1>9

LEMMA DoublesKeep ==
    ASSUME CallTypes, NEW u \in Image, CallStep(u), UNCHANGED progVars,
           \A f \in Func : NoDoubles(f)
    PROVE  \A f \in Func' : NoDoubles(f)'
<1>1. Func' = Func
  BY SameTasks
<1>2. ASSUME UNCHANGED <<callees, callers>>, NEW f \in Func PROVE NoDoubles(f)'
  BY <1>2 DEF NoDoubles
<1>3. CASE add_caller(u)
  <2>1. PICK t : t = Task(u)
    OBVIOUS
  <2>2. /\ todo[u] # <<>> /\ t.do = "caller" /\ UNCHANGED <<listVars, callees, trail>>
    BY <1>3, <2>1, HeadTask DEF add_caller
  <2>3. t.f \in Func /\ t.g \in Func
    <3>1. t \in CallerTasks
      BY <2>1, <2>2, TaskFacts DEF TaskSound
    <3> QED
      BY <3>1 DEF CallerTasks
  <2>4. callers' = callers \/ callers' = [callers EXCEPT ![t.g] = Add(@, t.f)]
    BY <1>3, <2>1 DEF add_caller
  <2>5. callers \in [Func -> Seq(Func)]
    BY DEF CallTypes, CallersSound
  <2>6. ASSUME NEW f \in Func PROVE NoDoubles(f)'
    <3>1. IsInjective(callers[f]) /\ NoDoubles(f)
      BY DEF NoDoubles
    <3>2. IsInjective(Add(callers[f], t.f))
      BY <2>3, <2>5, <3>1, AddFacts
    <3>3. callers'[f] = callers[f] \/ callers'[f] = Add(callers[f], t.f)
      BY <2>3, <2>4, <2>5
    <3>4. IsInjective(callers'[f])
      BY <3>1, <3>2, <3>3
    <3> QED
      BY <2>2, <3>1, <3>4 DEF NoDoubles
  <2> QED
    BY <1>1, <2>6
<1>4. CASE __add_call(u)
  BY <1>1, <1>4, DoublesAdded
<1>5. CASE QuietStep(u) \/ NameStep(u)
  <2>1. UNCHANGED <<callees, callers>>
    BY <1>5 DEF QuietStep, NameStep
  <2> QED
    BY <1>1, <1>2, <2>1
<1>6. CASE call_ssaname(u) \/ LeaveName(u) \/ ssaname_node_pop(u)
  <2>1. UNCHANGED <<callees, callers>>
    BY <1>6, NameStepsMade DEF MadeStep
  <2> QED
    BY <1>1, <1>2, <2>1
<1> QED
  BY <1>3, <1>4, <1>5, <1>6, QuietSteps
(* A call that is recorded is known to the function called, or its worker  *)
(* is about to tell it; and what is told was recorded before.              *)
GraphInv == GraphIs(callees, callers, todo) /\ \A f \in Func : NoDoubles(f)

LEMMA GraphBegins ==
    ASSUME Init
    PROVE  GraphInv
<1>1. PICK none : none = <<>> /\ 1..Len(none) = {} /\ DOMAIN none = {}
  OBVIOUS
<1>2. /\ \A u \in Image : todo[u] = none
      /\ \A f \in Func : callees[f] = none /\ callers[f] = none
  BY <1>1 DEF Init, InitCalls
<1>3. IsInjective(none) /\ Range(none) = {}
  BY <1>1 DEF IsInjective, Range
<1>4. ASSUME NEW f \in Func PROVE NoDoubles(f)
  <2>1. IsInjective([i \in {} |-> <<callees[f][i].kind, callees[f][i].id>>])
    BY DEF IsInjective
  <2> QED
    BY <1>1, <1>2, <1>3, <2>1 DEF NoDoubles
<1>5. Paired(none) /\ FollowsIn(callees, none)
  BY <1>1 DEF Paired, FollowsIn
<1>6. \A f \in Func : \A g \in Func : ~ KnownCall(callees, f, g) /\ ~ ListedCaller(callers, g, f)
  BY <1>1, <1>2, <1>3 DEF KnownCall, ListedCaller
<1>7. CallersReal(callees, callers) /\ CalleesTold(callees, callers, todo)
  BY <1>6 DEF CallersReal, CalleesTold
<1> QED
  BY <1>2, <1>4, <1>5, <1>7 DEF GraphInv, GraphIs

LEMMA GraphStutter ==
    ASSUME GraphInv, UNCHANGED progVars, UNCHANGED callVars
    PROVE  GraphInv'
<1>1. /\ fns' = fns /\ todo' = todo /\ callees' = callees /\ callers' = callers
  BY DEF callVars, progVars
<1>2. GraphIs(callees, callers, todo)'
  <2>1. GraphIs(callees', callers', todo')
    BY <1>1 DEF GraphInv
  <2> QED
    BY <2>1, GraphSame
<1>3. \A f \in Func' : NoDoubles(f)'
  BY <1>1 DEF GraphInv, NoDoubles, Func
<1> QED
  BY <1>2, <1>3 DEF GraphInv

LEMMA GraphNext ==
    ASSUME CallInv, GraphInv, [Next]_vars, phase \in 3..8
    PROVE  GraphInv'
<1>1. CASE \E u \in Image : Step3(u) \/ MarkField(u)
  BY <1>1, GraphStutter DEF Step3, MarkField
<1>2. CASE \E u \in Image : Step456(u)
  <2>1. PICK u \in Image : Step456(u)
    BY <1>2
  <2>2. CallStep(u) /\ UNCHANGED progVars
    BY <2>1 DEF Step456
  <2> QED
    BY <2>2, CallStepGraph, DoublesKeep DEF CallInv, GraphInv
<1>3. CASE NextStep
  <2>1. GraphIs(callees, callers, todo)'
    BY <1>3, StartsGraph DEF CallInv, GraphInv
  <2>2. UNCHANGED <<progVars, callees, callers>>
    BY <1>3, NextStepTodo DEF CallInv
  <2>3. Func' = Func /\ \A f \in Func : NoDoubles(f)'
    BY <2>2, SameTasks DEF GraphInv, NoDoubles
  <2> QED
    BY <2>1, <2>3 DEF GraphInv
<1>4. CASE MarkEntry
  BY <1>4, MarkEntryCalls, GraphStutter
<1>5. CASE MarksOver
  BY <1>5, GraphStutter DEF MarksOver
<1>6. CASE UNCHANGED vars
  BY <1>6, GraphStutter DEF vars
<1> QED
  BY <1>1, <1>2, <1>3, <1>4, <1>5, <1>6 DEF Next, Main, Worker

LEMMA CallersFollow == CallInv /\ GraphInv => CallersMatch
<1> SUFFICES ASSUME CallInv, GraphInv PROVE CallersMatch
  OBVIOUS
<1>1. \A f \in Func : NoDoubles(f)
  BY DEF GraphInv
<1>2. ASSUME phase > 6, NEW h \in Func, HasBody(h), NEW f \in Func
      PROVE  f \in Range(callers[h]) <=>
                 \E i \in DOMAIN callees[f] : /\ callees[f][i].kind = "func"
                                              /\ Reaches(f, callees[f][i].id, h)
  <2>1. \A u \in Image : ~ AwaitedIn(todo[u], f, h)
    <3>1. CallsDone
      BY <1>2 DEF CallInv
    <3>2. PICK none : none = <<>> /\ 1..Len(none) = {}
      OBVIOUS
    <3> QED
      BY <3>1, <3>2 DEF CallsDone, AwaitedIn
  <2>2. \A i \in DOMAIN callees[f] : callees[f][i].kind = "func" => callees[f][i].id \in Func
    BY DEF CallInv, CallTypes, CalleesSound, ListSound, ValueSound
  <2>3. f \in Range(callers[h]) <=> \E g \in Func : KnownCall(callees, f, g) /\ Reaches(f, g, h)
    BY <1>2, <2>1 DEF GraphInv, GraphIs, CallersReal, CalleesTold, ListedCaller
  <2> QED
    BY <2>2, <2>3 DEF KnownCall, Same
<1>3. \A h \in Func : Range(callers[h]) \subseteq Func
  <2> TAKE h \in Func
  <2>1. callers[h] \in Seq(Func)
    BY DEF CallInv, CallTypes, CallersSound
  <2> QED
    BY <2>1 DEF Range
<1> QED
  BY <1>1, <1>2, <1>3 DEF CallersMatch

LEMMA AllGraphs == Spec => []GraphInv
<1>1. Init => GraphInv
  BY GraphBegins
<1>2. GraphInv /\ CallInv /\ DetailInv /\ [Next]_vars => GraphInv'
  BY GraphNext DEF DetailInv
<1> QED
  BY <1>1, <1>2, DetailInvariant, CallInvariant, PTL DEF Spec

(* When STEP6 is over, a function with a body knows exactly the functions  *)
(* that have it, or an alias of it, among their callees, and nothing is    *)
(* listed twice: __add_call and the callback that enters the caller are    *)
(* two actions, with others between them, and one call_func_decl may do    *)
(* what another has done.                                                  *)
THEOREM CallersRight == Spec => []CallersMatch
<1>1. CallInv /\ GraphInv => CallersMatch
  BY CallersFollow
<1> QED
  BY <1>1, CallInvariant, AllGraphs, PTL

(***************************************************************************)
(* The trail of names                                                      *)
(***************************************************************************)
Named(t) == names[t.n].var # 0
Leaver(t) == t.do \in {"var of", "pop"} /\ Named(t)
Popper(t) == Leaver(t) /\ t.inner

(* What is above the way out of a named one is named; a call is behind the *)
(* names of the one before it.                                             *)
NamedAbove(s) ==
    \A p \in 1..Len(s), q \in 1..Len(s) :
        p < q /\ Leaver(s[q]) /\ NameLike(s[p]) => Named(s[p])
CallsFirst(s) ==
    \A p \in 1..Len(s), q \in 1..Len(s) : p < q /\ s[p].do = "call" => ~ NameLike(s[q])

PopsIn(s, n) == \E p \in 1..Len(s) : Popper(s[p]) /\ s[p].n = n
PopsBefore(s, p, n) == \E q \in 1..Len(s) : q < p /\ Popper(s[q]) /\ s[q].n = n
EachPopsOne(s) ==
    \A p \in 1..Len(s), q \in 1..Len(s) :
        Popper(s[p]) /\ Popper(s[q]) /\ s[p].n = s[q].n => p = q

(* What is to be popped is on the trail, and above it only what will be    *)
(* popped before.                                                          *)
OnTrail(s, T) ==
    \A p \in 1..Len(s) : Popper(s[p]) =>
        \E x \in 1..Len(T) :
            /\ T[x] = s[p].n
            /\ \A y \in 1..Len(T) : y > x => PopsBefore(s, p, T[y])

NamesAre(s, T) == NamedAbove(s) /\ CallsFirst(s) /\ EachPopsOne(s) /\ OnTrail(s, T)

(* Tasks that may take the place of the first of s, with the trail they    *)
(* leave.                                                                  *)
Shaped(s, tasks) ==
    /\ NamedAbove(tasks)
    /\ \A i \in 1..Len(tasks) : tasks[i].do # "call"
    /\ \A j \in 1..Len(s) : j # 1 /\ Leaver(s[j]) =>
          \A i \in 1..Len(tasks) : NameLike(tasks[i]) => Named(tasks[i])
Trailed(s, T, tasks, T2) ==
    /\ EachPopsOne(tasks)
    /\ \A i \in 1..Len(tasks) : Popper(tasks[i]) =>
          /\ \E x \in 1..Len(T2) : /\ T2[x] = tasks[i].n
                                   /\ \A y \in 1..Len(T2) : ~ (y > x)
          /\ \A j \in 1..Len(s) : j # 1 /\ Popper(s[j]) => s[j].n # tasks[i].n
    /\ \A j \in 1..Len(s) : j # 1 /\ Popper(s[j]) =>
          /\ \A x \in 1..Len(T) : T[x] = s[j].n => x \in 1..Len(T2) /\ T2[x] = T[x]
          /\ \A y \in 1..Len(T2) :
                \/ PopsIn(tasks, T2[y])
                \/ /\ y \in 1..Len(T) /\ T2[y] = T[y]
                   /\ ~ (Popper(s[1]) /\ s[1].n = T[y])

LEMMA NamesKeep ==
    ASSUME NEW s, NEW tasks, NEW r, IsList(s), s # <<>>, IsList(tasks),
           Replaced(r, tasks, s), Len(s) \in Nat \ {0}, NEW T, NEW T2,
           NamesAre(s, T), Shaped(s, tasks), Trailed(s, T, tasks, T2)
    PROVE  NamesAre(r, T2)
<1>1. PICK a \in Nat, b \in Nat \ {0} : a = Len(tasks) /\ b = Len(s)
  BY ListFacts
<1>2. /\ IsList(r) /\ Len(r) + 1 = a + b
      /\ \A i \in 1..a : r[i] = tasks[i]
      /\ \A i \in 1..b : i # 1 => r[a + i - 1] = s[i]
      /\ \A i \in 1..Len(r) : i \in 1..a \/ \E j \in 1..b : j # 1 /\ i = a + j - 1
  BY <1>1 DEF Replaced
<1>3. PICK n \in Nat : n = Len(r) /\ n = a + b - 1
  BY <1>1, <1>2, ListFacts
<1>4. NamedAbove(r)
  <2> SUFFICES ASSUME NEW p \in 1..n, NEW q \in 1..n, p < q, Leaver(r[q]), NameLike(r[p])
               PROVE  Named(r[p])
    BY <1>3 DEF NamedAbove
  <2>1. CASE q \in 1..a
    <3>1. p \in 1..a
      BY <2>1
    <3> QED
      BY <1>1, <1>2, <2>1, <3>1 DEF Shaped, NamedAbove
  <2>2. CASE q \notin 1..a
    <3>1. PICK j \in 1..b : j # 1 /\ q = a + j - 1
      BY <1>2, <1>3, <2>2
    <3>2. Leaver(s[j])
      BY <1>2, <3>1
    <3>3. CASE p \in 1..a
      BY <1>1, <1>2, <3>1, <3>2, <3>3 DEF Shaped
    <3>4. CASE p \notin 1..a
      <4>1. PICK i \in 1..b : i # 1 /\ p = a + i - 1
        BY <1>2, <1>3, <3>4
      <4>2. i < j
        BY <1>1, <3>1, <4>1
      <4>3. r[p] = s[i]
        BY <1>2, <4>1
      <4> QED
        BY <1>1, <3>2, <4>2, <4>3 DEF NamesAre, NamedAbove
    <3> QED
      BY <3>3, <3>4
  <2> QED
    BY <2>1, <2>2
<1>5. CallsFirst(r)
  <2> SUFFICES ASSUME NEW p \in 1..n, NEW q \in 1..n, p < q, r[p].do = "call"
               PROVE  ~ NameLike(r[q])
    BY <1>3 DEF CallsFirst
  <2>1. p \notin 1..a
    BY <1>1, <1>2 DEF Shaped
  <2>2. PICK i \in 1..b : i # 1 /\ p = a + i - 1
    BY <1>2, <1>3, <2>1
  <2>3. q \notin 1..a
    BY <1>1, <2>2
  <2>4. PICK j \in 1..b : j # 1 /\ q = a + j - 1
    BY <1>2, <1>3, <2>3
  <2>5. i < j /\ r[p] = s[i] /\ r[q] = s[j]
    BY <1>1, <1>2, <2>2, <2>4
  <2> QED
    BY <1>1, <2>5 DEF NamesAre, CallsFirst
<1>6. EachPopsOne(r)
  <2> SUFFICES ASSUME NEW p \in 1..n, NEW q \in 1..n, Popper(r[p]), Popper(r[q]),
                      r[p].n = r[q].n
               PROVE  p = q
    BY <1>3 DEF EachPopsOne
  <2>1. CASE p \in 1..a /\ q \in 1..a
    BY <1>1, <1>2, <2>1 DEF Trailed, EachPopsOne
  <2>2. CASE p \in 1..a /\ q \notin 1..a
    <3>1. PICK j \in 1..b : j # 1 /\ q = a + j - 1
      BY <1>2, <1>3, <2>2
    <3>2. r[q] = s[j] /\ r[p] = tasks[p]
      BY <1>2, <2>2, <3>1
    <3> QED
      BY <1>1, <2>2, <3>1, <3>2 DEF Trailed
  <2>3. CASE p \notin 1..a /\ q \in 1..a
    <3>1. PICK j \in 1..b : j # 1 /\ p = a + j - 1
      BY <1>2, <1>3, <2>3
    <3>2. r[p] = s[j] /\ r[q] = tasks[q]
      BY <1>2, <2>3, <3>1
    <3> QED
      BY <1>1, <2>3, <3>1, <3>2 DEF Trailed
  <2>4. CASE p \notin 1..a /\ q \notin 1..a
    <3>1. PICK i \in 1..b : i # 1 /\ p = a + i - 1
      BY <1>2, <1>3, <2>4
    <3>2. PICK j \in 1..b : j # 1 /\ q = a + j - 1
      BY <1>2, <1>3, <2>4
    <3>3. r[p] = s[i] /\ r[q] = s[j]
      BY <1>2, <3>1, <3>2
    <3>4. i = j
      BY <1>1, <3>3 DEF NamesAre, EachPopsOne
    <3> QED
      BY <3>1, <3>2, <3>4
  <2> QED
    BY <2>1, <2>2, <2>3, <2>4
<1>7. ASSUME NEW p \in 1..n, Popper(r[p])
      PROVE  \E x \in 1..Len(T2) :
                 /\ T2[x] = r[p].n
                 /\ \A y \in 1..Len(T2) : y > x => PopsBefore(r, p, T2[y])
  <2>1. CASE p \in 1..a
    <3>1. r[p] = tasks[p] /\ Popper(tasks[p])
      BY <1>2, <1>7, <2>1
    <3> QED
      BY <1>1, <2>1, <3>1 DEF Trailed
  <2>2. CASE p \notin 1..a
    <3>1. PICK j \in 1..b : j # 1 /\ p = a + j - 1
      BY <1>2, <1>3, <2>2
    <3>2. r[p] = s[j] /\ Popper(s[j])
      BY <1>2, <1>7, <3>1
    <3>3. PICK x \in 1..Len(T) : /\ T[x] = s[j].n
                                 /\ \A y \in 1..Len(T) : y > x => PopsBefore(s, j, T[y])
      BY <1>1, <3>2 DEF NamesAre, OnTrail
    <3>4. x \in 1..Len(T2) /\ T2[x] = T[x]
      BY <1>1, <3>1, <3>2, <3>3 DEF Trailed
    <3>5. ASSUME NEW y \in 1..Len(T2), y > x PROVE PopsBefore(r, p, T2[y])
      <4>1. CASE PopsIn(tasks, T2[y])
        <5>1. PICK k \in 1..a : Popper(tasks[k]) /\ tasks[k].n = T2[y]
          BY <1>1, <4>1 DEF PopsIn
        <5>2. k \in 1..n /\ k < p /\ r[k] = tasks[k]
          BY <1>1, <1>2, <1>3, <3>1
        <5> QED
          BY <1>3, <5>1, <5>2 DEF PopsBefore
      <4>2. CASE /\ y \in 1..Len(T) /\ T2[y] = T[y]
                 /\ ~ (Popper(s[1]) /\ s[1].n = T[y])
        <5>1. PICK q \in 1..b : q < j /\ Popper(s[q]) /\ s[q].n = T[y]
          BY <1>1, <3>3, <3>5, <4>2 DEF PopsBefore
        <5>2. q # 1
          BY <4>2, <5>1
        <5>3. a + q - 1 \in 1..n /\ a + q - 1 < p
          BY <1>1, <1>3, <3>1, <5>1, <5>2
        <5>4. r[a + q - 1] = s[q]
          BY <1>2, <5>2
        <5> QED
          BY <1>3, <4>2, <5>1, <5>3, <5>4 DEF PopsBefore
      <4> QED
        BY <1>1, <3>1, <3>2, <4>1, <4>2 DEF Trailed
    <3> QED
      BY <3>2, <3>3, <3>4, <3>5
  <2> QED
    BY <2>1, <2>2
<1>8. OnTrail(r, T2)
  BY <1>3, <1>7 DEF OnTrail
<1> QED
  BY <1>4, <1>5, <1>6, <1>8 DEF NamesAre

(* Tasks that are not about names.                                         *)
Silent(s) == IsList(s) /\ \A p \in 1..Len(s) : ~ NameLike(s[p]) /\ s[p].do # "call"

LEMMA SilentFacts ==
    /\ Silent(<<>>)
    /\ \A s : Quiet(s) => Silent(s)
    /\ \A t : ~ NameLike(t) /\ t.do # "call" => Silent(<<t>>)
<1>1. \A s : Quiet(s) => Silent(s)
  BY DEF Quiet, Silent, Made
<1>2. Silent(<<>>)
  BY <1>1, NoMade
<1>3. ASSUME NEW t, ~ NameLike(t), t.do # "call" PROVE Silent(<<t>>)
  <2>1. PICK s : s = <<t>>
    OBVIOUS
  <2>2. IsList(s) /\ Len(s) = 1 /\ s[1] = t /\ \A p \in 1..1 : p = 1
    BY <2>1, OneIsList
  <2>3. Silent(s)
    BY <1>3, <2>2 DEF Silent
  <2> QED
    BY <2>1, <2>3
<1> QED
  BY <1>1, <1>2, <1>3

LEMMA SilentKeeps ==
    ASSUME NEW s, NEW tasks, Silent(tasks), ~ Popper(s[1]), NEW T
    PROVE  Shaped(s, tasks) /\ Trailed(s, T, tasks, T)
<1>1. \A i \in 1..Len(tasks) : ~ NameLike(tasks[i]) /\ tasks[i].do # "call"
  BY DEF Silent
<1>2. \A i \in 1..Len(tasks) : ~ Popper(tasks[i])
  BY <1>1 DEF Popper, Leaver, NameLike
<1> QED
  BY <1>1, <1>2 DEF Shaped, Trailed, NamedAbove, EachPopsOne

(* The tasks that a name is followed by end with its own, q; the others    *)
(* are about what it is joined from, if they are about names.              *)
JoinedFrom(t, n) == names[t.n].def = "phi" /\ n \in FedBy(t.n)
Below(x, t) == /\ x.do \notin {"call", "var of", "pop"}
               /\ NameLike(x) => JoinedFrom(t, x.n)
OwnLast(w, q, t) ==
    /\ IsList(w) /\ Len(w) \in Nat \ {0} /\ w[Len(w)] = q
    /\ \A i \in 1..Len(w) : i # Len(w) => Below(w[i], t)

LEMMA OwnLastFacts ==
    ASSUME NEW s, NEW q, NEW t, IsList(s), \A i \in 1..Len(s) : Below(s[i], t)
    PROVE  OwnLast(s \o <<q>>, q, t)
<1>1. PICK one, w : one = <<q>> /\ w = s \o one
  OBVIOUS
<1>2. IsList(one) /\ Len(one) = 1 /\ one[1] = q
  BY <1>1, OneIsList
<1>3. Joined(w, s, one)
  BY <1>1, <1>2, JoinedLists
<1>4. PICK a \in Nat : a = Len(s)
  BY ListFacts
<1>5. /\ IsList(w) /\ Len(w) = a + 1 /\ w[a + 1] = q
      /\ \A i \in 1..a : w[i] = s[i]
  <2>1. 1 \in 1..1
    OBVIOUS
  <2> QED
    BY <1>2, <1>3, <1>4, <2>1 DEF Joined
<1>6. \A i \in 1..(a + 1) : i # a + 1 => i \in 1..a
  BY <1>4
<1>7. OwnLast(w, q, t)
  BY <1>4, <1>5, <1>6 DEF OwnLast
<1> QED
  BY <1>1, <1>7

LEMMA NameOwnLast ==
    ASSUME CallTypes, NEW t \in NameTasks, NEW q
    PROVE  /\ OwnLast(Definition(t) \o <<q>>, q, t)
           /\ \A v : OwnLast(Values(t, v) \o <<q>>, q, t)
<1>1. ASSUME NEW s, Quiet(s) PROVE OwnLast(s \o <<q>>, q, t)
  <2>1. IsList(s) /\ \A i \in 1..Len(s) : ~ NameLike(s[i]) /\ s[i].do # "call"
    BY <1>1 DEF Quiet, Made
  <2>2. \A i \in 1..Len(s) : Below(s[i], t)
    BY <2>1 DEF NameLike, Below
  <2> QED
    BY <2>1, <2>2, OwnLastFacts
<1>2. OwnLast(Definition(t) \o <<q>>, q, t)
  <2>1. CASE names[t.n].def # "phi"
    BY <1>1, <2>1, DefinitionMade
  <2>2. CASE names[t.n].def = "phi"
    <3>1. PICK s : s = Definition(t)
      OBVIOUS
    <3>2. IsList(s) /\ \A i \in DOMAIN s : /\ s[i].do = "name"
                                           /\ s[i].n \in FedBy(t.n)
      BY <2>2, <3>1, DefinitionMade DEF Made
    <3>3. \A i \in 1..Len(s) : Below(s[i], t)
      BY <2>2, <3>2, ListFacts DEF Below, JoinedFrom
    <3>4. OwnLast(s \o <<q>>, q, t)
      BY <3>2, <3>3, OwnLastFacts
    <3> QED
      BY <3>1, <3>4
  <2> QED
    BY <2>1, <2>2
<1>3. \A v : OwnLast(Values(t, v) \o <<q>>, q, t)
  BY <1>1, ValuesMade
<1> QED
  BY <1>2, <1>3

LEMMA FirstAndLast ==
    \A n \in Nat \ {0} : 1 \in 1..n /\ n \in 1..n /\ \A j \in 1..n : j # 1 => 1 < j
OBVIOUS

(* While a name is followed, its own way out is the only one that the      *)
(* tasks add.                                                              *)
LeavesBy(q, t) == q \in NameTasks /\ q.n = t.n /\ q.do \in {"var of", "pop"}
OwnPops(s, w, q) ==
    /\ IsList(w) /\ Shaped(s, w) /\ EachPopsOne(w)
    /\ \A i \in 1..Len(w) : Popper(w[i]) => Popper(q) /\ w[i] = q
    /\ Popper(q) => PopsIn(w, q.n)

LEMMA OwnLastKeeps ==
    ASSUME CallTypes, ~ AnonymousBelow, NEW s, NEW T, NamesAre(s, T),
           IsList(s), Len(s) \in Nat \ {0}, s[1] \in NameTasks
    PROVE  \A q, w : LeavesBy(q, s[1]) /\ OwnLast(w, q, s[1]) => OwnPops(s, w, q)
<1> SUFFICES ASSUME NEW t \in NameTasks, s[1] = t, NEW q \in NameTasks, q.n = t.n,
                      q.do \in {"var of", "pop"}, NEW w, OwnLast(w, q, t)
               PROVE  OwnPops(s, w, q)
  BY DEF LeavesBy
<1>1. PICK m \in Nat \ {0} : /\ m = Len(w) /\ IsList(w) /\ w[m] = q
                             /\ \A i \in 1..m : i # m => Below(w[i], t)
  BY DEF OwnLast
<1>2. t.n \in DOMAIN names /\ NameLike(t) /\ (Named(q) <=> Named(t))
  BY DEF NameTasks, NameLike, Named
<1>3. ASSUME NEW i \in 1..m, NameLike(w[i]), Named(t) PROVE Named(w[i])
  <2>1. CASE i = m
    BY <1>1, <1>2, <1>3, <2>1
  <2>2. CASE i # m
    <3>1. Below(w[i], t)
      BY <1>1, <2>2
    <3> QED
      BY <1>2, <1>3, <3>1 DEF AnonymousBelow, Named, Below, JoinedFrom
  <2> QED
    BY <2>1, <2>2
<1>4. \A i \in 1..m : i # m => ~ Leaver(w[i]) /\ ~ Popper(w[i])
  BY <1>1 DEF Leaver, Popper, Below
<1>5. NamedAbove(w)
  <2>1. ASSUME NEW i \in 1..m, NEW j \in 1..m, i < j, Leaver(w[j]), NameLike(w[i])
        PROVE  Named(w[i])
    <3>1. j = m
      BY <1>4, <2>1
    <3>2. Named(t)
      BY <1>1, <1>2, <2>1, <3>1 DEF Leaver
    <3> QED
      BY <1>3, <2>1, <3>2
  <2> QED
    BY <1>1, <2>1 DEF NamedAbove
<1>6. \A i \in 1..m : w[i].do # "call"
  BY <1>1 DEF Below
<1>7. ASSUME NEW j \in 1..Len(s), j # 1, Leaver(s[j]), NEW i \in 1..m, NameLike(w[i])
      PROVE  Named(w[i])
  <2>1. 1 \in 1..Len(s) /\ 1 < j
    BY <1>7, FirstAndLast
  <2>2. Named(t)
    BY <1>2, <1>7, <2>1 DEF NamesAre, NamedAbove
  <2> QED
    BY <1>3, <1>7, <2>2
<1>8. Shaped(s, w)
  BY <1>1, <1>5, <1>6, <1>7 DEF Shaped
<1>9. \A i \in 1..m : Popper(w[i]) => Popper(q) /\ w[i] = q /\ i = m
  BY <1>1, <1>4
<1>10. EachPopsOne(w)
  BY <1>1, <1>9 DEF EachPopsOne
<1>11. Popper(q) => PopsIn(w, q.n)
  <2>1. m \in 1..m
    BY FirstAndLast
  <2> QED
    BY <1>1, <2>1 DEF PopsIn
<1> QED
  BY <1>1, <1>8, <1>9, <1>10, <1>11 DEF OwnPops

(* What a step does to the tasks and the trail of its worker.              *)
LEMMA NamesMove ==
    ASSUME CallTypes, NEW u \in Image, todo[u] # <<>>, NEW tasks, IsList(tasks),
           Then(u, tasks), NamesAre(todo[u], trail[u]), NEW T2,
           Shaped(todo[u], tasks), Trailed(todo[u], trail[u], tasks, T2)
    PROVE  NamesAre(todo'[u], T2)
<1>1. PICK s, r, T : s = todo[u] /\ r = todo'[u] /\ T = trail[u]
  OBVIOUS
<1>2. IsList(s) /\ s # <<>> /\ Len(s) \in Nat \ {0}
  <2>1. TasksSound(s)
    BY <1>1 DEF CallTypes, TodoSound
  <2> QED
    BY <1>1, <2>1, TaskFacts DEF TasksSound
<1>3. Replaced(r, tasks, s) /\ NamesAre(s, T) /\ Shaped(s, tasks) /\ Trailed(s, T, tasks, T2)
  BY <1>1, ThenReplaces
<1>4. NamesAre(r, T2)
  BY <1>2, <1>3, NamesKeep
<1> QED
  BY <1>1, <1>4

LEMMA SilentMove ==
    ASSUME CallTypes, NEW u \in Image, todo[u] # <<>>, NEW tasks, Silent(tasks),
           Then(u, tasks), NamesAre(todo[u], trail[u]), ~ Popper(Task(u)), UNCHANGED trail
    PROVE  NamesAre(todo'[u], trail'[u])
<1>1. IsList(tasks) /\ Task(u) = todo[u][1]
  BY TaskFacts DEF Silent
<1>2. Shaped(todo[u], tasks) /\ Trailed(todo[u], trail[u], tasks, trail[u])
  BY <1>1, SilentKeeps
<1>3. NamesAre(todo'[u], trail[u])
  BY <1>1, <1>2, NamesMove
<1> QED
  BY <1>3

LEMMA NameStepMove ==
    ASSUME CallTypes, NEW u \in Image, NameStep(u), NamesAre(todo[u], trail[u])
    PROVE  NamesAre(todo'[u], trail'[u])
<1>1. PICK t : /\ Then(u, <<t>>) /\ t.do = "name" /\ ~ t.inner
               /\ todo[u] # <<>> /\ Task(u).do = "call"
               /\ trail' = [trail EXCEPT ![u] = <<>>]
  BY DEF NameStep
<1>0. PICK none : none = <<>> /\ 1..Len(none) = {}
  OBVIOUS
<1>2. PICK tasks, s, T : tasks = <<t>> /\ s = todo[u] /\ T = trail[u]
  OBVIOUS
<1>3. IsList(tasks) /\ Len(tasks) = 1 /\ tasks[1] = t
  BY <1>2, OneIsList
<1>4. \A i \in 1..Len(tasks) : tasks[i] = t
  <2>1. \A i \in 1..1 : i = 1
    OBVIOUS
  <2> QED
    BY <1>3, <2>1
<1>5. s[1].do = "call" /\ Len(s) \in Nat \ {0}
  BY <1>1, <1>2, TaskFacts
<1>6. \A j \in 1..Len(s) : j # 1 => ~ NameLike(s[j])
  BY <1>2, <1>5, FirstAndLast DEF NamesAre, CallsFirst
<1>7. Shaped(s, tasks)
  <2>1. NamedAbove(tasks)
    BY <1>1, <1>4 DEF NamedAbove, Leaver
  <2> QED
    BY <1>1, <1>4, <1>6, <2>1 DEF Shaped, Leaver, NameLike
<1>8. Trailed(s, T, tasks, none)
  BY <1>0, <1>1, <1>4, <1>6 DEF Trailed, EachPopsOne, Popper, Leaver, NameLike
<1>9. trail'[u] = none
  BY <1>0, <1>1 DEF CallTypes, TrailSound
<1>10. NamesAre(todo'[u], none)
  BY <1>1, <1>2, <1>3, <1>7, <1>8, NamesMove
<1> QED
  BY <1>9, <1>10

LEMMA FollowMove ==
    ASSUME CallTypes, ~ AnonymousBelow, NEW u \in Image, call_ssaname(u),
           NamesAre(todo[u], trail[u])
    PROVE  NamesAre(todo'[u], trail'[u])
<1>1. PICK t, s, T : t = Task(u) /\ s = todo[u] /\ T = trail[u]
  OBVIOUS
<1>2. todo[u] # <<>> /\ t.do = "name"
  BY <1>1, HeadTask DEF call_ssaname
<1>3. /\ t \in NameTasks /\ s[1] = t /\ IsList(s) /\ Len(s) \in Nat \ {0}
      /\ t.n \in DOMAIN names /\ t.inner \in BOOLEAN /\ ~ Popper(t)
  <2>1. t \in NameTasks /\ s[1] = t /\ Len(s) \in Nat \ {0}
    BY <1>1, <1>2, TaskFacts DEF TaskSound
  <2>2. IsList(s)
    BY <1>1 DEF CallTypes, TodoSound, TasksSound
  <2> QED
    BY <1>2, <2>1, <2>2 DEF NameTasks, Popper, Leaver
<1>4. NamesAre(s, T) /\ T \in Seq(DOMAIN names) /\ trail \in [Image -> Seq(DOMAIN names)]
  BY <1>1 DEF CallTypes, TrailSound
<1>5. CASE UNCHANGED <<todo, trail>>
  BY <1>5
<1>6. CASE Then(u, <<>>) /\ UNCHANGED trail
  BY <1>1, <1>2, <1>3, <1>6, SilentFacts, SilentMove
<1>7. PICK q, w : q = [t EXCEPT !.do = "var of"] /\ w = Definition(t) \o <<q>>
  OBVIOUS
<1>8. q \in NameTasks /\ q.do = "var of" /\ q.n = t.n /\ q.inner = t.inner
  BY <1>3, <1>7 DEF NameTasks
<1>9. /\ OwnLast(w, q, t) /\ IsList(w) /\ Shaped(s, w) /\ EachPopsOne(w)
      /\ \A i \in 1..Len(w) : Popper(w[i]) => Popper(q) /\ w[i] = q
      /\ Popper(q) => PopsIn(w, q.n)
  <2>1. OwnLast(w, q, t)
    BY <1>3, <1>7, NameOwnLast
  <2>2. LeavesBy(q, t)
    BY <1>8 DEF LeavesBy
  <2>3. OwnPops(s, w, q)
    BY <1>3, <1>4, <2>1, <2>2, OwnLastKeeps
  <2> QED
    BY <2>1, <2>3 DEF OwnPops
<1>10. CASE Then(u, w) /\ ~ t.inner /\ UNCHANGED trail
  <2>1. ~ Popper(q)
    BY <1>8, <1>10 DEF Popper
  <2>2. Trailed(s, T, w, T)
    BY <1>3, <1>9, <2>1 DEF Trailed
  <2> QED
    BY <1>1, <1>2, <1>9, <1>10, <2>2, NamesMove
<1>11. CASE /\ Then(u, w) /\ t.inner /\ ~ Contains(T, t.n)
            /\ trail' = [trail EXCEPT ![u] = Append(@, t.n)]
  <2>1. PICK n, T2 : n = t.n /\ T2 = Append(T, n) /\ n \in DOMAIN names
    BY <1>3
  <2>2. PICK l \in Nat : l = Len(T)
    BY <1>4
  <2>3. /\ DOMAIN T2 = 1..(l + 1) /\ Len(T2) = l + 1 /\ T2[l + 1] = n
        /\ DOMAIN T = 1..l /\ \A x \in 1..l : T2[x] = T[x] /\ T[x] # n
    BY <1>4, <1>11, <2>1, <2>2 DEF Contains
  <2>4. \A y \in 1..(l + 1) : (y = l + 1 \/ y \in 1..l) /\ ~ (y > l + 1)
    BY <2>2
  <2>5. 1..l \subseteq 1..(l + 1) /\ l + 1 \in 1..(l + 1)
    BY <2>2
  <2>6. ASSUME NEW j \in 1..Len(s), j # 1, Popper(s[j])
        PROVE  Popper(q) /\ s[j].n # n
    <3>1. 1 \in 1..Len(s) /\ 1 < j
      BY <1>3, <2>6, FirstAndLast
    <3>2. Named(t)
      BY <1>2, <1>3, <1>4, <2>6, <3>1 DEF NamesAre, NamedAbove, Popper, NameLike
    <3>3. Popper(q)
      BY <1>8, <1>11, <3>2 DEF Popper, Leaver, Named
    <3>4. \E x \in 1..l : T[x] = s[j].n
      BY <1>4, <2>2, <2>6 DEF NamesAre, OnTrail
    <3> QED
      BY <2>3, <3>3, <3>4
  <2>7. \A i \in 1..Len(w) : Popper(w[i]) =>
          /\ \E x \in 1..Len(T2) : /\ T2[x] = w[i].n
                                   /\ \A y \in 1..Len(T2) : ~ (y > x)
          /\ \A j \in 1..Len(s) : j # 1 /\ Popper(s[j]) => s[j].n # w[i].n
    BY <1>8, <1>9, <2>1, <2>3, <2>4, <2>5, <2>6
  <2>8. \A j \in 1..Len(s) : j # 1 /\ Popper(s[j]) =>
          /\ \A x \in 1..Len(T) : T[x] = s[j].n => x \in 1..Len(T2) /\ T2[x] = T[x]
          /\ \A y \in 1..Len(T2) :
                \/ PopsIn(w, T2[y])
                \/ /\ y \in 1..Len(T) /\ T2[y] = T[y]
                   /\ ~ (Popper(s[1]) /\ s[1].n = T[y])
    BY <1>3, <1>8, <1>9, <2>1, <2>2, <2>3, <2>4, <2>5, <2>6
  <2>9. Trailed(s, T, w, T2)
    BY <1>9, <2>7, <2>8 DEF Trailed
  <2>10. trail'[u] = T2
    BY <1>1, <1>4, <1>11, <2>1
  <2>11. NamesAre(todo'[u], T2)
    BY <1>1, <1>2, <1>9, <1>11, <2>9, NamesMove
  <2> QED
    BY <2>10, <2>11
<1>12. \/ UNCHANGED <<todo, trail>>
       \/ Then(u, <<>>) /\ UNCHANGED trail
       \/ /\ Then(u, w)
          /\ trail' = IF t.inner THEN [trail EXCEPT ![u] = Append(@, t.n)] ELSE trail
          /\ ~ (t.inner /\ ssaname_node_check(u, t.n))
  BY <1>1, <1>7 DEF call_ssaname
<1>13. ssaname_node_check(u, t.n) <=> Contains(T, t.n)
  BY <1>1 DEF ssaname_node_check
<1> QED
  BY <1>1, <1>5, <1>6, <1>10, <1>11, <1>12, <1>13

LEMMA LeaveMove ==
    ASSUME CallTypes, ~ AnonymousBelow, NEW u \in Image, LeaveName(u),
           NamesAre(todo[u], trail[u])
    PROVE  NamesAre(todo'[u], trail'[u])
<1>1. PICK t, s, T : t = Task(u) /\ s = todo[u] /\ T = trail[u]
  OBVIOUS
<1>2. todo[u] # <<>> /\ t.do = "var of" /\ UNCHANGED <<listVars, callees, callers, trail, bug>>
  BY <1>1, HeadTask DEF LeaveName
<1>3. t \in NameTasks /\ s[1] = t /\ IsList(s) /\ Len(s) \in Nat \ {0}
  <2>1. t \in NameTasks /\ s[1] = t /\ Len(s) \in Nat \ {0}
    BY <1>1, <1>2, TaskFacts DEF TaskSound
  <2>2. IsList(s)
    BY <1>1 DEF CallTypes, TodoSound, TasksSound
  <2> QED
    BY <2>1, <2>2
<1>4. PICK q, v, w : /\ q = [t EXCEPT !.do = "pop"] /\ v = names[t.n].var
                     /\ w = Values(t, v) \o <<q>>
  OBVIOUS
<1>5. Then(u, IF v = 0 THEN <<>> ELSE w)
  BY <1>1, <1>4 DEF LeaveName
<1>6. CASE v = 0
  <2>1. ~ Popper(t)
    BY <1>4, <1>6 DEF Popper, Leaver, Named
  <2> QED
    BY <1>1, <1>2, <1>5, <1>6, <2>1, SilentFacts, SilentMove
<1>7. CASE v # 0
  <2>1. q \in NameTasks /\ q.do = "pop" /\ q.n = t.n /\ q.inner = t.inner
    BY <1>3, <1>4 DEF NameTasks
  <2>2. OwnLast(w, q, t)
    BY <1>3, <1>4, NameOwnLast
  <2>3. LeavesBy(q, t)
    BY <2>1 DEF LeavesBy
  <2>4. OwnPops(s, w, q)
    BY <1>1, <1>3, <2>2, <2>3, OwnLastKeeps
  <2>5. Popper(q) <=> Popper(t)
    BY <1>2, <2>1 DEF Popper, Leaver, Named
  <2>6. 1 \in 1..Len(s)
    BY <1>3, FirstAndLast
  <2>7. NamesAre(s, T)
    BY <1>1
  <2>8. ASSUME Popper(q)
        PROVE  /\ \E x \in 1..Len(T) : T[x] = q.n /\ \A y \in 1..Len(T) : ~ (y > x)
               /\ \A j \in 1..Len(s) : j # 1 /\ Popper(s[j]) => s[j].n # q.n
    <3>1. Popper(s[1]) /\ s[1].n = q.n
      BY <1>3, <2>1, <2>5, <2>8
    <3>2. \A j \in 1..Len(s) : j # 1 /\ Popper(s[j]) => s[j].n # q.n
      BY <2>6, <2>7, <3>1 DEF NamesAre, EachPopsOne
    <3>3. PICK x \in 1..Len(T) : /\ T[x] = q.n
                                 /\ \A y \in 1..Len(T) : y > x => PopsBefore(s, 1, T[y])
      BY <2>6, <2>7, <3>1 DEF NamesAre, OnTrail
    <3>4. \A n : ~ PopsBefore(s, 1, n)
      <4>1. \A k \in 1..Len(s) : ~ (k < 1)
        BY <1>3
      <4> QED
        BY <4>1 DEF PopsBefore
    <3> QED
      BY <3>2, <3>3, <3>4
  <2>9. Trailed(s, T, w, T)
    <3>1. \A i \in 1..Len(w) : Popper(w[i]) =>
            /\ \E x \in 1..Len(T) : /\ T[x] = w[i].n
                                    /\ \A y \in 1..Len(T) : ~ (y > x)
            /\ \A j \in 1..Len(s) : j # 1 /\ Popper(s[j]) => s[j].n # w[i].n
      BY <2>4, <2>8 DEF OwnPops
    <3>2. \A y \in 1..Len(T) : PopsIn(w, T[y]) \/ ~ (Popper(s[1]) /\ s[1].n = T[y])
      BY <1>3, <2>1, <2>4, <2>5 DEF OwnPops
    <3> QED
      BY <2>4, <3>1, <3>2 DEF Trailed, OwnPops
  <2>10. NamesAre(todo'[u], T)
    BY <1>1, <1>2, <1>5, <1>7, <2>4, <2>9, NamesMove DEF OwnPops
  <2> QED
    BY <1>1, <1>2, <2>10
<1> QED
  BY <1>6, <1>7

LEMMA LastFacts ==
    ASSUME NEW S, NEW s \in Seq(S), s # <<>>
    PROVE  Len(s) \in Nat \ {0} /\ Last(s) = s[Len(s)]
BY DEF Last

(* What is popped is what was pushed last.                                 *)
LEMMA PopMove ==
    ASSUME CallTypes, NEW u \in Image, ssaname_node_pop(u),
           NamesAre(todo[u], trail[u]), IsInjective(trail[u])
    PROVE  NamesAre(todo'[u], trail'[u]) /\ bug' = ""
<1>1. PICK t, s, T : t = Task(u) /\ s = todo[u] /\ T = trail[u]
  OBVIOUS
<1>2. todo[u] # <<>> /\ t.do = "pop" /\ bug = ""
  BY <1>1, HeadTask DEF ssaname_node_pop, Busy
<1>3. t \in NameTasks /\ s[1] = t /\ Len(s) \in Nat \ {0} /\ t.inner \in BOOLEAN /\ Leaver(t)
  <2>1. t \in NameTasks /\ s[1] = t /\ Len(s) \in Nat \ {0} /\ names[t.n].var # 0
    BY <1>1, <1>2, TaskFacts DEF TaskSound
  <2> QED
    BY <1>2, <2>1 DEF NameTasks, Leaver, Named
<1>4. NamesAre(s, T) /\ T \in Seq(DOMAIN names) /\ trail \in [Image -> Seq(DOMAIN names)]
      /\ IsInjective(T)
  BY <1>1 DEF CallTypes, TrailSound
<1>5. CASE ~ t.inner
  <2>1. Then(u, <<>>) /\ UNCHANGED <<trail, bug>>
    BY <1>1, <1>5 DEF ssaname_node_pop
  <2>2. ~ Popper(t)
    BY <1>5 DEF Popper
  <2> QED
    BY <1>1, <1>2, <2>1, <2>2, SilentFacts, SilentMove
<1>6. CASE t.inner
  <2>1. Popper(s[1]) /\ 1 \in 1..Len(s)
    BY <1>3, <1>6, FirstAndLast DEF Popper
  <2>2. PICK x \in 1..Len(T) : /\ T[x] = t.n
                               /\ \A y \in 1..Len(T) : y > x => PopsBefore(s, 1, T[y])
    BY <1>3, <1>4, <2>1 DEF NamesAre, OnTrail
  <2>3. \A n : ~ PopsBefore(s, 1, n)
    <3>1. \A k \in 1..Len(s) : ~ (k < 1)
      BY <1>3
    <3> QED
      BY <3>1 DEF PopsBefore
  <2>4. PICK l \in Nat : l = Len(T) /\ DOMAIN T = 1..l
    BY <1>4
  <2>5. x = l /\ l # 0
    BY <2>2, <2>3, <2>4
  <2>6. Last(T) = t.n
    <3>1. T # <<>>
      BY <2>4, <2>5
    <3> QED
      BY <1>4, <2>2, <2>4, <2>5, <3>1, LastFacts
  <2>7. trail' = [trail EXCEPT ![u] = Front(@)] /\ Then(u, <<>>) /\ UNCHANGED bug
    BY <1>1, <1>6, <2>6 DEF ssaname_node_pop
  <2>8. PICK T2, none : T2 = Front(T) /\ none = <<>>
    OBVIOUS
  <2>9. /\ Len(T2) = l - 1 /\ T2 \in Seq(DOMAIN names)
        /\ \A y \in 1..(l - 1) : T2[y] = T[y] /\ y \in 1..l /\ y # l
    <3>1. T # <<>>
      BY <2>4, <2>5
    <3>2. Len(T2) = Len(T) - 1 /\ \A y \in 1..Len(T2) : T2[y] = T[y]
      BY <1>4, <2>8, <3>1, FrontFacts
    <3>3. T2 \in Seq(DOMAIN names)
      BY <1>4, <2>8, FrontFacts
    <3> QED
      BY <2>4, <3>2, <3>3
  <2>10. \A y \in 1..(l - 1) : T[y] # t.n
    BY <1>4, <2>2, <2>4, <2>5, <2>9 DEF IsInjective
  <2>12. Silent(none) /\ IsList(none) /\ \A i \in 1..Len(none) : FALSE
    BY <2>8, SilentFacts DEF Silent
  <2>13. Shaped(s, none)
    BY <2>12 DEF Shaped, NamedAbove
  <2>14. ASSUME NEW j \in 1..Len(s), j # 1, Popper(s[j])
         PROVE  /\ \A z \in 1..Len(T) : T[z] = s[j].n => z \in 1..Len(T2) /\ T2[z] = T[z]
                /\ \A y \in 1..Len(T2) : /\ y \in 1..Len(T) /\ T2[y] = T[y]
                                         /\ ~ (Popper(s[1]) /\ s[1].n = T[y])
    <3>1. s[j].n # t.n
      BY <1>3, <1>4, <2>1, <2>14 DEF NamesAre, EachPopsOne
    <3>2. \A z \in 1..l : T[z] = s[j].n => z \in 1..(l - 1)
      BY <2>2, <2>5, <3>1
    <3> QED
      BY <1>3, <2>4, <2>9, <2>10, <3>2
  <2>15. Trailed(s, T, none, T2)
    BY <2>12, <2>14 DEF Trailed, EachPopsOne
  <2>16. NamesAre(todo'[u], T2)
    BY <1>1, <1>2, <2>7, <2>8, <2>12, <2>13, <2>15, NamesMove
  <2>17. trail'[u] = T2
    BY <1>1, <1>4, <2>7, <2>8
  <2> QED
    BY <1>2, <2>7, <2>16, <2>17
<1> QED
  BY <1>3, <1>5, <1>6

(* No name is on a trail twice, so it holds no more than there are names.  *)
LEMMA TrailFits ==
    ASSUME NEW n \in Nat, NEW T \in Seq(1..n), IsInjective(T)
    PROVE  Len(T) <= n
<1>1. PICK l \in Nat : l = Len(T) /\ DOMAIN T = 1..l
  OBVIOUS
<1>2. PICK A, B : A = 1..l /\ B = 1..n
  OBVIOUS
<1>3. T \in [A -> B]
  BY <1>1, <1>2
<1>4. T \in Injection(A, B)
  BY <1>1, <1>2, <1>3 DEF Injection, IsInjective
<1>5. IsFiniteSet(B) /\ Cardinality(A) = l /\ Cardinality(B) = n
  BY <1>2, FS_Interval
<1>6. Cardinality(A) <= Cardinality(B)
  BY <1>4, <1>5, FS_Injection
<1> QED
  BY <1>1, <1>5, <1>6

LEMMA TrailKeeps ==
    ASSUME CallTypes, NEW u \in Image, CallStep(u), \A v \in Image : IsInjective(trail[v])
    PROVE  /\ \A v \in Image : IsInjective(trail'[v])
           /\ \A v \in Image : v # u => trail'[v] = trail[v]
<1>1. trail \in [Image -> Seq(DOMAIN names)]
  BY DEF CallTypes, TrailSound
<1>2. PICK T : T = trail[u]
  OBVIOUS
<1>3. T \in Seq(DOMAIN names) /\ IsInjective(T)
  BY <1>1, <1>2
<1>4. PICK l \in Nat : l = Len(T) /\ DOMAIN T = 1..l
  BY <1>3
<1>5. ASSUME NEW T2, IsInjective(T2), trail' = [trail EXCEPT ![u] = T2]
      PROVE  /\ \A v \in Image : IsInjective(trail'[v])
             /\ \A v \in Image : v # u => trail'[v] = trail[v]
  BY <1>1, <1>5
<1>6. CASE UNCHANGED trail
  BY <1>6
<1>7. CASE trail' = [trail EXCEPT ![u] = <<>>]
  BY <1>5, <1>7 DEF IsInjective
<1>8. CASE \E n \in DOMAIN names : /\ ~ Contains(T, n)
                                   /\ trail' = [trail EXCEPT ![u] = Append(T, n)]
  <2>1. PICK n \in DOMAIN names : /\ ~ Contains(T, n)
                                  /\ trail' = [trail EXCEPT ![u] = Append(T, n)]
    BY <1>8
  <2>2. Add(T, n) = Append(T, n)
    BY <2>1 DEF Add
  <2>3. IsInjective(Append(T, n))
    <3>1. PICK S : S = DOMAIN names
      OBVIOUS
    <3>2. T \in Seq(S) /\ n \in S
      BY <1>3, <3>1
    <3>3. IsInjective(Add(T, n))
      BY <1>3, <3>2, AddFacts
    <3> QED
      BY <2>2, <3>3
  <2> QED
    BY <1>5, <2>1, <2>3
<1>9. CASE trail' = [trail EXCEPT ![u] = Front(T)]
  <2>1. PICK T2 : T2 = Front(T)
    OBVIOUS
  <2>2. /\ T2 \in Seq(DOMAIN names) /\ Len(T2) <= l
        /\ \A i \in 1..Len(T2) : T2[i] = T[i]
    BY <1>3, <1>4, <2>1, FrontFacts
  <2>3. DOMAIN T2 \subseteq 1..l /\ \A i \in DOMAIN T2 : T2[i] = T[i]
    BY <1>4, <2>2
  <2>4. IsInjective(T2)
    BY <1>3, <1>4, <2>3 DEF IsInjective
  <2> QED
    BY <1>5, <1>9, <2>1, <2>4
<1>10. CASE QuietStep(u) \/ __add_call(u) \/ add_caller(u) \/ LeaveName(u)
  <2>1. UNCHANGED trail
    BY <1>10 DEF QuietStep, __add_call, add_caller, LeaveName
  <2> QED
    BY <1>6, <2>1
<1>11. CASE NameStep(u)
  BY <1>7, <1>11 DEF NameStep
<1>12. CASE call_ssaname(u)
  <2>1. PICK t : t = Task(u)
    OBVIOUS
  <2>2. t.n \in DOMAIN names /\ t.inner \in BOOLEAN
    <3>1. t \in NameTasks
      BY <1>12, <2>1, HeadTask, TaskFacts DEF call_ssaname, TaskSound
    <3> QED
      BY <3>1 DEF NameTasks
  <2>3. \/ UNCHANGED trail
        \/ /\ ~ ssaname_node_check(u, t.n)
           /\ trail' = [trail EXCEPT ![u] = Append(@, t.n)]
    BY <1>12, <2>1, <2>2 DEF call_ssaname
  <2> QED
    BY <1>1, <1>2, <1>6, <1>8, <2>2, <2>3 DEF ssaname_node_check
<1>13. CASE ssaname_node_pop(u)
  <2>1. UNCHANGED trail \/ trail' = [trail EXCEPT ![u] = Front(T)]
    BY <1>1, <1>2, <1>13 DEF ssaname_node_pop
  <2> QED
    BY <1>6, <1>9, <2>1
<1> QED
  BY <1>10, <1>11, <1>12, <1>13, QuietSteps

(* What stops the program in one step.                                     *)
LEMMA BugStep ==
    ASSUME CallTypes, NEW u \in Image, CallStep(u), UNCHANGED progVars,
           \A v \in Image : IsInjective(trail[v]),
           ~ AnonymousBelow => NamesAre(todo[u], trail[u])
    PROVE  OnlyTheseBugs'
<1>1. fns' = fns /\ names' = names /\ Func' = Func
  BY SameTasks DEF progVars
<1>2. AnonymousBelow' <=> AnonymousBelow
  BY <1>1 DEF AnonymousBelow, FedBy
<1>3. ASSUME bug' = "" PROVE OnlyTheseBugs'
  BY <1>3, ZenonT(60) DEF OnlyTheseBugs
<1>4. bug = ""
  BY DEF CallStep, do_init_value, do_var_decl_phase4, do_function_decl, __do_func_used_at,
     __trace_call_gs, add_possible_callee, indcfg1_do_call, __add_call, add_caller,
     call_ssaname, LeaveName, ssaname_node_pop, Busy
<1>5. CASE QuietStep(u) \/ NameStep(u) \/ __add_call(u) \/ LeaveName(u)
  <2>1. UNCHANGED bug
    BY <1>5 DEF QuietStep, NameStep, __add_call, LeaveName
  <2> QED
    BY <1>3, <1>4, <2>1
<1>6. CASE add_caller(u)
  <2>1. PICK t, a : t = Task(u) /\ a = AliasOf(t.g)
    OBVIOUS
  <2>2. t.g \in Func
    <3>1. t \in CallerTasks
      BY <1>6, <2>1, HeadTask, TaskFacts DEF add_caller, TaskSound
    <3> QED
      BY <3>1 DEF CallerTasks
  <2>3. UNCHANGED bug \/ (bug' = "null" /\ ~ HasBody(t.g) /\ a # 0 /\ ~ fns[a].global)
    BY <1>4, <1>6, <2>1 DEF add_caller
  <2>4. CASE bug' = "null" /\ ~ HasBody(t.g) /\ a # 0 /\ ~ fns[a].global
    <3>1. a = fns[t.g].alias
      BY <2>1 DEF AliasOf
    <3>2. \E g \in Func : /\ ~ fns[g].body /\ fns[g].alias # 0
                          /\ ~ fns[fns[g].alias].global
      BY <2>2, <2>4, <3>1 DEF HasBody
    <3> QED
      BY <1>1, <2>4, <3>2 DEF OnlyTheseBugs, HasBody
  <2> QED
    BY <1>3, <1>4, <2>3, <2>4
<1>7. CASE call_ssaname(u)
  <2>1. UNCHANGED bug \/ (bug' = "depth" /\ Len(trail[u]) >= SsaNameDepth - 1)
    BY <1>7 DEF call_ssaname
  <2>2. CASE bug' = "depth" /\ Len(trail[u]) >= SsaNameDepth - 1
    <3>1. PICK n \in Nat : n = Len(names) /\ DOMAIN names = 1..n
      BY ProgramFacts
    <3>2. PICK T : T = trail[u]
      OBVIOUS
    <3>3. T \in Seq(1..n) /\ IsInjective(T)
      BY <3>1, <3>2 DEF CallTypes, TrailSound
    <3>4. Len(T) <= n /\ Len(T) \in Nat
      BY <3>3, TrailFits
    <3>5. n >= SsaNameDepth - 1
      BY <2>2, <3>2, <3>4, ProgramAssumption
    <3>6. Len(names) >= SsaNameDepth - 1
      BY <3>1, <3>5
    <3> QED
      BY <1>1, <2>2, <3>6, SMTT(30) DEF OnlyTheseBugs
  <2> QED
    BY <1>3, <1>4, <2>1, <2>2
<1>8. CASE ssaname_node_pop(u)
  <2>1. bug' \in {"", "name"}
    BY <1>4, <1>8 DEF ssaname_node_pop
  <2>2. CASE AnonymousBelow
    BY <1>2, <2>1, <2>2 DEF OnlyTheseBugs
  <2>3. CASE ~ AnonymousBelow
    BY <1>3, <1>8, <2>3, PopMove
  <2> QED
    BY <2>2, <2>3
<1> QED
  BY <1>5, <1>6, <1>7, <1>8, QuietSteps

LEMMA NamesStep ==
    ASSUME CallTypes, ~ AnonymousBelow, NEW u \in Image, CallStep(u),
           NamesAre(todo[u], trail[u]), IsInjective(trail[u])
    PROVE  /\ NamesAre(todo'[u], trail'[u])
           /\ \A v \in Image : v # u => todo'[v] = todo[v]
<1>1. UNCHANGED todo \/ \E tasks : Then(u, tasks)
  BY DEF CallStep, do_init_value, do_var_decl_phase4, do_function_decl, __do_func_used_at,
     __trace_call_gs, add_possible_callee, indcfg1_do_call, __add_call, add_caller,
     call_ssaname, LeaveName, ssaname_node_pop
<1>2. ASSUME NEW v \in Image, v # u PROVE todo'[v] = todo[v]
  <2>1. DOMAIN todo = Image
    BY DEF CallTypes, TodoSound
  <2> QED
    BY <1>1, <1>2, <2>1 DEF Then
<1> SUFFICES NamesAre(todo'[u], trail'[u])
  BY <1>2
<1>3. CASE QuietStep(u)
  <2>1. PICK tasks : /\ Then(u, tasks) /\ Quiet(tasks) /\ todo[u] # <<>>
                     /\ Task(u).do \in {"init", "var", "fn", "uses", "values",
                                        "asm call", "call"}
                     /\ UNCHANGED <<callees, callers, trail, bug>>
    BY <1>3 DEF QuietStep
  <2>2. ~ Popper(Task(u)) /\ UNCHANGED trail
    BY <2>1 DEF Popper, Leaver
  <2> QED
    BY <2>1, <2>2, SilentFacts, SilentMove
<1>4. CASE NameStep(u)
  BY <1>4, NameStepMove
<1>5. CASE __add_call(u)
  <2>1. /\ todo[u] # <<>> /\ Task(u).do = "callee" /\ Then(u, <<>>)
        /\ UNCHANGED <<listVars, callers, trail, bug>>
    BY <1>5, HeadTask DEF __add_call
  <2>2. ~ Popper(Task(u)) /\ UNCHANGED trail
    BY <2>1 DEF Popper, Leaver
  <2> QED
    BY <2>1, <2>2, SilentFacts, SilentMove
<1>6. CASE add_caller(u)
  <2>1. PICK t, a, q : t = Task(u) /\ a = AliasOf(t.g) /\ q = [t EXCEPT !.g = a]
    OBVIOUS
  <2>2. todo[u] # <<>> /\ t.do = "caller" /\ UNCHANGED <<listVars, callees, trail>>
    BY <1>6, <2>1, HeadTask DEF add_caller
  <2>3. q.do = "caller"
    <3>1. t \in CallerTasks
      BY <2>1, <2>2, TaskFacts DEF TaskSound
    <3> QED
      BY <2>1, <3>1 DEF CallerTasks
  <2>4. Then(u, <<>>) \/ Then(u, <<q>>)
    BY <1>6, <2>1 DEF add_caller
  <2>5. Silent(<<>>) /\ Silent(<<q>>)
    BY <2>3, SilentFacts DEF NameLike
  <2>6. ~ Popper(Task(u)) /\ UNCHANGED trail
    BY <2>1, <2>2 DEF Popper, Leaver
  <2> QED
    BY <2>1, <2>2, <2>4, <2>5, <2>6, SilentMove
<1>7. CASE call_ssaname(u)
  BY <1>7, FollowMove
<1>8. CASE LeaveName(u)
  BY <1>8, LeaveMove
<1>9. CASE ssaname_node_pop(u)
  BY <1>9, PopMove
<1> QED
  BY <1>3, <1>4, <1>5, <1>6, <1>7, <1>8, <1>9, QuietSteps, SMTT(30)

(* The invariant of the trails: what is to be popped is on top, unless a   *)
(* name without a variable is below one that has one.                      *)
NamesInv ==
    /\ \A u \in Image : IsInjective(trail[u])
    /\ ~ AnonymousBelow => \A u \in Image : NamesAre(todo[u], trail[u])
    /\ OnlyTheseBugs

LEMMA NamesSame ==
    ASSUME UNCHANGED progVars
    PROVE  /\ \A s, T : NamesAre(s, T) <=> NamesAre(s, T)'
           /\ AnonymousBelow' <=> AnonymousBelow
           /\ UNCHANGED bug => (OnlyTheseBugs' <=> OnlyTheseBugs)
<1>1. names' = names /\ fns' = fns
  BY DEF progVars
<1>2. \A s, T : NamesAre(s, T) <=> NamesAre(s, T)'
  BY <1>1 DEF NamesAre, NamedAbove, CallsFirst, EachPopsOne, OnTrail, PopsBefore,
     Popper, Leaver, Named, NameLike
<1>3. AnonymousBelow' <=> AnonymousBelow
  BY <1>1 DEF AnonymousBelow, FedBy
<1>4. UNCHANGED bug => (OnlyTheseBugs' <=> OnlyTheseBugs)
  BY <1>1, <1>3 DEF OnlyTheseBugs, HasBody, Func
<1> QED
  BY <1>2, <1>3, <1>4

LEMMA NoNames ==
    ASSUME NEW s, NEW T, \A p \in 1..Len(s) : ~ NameLike(s[p])
    PROVE  NamesAre(s, T)
<1>1. \A p \in 1..Len(s) : ~ Leaver(s[p]) /\ ~ Popper(s[p])
  BY DEF Leaver, Popper, NameLike
<1> QED
  BY <1>1 DEF NamesAre, NamedAbove, CallsFirst, EachPopsOne, OnTrail

LEMMA NamesBegin ==
    ASSUME Init
    PROVE  NamesInv
<1>1. PICK none : none = <<>> /\ 1..Len(none) = {} /\ DOMAIN none = {}
  OBVIOUS
<1>2. \A u \in Image : todo[u] = none /\ trail[u] = none
  BY <1>1 DEF Init, InitCalls
<1>3. bug = ""
  BY DEF Init, InitCalls
<1>4. IsInjective(none) /\ NamesAre(none, none)
  BY <1>1, NoNames DEF IsInjective
<1> QED
  BY <1>2, <1>3, <1>4 DEF NamesInv, OnlyTheseBugs

LEMMA NamesStutter ==
    ASSUME NamesInv, UNCHANGED progVars, UNCHANGED callVars
    PROVE  NamesInv'
<1>1. todo' = todo /\ trail' = trail /\ bug' = bug
  BY DEF callVars
<1>2. ASSUME ~ AnonymousBelow', NEW u \in Image PROVE NamesAre(todo[u], trail[u])'
  <2>1. PICK s, T : s = todo[u] /\ T = trail[u]
    OBVIOUS
  <2>2. NamesAre(s, T)'
    BY <1>2, <2>1, NamesSame DEF NamesInv
  <2>3. s = todo'[u] /\ T = trail'[u]
    BY <1>1, <2>1
  <2> QED
    BY <2>2, <2>3 DEF NamesAre, NamedAbove, CallsFirst, EachPopsOne, OnTrail
<1> QED
  BY <1>1, <1>2, NamesSame DEF NamesInv

LEMMA CallStepNames ==
    ASSUME CallTypes, NamesInv, NEW u \in Image, CallStep(u), UNCHANGED progVars
    PROVE  NamesInv'
<1>1. /\ \A v \in Image : IsInjective(trail'[v])
      /\ \A v \in Image : v # u => trail'[v] = trail[v]
  BY TrailKeeps DEF NamesInv
<1>2. OnlyTheseBugs'
  BY BugStep DEF NamesInv
<1>3. ASSUME ~ AnonymousBelow, NEW v \in Image PROVE NamesAre(todo'[v], trail'[v])
  <2>1. NamesAre(todo[u], trail[u]) /\ IsInjective(trail[u])
    BY <1>3 DEF NamesInv
  <2>2. /\ NamesAre(todo'[u], trail'[u])
        /\ v # u => todo'[v] = todo[v]
    BY <1>3, <2>1, NamesStep
  <2> QED
    BY <1>1, <1>3, <2>2 DEF NamesInv
<1>4. ASSUME ~ AnonymousBelow', NEW v \in Image PROVE NamesAre(todo[v], trail[v])'
  <2>1. PICK s, T : s = todo'[v] /\ T = trail'[v]
    OBVIOUS
  <2>2. NamesAre(s, T)'
    BY <1>3, <1>4, <2>1, NamesSame
  <2> QED
    BY <2>1, <2>2 DEF NamesAre, NamedAbove, CallsFirst, EachPopsOne, OnTrail
<1> QED
  BY <1>1, <1>2, <1>4 DEF NamesInv

LEMMA StartsNames ==
    ASSUME CallTypes, NamesInv, NextStep
    PROVE  NamesInv'
<1>1. /\ \A u \in Image : StartSound(todo'[u])
      /\ UNCHANGED <<progVars, trail, bug>>
  BY NextStepTodo
<1>2. ASSUME NEW u \in Image PROVE NamesAre(todo[u], trail[u])'
  <2>1. PICK s, T : s = todo'[u] /\ T = trail'[u]
    OBVIOUS
  <2>2. IsList(s) /\ \A i \in DOMAIN s : s[i] \in StartTasks
    <3>1. s \in Seq(StartTasks)
      BY <1>1, <2>1 DEF StartSound
    <3> QED
      BY <3>1, SeqIsList
  <2>3. \A i \in 1..Len(s) : ~ NameLike(s[i])
    BY <2>2, ListFacts, StartTaskFacts DEF NameLike
  <2>4. NamesAre(s, T)
    BY <2>3, NoNames
  <2>5. NamesAre(s, T)'
    BY <1>1, <2>4, NamesSame
  <2> QED
    BY <2>1, <2>5 DEF NamesAre, NamedAbove, CallsFirst, EachPopsOne, OnTrail
<1> QED
  BY <1>1, <1>2, NamesSame DEF NamesInv

LEMMA NamesNext ==
    ASSUME CallInv, NamesInv, [Next]_vars
    PROVE  NamesInv'
<1>1. CASE \E u \in Image : Step3(u) \/ MarkField(u)
  BY <1>1, NamesStutter DEF Step3, MarkField
<1>2. CASE \E u \in Image : Step456(u)
  BY <1>2, CallStepNames DEF Step456, CallInv
<1>3. CASE NextStep
  BY <1>3, StartsNames DEF CallInv
<1>4. CASE MarkEntry
  BY <1>4, MarkEntryCalls, NamesStutter
<1>5. CASE MarksOver
  BY <1>5, NamesStutter DEF MarksOver
<1>6. CASE UNCHANGED vars
  BY <1>6, NamesStutter DEF vars
<1> QED
  BY <1>1, <1>2, <1>3, <1>4, <1>5, <1>6 DEF Next, Main, Worker

(* call_ssaname's BUG_ON is met by no program but one with an anonymous    *)
(* name below a join that has a variable; the trail has room for all the   *)
(* names that there are; and a NULL is used for the target of an alias     *)
(* only when that is not a global function.                                *)
THEOREM OnlyBugs == Spec => []OnlyTheseBugs
<1>1. Init => NamesInv
  BY NamesBegin
<1>2. NamesInv /\ CallInv /\ [Next]_vars => NamesInv'
  BY NamesNext
<1>3. NamesInv => OnlyTheseBugs
  BY DEF NamesInv
<1> QED
  BY <1>1, <1>2, <1>3, CallInvariant, PTL DEF Spec

=============================================================================
