-------------------------- MODULE SinodeStoreProofs --------------------------
(***************************************************************************)
(* Theorems about SinodeStore, for every set of images and of programs.    *)
(* The first part holds of all programs, the second of those that declare  *)
(* alike what the index keeps apart (NamesAlike).                          *)
(***************************************************************************)
EXTENDS SinodeStore, TLAPS

(* The declarations of the images.                                         *)
Declared == {d \in Image \X (Nat \ {0}) : d[2] \in DOMAIN decls[d[1]]}

StoreType ==
    /\ decls \in Programs
    /\ pos \in [Image -> Nat \ {0}]
    /\ \A u \in Image : pos[u] <= Len(decls[u]) + 1
    /\ unit \in [Image -> {"new", "missed", "in", "known"}]
    /\ files \subseteq Nat
    /\ node \in Seq(Sinode)
    /\ bySpec \in [Kind -> Seq(DOMAIN node)]
    /\ byId \in [Kind -> SUBSET (DOMAIN node)]
    /\ dropped \cup replaced \subseteq Image \X (Nat \ {0})
    /\ aborted \in {"", "file", "name"}
    /\ forced \in 0..MaxForced

(* An index of a kind holds declarations of that kind.                     *)
Entries ==
    \A k \in Kind : \A p \in DOMAIN bySpec[k] :
        Def(k, p) \in Declared /\ Decl(Def(k, p)).kind = k

(* Only an assembly image inserts an assembly file, and only such an image *)
(* has to.                                                                 *)
AsmFiles ==
    /\ \A u \in Image \ Asm : unit[u] = "in"
    /\ \A v \in Asm : Srcfile[v] \in files =>
          \E w \in Asm : Srcfile[w] = Srcfile[v] /\ unit[w] = "in"

StoreInv == StoreType /\ Entries /\ AsmFiles /\ IdsMatch /\ OnlyTheseStops

(* The index is strictly sorted.                                           *)
Sorted ==
    \A k \in Kind : \A p, q \in DOMAIN bySpec[k] :
        p < q => Less(Key(Def(k, p)), Key(Def(k, q)))

(* A key is in the index.                                                  *)
Has(k, key) == \E p \in DOMAIN bySpec[k] : Key(Def(k, p)) = key

(* What is linked is in the index, under its own resfile or the built-in   *)
(* one.                                                                    *)
ByBuiltin(d) == /\ Decl(d).kind \in GlobalKind
                /\ Builtin \notin {NoBuiltin, Rf(d)}

Resolved(d) ==
    \/ Has(Decl(d).kind, Key(d))
    \/ ByBuiltin(d) /\ Has(Decl(d).kind, <<Decl(d).name, Builtin>>)

SeenResolved == \A d \in Seen : Decl(d).kind # "extern" => Resolved(d)

(* Before a forced run only what was gone through is live or marked.       *)
Past == {d \in Declared : d[2] < pos[d[1]]}

PastOnly ==
    (forced = 0) =>
        /\ Live \subseteq Past
        /\ dropped \cup replaced \subseteq Past
        /\ Live \cap (dropped \cup replaced) = {}

AlikeInv == Sorted /\ SeenResolved /\ NothingLost /\ PastOnly

(* What stands for a key is as strong as all that was seen of that key.    *)
KeyStrongest ==
    \A d \in SeenGlobal : \A p \in Hits(Decl(d).kind, Key(d)) :
        Vis(Def(Decl(d).kind, p)) <= Vis(d)

-----------------------------------------------------------------------------
(* Helpers                                                                 *)

(* t is s with e entered behind position g.                                *)
Entered(S, s, g, e, t) ==
    /\ t \in Seq(S)
    /\ Len(t) = Len(s) + 1
    /\ \A i \in 1..g : t[i] = s[i]
    /\ t[g + 1] = e
    /\ \A i \in (g + 1)..Len(s) : t[i + 1] = s[i]

(* InsertAt moves what lies behind by one.                                 *)
LEMMA InsertAtFacts ==
    ASSUME NEW S, NEW s \in Seq(S), NEW g \in 0..Len(s), NEW e \in S
    PROVE  Entered(S, s, g, e, InsertAt(s, g + 1, e))
<1> DEFINE a == SubSeq(s, 1, g)
           b == SubSeq(s, g + 1, Len(s))
           t == InsertAt(s, g + 1, e)
<1>1. (g + 1) - 1 = g
  OBVIOUS
<1>2. t = a \o <<e>> \o b
  BY <1>1 DEF InsertAt
<1>3. a \in Seq(S) /\ Len(a) = g /\ \A i \in 1..g : a[i] = s[i]
  OBVIOUS
<1>4. /\ b \in Seq(S) /\ Len(b) = Len(s) - g
      /\ \A i \in 1..(Len(s) - g) : b[i] = s[g + i]
  OBVIOUS
<1>5. <<e>> \in Seq(S) /\ Len(<<e>>) = 1 /\ <<e>>[1] = e
  OBVIOUS
<1> DEFINE c == a \o <<e>>
<1> HIDE DEF a, b
<1>6. /\ c \in Seq(S) /\ Len(c) = g + 1
      /\ \A i \in 1..g : c[i] = s[i]
      /\ c[g + 1] = e
  BY <1>3, <1>5
<1>7. t = c \o b
  BY <1>2
<1> HIDE DEF c, t
<1>8. t \in Seq(S) /\ Len(t) = Len(s) + 1
  BY <1>4, <1>6, <1>7
<1>9. \A i \in 1..(g + 1) : t[i] = c[i]
  BY <1>4, <1>6, <1>7
<1>10. \A i \in (g + 1)..Len(s) : t[i + 1] = s[i]
  <2> TAKE i \in (g + 1)..Len(s)
  <2>1. t[i + 1] = b[(i + 1) - (g + 1)]
    BY <1>4, <1>6, <1>7
  <2>2. (i + 1) - (g + 1) = i - g /\ i - g \in 1..(Len(s) - g) /\ g + (i - g) = i
    OBVIOUS
  <2> QED
    BY <2>1, <2>2, <1>4
<1> QED
  BY <1>6, <1>8, <1>9, <1>10 DEF t, Entered

(* A declaration has the parts of one.                                     *)
LEMMA DeclFacts ==
    ASSUME StoreType, NEW d \in Declared
    PROVE  /\ d[1] \in Image /\ decls[d[1]] \in Seq(Declaration)
           /\ d[2] \in 1..Len(decls[d[1]])
           /\ Decl(d) \in Declaration
           /\ Rf(d) \in Nat \ {NoBuiltin}
           /\ Key(d) \in Nat \X Nat
           /\ Key(d)[1] = Decl(d).name
           /\ Vis(d) \in {0, 1} /\ Stored(d) \in {0, -1}
           /\ d \in Image \X (Nat \ {0})
<1>1. decls \in [Image -> Seq(Declaration)]
  BY StoreAssumption DEF StoreType
<1>2. d[1] \in Image /\ d[2] \in DOMAIN decls[d[1]]
  BY DEF Declared
<1>3. decls[d[1]] \in Seq(Declaration)
  BY <1>1, <1>2
<1>4. Decl(d) \in Declaration
  BY <1>2, <1>3 DEF Decl
<1>5. Rf(d) \in Nat \ {NoBuiltin}
  BY <1>2, StoreAssumption DEF Rf
<1> QED
  BY <1>2, <1>3, <1>4, <1>5 DEF Declared, Declaration, Key, Vis, Stored, NoBuiltin

(* A worker that runs is at a declaration of its image.                    *)
LEMMA HereFacts ==
    ASSUME StoreType, NEW u \in Image, Runs(u)
    PROVE  /\ Here(u) \in Declared
           /\ Here(u)[1] = u /\ Here(u)[2] = pos[u]
           /\ pos[u] \in 1..Len(decls[u])
           /\ decls[u] \in Seq(Declaration)
<1>1. decls \in [Image -> Seq(Declaration)]
  BY StoreAssumption DEF StoreType
<1>2. pos[u] \in Nat \ {0} /\ pos[u] <= Len(decls[u]) + 1
  BY DEF StoreType
<1>3. pos[u] # Len(decls[u]) + 1
  BY DEF Runs, Finished
<1>4. Len(decls[u]) \in Nat /\ DOMAIN decls[u] = 1..Len(decls[u])
  BY <1>1
<1>5. pos[u] \in 1..Len(decls[u])
  BY <1>2, <1>3, <1>4
<1> QED
  BY <1>1, <1>2, <1>4, <1>5 DEF Here, Declared

(* What a search stops at is of the name it looks for.                     *)
LEMMA SearchFacts ==
    ASSUME StoreType, Entries, NEW d \in Declared, Decl(d).kind \in Kind,
           NEW f \in Search(d), f # Nothing
    PROVE  LET k == Decl(d).kind
           IN /\ f \in DOMAIN bySpec[k]
              /\ Def(k, f) \in Declared /\ Decl(Def(k, f)).kind = k
              /\ Decl(Def(k, f)).name = Decl(d).name
              /\ \/ Key(Def(k, f)) = Key(d)
                 \/ ByBuiltin(d) /\ Key(Def(k, f)) = <<Decl(d).name, Builtin>>
<1> DEFINE k == Decl(d).kind
<1>1. \/ f \in Hits(k, Key(d))
      \/ ByBuiltin(d) /\ f \in Hits(k, <<Decl(d).name, Builtin>>)
  BY DEF Search, Walk, ByBuiltin
<1>2. f \in DOMAIN bySpec[k]
  BY <1>1 DEF Hits
<1>3. Def(k, f) \in Declared /\ Decl(Def(k, f)).kind = k
  BY <1>2 DEF Entries
<1>4. \/ Key(Def(k, f)) = Key(d)
      \/ ByBuiltin(d) /\ Key(Def(k, f)) = <<Decl(d).name, Builtin>>
  BY <1>1 DEF Hits
<1>5. Key(Def(k, f))[1] = Decl(d).name
  BY <1>4, DeclFacts
<1>6. Decl(Def(k, f)).name = Decl(d).name
  BY <1>3, <1>5, DeclFacts
<1> QED
  BY <1>2, <1>3, <1>4, <1>6

(* A search that finds nothing fell off the tree at the declaration's key. *)
LEMMA SearchMiss ==
    ASSUME StoreType, NEW d \in Declared, Decl(d).kind \in Kind,
           Nothing \in Search(d)
    PROVE  Gaps(Decl(d).kind, Key(d)) # {}
<1> DEFINE k == Decl(d).kind
<1>0. bySpec[k] \in Seq(DOMAIN node)
  BY DEF StoreType
<1>1. DOMAIN bySpec[k] = 1..Len(bySpec[k])
  BY <1>0
<1>2. Nothing \notin Hits(k, Key(d))
  BY <1>1 DEF Nothing, Hits
<1>3. Nothing \in Walk(k, Key(d))
  <2>1. CASE ByBuiltin(d)
    BY <2>1 DEF Search, ByBuiltin
  <2>2. CASE ~ ByBuiltin(d)
    BY <2>2 DEF Search, ByBuiltin
  <2> QED
    BY <2>1, <2>2
<1> QED
  BY <1>2, <1>3 DEF Walk

-----------------------------------------------------------------------------
(* How a step changes the indexes                                          *)

(* What the declarations are does not change.                              *)
LEMMA DeclsFixed ==
    ASSUME decls' = decls
    PROVE  /\ \A d : Decl(d)' = Decl(d) /\ Key(d)' = Key(d) /\ Vis(d)' = Vis(d)
           /\ Declared' = Declared
  BY DEF Decl, Key, Vis, Rf, Declared

(* A new sinode for d is entered behind position g of the index of k.      *)
InsertedAt(d, k, g) ==
    /\ node' \in Seq(Sinode) /\ Len(node') = Len(node) + 1
    /\ bySpec' \in [Kind -> Seq(DOMAIN node')]
    /\ Len(bySpec'[k]) = Len(bySpec[k]) + 1
    /\ \A i \in 1..g : Def(k, i)' = Def(k, i)
    /\ Def(k, g + 1)' = d /\ bySpec'[k][g + 1] = Len(node) + 1
    /\ \A i \in (g + 1)..Len(bySpec[k]) :
          Def(k, i + 1)' = Def(k, i) /\ bySpec'[k][i + 1] = bySpec[k][i]
    /\ \A i \in 1..g : bySpec'[k][i] = bySpec[k][i]
    /\ \A j \in Kind \ {k} : bySpec'[j] = bySpec[j]
    /\ \A j \in Kind \ {k} : \A p \in DOMAIN bySpec[j] :
          Def(j, p)' = Def(j, p)

LEMMA InsertEffect ==
    ASSUME StoreType, NEW d \in Declared, NEW k \in Kind,
           NEW g \in 0..Len(bySpec[k]),
           sinode_new(d), decls' = decls,
           bySpec' = [bySpec EXCEPT ![k] = InsertAt(@, g + 1, Len(node) + 1)]
    PROVE  InsertedAt(d, k, g)
<1> DEFINE n == Len(node) + 1
           sn == [def |-> d, weak |-> Stored(d)]
<1>1. node \in Seq(Sinode) /\ bySpec \in [Kind -> Seq(DOMAIN node)]
  BY DEF StoreType
<1>2. sn \in Sinode
  BY DeclFacts DEF Sinode
<1>3. node' = Append(node, sn)
  BY DEF sinode_new
<1>4. /\ node' \in Seq(Sinode) /\ Len(node') = n
      /\ node'[n] = sn /\ DOMAIN node' = 1..n /\ DOMAIN node = 1..Len(node)
      /\ \A i \in DOMAIN node : node'[i] = node[i]
  BY <1>1, <1>2, <1>3
<1>5. n \in DOMAIN node' /\ DOMAIN node \subseteq DOMAIN node'
  BY <1>4, <1>1
<1>6. \A j \in Kind : bySpec[j] \in Seq(DOMAIN node')
  BY <1>1, <1>5
<1> DEFINE t == InsertAt(bySpec[k], g + 1, n)
<1>7. bySpec'[k] = t /\ \A j \in Kind \ {k} : bySpec'[j] = bySpec[j]
  BY <1>1
<1>8. /\ t \in Seq(DOMAIN node')
      /\ Len(t) = Len(bySpec[k]) + 1
      /\ \A i \in 1..g : t[i] = bySpec[k][i]
      /\ t[g + 1] = n
      /\ \A i \in (g + 1)..Len(bySpec[k]) : t[i + 1] = bySpec[k][i]
  <2> DEFINE S == DOMAIN node'
             s == bySpec[k]
  <2>1. s \in Seq(S) /\ g \in 0..Len(s) /\ n \in S
    BY <1>5, <1>6
  <2> HIDE DEF S, s, n
  <2>2. Entered(S, s, g, n, InsertAt(s, g + 1, n))
    BY <2>1, InsertAtFacts
  <2> QED
    BY <2>2 DEF S, s, t, Entered
<1> HIDE DEF t
<1>9. bySpec' \in [Kind -> Seq(DOMAIN node')]
  BY <1>1, <1>6, <1>7, <1>8
<1>10. \A j \in Kind : \A i \in 1..Len(bySpec[j]) : bySpec[j][i] \in DOMAIN node
  BY <1>1
<1>11. \A i \in 1..g : Def(k, i)' = Def(k, i)
  <2> TAKE i \in 1..g
  <2>1. i \in 1..Len(bySpec[k])
    BY <1>1
  <2> QED
    BY <2>1, <1>4, <1>7, <1>8, <1>10 DEF Def
<1>12. Def(k, g + 1)' = d
  BY <1>4, <1>7, <1>8 DEF Def
<1>13. \A i \in (g + 1)..Len(bySpec[k]) : Def(k, i + 1)' = Def(k, i)
  <2> TAKE i \in (g + 1)..Len(bySpec[k])
  <2>1. i \in 1..Len(bySpec[k])
    BY <1>1
  <2> QED
    BY <2>1, <1>4, <1>7, <1>8, <1>10 DEF Def
<1>14. \A j \in Kind \ {k} : \A p \in DOMAIN bySpec[j] : Def(j, p)' = Def(j, p)
  <2> TAKE j \in Kind \ {k}
  <2> TAKE p \in DOMAIN bySpec[j]
  <2>1. bySpec[j][p] \in DOMAIN node
    BY <1>1
  <2> QED
    BY <2>1, <1>4, <1>7 DEF Def
<1> QED
  BY <1>4, <1>7, <1>8, <1>9, <1>11, <1>12, <1>13, <1>14 DEF InsertedAt

(* Sinodes of two kinds are different ones.                                *)
LEMMA KindsApart ==
    ASSUME Entries, NEW j \in Kind, NEW k \in Kind,
           NEW q \in DOMAIN bySpec[j], NEW p \in DOMAIN bySpec[k],
           bySpec[j][q] = bySpec[k][p]
    PROVE  j = k
<1>1. Def(j, q) = Def(k, p)
  BY DEF Def
<1> QED
  BY <1>1 DEF Entries

(* The sinode at position p stands for d from now on, and for nothing else *)
(* of the index.                                                           *)
LEMMA ExchangeEffect ==
    ASSUME StoreType, Entries, NEW d \in Declared, NEW k \in Kind,
           NEW p \in DOMAIN bySpec[k], Exchange(k, d, p),
           UNCHANGED <<decls, bySpec>>
    PROVE  /\ node' \in Seq(Sinode) /\ Len(node') = Len(node) + 1
           /\ bySpec' \in [Kind -> Seq(DOMAIN node')]
           /\ \A j \in Kind : \A q \in DOMAIN bySpec[j] :
                 Def(j, q)' = IF bySpec[j][q] = bySpec[k][p] THEN d ELSE Def(j, q)
<1> DEFINE n == Len(node) + 1
           i == bySpec[k][p]
           m == [node EXCEPT ![i].def = d]
           sn == [def |-> Def(k, p), weak |-> Stored(d)]
<1>1. node \in Seq(Sinode) /\ bySpec \in [Kind -> Seq(DOMAIN node)]
  BY DEF StoreType
<1>2. i \in DOMAIN node
  BY <1>1
<1>3. Def(k, p) \in Declared
  BY DEF Entries
<1>4. sn \in Sinode
  BY <1>3, DeclFacts DEF Sinode
<1>5. /\ m \in Seq(Sinode) /\ Len(m) = Len(node) /\ DOMAIN m = DOMAIN node
      /\ \A x \in DOMAIN node : m[x].def = IF x = i THEN d ELSE node[x].def
  <2>1. d \in Image \X (Nat \ {0})
    BY DeclFacts
  <2> DEFINE r == node[i]
  <2>0. r \in Sinode
    BY <1>1, <1>2
  <2>2. [node[i] EXCEPT !.def = d] \in Sinode /\ [node[i] EXCEPT !.def = d].def = d
    <3> HIDE DEF r
    <3>1. [r EXCEPT !.def = d] \in Sinode /\ [r EXCEPT !.def = d].def = d
      BY <2>0, <2>1 DEF Sinode
    <3> QED
      BY <3>1 DEF r
  <2>3. m = [node EXCEPT ![i] = [node[i] EXCEPT !.def = d]]
    OBVIOUS
  <2> HIDE DEF m, i
  <2> QED
    BY <2>2, <2>3, <1>1, <1>2
<1>6. node' = Append(m, sn)
  BY DEF Exchange
<1> HIDE DEF m, sn, i
<1>7. /\ node' \in Seq(Sinode) /\ Len(node') = n /\ DOMAIN node' = 1..n
      /\ DOMAIN node = 1..Len(node)
      /\ \A x \in DOMAIN node : node'[x] = m[x]
  BY <1>1, <1>4, <1>5, <1>6
<1>8. DOMAIN node \subseteq DOMAIN node'
  BY <1>1, <1>7
<1>9. bySpec' \in [Kind -> Seq(DOMAIN node')]
  BY <1>1, <1>8
<1>10. \A j \in Kind : \A q \in DOMAIN bySpec[j] :
          Def(j, q)' = IF bySpec[j][q] = i THEN d ELSE Def(j, q)
  <2> TAKE j \in Kind
  <2> TAKE q \in DOMAIN bySpec[j]
  <2>1. bySpec[j][q] \in DOMAIN node
    BY <1>1
  <2> QED
    BY <2>1, <1>5, <1>7 DEF Def
<1> QED
  BY <1>7, <1>9, <1>10 DEF i

(* The elements of an index after an insertion.                            *)
LEMMA EnteredRange ==
    ASSUME NEW S, NEW s \in Seq(S), NEW g \in 0..Len(s), NEW e \in S, NEW t,
           Entered(S, s, g, e, t)
    PROVE  Range(t) = Range(s) \cup {e}
<1>1. /\ t \in Seq(S) /\ DOMAIN t = 1..(Len(s) + 1) /\ DOMAIN s = 1..Len(s)
      /\ Len(s) \in Nat
  BY DEF Entered
<1>2. ASSUME NEW x \in Range(t) PROVE x \in Range(s) \cup {e}
  <2>1. PICK i \in 1..(Len(s) + 1) : x = t[i]
    BY <1>1, <1>2 DEF Range
  <2>2. CASE i \in 1..g
    BY <2>1, <2>2, <1>1 DEF Entered, Range
  <2>3. CASE i = g + 1
    BY <2>1, <2>3 DEF Entered
  <2>4. CASE i > g + 1
    <3>1. i - 1 \in (g + 1)..Len(s) /\ (i - 1) + 1 = i
      BY <2>1, <2>4, <1>1
    <3>2. t[i] = s[i - 1]
      BY <3>1 DEF Entered
    <3>3. i - 1 \in DOMAIN s
      BY <3>1, <1>1
    <3> QED
      BY <2>1, <3>2, <3>3 DEF Range
  <2> QED
    BY <2>1, <2>2, <2>3, <2>4, <1>1
<1>3. ASSUME NEW x \in Range(s) \cup {e} PROVE x \in Range(t)
  <2>1. CASE x = e
    <3>1. t[g + 1] = e /\ g + 1 \in DOMAIN t
      BY <1>1 DEF Entered
    <3> QED
      BY <2>1, <3>1 DEF Range
  <2>2. CASE x \in Range(s)
    <3>1. PICK i \in 1..Len(s) : x = s[i]
      BY <1>1, <2>2 DEF Range
    <3>2. CASE i <= g
      BY <3>1, <3>2, <1>1 DEF Entered, Range
    <3>3. CASE i > g
      <4>1. t[i + 1] = s[i] /\ i + 1 \in DOMAIN t
        BY <3>1, <3>3, <1>1 DEF Entered
      <4> QED
        BY <3>1, <4>1 DEF Range
    <3> QED
      BY <3>1, <3>2, <3>3
  <2> QED
    BY <1>3, <2>1, <2>2
<1> QED
  BY <1>2, <1>3

-----------------------------------------------------------------------------
(* Types, the two indexes, and why STEP2 stops: of all programs            *)

(* What the handling of one declaration has in common.                     *)
LEMMA TurnFrame ==
    ASSUME StoreInv, NEW u \in Image, Turn(u), Advance(u),
           NEW drop \in SUBSET Declared, NEW mark \in SUBSET Declared,
           SetFlags(u, drop, mark),
           NeedsFile(u) \/ UNCHANGED <<files, aborted>>,
           UNCHANGED <<decls, unit, forced>>
    PROVE  /\ decls' \in Programs
           /\ pos' \in [Image -> Nat \ {0}]
           /\ \A v \in Image : pos'[v] <= Len(decls'[v]) + 1
           /\ files' \subseteq Nat
           /\ dropped' \cup replaced' \subseteq Image \X (Nat \ {0})
           /\ aborted' = "" /\ OnlyTheseStops'
           /\ AsmFiles'
           /\ unit' \in [Image -> {"new", "missed", "in", "known"}]
           /\ forced' \in 0..MaxForced
<1> USE DEF StoreInv
<1>1. aborted = "" /\ unit[u] = "in" /\ Runs(u)
  BY DEF Turn, Runs
<1>2. /\ Here(u) \in Declared /\ Here(u)[1] = u /\ Here(u)[2] = pos[u]
      /\ pos[u] \in 1..Len(decls[u]) /\ Len(decls[u]) \in Nat
  <2>1. /\ Here(u) \in Declared /\ Here(u)[1] = u /\ Here(u)[2] = pos[u]
        /\ pos[u] \in 1..Len(decls[u]) /\ decls[u] \in Seq(Declaration)
    BY <1>1, HereFacts
  <2>2. Len(decls[u]) \in Nat
    BY <2>1
  <2> QED
    BY <2>1, <2>2
<1>3. Decl(Here(u)) \in Declaration
  BY <1>2, DeclFacts
<1> DEFINE f == Decl(Here(u)).file
<1>4. f \in Nat
  BY <1>3 DEF Declaration
<1>5. files' \in {files, files \cup {f}} /\ aborted' = ""
  BY <1>1 DEF NeedsFile, sinode_search_file, sinode_insert_file
<1>6. IF u \in Asm THEN f = Srcfile[u] ELSE \A v \in Asm : f # Srcfile[v]
  <2>1. f = decls[u][pos[u]].file /\ pos[u] \in DOMAIN decls[u]
    BY <1>2 DEF Decl, Declared
  <2>2. decls \in Programs
    BY DEF StoreType
  <2> HIDE DEF f, StoreInv
  <2> QED
    BY <2>1, <2>2, StoreAssumption
<1>7. AsmFiles'
  BY <1>1, <1>5, <1>6 DEF AsmFiles
<1>8. /\ pos' \in [Image -> Nat \ {0}]
      /\ \A v \in Image : pos'[v] <= Len(decls'[v]) + 1
  <2>1. /\ pos \in [Image -> Nat \ {0}]
        /\ \A v \in Image : pos[v] <= Len(decls[v]) + 1
    BY DEF StoreType
  <2>2. pos'[u] = pos[u] + 1 /\ \A v \in Image \ {u} : pos'[v] = pos[v]
    BY <2>1 DEF Advance
  <2>3. pos' \in [Image -> Nat \ {0}]
    BY <2>1 DEF Advance
  <2> QED
    BY <2>1, <2>2, <2>3, <1>2
<1>9. dropped' \cup replaced' \subseteq Image \X (Nat \ {0})
  <2>1. Declared \subseteq Image \X (Nat \ {0})
    BY DEF Declared
  <2> QED
    BY <2>1 DEF StoreType, SetFlags
<1> QED
  BY <1>4, <1>5, <1>7, <1>8, <1>9 DEF StoreType, OnlyTheseStops

(* The indexes are left alone.                                             *)
LEMMA IndexFrame ==
    ASSUME StoreInv, UNCHANGED <<decls, node, bySpec, byId>>
    PROVE  /\ node' \in Seq(Sinode)
           /\ bySpec' \in [Kind -> Seq(DOMAIN node')]
           /\ byId' \in [Kind -> SUBSET (DOMAIN node')]
           /\ Entries' /\ IdsMatch'
<1>1. Entries'
  BY DeclsFixed DEF StoreInv, Entries, Def
<1>2. IdsMatch'
  BY DEF StoreInv, IdsMatch
<1> QED
  BY <1>1, <1>2 DEF StoreInv, StoreType

LEMMA StoreInit ==
    Init => StoreInv
<1> SUFFICES ASSUME Init PROVE StoreInv
  OBVIOUS
<1>1. decls \in [Image -> Seq(Declaration)]
  BY StoreAssumption DEF Init
<1>2. \A u \in Image : Len(decls[u]) \in Nat
  BY <1>1
<1>3. node \in Seq(Sinode) /\ bySpec \in [Kind -> Seq(DOMAIN node)]
  <2>1. \A S : << >> \in Seq(S)
    OBVIOUS
  <2> QED
    BY <2>1 DEF Init
<1>4. pos \in [Image -> Nat \ {0}] /\ \A u \in Image : pos[u] <= Len(decls[u]) + 1
  <2>1. pos = [u \in Image |-> 1]
    BY DEF Init
  <2> QED
    BY <1>2, <2>1
<1>40. /\ unit \in [Image -> {"new", "missed", "in", "known"}]
       /\ byId \in [Kind -> SUBSET (DOMAIN node)]
  BY DEF Init
<1>41. /\ decls \in Programs
       /\ files \subseteq Nat /\ dropped \cup replaced \subseteq Image \X (Nat \ {0})
       /\ aborted \in {"", "file", "name"} /\ forced \in 0..MaxForced
  <2>1. MaxForced \in Nat
    BY StoreAssumption
  <2>2. 0 \in 0..MaxForced
    BY <2>1
  <2> QED
    BY <2>2 DEF Init
<1>42. StoreType
  BY <1>3, <1>4, <1>40, <1>41 DEF StoreType
<1>5. Entries /\ IdsMatch
  <2>1. \A k \in Kind : bySpec[k] = << >> /\ byId[k] = {}
    BY DEF Init
  <2>2. DOMAIN << >> = {}
    OBVIOUS
  <2>3. \A k \in Kind : DOMAIN bySpec[k] = {} /\ Range(bySpec[k]) = {}
    BY <2>1, <2>2 DEF Range
  <2> QED
    BY <2>1, <2>3 DEF Entries, IdsMatch
<1>6. AsmFiles /\ OnlyTheseStops
  BY DEF Init, AsmFiles, OnlyTheseStops
<1> QED
  BY <1>42, <1>5, <1>6 DEF StoreInv

(* A declaration that enters no index: external, known, or dropped.        *)
LEMMA PassedBy ==
    ASSUME StoreInv, NEW u \in Image, Turn(u), Advance(u),
           SetFlags(u, {Here(u)}, {}) \/ SetFlags(u, {}, {}),
           NeedsFile(u) \/ UNCHANGED <<files, aborted>>,
           UNCHANGED <<decls, unit, node, bySpec, byId, forced>>
    PROVE  StoreInv'
<1>1. Here(u) \in Declared
  BY HereFacts DEF StoreInv, Turn
<1>2. {Here(u)} \in SUBSET Declared /\ {} \in SUBSET Declared
  BY <1>1
<1>3. /\ decls' \in Programs
      /\ pos' \in [Image -> Nat \ {0}]
      /\ \A v \in Image : pos'[v] <= Len(decls'[v]) + 1
      /\ files' \subseteq Nat
      /\ dropped' \cup replaced' \subseteq Image \X (Nat \ {0})
      /\ aborted' = "" /\ OnlyTheseStops'
      /\ AsmFiles'
      /\ unit' \in [Image -> {"new", "missed", "in", "known"}]
      /\ forced' \in 0..MaxForced
  <2>1. CASE SetFlags(u, {Here(u)}, {})
    BY <2>1, <1>2, TurnFrame
  <2>2. CASE SetFlags(u, {}, {})
    BY <2>2, <1>2, TurnFrame
  <2> QED
    BY <2>1, <2>2
<1>4. /\ node' \in Seq(Sinode)
      /\ bySpec' \in [Kind -> Seq(DOMAIN node')]
      /\ byId' \in [Kind -> SUBSET (DOMAIN node')]
      /\ Entries' /\ IdsMatch'
  BY IndexFrame
<1> QED
  BY <1>3, <1>4 DEF StoreInv, StoreType

(* What GetReplace does to the index: a namesake gets the new declaration. *)
LEMMA ReplaceFacts ==
    ASSUME StoreInv, NEW u \in Image, NEW k \in Kind,
           NEW f \in DOMAIN bySpec[k], GetReplace(u, k, f)
    PROVE  \E p \in DOMAIN bySpec[k] :
              /\ p \in Namesakes(k, Here(u))
              /\ ~ CannotReplace(k, Here(u), Def(k, p))
              /\ Exchange(k, Here(u), p)
              /\ UNCHANGED <<decls, bySpec>>
              /\ Here(u) \in Declared /\ Decl(Here(u)).kind = k
  BY HereFacts DEF GetReplace, Conflicting, Finds, Turn, Namesakes, StoreInv

LEMMA ReplaceStep ==
    ASSUME StoreInv, NEW u \in Image, NEW k \in Kind,
           NEW f \in DOMAIN bySpec[k], GetReplace(u, k, f)
    PROVE  StoreInv'
<1>1. PICK p \in DOMAIN bySpec[k] :
         /\ Exchange(k, Here(u), p)
         /\ UNCHANGED <<decls, bySpec>>
         /\ Here(u) \in Declared /\ Decl(Here(u)).kind = k
  BY ReplaceFacts
<1> DEFINE d == Here(u)
<1>2. /\ node' \in Seq(Sinode) /\ Len(node') = Len(node) + 1
      /\ bySpec' \in [Kind -> Seq(DOMAIN node')]
      /\ \A j \in Kind : \A q \in DOMAIN bySpec[j] :
            Def(j, q)' = IF bySpec[j][q] = bySpec[k][p] THEN d ELSE Def(j, q)
  BY <1>1, ExchangeEffect DEF StoreInv
<1>3. Entries'
  <2> SUFFICES ASSUME NEW j \in Kind, NEW q \in DOMAIN bySpec[j]
               PROVE  Def(j, q)' \in Declared /\ Decl(Def(j, q)').kind = j
    BY <1>1, DeclsFixed DEF Entries
  <2>1. CASE bySpec[j][q] = bySpec[k][p]
    <3>1. j = k
      BY <2>1, KindsApart DEF StoreInv
    <3> QED
      BY <1>1, <1>2, <2>1, <3>1
  <2>2. CASE bySpec[j][q] # bySpec[k][p]
    BY <1>2, <2>2 DEF StoreInv, Entries
  <2> QED
    BY <2>1, <2>2
<1>4. Turn(u) /\ Advance(u) /\ NeedsFile(u) /\ UNCHANGED <<decls, unit, forced>>
      /\ SetFlags(u, {}, Marked(k, f)) /\ byId' = byId
  BY DEF GetReplace, Conflicting, Finds
<1>5. Marked(k, f) \in SUBSET Declared
  BY DEF Marked, StoreInv, Entries
<1>6. /\ decls' \in Programs
      /\ pos' \in [Image -> Nat \ {0}]
      /\ \A v \in Image : pos'[v] <= Len(decls'[v]) + 1
      /\ files' \subseteq Nat
      /\ dropped' \cup replaced' \subseteq Image \X (Nat \ {0})
      /\ aborted' = "" /\ OnlyTheseStops'
      /\ AsmFiles'
      /\ unit' \in [Image -> {"new", "missed", "in", "known"}]
      /\ forced' \in 0..MaxForced
  BY <1>4, <1>5, TurnFrame
<1>7. IdsMatch'
  BY <1>1, <1>4 DEF IdsMatch, StoreInv
<1>8. byId' \in [Kind -> SUBSET (DOMAIN node')]
  <2>1. node \in Seq(Sinode) /\ byId \in [Kind -> SUBSET (DOMAIN node)]
    BY DEF StoreInv, StoreType
  <2>2. DOMAIN node \subseteq DOMAIN node'
    BY <2>1, <1>2
  <2> QED
    BY <2>1, <2>2, <1>4
<1> QED
  BY <1>2, <1>3, <1>6, <1>7, <1>8 DEF StoreInv, StoreType

(* What GetNew does to the index: the n-th sinode enters behind a gap.     *)
LEMMA NewFacts ==
    ASSUME StoreInv, NEW u \in Image, NEW k \in Kind, GetNew(u, k)
    PROVE  \E g \in 0..Len(bySpec[k]) :
              /\ g \in Gaps(k, Key(Here(u)))
              /\ bySpec' = [bySpec EXCEPT ![k] = InsertAt(@, g + 1, Len(node) + 1)]
              /\ sinode_new(Here(u)) /\ decls' = decls
              /\ Here(u) \in Declared /\ Decl(Here(u)).kind = k
<1>1. Here(u) \in Declared /\ Decl(Here(u)).kind = k
  BY HereFacts DEF GetNew, Turn, StoreInv
<1>2. PICK g \in Gaps(k, Key(Here(u))) :
         bySpec' = [bySpec EXCEPT ![k] = InsertAt(@, g + 1, Len(node) + 1)]
  BY DEF GetNew, EnterBySpec
<1>3. g \in 0..Len(bySpec[k])
  BY <1>2 DEF Gaps
<1> QED
  BY <1>1, <1>2, <1>3 DEF GetNew

LEMMA NewStep ==
    ASSUME StoreInv, NEW u \in Image, NEW k \in Kind, GetNew(u, k)
    PROVE  StoreInv'
<1> DEFINE d == Here(u)
           n == Len(node) + 1
<1>1. PICK g \in 0..Len(bySpec[k]) :
         /\ bySpec' = [bySpec EXCEPT ![k] = InsertAt(@, g + 1, Len(node) + 1)]
         /\ sinode_new(d) /\ decls' = decls
         /\ d \in Declared /\ Decl(d).kind = k
  BY NewFacts
<1>2. InsertedAt(d, k, g)
  BY <1>1, InsertEffect DEF StoreInv
<1>3. /\ node \in Seq(Sinode) /\ bySpec \in [Kind -> Seq(DOMAIN node)]
      /\ bySpec[k] \in Seq(DOMAIN node) /\ bySpec'[k] \in Seq(DOMAIN node')
      /\ byId \in [Kind -> SUBSET (DOMAIN node)]
      /\ node' \in Seq(Sinode) /\ Len(node') = n
  BY <1>2 DEF StoreInv, StoreType, InsertedAt
<1>4. DOMAIN node' = DOMAIN node \cup {n} /\ n \in DOMAIN node'
  BY <1>3
<1>5. /\ DOMAIN bySpec[k] = 1..Len(bySpec[k]) /\ Len(bySpec[k]) \in Nat
      /\ DOMAIN bySpec'[k] = 1..(Len(bySpec[k]) + 1)
  BY <1>2, <1>3 DEF InsertedAt
<1>6. Entries'
  <2> SUFFICES ASSUME NEW j \in Kind, NEW q \in DOMAIN bySpec'[j]
               PROVE  Def(j, q)' \in Declared /\ Decl(Def(j, q)').kind = j
    BY <1>1, DeclsFixed DEF Entries
  <2>0. \A i \in Kind : \A p \in DOMAIN bySpec[i] :
           Def(i, p) \in Declared /\ Decl(Def(i, p)).kind = i
    BY DEF StoreInv, Entries
  <2>1. CASE j # k
    <3>1. bySpec'[j] = bySpec[j] /\ \A p \in DOMAIN bySpec[j] : Def(j, p)' = Def(j, p)
      BY <1>2, <2>1 DEF InsertedAt
    <3>2. Def(j, q)' = Def(j, q) /\ q \in DOMAIN bySpec[j]
      BY <3>1
    <3> QED
      BY <2>0, <3>2
  <2>2. CASE j = k /\ q <= g
    <3>1. Def(k, q)' = Def(k, q) /\ q \in DOMAIN bySpec[k]
      BY <1>2, <1>5, <2>2 DEF InsertedAt
    <3> QED
      BY <2>0, <2>2, <3>1
  <2>3. CASE j = k /\ q = g + 1
    BY <1>1, <1>2, <2>3 DEF InsertedAt
  <2>4. CASE j = k /\ q > g + 1
    <3>1. q - 1 \in (g + 1)..Len(bySpec[k]) /\ (q - 1) + 1 = q
      BY <1>5, <2>4
    <3>2. Def(k, q)' = Def(k, q - 1) /\ q - 1 \in DOMAIN bySpec[k]
      BY <1>2, <1>5, <3>1 DEF InsertedAt
    <3> QED
      BY <2>0, <2>4, <3>2
  <2> QED
    BY <2>1, <2>2, <2>3, <2>4, <1>5
<1>7. Range(bySpec'[k]) = Range(bySpec[k]) \cup {n}
  <2> DEFINE S == DOMAIN node'
             a == bySpec[k]
             b == bySpec'[k]
  <2>1. a \in Seq(S) /\ b \in Seq(S)
    BY <1>3, <1>4
  <2>2. Entered(S, a, g, n, b)
    BY <1>2, <2>1 DEF Entered, InsertedAt
  <2>3. n \in S /\ g \in 0..Len(a)
    BY <1>4
  <2> HIDE DEF S, a, b, n
  <2>4. Range(b) = Range(a) \cup {n}
    BY <2>1, <2>2, <2>3, EnteredRange
  <2> QED
    BY <2>4 DEF a, b
<1>8. byId' = [byId EXCEPT ![k] = @ \cup {n}]
  BY DEF GetNew, sinode_insert_by_id
<1>9. byId' \in [Kind -> SUBSET (DOMAIN node')]
  BY <1>3, <1>4, <1>8
<1>10. IdsMatch'
  <2> SUFFICES ASSUME NEW j \in Kind PROVE byId'[j] = Range(bySpec'[j])
    BY DEF IdsMatch
  <2>1. byId[j] = Range(bySpec[j])
    BY DEF StoreInv, IdsMatch
  <2>2. CASE j = k
    BY <2>1, <2>2, <1>3, <1>7, <1>8
  <2>3. CASE j # k
    BY <2>1, <2>3, <1>2, <1>3, <1>8 DEF InsertedAt
  <2> QED
    BY <2>2, <2>3
<1>11. Turn(u) /\ Advance(u) /\ NeedsFile(u) /\ UNCHANGED <<decls, unit, forced>>
       /\ SetFlags(u, {}, {})
  BY DEF GetNew
<1>12. /\ decls' \in Programs
       /\ pos' \in [Image -> Nat \ {0}]
       /\ \A v \in Image : pos'[v] <= Len(decls'[v]) + 1
       /\ files' \subseteq Nat
       /\ dropped' \cup replaced' \subseteq Image \X (Nat \ {0})
       /\ aborted' = "" /\ OnlyTheseStops'
       /\ AsmFiles'
       /\ unit' \in [Image -> {"new", "missed", "in", "known"}]
       /\ forced' \in 0..MaxForced
  BY <1>11, TurnFrame
<1> QED
  BY <1>2, <1>3, <1>6, <1>9, <1>10, <1>12 DEF StoreInv, StoreType, InsertedAt

(* The steps of an assembly image up to its file's sinode.                 *)
LEMMA FindFileStep ==
    ASSUME StoreInv, NEW u \in Image, FindFile(u)
    PROVE  StoreInv'
<1> USE DEF StoreInv
<1>1. /\ unit[u] = "new" /\ aborted = "" /\ aborted' = ""
      /\ UNCHANGED <<decls, files, node, bySpec, byId, dropped, replaced, forced>>
      /\ \/ Reaches(u, "known") /\ pos' = [pos EXCEPT ![u] = Len(decls[u]) + 1]
         \/ Reaches(u, "missed") /\ pos' = pos
  BY DEF FindFile, Runs
<1>2. /\ pos \in [Image -> Nat \ {0}]
      /\ \A v \in Image : pos[v] <= Len(decls[v]) + 1
      /\ unit \in [Image -> {"new", "missed", "in", "known"}]
      /\ decls \in Programs
  BY DEF StoreType
<1>3. Len(decls[u]) \in Nat
  <2>1. decls \in [Image -> Seq(Declaration)]
    BY <1>2, StoreAssumption
  <2>2. decls[u] \in Seq(Declaration)
    BY <2>1
  <2> QED
    BY <2>2
<1>4. pos' \in [Image -> Nat \ {0}] /\ \A v \in Image : pos'[v] <= Len(decls[v]) + 1
  <2>1. CASE pos' = pos
    BY <1>2, <2>1
  <2>2. CASE pos' = [pos EXCEPT ![u] = Len(decls[u]) + 1]
    <3>1. pos'[u] = Len(decls[u]) + 1 /\ \A v \in Image \ {u} : pos'[v] = pos[v]
      BY <1>2, <2>2
    <3>2. pos' \in [Image -> Nat \ {0}]
      BY <1>2, <1>3, <2>2
    <3> QED
      BY <1>2, <1>3, <3>1, <3>2
  <2> QED
    BY <1>1, <2>1, <2>2
<1>5. /\ unit' \in [Image -> {"new", "missed", "in", "known"}]
      /\ unit'[u] # "in"
      /\ \A v \in Image \ {u} : unit'[v] = unit[v]
  BY <1>1, <1>2 DEF Reaches
<1>6. u \in Asm
  BY <1>1 DEF AsmFiles
<1>7. AsmFiles'
  BY <1>1, <1>5, <1>6, StoreAssumption DEF AsmFiles
<1>8. /\ node' \in Seq(Sinode)
      /\ bySpec' \in [Kind -> Seq(DOMAIN node')]
      /\ byId' \in [Kind -> SUBSET (DOMAIN node')]
      /\ Entries' /\ IdsMatch'
  BY <1>1, IndexFrame
<1>9. OnlyTheseStops'
  BY <1>1 DEF OnlyTheseStops
<1>10. /\ decls' \in Programs /\ files' \subseteq Nat
       /\ dropped' \cup replaced' \subseteq Image \X (Nat \ {0})
       /\ forced' \in 0..MaxForced
  BY <1>1 DEF StoreType
<1> QED
  BY <1>1, <1>4, <1>5, <1>7, <1>8, <1>9, <1>10 DEF StoreType

LEMMA InsertFileStep ==
    ASSUME StoreInv, NEW u \in Image, InsertFile(u)
    PROVE  StoreInv'
<1> USE DEF StoreInv
<1>1. /\ unit[u] = "missed" /\ aborted = ""
      /\ UNCHANGED <<decls, pos, node, bySpec, byId, dropped, replaced, forced>>
      /\ \/ /\ Srcfile[u] \in files
            /\ aborted' = "file" /\ files' = files /\ unit' = unit
         \/ /\ Srcfile[u] \notin files
            /\ aborted' = "" /\ files' = files \cup {Srcfile[u]}
            /\ Reaches(u, "in")
  BY DEF InsertFile, Runs, sinode_insert_file, sinode_search_file
<1>2. unit \in [Image -> {"new", "missed", "in", "known"}]
  BY DEF StoreType
<1>3. u \in Asm /\ Srcfile[u] \in Nat
  BY <1>1, StoreAssumption DEF AsmFiles
<1>4. /\ unit' \in [Image -> {"new", "missed", "in", "known"}]
      /\ \A v \in Image \ {u} : unit'[v] = unit[v]
      /\ aborted' = "" => unit'[u] = "in"
  BY <1>1, <1>2 DEF Reaches
<1>5. AsmFiles'
  <2>1. \A v \in Asm : v \in Image
    BY StoreAssumption
  <2>2. \A v \in Image \ Asm : unit'[v] = "in"
    BY <1>3, <1>4 DEF AsmFiles
  <2>3. ASSUME NEW v \in Asm, Srcfile[v] \in files'
        PROVE  \E w \in Asm : Srcfile[w] = Srcfile[v] /\ unit'[w] = "in"
    <3>1. CASE Srcfile[v] \in files
      <4>1. PICK w \in Asm : Srcfile[w] = Srcfile[v] /\ unit[w] = "in"
        BY <3>1 DEF AsmFiles
      <4>2. w # u
        BY <4>1, <1>1
      <4> QED
        BY <4>1, <4>2, <1>4, <2>1
    <3>2. CASE Srcfile[v] \notin files
      BY <3>2, <2>3, <1>1, <1>3, <1>4
    <3> QED
      BY <3>1, <3>2
  <2> QED
    BY <2>2, <2>3 DEF AsmFiles
<1>6. OnlyTheseStops'
  <2>1. CASE aborted' = ""
    BY <2>1 DEF OnlyTheseStops
  <2>2. CASE aborted' = "file"
    <3>1. PICK w \in Asm : Srcfile[w] = Srcfile[u] /\ unit[w] = "in"
      BY <1>1, <1>3, <2>2 DEF AsmFiles
    <3>2. w # u /\ unit'[w] = "in" /\ unit'[u] = "missed"
      BY <1>1, <2>2, <3>1
    <3> QED
      BY <1>3, <2>2, <3>1, <3>2 DEF OnlyTheseStops
  <2> QED
    BY <1>1, <2>1, <2>2
<1>7. /\ node' \in Seq(Sinode)
      /\ bySpec' \in [Kind -> Seq(DOMAIN node')]
      /\ byId' \in [Kind -> SUBSET (DOMAIN node')]
      /\ Entries' /\ IdsMatch'
  BY <1>1, IndexFrame
<1>8. /\ decls' \in Programs /\ files' \subseteq Nat
      /\ pos' \in [Image -> Nat \ {0}]
      /\ \A v \in Image : pos'[v] <= Len(decls'[v]) + 1
      /\ dropped' \cup replaced' \subseteq Image \X (Nat \ {0})
      /\ forced' \in 0..MaxForced /\ aborted' \in {"", "file", "name"}
  BY <1>1, <1>3 DEF StoreType
<1> QED
  BY <1>4, <1>5, <1>6, <1>7, <1>8 DEF StoreType

(* Two declarations of one kind and name cannot replace one another.       *)
NameStop ==
    \E u, v \in Image : \E i \in DOMAIN decls[u], j \in DOMAIN decls[v] :
        /\ decls[u][i].kind = decls[v][j].kind
        /\ decls[u][i].name = decls[v][j].name
        /\ CannotReplace(decls[u][i].kind, <<u, i>>, <<v, j>>)

LEMMA NameStopFixed ==
    ASSUME decls' = decls, NameStop PROVE NameStop'
<1>1. \A d : HasData(d)' = HasData(d)
  BY DEF HasData, IsFunc, IsAsm, Decl
<1>2. \A k, d, e : CannotReplace(k, d, e)' = CannotReplace(k, d, e)
  BY <1>1 DEF CannotReplace
<1>0. PICK u \in Image, v \in Image : \E i \in DOMAIN decls[u], j \in DOMAIN decls[v] :
        /\ decls[u][i].kind = decls[v][j].kind
        /\ decls[u][i].name = decls[v][j].name
        /\ CannotReplace(decls[u][i].kind, <<u, i>>, <<v, j>>)
  BY DEF NameStop
<1>3. PICK i \in DOMAIN decls[u], j \in DOMAIN decls[v] :
        /\ decls[u][i].kind = decls[v][j].kind
        /\ decls[u][i].name = decls[v][j].name
        /\ CannotReplace(decls[u][i].kind, <<u, i>>, <<v, j>>)
  BY <1>0
<1>4. CannotReplace(decls[u][i].kind, <<u, i>>, <<v, j>>)'
  BY <1>2, <1>3
<1> QED
  BY <1>3, <1>4 DEF NameStop

LEMMA AbortStep ==
    ASSUME StoreInv, NEW u \in Image, NEW k \in Kind,
           NEW f \in DOMAIN bySpec[k], Abort(u, k, f)
    PROVE  StoreInv'
<1> USE DEF StoreInv
<1> DEFINE d == Here(u)
<1>1. /\ aborted' = "name"
      /\ UNCHANGED <<decls, pos, unit, files, node, bySpec, byId, dropped, replaced,
                     forced>>
      /\ Turn(u) /\ Decl(d).kind = k
  BY DEF Abort, Conflicting, Finds, fileVars
<1>2. PICK p \in Namesakes(k, d) : CannotReplace(k, d, Def(k, p))
  BY DEF Abort
<1>3. /\ p \in DOMAIN bySpec[k] /\ Decl(Def(k, p)).name = Decl(d).name
  BY <1>2 DEF Namesakes
<1> DEFINE e == Def(k, p)
<1>4. e \in Declared /\ Decl(e).kind = k /\ d \in Declared
  BY <1>1, <1>3, HereFacts DEF Entries, Turn
<1>5. OnlyTheseStops'
  <2> HIDE DEF d, e
  <2>1. /\ d[1] \in Image /\ d[2] \in DOMAIN decls[d[1]] /\ d = <<d[1], d[2]>>
        /\ e[1] \in Image /\ e[2] \in DOMAIN decls[e[1]] /\ e = <<e[1], e[2]>>
    BY <1>4 DEF Declared
  <2>2. /\ decls[d[1]][d[2]].kind = decls[e[1]][e[2]].kind
        /\ decls[d[1]][d[2]].name = decls[e[1]][e[2]].name
        /\ decls[d[1]][d[2]].kind = k
    BY <1>1, <1>3, <1>4 DEF Decl, e
  <2>3. CannotReplace(k, d, e)
    BY <1>2 DEF e
  <2>4. CannotReplace(decls[d[1]][d[2]].kind, <<d[1], d[2]>>, <<e[1], e[2]>>)
    BY <2>1, <2>2, <2>3
  <2>5. NameStop
    BY <2>1, <2>2, <2>4 DEF NameStop
  <2>6. NameStop' /\ aborted' = "name"
    BY <1>1, <2>5, NameStopFixed
  <2> QED
    BY <2>6 DEF OnlyTheseStops, NameStop
<1>6. /\ node' \in Seq(Sinode)
      /\ bySpec' \in [Kind -> Seq(DOMAIN node')]
      /\ byId' \in [Kind -> SUBSET (DOMAIN node')]
      /\ Entries' /\ IdsMatch'
  BY <1>1, IndexFrame
<1>7. AsmFiles'
  BY <1>1 DEF AsmFiles
<1>8. /\ decls' \in Programs /\ files' \subseteq Nat
      /\ pos' \in [Image -> Nat \ {0}]
      /\ \A v \in Image : pos'[v] <= Len(decls'[v]) + 1
      /\ unit' \in [Image -> {"new", "missed", "in", "known"}]
      /\ dropped' \cup replaced' \subseteq Image \X (Nat \ {0})
      /\ forced' \in 0..MaxForced /\ aborted' \in {"", "file", "name"}
  BY <1>1 DEF StoreType
<1> QED
  BY <1>5, <1>6, <1>7, <1>8 DEF StoreType

LEMMA ForceAgainStep ==
    ASSUME StoreInv, NEW u \in Image, ForceAgain(u)
    PROVE  StoreInv'
<1> USE DEF StoreInv
<1>1. /\ aborted = "" /\ aborted' = "" /\ forced < MaxForced /\ forced' = forced + 1
      /\ pos' = [pos EXCEPT ![u] = 1]
      /\ UNCHANGED <<decls, unit, files, node, bySpec, byId, dropped, replaced>>
  BY DEF ForceAgain, fileVars
<1>2. forced' \in 0..MaxForced
  <2>1. forced \in 0..MaxForced /\ MaxForced \in Nat
    BY StoreAssumption DEF StoreType
  <2> HIDE DEF StoreInv
  <2>2. forced \in Nat /\ forced <= MaxForced
    BY <2>1
  <2>3. forced < MaxForced /\ forced' = forced + 1
    BY <1>1
  <2> QED
    BY <2>1, <2>2, <2>3
<1>3. pos' \in [Image -> Nat \ {0}] /\ \A v \in Image : pos'[v] <= Len(decls'[v]) + 1
  <2>1. /\ pos \in [Image -> Nat \ {0}]
        /\ \A v \in Image : pos[v] <= Len(decls[v]) + 1
        /\ decls \in Programs
    BY DEF StoreType
  <2>2. decls \in [Image -> Seq(Declaration)]
    BY <2>1, StoreAssumption
  <2>3. decls[u] \in Seq(Declaration)
    BY <2>2
  <2>4. 1 <= Len(decls[u]) + 1
    BY <2>3
  <2>5. pos'[u] = 1 /\ \A v \in Image \ {u} : pos'[v] = pos[v]
    BY <1>1, <2>1
  <2>6. pos' \in [Image -> Nat \ {0}]
    <3>1. 1 \in Nat \ {0}
      OBVIOUS
    <3> QED
      BY <1>1, <2>1, <3>1
  <2> QED
    BY <1>1, <2>1, <2>4, <2>5, <2>6
<1>4. /\ node' \in Seq(Sinode)
      /\ bySpec' \in [Kind -> Seq(DOMAIN node')]
      /\ byId' \in [Kind -> SUBSET (DOMAIN node')]
      /\ Entries' /\ IdsMatch'
  BY <1>1, IndexFrame
<1>5. AsmFiles' /\ OnlyTheseStops'
  BY <1>1 DEF AsmFiles, OnlyTheseStops
<1>6. /\ decls' \in Programs /\ files' \subseteq Nat
      /\ unit' \in [Image -> {"new", "missed", "in", "known"}]
      /\ dropped' \cup replaced' \subseteq Image \X (Nat \ {0})
      /\ aborted' \in {"", "file", "name"}
  BY <1>1 DEF StoreType
<1> QED
  BY <1>2, <1>3, <1>4, <1>5, <1>6 DEF StoreType

LEMMA StoreStutter ==
    StoreInv /\ UNCHANGED vars => StoreInv'
<1> SUFFICES ASSUME StoreInv, UNCHANGED vars PROVE StoreInv'
  OBVIOUS
<1> USE DEF vars, fileVars, StoreInv
<1>1. Entries' /\ IdsMatch'
  BY IndexFrame
<1>2. AsmFiles'
  BY DEF AsmFiles
<1>3. OnlyTheseStops'
  <2>1. UNCHANGED <<decls, unit, aborted>>
    OBVIOUS
  <2>2. aborted = "name" => NameStop'
    BY <2>1, NameStopFixed DEF OnlyTheseStops, NameStop
  <2> QED
    BY <2>1, <2>2 DEF OnlyTheseStops, NameStop
<1>4. StoreType'
  BY DEF StoreType
<1> QED
  BY <1>1, <1>2, <1>3, <1>4

LEMMA StoreStep ==
    StoreInv /\ [Next]_vars => StoreInv'
<1> SUFFICES ASSUME StoreInv, [Next]_vars PROVE StoreInv'
  OBVIOUS
<1>1. ASSUME NEW u \in Image, GetExtern(u) PROVE StoreInv'
  <2>1. UNCHANGED <<files, aborted>>
    BY <1>1 DEF GetExtern, fileVars
  <2> QED
    BY <1>1, <2>1, PassedBy DEF GetExtern, fileVars
<1>2. ASSUME NEW u \in Image, NEW k \in Kind, NEW f \in DOMAIN bySpec[k],
             GetKnown(u, k, f) \/ GetDropped(u, k, f)
      PROVE  StoreInv'
  BY <1>2, PassedBy DEF GetKnown, GetDropped, Finds
<1>3. ASSUME NEW u \in Image, ForceAgain(u) PROVE StoreInv'
  BY <1>3, ForceAgainStep
<1>4. ASSUME NEW u \in Image, FindFile(u) \/ InsertFile(u) PROVE StoreInv'
  BY <1>4, FindFileStep, InsertFileStep
<1>5. ASSUME NEW u \in Image, NEW k \in Kind, NEW f \in DOMAIN bySpec[k],
             GetReplace(u, k, f) \/ Abort(u, k, f)
      PROVE  StoreInv'
  BY <1>5, ReplaceStep, AbortStep
<1>6. ASSUME NEW u \in Image, NEW k \in Kind, GetNew(u, k) PROVE StoreInv'
  BY <1>6, NewStep
<1>7. CASE UNCHANGED vars
  BY <1>7, StoreStutter
<1> QED
  BY <1>1, <1>2, <1>3, <1>4, <1>5, <1>6, <1>7 DEF Next, GetBase

(* StoreInv holds for all programs.                                        *)
THEOREM StoreSound == Spec => []StoreInv
  BY StoreInit, StoreStep, PTL DEF Spec

LEMMA StoreTypeOK == StoreInv => TypeOK
<1> SUFFICES ASSUME StoreInv PROVE TypeOK
  OBVIOUS
<1>1. StoreType
  BY DEF StoreInv
<1>2. decls \in [Image -> Seq(Declaration)]
  BY <1>1, StoreAssumption DEF StoreType
<1>3. \A u \in Image : pos[u] \in 1..(Len(decls[u]) + 1)
  <2> TAKE u \in Image
  <2>1. decls[u] \in Seq(Declaration)
    BY <1>2
  <2>2. Len(decls[u]) \in Nat /\ pos[u] \in Nat \ {0} /\ pos[u] <= Len(decls[u]) + 1
    <3>1. Len(decls[u]) \in Nat
      BY <2>1
    <3>2. pos[u] \in Nat \ {0} /\ pos[u] <= Len(decls[u]) + 1
      BY <1>1 DEF StoreType
    <3> QED
      BY <3>1, <3>2
  <2> QED
    BY <2>2
<1>4. \A k \in Kind : Range(bySpec[k]) \subseteq DOMAIN node
  <2> TAKE k \in Kind
  <2>1. bySpec[k] \in Seq(DOMAIN node)
    BY <1>1 DEF StoreType
  <2> QED
    BY <2>1 DEF Range
<1> QED
  BY <1>1, <1>2, <1>3, <1>4 DEF StoreType, TypeOK

(* The store has its types: what an index holds has been made, and every   *)
(* worker is at a declaration of its image or past the last one.           *)
THEOREM SinodeStoreTypes == Spec => []TypeOK
  BY StoreSound, StoreTypeOK, PTL

(* The index by id holds exactly the sinodes of the index by name, however *)
(* many replacements and forced runs there are.                            *)
THEOREM SinodeIdsMatch == Spec => []IdsMatch
<1>1. StoreInv => IdsMatch
  BY DEF StoreInv
<1> QED
  BY StoreSound, <1>1, PTL

(* STEP2 stops for a replacement that is refused, or for two images of one *)
(* assembly file, and for nothing else.                                    *)
THEOREM SinodeStops == Spec => []OnlyTheseStops
<1>1. StoreInv => OnlyTheseStops
  BY DEF StoreInv
<1> QED
  BY StoreSound, <1>1, PTL

-----------------------------------------------------------------------------
(* Programs that declare alike what the index keeps apart                  *)

LEMMA LessFacts ==
    ASSUME NEW a \in Nat \X Nat, NEW b \in Nat \X Nat, NEW c \in Nat \X Nat
    PROVE  ~ Less(a, a) /\ (Less(a, b) /\ Less(b, c) => Less(a, c))
  BY DEF Less

(* Two declarations of one kind and name at two keys are alike.            *)
LEMMA AlikeFacts ==
    ASSUME NamesAlike(Programs), StoreType, NEW d \in Declared, NEW e \in Declared,
           Decl(d).kind \in Kind, Decl(d).kind = Decl(e).kind,
           Decl(d).name = Decl(e).name, Key(d) # Key(e)
    PROVE  /\ Vis(d) = Vis(e)
           /\ IsFunc(d) => Decl(d).body = Decl(e).body
<1>1. decls \in Programs
  BY DEF StoreType
<1>2. /\ d[1] \in Image /\ d[2] \in DOMAIN decls[d[1]]
      /\ e[1] \in Image /\ e[2] \in DOMAIN decls[e[1]]
  BY DEF Declared
<1>3. IF Decl(d).kind \in GlobalKind THEN RfOf[d[1]] # RfOf[e[1]]
                                     ELSE Decl(d).loc # Decl(e).loc
  BY DEF Key, Rf
<1>4. /\ Decl(d).weak = Decl(e).weak
      /\ Decl(d).kind \in {"func", "sfunc"} => Decl(d).body = Decl(e).body
  BY <1>1, <1>2, <1>3 DEF NamesAlike, Decl
<1> QED
  BY <1>4 DEF Vis, IsFunc

(* No two positions of an index have one key.                              *)
LEMMA KeyUnique ==
    ASSUME StoreInv, Sorted, NEW k \in Kind,
           NEW p \in DOMAIN bySpec[k], NEW q \in DOMAIN bySpec[k],
           Key(Def(k, p)) = Key(Def(k, q))
    PROVE  p = q
<1>1. bySpec[k] \in Seq(DOMAIN node)
  BY DEF StoreInv, StoreType
<1>2. p \in Int /\ q \in Int
  BY <1>1
<1>3. Key(Def(k, p)) \in Nat \X Nat
  BY DeclFacts DEF StoreInv, Entries
<1>4. ~ (p < q) /\ ~ (q < p)
  BY <1>3, LessFacts DEF Sorted
<1> QED
  BY <1>2, <1>4

(* A key that is in the index leaves no gap to fall through.               *)
LEMMA HasNoGap ==
    ASSUME StoreInv, Sorted, NEW k \in Kind, NEW key, Has(k, key)
    PROVE  Gaps(k, key) = {}
<1> SUFFICES ASSUME NEW g \in Gaps(k, key) PROVE FALSE
  OBVIOUS
<1>1. PICK p \in DOMAIN bySpec[k] : Key(Def(k, p)) = key
  BY DEF Has
<1>2. bySpec[k] \in Seq(DOMAIN node)
  BY DEF StoreInv, StoreType
<1>3. DOMAIN bySpec[k] = 1..Len(bySpec[k]) /\ Len(bySpec[k]) \in Nat
  BY <1>2
<1>4. /\ g \in 0..Len(bySpec[k])
      /\ g > 0 => Less(Key(Def(k, g)), key)
      /\ g < Len(bySpec[k]) => Less(key, Key(Def(k, g + 1)))
  BY DEF Gaps
<1>5. \A i \in DOMAIN bySpec[k] : Key(Def(k, i)) \in Nat \X Nat
  BY DeclFacts DEF StoreInv, Entries
<1>6. CASE p <= g
  <2>1. g \in DOMAIN bySpec[k] /\ g > 0
    BY <1>3, <1>4, <1>6
  <2>2. Less(Key(Def(k, g)), key)
    BY <1>4, <2>1
  <2>3. CASE p = g
    BY <1>1, <1>5, <2>2, <2>3, LessFacts
  <2>4. CASE p < g
    <3>1. Less(key, Key(Def(k, g)))
      BY <1>1, <2>1, <2>4 DEF Sorted
    <3> QED
      BY <3>1, <2>2, <1>1, <1>5, <2>1, LessFacts
  <2> QED
    BY <1>3, <1>4, <1>6, <2>3, <2>4
<1>7. CASE p > g
  <2>1. g + 1 \in DOMAIN bySpec[k] /\ g < Len(bySpec[k])
    BY <1>3, <1>4, <1>7
  <2>2. Less(key, Key(Def(k, g + 1)))
    BY <1>4, <2>1
  <2>3. CASE p = g + 1
    BY <1>1, <1>5, <2>2, <2>3, LessFacts
  <2>4. CASE p > g + 1
    <3>1. Less(Key(Def(k, g + 1)), key)
      BY <1>1, <2>1, <2>4 DEF Sorted
    <3> QED
      BY <3>1, <2>2, <1>1, <1>5, <2>1, LessFacts
  <2> QED
    BY <1>3, <1>4, <1>7, <2>3, <2>4
<1> QED
  BY <1>3, <1>4, <1>6, <1>7

(* What is resolved is found.                                              *)
LEMMA ResolvedFound ==
    ASSUME StoreInv, Sorted, NEW d \in Declared, Decl(d).kind \in Kind, Resolved(d)
    PROVE  Nothing \notin Search(d)
<1> DEFINE k == Decl(d).kind
<1>1. bySpec[k] \in Seq(DOMAIN node)
  BY DEF StoreInv, StoreType
<1>2. DOMAIN bySpec[k] = 1..Len(bySpec[k])
  BY <1>1
<1>3. ASSUME NEW key, Has(k, key) PROVE Nothing \notin Walk(k, key)
  BY <1>2, <1>3, HasNoGap DEF Walk, Hits, Nothing
<1>4. CASE Has(k, Key(d))
  BY <1>3, <1>4 DEF Search
<1>5. CASE ByBuiltin(d) /\ Has(k, <<Decl(d).name, Builtin>>)
  <2>1. Nothing \notin Walk(k, <<Decl(d).name, Builtin>>)
    BY <1>3, <1>5
  <2> QED
    BY <2>1, <1>5 DEF Search, ByBuiltin
<1> QED
  BY <1>4, <1>5 DEF Resolved

(* What is found is resolved.                                              *)
LEMMA FoundResolved ==
    ASSUME StoreInv, NEW d \in Declared, Decl(d).kind \in Kind,
           NEW f \in Search(d), f # Nothing
    PROVE  Resolved(d)
  BY SearchFacts DEF StoreInv, Resolved, Has

(* What was gone through, and what of it the later phases look up.         *)
LEMMA SeenPast ==
    ASSUME StoreType
    PROVE  Seen = {d \in Past : unit[d[1]] # "known"}
<1>1. decls \in [Image -> Seq(Declaration)]
  BY StoreAssumption DEF StoreType
<1>2. ASSUME NEW u \in Image, NEW i \in 1..(pos[u] - 1) PROVE <<u, i>> \in Past
  <2>1. decls[u] \in Seq(Declaration)
    BY <1>1
  <2>2. DOMAIN decls[u] = 1..Len(decls[u]) /\ Len(decls[u]) \in Nat
    BY <2>1
  <2>3. pos[u] \in Nat \ {0} /\ pos[u] <= Len(decls[u]) + 1
    BY DEF StoreType
  <2>4. i \in DOMAIN decls[u] /\ i \in Nat \ {0} /\ i < pos[u]
    BY <2>2, <2>3
  <2> QED
    BY <2>4 DEF Past, Declared
<1>3. ASSUME NEW d \in Past PROVE d[1] \in Image /\ d[2] \in 1..(pos[d[1]] - 1)
                                  /\ d = <<d[1], d[2]>>
  <2>1. d \in Image \X (Nat \ {0}) /\ d[2] < pos[d[1]]
    BY <1>3 DEF Past, Declared
  <2>2. pos[d[1]] \in Nat \ {0}
    BY <2>1 DEF StoreType
  <2> QED
    BY <2>1, <2>2
<1>4. ASSUME NEW d \in Seen PROVE d \in Past /\ unit[d[1]] # "known"
  <2>1. PICK u \in Linked : d \in {<<u, i>> : i \in 1..(pos[u] - 1)}
    BY <1>4 DEF Seen
  <2>2. PICK i \in 1..(pos[u] - 1) : d = <<u, i>>
    BY <2>1
  <2>3. u \in Image /\ unit[u] # "known"
    BY DEF Linked
  <2> QED
    BY <1>2, <2>2, <2>3
<1>5. ASSUME NEW d \in Past, unit[d[1]] # "known" PROVE d \in Seen
  <2>1. d[1] \in Linked
    BY <1>3, <1>5 DEF Linked
  <2>2. d \in {<<d[1], i>> : i \in 1..(pos[d[1]] - 1)}
    BY <1>3, <1>5
  <2> QED
    BY <2>1, <2>2 DEF Seen
<1> QED
  BY <1>4, <1>5

LEMMA SeenPastNext ==
    StoreType' => Seen' = {d \in Past' : unit'[d[1]] # "known"}
<1>1. StoreType => Seen = {d \in Past : unit[d[1]] # "known"}
  BY SeenPast
<1>2. (StoreType => Seen = {d \in Past : unit[d[1]] # "known"})'
  BY <1>1, PTL
<1> QED
  BY <1>2

(* A turn goes through one declaration that was not gone through before.   *)
LEMMA TurnSeen ==
    ASSUME StoreInv, StoreType', NEW u \in Image, Turn(u), Advance(u),
           UNCHANGED <<decls, unit>>
    PROVE  /\ Here(u) \in Declared /\ Here(u) \notin Past /\ Here(u) \notin Seen
           /\ Past' = Past \cup {Here(u)}
           /\ Seen' = Seen \cup {Here(u)}
           /\ Declared' = Declared
<1> DEFINE d == Here(u)
<1>1. /\ d \in Declared /\ d[1] = u /\ d[2] = pos[u] /\ pos[u] \in Nat
      /\ pos \in [Image -> Nat \ {0}]
  BY HereFacts DEF StoreInv, StoreType, Turn
<1>2. d \notin Past
  BY <1>1 DEF Past
<1>3. pos'[u] = pos[u] + 1 /\ \A v \in Image \ {u} : pos'[v] = pos[v]
  BY <1>1 DEF Advance
<1>4. Declared' = Declared
  BY DeclsFixed
<1>5. Past' = Past \cup {d}
  <2> HIDE DEF d
  <2>1. ASSUME NEW e \in Declared
        PROVE  (e[2] < pos'[e[1]]) <=> (e[2] < pos[e[1]] \/ e = d)
    <3>1. e[1] \in Image /\ e[2] \in Nat /\ e = <<e[1], e[2]>> /\ d = <<d[1], d[2]>>
      BY <1>1 DEF Declared
    <3>2. CASE e[1] = u
      BY <3>1, <3>2, <1>1, <1>3
    <3>3. CASE e[1] # u
      BY <3>1, <3>3, <1>1, <1>3
    <3> QED
      BY <3>2, <3>3
  <2> QED
    BY <2>1, <1>1, <1>4 DEF Past
<1>6. unit[u] = "in"
  BY DEF Turn
<1>7. Seen = {e \in Past : unit[e[1]] # "known"}
  BY SeenPast DEF StoreInv
<1>8. Seen' = {e \in Past' : unit[e[1]] # "known"}
  BY SeenPastNext
<1>9. Seen' = Seen \cup {d}
  BY <1>1, <1>5, <1>6, <1>7, <1>8
<1> QED
  BY <1>1, <1>2, <1>4, <1>5, <1>7, <1>9

(* The other steps see nothing new.                                        *)
LEMMA OtherSeen ==
    ASSUME StoreInv, StoreType', NEW u \in Image,
           FindFile(u) \/ InsertFile(u) \/ ForceAgain(u)
    PROVE  Seen' \subseteq Seen
<1> USE DEF StoreInv
<1>1. Seen = {e \in Past : unit[e[1]] # "known"}
  BY SeenPast
<1>2. Seen' = {e \in Past' : unit'[e[1]] # "known"}
  BY SeenPastNext
<1>3. decls' = decls /\ pos \in [Image -> Nat \ {0}]
      /\ unit \in [Image -> {"new", "missed", "in", "known"}]
  BY DEF FindFile, InsertFile, ForceAgain, StoreType
<1>4. Declared' = Declared
  BY <1>3, DeclsFixed
<1>5. ASSUME NEW e \in Seen' PROVE e \in Seen
  <2>1. /\ e \in Declared /\ e[2] < pos'[e[1]] /\ unit'[e[1]] # "known"
        /\ e[1] \in Image /\ e[2] \in Nat \ {0}
    BY <1>2, <1>4, <1>5 DEF Past, Declared
  <2>2. unit[e[1]] # "known" /\ e[2] < pos[e[1]]
    <3>1. CASE FindFile(u)
      <4>1. unit[u] = "new" /\ \A v \in Image \ {u} : unit'[v] = unit[v] /\ pos'[v] = pos[v]
        BY <3>1, <1>3 DEF FindFile, Reaches
      <4>2. CASE pos' = pos
        BY <2>1, <4>1, <4>2
      <4>3. CASE unit'[u] = "known"
        BY <2>1, <4>1, <4>3
      <4> QED
        BY <3>1, <1>3, <4>2, <4>3 DEF FindFile, Reaches
    <3>2. CASE InsertFile(u)
      <4>1. /\ unit[u] = "missed" /\ pos' = pos
            /\ \A v \in Image \ {u} : unit'[v] = unit[v]
        BY <3>2, <1>3 DEF InsertFile, Reaches
      <4> QED
        BY <2>1, <4>1
    <3>3. CASE ForceAgain(u)
      <4>1. /\ unit' = unit /\ pos'[u] = 1
            /\ \A v \in Image \ {u} : pos'[v] = pos[v]
        BY <3>3, <1>3 DEF ForceAgain, fileVars
      <4>2. e[1] # u
        BY <2>1, <4>1
      <4> QED
        BY <2>1, <4>1, <4>2
    <3> QED
      BY <3>1, <3>2, <3>3
  <2> QED
    BY <1>1, <2>1, <2>2 DEF Past
<1> QED
  BY <1>5

(* When names are alike a replacement changes the sinode that was found,   *)
(* and its key stays.                                                      *)
TookOver(k, f, d) ==
    /\ Key(Def(k, f)) = Key(d)
    /\ \A j \in Kind : \A q \in DOMAIN bySpec[j] :
          Def(j, q)' = IF j = k /\ q = f THEN d ELSE Def(j, q)

LEMMA ReplaceFound ==
    ASSUME NamesAlike(Programs), StoreInv, Sorted, NEW u \in Image, NEW k \in Kind,
           NEW f \in DOMAIN bySpec[k], GetReplace(u, k, f)
    PROVE  /\ TookOver(k, f, Here(u))
           /\ ~ CannotReplace(k, Here(u), Def(k, f))
           /\ ~ IsAsm(Here(u)) /\ ~ IsAsm(Def(k, f))
           /\ \/ Vis(Here(u)) < Vis(Def(k, f))
              \/ IsFunc(Here(u)) /\ ~ Decl(Def(k, f)).body /\ Decl(Here(u)).body
           /\ UNCHANGED <<decls, bySpec>>
<1> DEFINE d == Here(u)
           e == Def(k, f)
<1> USE DEF StoreInv
<1>1. PICK p \in DOMAIN bySpec[k] :
         /\ p \in Namesakes(k, d) /\ ~ CannotReplace(k, d, Def(k, p))
         /\ Exchange(k, d, p)
         /\ UNCHANGED <<decls, bySpec>>
         /\ d \in Declared /\ Decl(d).kind = k
  BY ReplaceFacts
<1>2. f \in Search(d) /\ f # Nothing /\ Replaces(node[bySpec[k][f]], d)
  BY <1>1 DEF GetReplace, Conflicting, Finds
<1>3. /\ e \in Declared /\ Decl(e).kind = k /\ Decl(e).name = Decl(d).name
  <2> HIDE DEF d
  <2> QED
    BY <1>1, <1>2, SearchFacts
<1>4. Vis(d) \in {0, 1} /\ Vis(e) \in {0, 1}
  BY <1>1, <1>3, DeclFacts
<1>5. node[bySpec[k][f]] \in Sinode
  <2>1. node \in Seq(Sinode) /\ bySpec[k] \in Seq(DOMAIN node)
    BY DEF StoreType
  <2>2. bySpec[k][f] \in DOMAIN node
    BY <2>1
  <2> QED
    BY <2>1, <2>2
<1>6. /\ ~ IsAsm(d) /\ ~ IsAsm(e)
      /\ \/ Vis(e) > Vis(d)
         \/ IsFunc(d) /\ ~ Decl(e).body /\ Decl(d).body
  <2>1. node[bySpec[k][f]].weak \in {0, -1} /\ node[bySpec[k][f]].def = e
    BY <1>5 DEF Sinode, Def
  <2>2. ~ (Vis(d) < node[bySpec[k][f]].weak)
    BY <2>1, <1>4
  <2> HIDE DEF d, e
  <2> QED
    BY <1>2, <2>1, <2>2 DEF Replaces
<1> DEFINE c == Def(k, p)
<1>7. c \in Declared /\ Decl(c).kind = k /\ Decl(c).name = Decl(d).name
  BY <1>1 DEF Namesakes, Entries
<1>8. IsFunc(d) <=> IsFunc(e)
  BY <1>1, <1>3 DEF IsFunc
<1>9. Key(e) = Key(d)
  <2> SUFFICES ASSUME Key(d) # Key(e) PROVE FALSE
    OBVIOUS
  <2> HIDE DEF d, e, c
  <2>1. Vis(d) = Vis(e) /\ (IsFunc(d) => Decl(d).body = Decl(e).body)
    BY <1>1, <1>3, AlikeFacts
  <2> QED
    BY <2>1, <1>4, <1>6
<1>10. Key(c) = Key(e)
  <2> SUFFICES ASSUME Key(c) # Key(e) PROVE FALSE
    OBVIOUS
  <2> HIDE DEF d, e, c
  <2>1. Vis(d) = Vis(c) /\ (IsFunc(d) => Decl(d).body = Decl(c).body)
    BY <1>1, <1>7, <1>9, AlikeFacts
  <2>2. Vis(e) = Vis(c) /\ (IsFunc(e) => Decl(e).body = Decl(c).body)
    BY <1>1, <1>3, <1>7, <1>9, AlikeFacts
  <2> QED
    BY <2>1, <2>2, <1>4, <1>6, <1>8
<1>11. p = f
  BY <1>1, <1>10, KeyUnique
<1>12. \A j \in Kind : \A q \in DOMAIN bySpec[j] :
          Def(j, q)' = IF bySpec[j][q] = bySpec[k][f] THEN d ELSE Def(j, q)
  <2> HIDE DEF d
  <2> QED
    BY <1>1, <1>11, ExchangeEffect
<1>13. ASSUME NEW j \in Kind, NEW q \in DOMAIN bySpec[j]
       PROVE  bySpec[j][q] = bySpec[k][f] <=> j = k /\ q = f
  <2>1. ASSUME bySpec[j][q] = bySpec[k][f] PROVE j = k /\ q = f
    <3>1. j = k
      BY <2>1, KindsApart
    <3>2. Def(j, q) = Def(k, f)
      BY <2>1 DEF Def
    <3> QED
      BY <3>1, <3>2, KeyUnique
  <2> QED
    BY <2>1
<1>14. TookOver(k, f, d)
  BY <1>9, <1>12, <1>13 DEF TookOver
<1>15. ~ CannotReplace(k, d, e)
  BY <1>1, <1>11
<1> QED
  BY <1>1, <1>6, <1>14, <1>15

(* The invariant where the indexes stay: a declaration is passed by.       *)
LEMMA PassedByAlike ==
    ASSUME StoreInv, AlikeInv, StoreType', NEW u \in Image, Turn(u), Advance(u),
           UNCHANGED <<decls, unit, node, bySpec, forced>>,
           \/ Decl(Here(u)).kind = "extern" /\ SetFlags(u, {Here(u)}, {})
           \/ /\ Decl(Here(u)).kind \in Kind /\ Resolved(Here(u))
              /\ \/ SetFlags(u, {Here(u)}, {})
                 \/ SetFlags(u, {}, {}) /\ Decl(Here(u)).kind \notin GlobalKind
    PROVE  AlikeInv'
<1> DEFINE d == Here(u)
<1> USE DEF AlikeInv
<1>1. /\ d \in Declared /\ d \notin Past /\ d \notin Seen
      /\ Past' = Past \cup {d} /\ Seen' = Seen \cup {d} /\ Declared' = Declared
  BY TurnSeen
<1>2. /\ \A e : Decl(e)' = Decl(e) /\ Key(e)' = Key(e)
      /\ \A k, p : Def(k, p)' = Def(k, p)
  BY DeclsFixed DEF Def
<1>3. Sorted'
  BY <1>2 DEF Sorted
<1>4. \A k, key : Has(k, key)' = Has(k, key)
  BY <1>2 DEF Has
<1>5. \A e : Resolved(e)' = Resolved(e)
  BY <1>2, <1>4 DEF Resolved, ByBuiltin, Rf
<1> HIDE DEF d
<1>6. SeenResolved'
  <2> SUFFICES ASSUME NEW e \in Seen', Decl(e).kind # "extern" PROVE Resolved(e)
    BY <1>2, <1>5 DEF SeenResolved
  <2> QED
    BY <1>1 DEF SeenResolved, d
<1>7. Live' = Live
  BY <1>2 DEF Live
<1>8. /\ dropped' \cup replaced' \subseteq dropped \cup replaced \cup {d}
      /\ (dropped \cup replaced) \ {d} \subseteq dropped' \cup replaced'
      /\ u \notin Asm /\ Decl(d).kind \in GlobalKind => d \in dropped'
  BY DEF SetFlags, d, GlobalKind
<1>9. NothingLost'
  <2> SUFFICES ASSUME NEW e \in SeenGlobal' PROVE e \in Live' \cup dropped' \cup replaced'
    BY DEF NothingLost
  <2>1. e \in Seen' /\ ~ IsAsm(e) /\ Decl(e).kind \in GlobalKind
    BY <1>2 DEF SeenGlobal, IsAsm
  <2>2. CASE e = d
    <3>1. d[1] = u
      BY DEF Here, d
    <3> QED
      BY <2>1, <2>2, <3>1, <1>8 DEF IsAsm
  <2>3. CASE e # d
    <3>1. e \in SeenGlobal
      BY <1>1, <2>1, <2>3 DEF SeenGlobal
    <3> QED
      BY <2>3, <3>1, <1>7, <1>8 DEF NothingLost
  <2> QED
    BY <2>2, <2>3
<1>10. PastOnly'
  <2> SUFFICES ASSUME forced = 0
               PROVE  /\ Live' \subseteq Past' /\ dropped' \cup replaced' \subseteq Past'
                      /\ Live' \cap (dropped' \cup replaced') = {}
    BY DEF PastOnly
  <2> QED
    BY <1>1, <1>7, <1>8 DEF PastOnly
<1> QED
  BY <1>3, <1>6, <1>9, <1>10

(* The invariant where a declaration takes a sinode over.                  *)
LEMMA TookOverAlike ==
    ASSUME StoreInv, AlikeInv, StoreType', NEW u \in Image, NEW k \in Kind,
           NEW f \in DOMAIN bySpec[k], Turn(u), Advance(u), Decl(Here(u)).kind = k,
           UNCHANGED <<decls, unit, bySpec, forced>>,
           TookOver(k, f, Here(u)), SetFlags(u, {}, Marked(k, f)),
           ~ IsAsm(Here(u))
    PROVE  AlikeInv'
<1> DEFINE d == Here(u)
<1> USE DEF AlikeInv
<1>1. /\ d \in Declared /\ d \notin Past /\ d \notin Seen
      /\ Past' = Past \cup {d} /\ Seen' = Seen \cup {d} /\ Declared' = Declared
  BY TurnSeen
<1>2. \A e : Decl(e)' = Decl(e) /\ Key(e)' = Key(e)
  BY DeclsFixed
<1>0. u \notin Asm /\ Decl(d).kind = k /\ SetFlags(u, {}, Marked(k, f)) /\ ~ IsAsm(d)
  BY DEF IsAsm, Here
<1>3. /\ Key(Def(k, f)) = Key(d)
      /\ \A j \in Kind : \A q \in DOMAIN bySpec[j] :
            Def(j, q)' = IF j = k /\ q = f THEN d ELSE Def(j, q)
  BY DEF TookOver
<1>31. replaced' = (replaced \ {d}) \cup Marked(k, f) /\ dropped' = dropped \ {d}
  BY <1>0 DEF SetFlags
<1> HIDE DEF d
<1>4. \A j \in Kind : \A q \in DOMAIN bySpec[j] : Key(Def(j, q))' = Key(Def(j, q))
  <2> SUFFICES ASSUME NEW j \in Kind, NEW q \in DOMAIN bySpec[j]
               PROVE  Key(Def(j, q)') = Key(Def(j, q))
    BY <1>2
  <2> QED
    BY <1>3
<1>5. Sorted'
  BY <1>4 DEF Sorted
<1>6. \A j \in Kind : \A key : Has(j, key) => Has(j, key)'
  BY <1>4 DEF Has
<1>7. ASSUME NEW e, Decl(e).kind \in Kind, Resolved(e) PROVE Resolved(e)'
  <2>1. Decl(e)' = Decl(e) /\ Key(e)' = Key(e) /\ ByBuiltin(e)' = ByBuiltin(e)
    BY <1>2 DEF ByBuiltin, Rf
  <2> QED
    BY <2>1, <1>6, <1>7 DEF Resolved
<1>8. Resolved(d)
  BY <1>0, <1>3 DEF Resolved, Has
<1>9. SeenResolved'
  <2> SUFFICES ASSUME NEW e \in Seen', Decl(e).kind # "extern" PROVE Resolved(e)'
    BY <1>2 DEF SeenResolved
  <2>1. CASE e = d
    BY <2>1, <1>0, <1>7, <1>8
  <2>2. CASE e # d
    <3>1. e \in Seen
      BY <2>2, <1>1
    <3>2. Resolved(e)
      BY <3>1 DEF SeenResolved
    <3>3. e \in Declared
      BY <3>1, SeenPast DEF StoreInv, Past
    <3>4. Decl(e).kind \in Kind
      BY <3>3, DeclFacts DEF StoreInv, Declaration
    <3> QED
      BY <3>2, <3>4, <1>7
  <2> QED
    BY <2>1, <2>2
<1>10. Live' = (Live \ {Def(k, f)}) \cup {d}
  <2>1. ASSUME NEW x \in Live' PROVE x \in (Live \ {Def(k, f)}) \cup {d}
    <3>0. PICK j \in Kind : \E q \in DOMAIN bySpec[j] : x = Def(j, q)'
      BY <2>1 DEF Live
    <3>1. PICK q \in DOMAIN bySpec[j] : x = Def(j, q)'
      BY <3>0
    <3>2. CASE j = k /\ q = f
      BY <3>1, <3>2, <1>3
    <3>3. CASE ~ (j = k /\ q = f)
      <4>1. x = Def(j, q)
        BY <3>1, <3>3, <1>3
      <4>2. x # Def(k, f)
        <5> SUFFICES ASSUME Def(j, q) = Def(k, f) PROVE FALSE
          BY <4>1
        <5>1. j = k
          BY DEF StoreInv, Entries
        <5>2. q = f
          BY <5>1, KeyUnique
        <5> QED
          BY <5>1, <5>2, <3>3
      <4>3. x \in Live
        BY <4>1 DEF Live
      <4> QED
        BY <4>2, <4>3
    <3> QED
      BY <3>2, <3>3
  <2>2. ASSUME NEW x \in Live, x # Def(k, f) PROVE x \in Live'
    <3>0. PICK j \in Kind : \E q \in DOMAIN bySpec[j] : x = Def(j, q)
      BY <2>2 DEF Live
    <3>1. PICK q \in DOMAIN bySpec[j] : x = Def(j, q)
      BY <3>0
    <3>2. x = Def(j, q)'
      BY <3>1, <2>2, <1>3
    <3> QED
      BY <3>2 DEF Live
  <2>3. d \in Live'
    BY <1>3 DEF Live
  <2> QED
    BY <2>1, <2>2, <2>3
<1>11. NothingLost'
  <2> SUFFICES ASSUME NEW e \in SeenGlobal' PROVE e \in Live' \cup dropped' \cup replaced'
    BY DEF NothingLost
  <2>1. e \in Seen' /\ ~ IsAsm(e) /\ Decl(e).kind \in GlobalKind
    BY <1>2 DEF SeenGlobal, IsAsm
  <2>2. CASE e = d
    BY <2>2, <1>10
  <2>3. CASE e # d
    <3>1. e \in Live \cup dropped \cup replaced
      BY <1>1, <2>1, <2>3 DEF SeenGlobal, NothingLost
    <3>2. CASE e = Def(k, f)
      BY <3>2, <2>1, <1>31 DEF Marked
    <3>3. CASE e # Def(k, f)
      BY <2>3, <3>1, <3>3, <1>10, <1>31
    <3> QED
      BY <3>2, <3>3
  <2> QED
    BY <2>2, <2>3
<1>12. PastOnly'
  <2> SUFFICES ASSUME forced = 0
               PROVE  /\ Live' \subseteq Past' /\ dropped' \cup replaced' \subseteq Past'
                      /\ Live' \cap (dropped' \cup replaced') = {}
    BY DEF PastOnly
  <2>1. Def(k, f) \in Live
    BY DEF Live
  <2>2. Live \subseteq Past /\ dropped \cup replaced \subseteq Past
        /\ Live \cap (dropped \cup replaced) = {}
    BY DEF PastOnly
  <2>3. Marked(k, f) \subseteq {Def(k, f)}
    BY DEF Marked
  <2> QED
    BY <1>1, <1>10, <1>31, <2>1, <2>2, <2>3
<1> QED
  BY <1>5, <1>9, <1>11, <1>12

(* The positions of an index before and after an insertion.                *)
Moved(d, k, g) ==
    /\ Len(bySpec[k]) \in Nat
    /\ DOMAIN bySpec[k] = 1..Len(bySpec[k])
    /\ DOMAIN bySpec'[k] = 1..(Len(bySpec[k]) + 1)
    /\ \A q \in DOMAIN bySpec'[k] :
          \/ q <= g /\ q \in DOMAIN bySpec[k] /\ Def(k, q)' = Def(k, q)
          \/ q = g + 1 /\ Def(k, q)' = d
          \/ /\ q > g + 1 /\ q - 1 \in DOMAIN bySpec[k]
             /\ Def(k, q)' = Def(k, q - 1)
    /\ \A q \in DOMAIN bySpec[k] :
          \E p \in DOMAIN bySpec'[k] : Def(k, p)' = Def(k, q)
    /\ g + 1 \in DOMAIN bySpec'[k] /\ Def(k, g + 1)' = d

LEMMA Positions ==
    ASSUME StoreInv, NEW d, NEW k \in Kind, NEW g \in 0..Len(bySpec[k]),
           InsertedAt(d, k, g)
    PROVE  Moved(d, k, g)
<1>1. bySpec[k] \in Seq(DOMAIN node) /\ bySpec'[k] \in Seq(DOMAIN node')
  BY DEF StoreInv, StoreType, InsertedAt
<1>2. /\ Len(bySpec[k]) \in Nat /\ DOMAIN bySpec[k] = 1..Len(bySpec[k])
      /\ DOMAIN bySpec'[k] = 1..Len(bySpec'[k])
  BY <1>1
<1>3. /\ Len(bySpec'[k]) = Len(bySpec[k]) + 1
      /\ \A i \in 1..g : Def(k, i)' = Def(k, i)
      /\ Def(k, g + 1)' = d
      /\ \A i \in (g + 1)..Len(bySpec[k]) : Def(k, i + 1)' = Def(k, i)
  BY DEF InsertedAt
<1>4. ASSUME NEW q \in DOMAIN bySpec'[k]
      PROVE  \/ q <= g /\ q \in DOMAIN bySpec[k] /\ Def(k, q)' = Def(k, q)
             \/ q = g + 1 /\ Def(k, q)' = d
             \/ /\ q > g + 1 /\ q - 1 \in DOMAIN bySpec[k]
                /\ Def(k, q)' = Def(k, q - 1)
  <2>1. q \in 1..(Len(bySpec[k]) + 1)
    BY <1>2, <1>3
  <2>2. CASE q <= g
    BY <2>1, <2>2, <1>2, <1>3
  <2>3. CASE q = g + 1
    BY <2>3, <1>3
  <2>4. CASE q > g + 1
    <3>1. /\ q - 1 \in (g + 1)..Len(bySpec[k]) /\ (q - 1) + 1 = q
          /\ q - 1 \in DOMAIN bySpec[k]
      BY <2>1, <2>4, <1>2
    <3>2. Def(k, (q - 1) + 1)' = Def(k, q - 1)
      BY <3>1, <1>3
    <3> QED
      BY <2>4, <3>1, <3>2
  <2> QED
    BY <2>1, <2>2, <2>3, <2>4
<1>5. ASSUME NEW q \in DOMAIN bySpec[k]
      PROVE  \E p \in DOMAIN bySpec'[k] : Def(k, p)' = Def(k, q)
  <2>1. CASE q <= g
    BY <2>1, <1>2, <1>3
  <2>2. CASE q > g
    <3>1. q \in (g + 1)..Len(bySpec[k]) /\ q + 1 \in DOMAIN bySpec'[k]
      BY <2>2, <1>2, <1>3
    <3> QED
      BY <3>1, <1>3
  <2> QED
    BY <1>2, <2>1, <2>2
<1>6. DOMAIN bySpec'[k] = 1..(Len(bySpec[k]) + 1)
  BY <1>2, <1>3
<1>7. g + 1 \in DOMAIN bySpec'[k] /\ Def(k, g + 1)' = d
  BY <1>2, <1>3, <1>6
<1>8. \A q \in DOMAIN bySpec'[k] :
         \/ q <= g /\ q \in DOMAIN bySpec[k] /\ Def(k, q)' = Def(k, q)
         \/ q = g + 1 /\ Def(k, q)' = d
         \/ q > g + 1 /\ q - 1 \in DOMAIN bySpec[k] /\ Def(k, q)' = Def(k, q - 1)
  BY <1>4
<1>9. \A q \in DOMAIN bySpec[k] :
         \E p \in DOMAIN bySpec'[k] : Def(k, p)' = Def(k, q)
  BY <1>5
<1> QED
  BY <1>2, <1>6, <1>7, <1>8, <1>9, Zenon DEF Moved

(* A new sinode at a gap leaves the index sorted.                          *)
LEMMA InsertSorted ==
    ASSUME StoreInv, Sorted, NEW d \in Declared, NEW k \in Kind, Decl(d).kind = k,
           NEW g \in Gaps(k, Key(d)), InsertedAt(d, k, g), decls' = decls
    PROVE  Sorted'
<1>1. /\ g \in 0..Len(bySpec[k])
      /\ g > 0 => Less(Key(Def(k, g)), Key(d))
      /\ g < Len(bySpec[k]) => Less(Key(d), Key(Def(k, g + 1)))
  BY DEF Gaps
<1>2. /\ Len(bySpec[k]) \in Nat
      /\ DOMAIN bySpec[k] = 1..Len(bySpec[k])
      /\ DOMAIN bySpec'[k] = 1..(Len(bySpec[k]) + 1)
      /\ \A q \in DOMAIN bySpec'[k] :
            \/ q <= g /\ q \in DOMAIN bySpec[k] /\ Def(k, q)' = Def(k, q)
            \/ q = g + 1 /\ Def(k, q)' = d
            \/ /\ q > g + 1 /\ q - 1 \in DOMAIN bySpec[k]
               /\ Def(k, q)' = Def(k, q - 1)
  <2>1. Moved(d, k, g)
    BY <1>1, Positions, Zenon
  <2> QED
    BY <2>1, Zenon DEF Moved
<1>3. \A i \in DOMAIN bySpec[k] : Key(Def(k, i)) \in Nat \X Nat
  BY DeclFacts DEF StoreInv, Entries
<1>4. Key(d) \in Nat \X Nat
  BY DeclFacts DEF StoreInv
<1>5. \A i, j \in DOMAIN bySpec[k] : i < j => Less(Key(Def(k, i)), Key(Def(k, j)))
  BY DEF Sorted
<1>6. ASSUME NEW i \in DOMAIN bySpec[k], i <= g PROVE Less(Key(Def(k, i)), Key(d))
  <2>1. g > 0 /\ g \in DOMAIN bySpec[k]
    BY <1>1, <1>2, <1>6
  <2>2. CASE i = g
    BY <1>1, <2>1, <2>2
  <2>3. CASE i < g
    BY <1>1, <1>3, <1>4, <1>5, <2>1, <2>3, LessFacts
  <2> QED
    BY <1>1, <1>2, <1>6, <2>2, <2>3
<1>7. ASSUME NEW i \in DOMAIN bySpec[k], i > g PROVE Less(Key(d), Key(Def(k, i)))
  <2>1. g < Len(bySpec[k]) /\ g + 1 \in DOMAIN bySpec[k]
    BY <1>1, <1>2, <1>7
  <2>2. CASE i = g + 1
    BY <1>1, <2>1, <2>2
  <2>3. CASE i > g + 1
    BY <1>1, <1>3, <1>4, <1>5, <2>1, <2>3, LessFacts
  <2> QED
    BY <1>1, <1>2, <1>7, <2>2, <2>3
<1>8. \A e : Key(e)' = Key(e)
  BY DeclsFixed
<1>9. ASSUME NEW p \in DOMAIN bySpec'[k], NEW q \in DOMAIN bySpec'[k], p < q
      PROVE  Less(Key(Def(k, p)'), Key(Def(k, q)'))
  <2>1. p \in Int /\ q \in Int /\ g \in Int
    BY <1>1, <1>2
  <2>2. CASE p <= g /\ q <= g
    BY <2>1, <2>2, <1>2, <1>5, <1>9
  <2>3. CASE p <= g /\ q = g + 1
    BY <2>1, <2>3, <1>2, <1>6
  <2>4. CASE p <= g /\ q > g + 1
    <3>1. p < q - 1
      BY <2>1, <2>4
    <3> QED
      BY <2>1, <2>4, <3>1, <1>2, <1>5
  <2>5. CASE p = g + 1 /\ q > g + 1
    <3>1. q - 1 > g
      BY <2>1, <2>5
    <3> QED
      BY <2>1, <2>5, <3>1, <1>2, <1>7
  <2>6. CASE p > g + 1 /\ q > g + 1
    <3>1. p - 1 < q - 1
      BY <2>1, <1>9
    <3> QED
      BY <2>1, <2>6, <3>1, <1>2, <1>5
  <2> QED
    BY <2>1, <2>2, <2>3, <2>4, <2>5, <2>6, <1>9
<1>10. ASSUME NEW j \in Kind \ {k}
       PROVE  /\ bySpec'[j] = bySpec[j]
              /\ \A p \in DOMAIN bySpec[j] : Def(j, p)' = Def(j, p)
  BY DEF InsertedAt
<1> SUFFICES ASSUME NEW j \in Kind, NEW p \in DOMAIN bySpec'[j],
                    NEW q \in DOMAIN bySpec'[j], p < q
             PROVE  Less(Key(Def(j, p)'), Key(Def(j, q)'))
  BY <1>8 DEF Sorted
<1>11. CASE j = k
  BY <1>9, <1>11
<1>12. CASE j # k
  BY <1>10, <1>12 DEF Sorted
<1> QED
  BY <1>11, <1>12

(* The invariant where a declaration gets a sinode of its own.             *)
LEMMA NewAlike ==
    ASSUME StoreInv, AlikeInv, StoreType', NEW u \in Image, NEW k \in Kind,
           GetNew(u, k)
    PROVE  AlikeInv'
<1> USE DEF AlikeInv
<1>0. PICK d \in Declared : d = Here(u)
  BY NewFacts
<1>1. PICK g \in 0..Len(bySpec[k]) :
         /\ g \in Gaps(k, Key(d))
         /\ bySpec' = [bySpec EXCEPT ![k] = InsertAt(@, g + 1, Len(node) + 1)]
         /\ sinode_new(d) /\ decls' = decls
         /\ Decl(d).kind = k
  BY <1>0, NewFacts
<1>2. InsertedAt(d, k, g)
  BY <1>1, InsertEffect DEF StoreInv
<1>3. /\ \A q \in DOMAIN bySpec'[k] :
            \/ q <= g /\ q \in DOMAIN bySpec[k] /\ Def(k, q)' = Def(k, q)
            \/ q = g + 1 /\ Def(k, q)' = d
            \/ /\ q > g + 1 /\ q - 1 \in DOMAIN bySpec[k]
               /\ Def(k, q)' = Def(k, q - 1)
      /\ \A q \in DOMAIN bySpec[k] :
            \E p \in DOMAIN bySpec'[k] : Def(k, p)' = Def(k, q)
      /\ g + 1 \in DOMAIN bySpec'[k] /\ Def(k, g + 1)' = d
  <2>1. Moved(d, k, g)
    BY <1>2, Positions, Zenon
  <2> QED
    BY <2>1, Zenon DEF Moved
<1>4. Turn(u) /\ Advance(u) /\ SetFlags(u, {}, {}) /\ UNCHANGED <<unit, forced>>
  BY DEF GetNew
<1>5. /\ d \notin Past /\ d \notin Seen
      /\ Past' = Past \cup {d} /\ Seen' = Seen \cup {d} /\ Declared' = Declared
  BY <1>0, <1>1, <1>4, TurnSeen
<1>6. \A e : Decl(e)' = Decl(e) /\ Key(e)' = Key(e)
  BY <1>1, DeclsFixed
<1>7. \A j \in Kind \ {k} : /\ bySpec'[j] = bySpec[j]
                            /\ \A p \in DOMAIN bySpec[j] : Def(j, p)' = Def(j, p)
  BY <1>2 DEF InsertedAt
<1>8. Sorted'
  BY <1>1, <1>2, InsertSorted
<1>81. dropped' \in {dropped, dropped \ {d}} /\ replaced' \in {replaced, replaced \ {d}}
  BY <1>0, <1>4 DEF SetFlags
<1>9. ASSUME NEW j \in Kind, NEW q \in DOMAIN bySpec[j]
      PROVE  \E p \in DOMAIN bySpec'[j] : Def(j, p)' = Def(j, q)
  BY <1>3, <1>7
<1>10. ASSUME NEW j \in Kind, NEW key, Has(j, key) PROVE Has(j, key)'
  <2>1. PICK q \in DOMAIN bySpec[j] : Key(Def(j, q)) = key
    BY <1>10 DEF Has
  <2>2. PICK p \in DOMAIN bySpec'[j] : Def(j, p)' = Def(j, q)
    BY <1>9
  <2>3. Key(Def(j, p))' = key
    BY <1>6, <2>1, <2>2
  <2> QED
    BY <2>3 DEF Has
<1>11. ASSUME NEW e, Decl(e).kind \in Kind, Resolved(e) PROVE Resolved(e)'
  <2>1. Decl(e)' = Decl(e) /\ Key(e)' = Key(e) /\ ByBuiltin(e)' = ByBuiltin(e)
    BY <1>6 DEF ByBuiltin, Rf
  <2> QED
    BY <2>1, <1>10, <1>11 DEF Resolved
<1>12. Resolved(d)'
  <2>1. Key(Def(k, g + 1))' = Key(d)
    BY <1>3, <1>6
  <2>2. Has(k, Key(d))'
    BY <1>3, <1>6, <2>1 DEF Has
  <2> QED
    BY <1>1, <1>6, <2>2 DEF Resolved
<1>13. SeenResolved'
  <2> SUFFICES ASSUME NEW e \in Seen', Decl(e).kind # "extern" PROVE Resolved(e)'
    BY <1>6 DEF SeenResolved
  <2>1. CASE e = d
    BY <2>1, <1>12
  <2>2. CASE e # d
    <3>1. e \in Seen
      BY <2>2, <1>5
    <3>2. Resolved(e)
      BY <3>1 DEF SeenResolved
    <3>3. e \in Declared
      BY <3>1, SeenPast DEF StoreInv, Past
    <3>4. Decl(e).kind \in Kind
      BY <3>3, DeclFacts DEF StoreInv, Declaration
    <3> QED
      BY <3>2, <3>4, <1>11
  <2> QED
    BY <2>1, <2>2
<1>14. Live' = Live \cup {d}
  <2>1. ASSUME NEW x \in Live' PROVE x \in Live \cup {d}
    <3>1. PICK j \in Kind : \E q \in DOMAIN bySpec'[j] : x = Def(j, q)'
      BY <2>1 DEF Live
    <3>2. PICK q \in DOMAIN bySpec'[j] : x = Def(j, q)'
      BY <3>1
    <3>3. CASE j # k
      BY <3>2, <3>3, <1>7 DEF Live
    <3>4. CASE j = k
      BY <3>2, <3>4, <1>3 DEF Live
    <3> QED
      BY <3>3, <3>4
  <2>2. ASSUME NEW x \in Live PROVE x \in Live'
    <3>1. PICK j \in Kind : \E q \in DOMAIN bySpec[j] : x = Def(j, q)
      BY <2>2 DEF Live
    <3>2. PICK p \in DOMAIN bySpec'[j] : x = Def(j, p)'
      BY <3>1, <1>9
    <3> QED
      BY <3>2 DEF Live
  <2>3. d \in Live'
    BY <1>3 DEF Live
  <2> QED
    BY <2>1, <2>2, <2>3
<1>15. NothingLost'
  <2> SUFFICES ASSUME NEW e \in SeenGlobal' PROVE e \in Live' \cup dropped' \cup replaced'
    BY DEF NothingLost
  <2>1. e \in Seen' /\ ~ IsAsm(e) /\ Decl(e).kind \in GlobalKind
    BY <1>6 DEF SeenGlobal, IsAsm
  <2>2. CASE e = d
    BY <2>2, <1>14
  <2>3. CASE e # d
    <3>1. e \in Live \cup dropped \cup replaced
      BY <1>5, <2>1, <2>3 DEF SeenGlobal, NothingLost
    <3> QED
      BY <2>3, <3>1, <1>14, <1>81
  <2> QED
    BY <2>2, <2>3
<1>16. PastOnly'
  <2> SUFFICES ASSUME forced = 0
               PROVE  /\ Live' \subseteq Past' /\ dropped' \cup replaced' \subseteq Past'
                      /\ Live' \cap (dropped' \cup replaced') = {}
    BY <1>4 DEF PastOnly
  <2> QED
    BY <1>5, <1>14, <1>81 DEF PastOnly
<1> QED
  BY <1>8, <1>13, <1>15, <1>16

(* The invariant where no index and no mark changes.                       *)
LEMMA OtherAlike ==
    ASSUME StoreInv, AlikeInv, StoreType', NEW u \in Image,
           FindFile(u) \/ InsertFile(u) \/ ForceAgain(u)
    PROVE  AlikeInv'
<1> USE DEF AlikeInv
<1>1. UNCHANGED <<decls, node, bySpec, dropped, replaced>>
  BY DEF FindFile, InsertFile, ForceAgain
<1>2. Seen' \subseteq Seen
  BY OtherSeen
<1>3. /\ \A e : Decl(e)' = Decl(e) /\ Key(e)' = Key(e)
      /\ \A k, p : Def(k, p)' = Def(k, p)
      /\ Declared' = Declared
  BY <1>1, DeclsFixed DEF Def
<1>4. Sorted'
  BY <1>1, <1>3 DEF Sorted
<1>5. \A k, key : Has(k, key)' = Has(k, key)
  BY <1>1, <1>3 DEF Has
<1>6. \A e : Resolved(e)' = Resolved(e)
  BY <1>3, <1>5 DEF Resolved, ByBuiltin, Rf
<1>7. SeenResolved'
  BY <1>2, <1>3, <1>6 DEF SeenResolved
<1>8. Live' = Live
  BY <1>1, <1>3 DEF Live
<1>9. SeenGlobal' \subseteq SeenGlobal
  BY <1>2, <1>3 DEF SeenGlobal, IsAsm
<1>10. NothingLost'
  BY <1>1, <1>8, <1>9 DEF NothingLost
<1>11. PastOnly'
  <2>1. CASE ForceAgain(u)
    <3>1. forced' = forced + 1
      BY <2>1 DEF ForceAgain
    <3>2. forced \in 0..MaxForced /\ MaxForced \in Nat
      BY StoreAssumption DEF StoreInv, StoreType
    <3>3. forced' # 0
      BY <3>1, <3>2
    <3> QED
      BY <3>3 DEF PastOnly
  <2>2. CASE FindFile(u) \/ InsertFile(u)
    <3>1. forced' = forced
      BY <2>2 DEF FindFile, InsertFile
    <3>2. \A v \in Image : pos'[v] >= pos[v]
      <4>1. pos \in [Image -> Nat \ {0}] /\ pos[u] <= Len(decls[u]) + 1
        BY DEF StoreInv, StoreType
      <4>2. pos' \in {pos, [pos EXCEPT ![u] = Len(decls[u]) + 1]}
        BY <2>2 DEF FindFile, InsertFile
      <4>3. pos' \in [Image -> Nat \ {0}]
        BY DEF StoreType
      <4>4. pos'[u] \in {pos[u], Len(decls[u]) + 1}
            /\ \A v \in Image \ {u} : pos'[v] = pos[v]
        BY <4>1, <4>2
      <4>5. pos'[u] >= pos[u]
        BY <4>1, <4>3, <4>4
      <4> QED
        BY <4>1, <4>4, <4>5
    <3>3. Past \subseteq Past'
      <4> SUFFICES ASSUME NEW e \in Past PROVE e[2] < pos'[e[1]]
        BY <1>3 DEF Past
      <4>1. e[1] \in Image /\ e[2] \in Nat /\ e[2] < pos[e[1]]
        BY DEF Past, Declared
      <4>2. pos[e[1]] \in Nat /\ pos'[e[1]] \in Nat
        BY <4>1 DEF StoreInv, StoreType
      <4> QED
        BY <4>1, <4>2, <3>2
    <3> QED
      BY <1>1, <1>8, <3>1, <3>3 DEF PastOnly
  <2> QED
    BY <2>1, <2>2
<1> QED
  BY <1>4, <1>7, <1>10, <1>11

LEMMA AlikeFrame ==
    ASSUME AlikeInv,
           UNCHANGED <<decls, pos, unit, node, bySpec, dropped, replaced, forced>>
    PROVE  AlikeInv'
<1> USE DEF AlikeInv
<1>1. /\ \A e : /\ Decl(e)' = Decl(e) /\ Key(e)' = Key(e)
                /\ ByBuiltin(e)' = ByBuiltin(e)
      /\ \A k, p : Def(k, p)' = Def(k, p)
      /\ Declared' = Declared
  BY DeclsFixed DEF Def, ByBuiltin, Rf
<1>2. Sorted'
  BY <1>1 DEF Sorted
<1>3. \A k, key : Has(k, key)' = Has(k, key)
  BY <1>1 DEF Has
<1>4. \A e : Resolved(e)' = Resolved(e)
  BY <1>1, <1>3 DEF Resolved
<1>5. Linked' = Linked /\ Past' = Past
  BY <1>1 DEF Linked, Past
<1>6. Seen' = Seen
  BY <1>5 DEF Seen
<1>7. Live' = Live
  BY <1>1 DEF Live
<1>8. SeenGlobal' = SeenGlobal
  BY <1>1, <1>6 DEF SeenGlobal, IsAsm
<1>9. SeenResolved'
  BY <1>1, <1>4, <1>6 DEF SeenResolved
<1> QED
  BY <1>2, <1>5, <1>7, <1>8, <1>9 DEF NothingLost, PastOnly

LEMMA AlikeInit ==
    Init => AlikeInv
<1> SUFFICES ASSUME Init PROVE AlikeInv
  OBVIOUS
<1>1. \A k \in Kind : DOMAIN bySpec[k] = {}
  <2>1. bySpec = [k \in Kind |-> << >>]
    BY DEF Init
  <2>2. DOMAIN << >> = {}
    OBVIOUS
  <2> QED
    BY <2>1, <2>2
<1>2. StoreType
  BY StoreInit DEF StoreInv
<1>3. Past = {}
  <2>1. pos = [u \in Image |-> 1]
    BY DEF Init
  <2> QED
    BY <2>1 DEF Past, Declared
<1>4. Seen = {}
  BY <1>2, <1>3, SeenPast
<1>5. Live = {}
  BY <1>1 DEF Live
<1>6. dropped = {} /\ replaced = {}
  BY DEF Init
<1> QED
  BY <1>1, <1>4, <1>5, <1>6
     DEF AlikeInv, Sorted, SeenResolved, NothingLost, SeenGlobal, PastOnly

(* What a step does to the declaration a worker is at.                     *)
LEMMA FindsFacts ==
    ASSUME StoreInv, NEW u \in Image, NEW k \in Kind,
           NEW f \in DOMAIN bySpec[k], Finds(u, k, f)
    PROVE  /\ Here(u) \in Declared /\ Decl(Here(u)).kind = k
           /\ Resolved(Here(u))
<1>1. \E d \in Declared : d = Here(u)
  BY HereFacts DEF Finds, Turn, StoreInv
<1>2. Here(u) \in Declared /\ Decl(Here(u)).kind = k
  BY <1>1 DEF Finds
<1> QED
  BY <1>2, FoundResolved DEF Finds

LEMMA AlikeStep ==
    NamesAlike(Programs) /\ StoreInv /\ StoreInv' /\ AlikeInv /\ [Next]_vars => AlikeInv'
<1> SUFFICES ASSUME NamesAlike(Programs), StoreInv, StoreInv', AlikeInv, [Next]_vars
             PROVE  AlikeInv'
  OBVIOUS
<1>0. StoreType'
  BY DEF StoreInv
<1>1. ASSUME NEW u \in Image, GetExtern(u) PROVE AlikeInv'
  BY <1>0, <1>1, PassedByAlike DEF GetExtern, fileVars
<1>2. ASSUME NEW u \in Image, NEW k \in Kind, NEW f \in DOMAIN bySpec[k],
             GetKnown(u, k, f)
      PROVE  AlikeInv'
  <2>1. Decl(Here(u)).kind = k /\ Resolved(Here(u)) /\ k \notin GlobalKind /\ Turn(u)
    BY <1>2, FindsFacts DEF GetKnown, Known, Finds, GlobalKind
  <2> QED
    BY <1>0, <1>2, <2>1, PassedByAlike DEF GetKnown
<1>3. ASSUME NEW u \in Image, NEW k \in Kind, NEW f \in DOMAIN bySpec[k],
             GetDropped(u, k, f)
      PROVE  AlikeInv'
  <2>1. Decl(Here(u)).kind = k /\ Resolved(Here(u)) /\ Turn(u)
    BY <1>3, FindsFacts DEF GetDropped, Finds
  <2> QED
    BY <1>0, <1>3, <2>1, PassedByAlike DEF GetDropped
<1>4. ASSUME NEW u \in Image, NEW k \in Kind, NEW f \in DOMAIN bySpec[k],
             GetReplace(u, k, f)
      PROVE  AlikeInv'
  <2>1. TookOver(k, f, Here(u)) /\ ~ IsAsm(Here(u)) /\ UNCHANGED <<decls, bySpec>>
    BY <1>4, ReplaceFound DEF AlikeInv
  <2>2. /\ Turn(u) /\ Advance(u) /\ Decl(Here(u)).kind = k
        /\ SetFlags(u, {}, Marked(k, f)) /\ UNCHANGED <<unit, forced>>
    BY <1>4 DEF GetReplace, Conflicting, Finds
  <2> QED
    BY <1>0, <2>1, <2>2, TookOverAlike
<1>5. ASSUME NEW u \in Image, NEW k \in Kind, NEW f \in DOMAIN bySpec[k],
             Abort(u, k, f)
      PROVE  AlikeInv'
  <2>1. UNCHANGED <<decls, pos, unit, node, bySpec, dropped, replaced, forced>>
    BY <1>5 DEF Abort, fileVars
  <2> QED
    BY <2>1, AlikeFrame
<1>6. ASSUME NEW u \in Image, NEW k \in Kind, GetNew(u, k) PROVE AlikeInv'
  BY <1>0, <1>6, NewAlike
<1>7. ASSUME NEW u \in Image, FindFile(u) \/ InsertFile(u) \/ ForceAgain(u)
      PROVE  AlikeInv'
  BY <1>0, <1>7, OtherAlike
<1>8. CASE UNCHANGED vars
  <2>1. UNCHANGED <<decls, pos, unit, node, bySpec, dropped, replaced, forced>>
    BY <1>8 DEF vars, fileVars
  <2> QED
    BY <2>1, AlikeFrame
<1> QED
  BY <1>1, <1>2, <1>3, <1>4, <1>5, <1>6, <1>7, <1>8 DEF Next, GetBase

LEMMA AlikeSound == NamesAlike(Programs) /\ Spec => []AlikeInv
<1>1. ASSUME NamesAlike(Programs)
      PROVE  StoreInv /\ StoreInv' /\ AlikeInv /\ [Next]_vars => AlikeInv'
  BY <1>1, AlikeStep
<1>2. ASSUME NamesAlike(Programs) PROVE Spec => []AlikeInv
  BY <1>1, <1>2, AlikeInit, StoreSound, PTL DEF Spec
<1> QED
  BY <1>2

LEMMA AlikeResolves == StoreInv /\ AlikeInv => Resolves
<1> SUFFICES ASSUME StoreInv, AlikeInv, NEW d \in Seen, Decl(d).kind # "extern"
             PROVE  Nothing \notin Search(d)
  BY DEF Resolves
<1>1. Resolved(d) /\ d \in Declared
  BY SeenPast DEF AlikeInv, SeenResolved, StoreInv, Past
<1>2. Decl(d).kind \in Kind
  BY <1>1, DeclFacts DEF StoreInv, Declaration
<1> QED
  BY <1>1, <1>2, ResolvedFound DEF AlikeInv

(* Whatever the order of the workers, and however often STEP2 is forced,   *)
(* each declaration that was linked is found again, when names are alike.  *)
THEOREM SinodeResolves == NamesAlike(Programs) /\ Spec => []Resolves
  BY AlikeSound, StoreSound, AlikeResolves, PTL

(* No global declaration of a gimple image is left out unmarked.           *)
THEOREM SinodeNothingLost == NamesAlike(Programs) /\ Spec => []NothingLost
<1>1. AlikeInv => NothingLost
  BY DEF AlikeInv
<1> QED
  BY <1>1, AlikeSound, PTL

(* What a sinode stands for is marked neither dropped nor replaced, until  *)
(* STEP2 is forced.                                                        *)
THEOREM SinodeLiveIsAnalysed == NamesAlike(Programs) /\ Spec => []LiveIsAnalysed
<1>1. AlikeInv => LiveIsAnalysed
  BY DEF AlikeInv, PastOnly, LiveIsAnalysed
<1> QED
  BY <1>1, AlikeSound, PTL

-----------------------------------------------------------------------------
(* The strongest declaration                                               *)

LEMMA AsmVis ==
    ASSUME AsmStrong(Programs), StoreType, NEW d \in Declared, IsAsm(d)
    PROVE  Vis(d) = 0
<1>1. decls \in Programs /\ d[1] \in Asm /\ d[2] \in DOMAIN decls[d[1]]
  BY DEF StoreType, IsAsm, Declared
<1>2. ~ decls[d[1]][d[2]].weak
  BY <1>1 DEF AsmStrong
<1> QED
  BY <1>2 DEF Vis, Decl

(* The weak flags are compared where the indexes stay, and d is seen.      *)
LEMMA SameStrongest ==
    ASSUME KeyStrongest, UNCHANGED <<decls, node, bySpec>>, NEW d,
           Seen' \subseteq Seen \cup {d},
           ~ IsAsm(d) /\ Decl(d).kind \in GlobalKind =>
               \A p \in Hits(Decl(d).kind, Key(d)) :
                   Vis(Def(Decl(d).kind, p)) <= Vis(d)
    PROVE  KeyStrongest'
<1>1. /\ \A e : Decl(e)' = Decl(e) /\ Key(e)' = Key(e) /\ Vis(e)' = Vis(e)
      /\ \A k, p : Def(k, p)' = Def(k, p)
  BY DeclsFixed DEF Def
<1>2. \A k, key : Hits(k, key)' = Hits(k, key)
  BY <1>1 DEF Hits
<1> SUFFICES ASSUME NEW e \in SeenGlobal', NEW p \in Hits(Decl(e).kind, Key(e))
             PROVE  Vis(Def(Decl(e).kind, p)) <= Vis(e)
  BY <1>1, <1>2 DEF KeyStrongest
<1>3. e \in Seen' /\ ~ IsAsm(e) /\ Decl(e).kind \in GlobalKind
  BY <1>1 DEF SeenGlobal, IsAsm
<1>4. CASE e = d
  BY <1>3, <1>4
<1>5. CASE e \in Seen
  BY <1>3, <1>5 DEF KeyStrongest, SeenGlobal
<1> QED
  BY <1>3, <1>4, <1>5

(* What is dropped is no stronger than what stands for its key.            *)
LEMMA DroppedStrongest ==
    ASSUME NamesAlike(Programs), AsmStrong(Programs), StoreInv, AlikeInv,
           KeyStrongest, StoreType', NEW u \in Image, NEW k \in Kind,
           NEW f \in DOMAIN bySpec[k], GetDropped(u, k, f)
    PROVE  KeyStrongest'
<1> USE DEF StoreInv, AlikeInv
<1>0. PICK d \in Declared : d = Here(u)
  BY HereFacts DEF GetDropped, Finds, Turn
<1>1. /\ Turn(u) /\ Advance(u) /\ UNCHANGED <<decls, unit, node, bySpec>>
      /\ Decl(d).kind = k /\ f \in Search(d) /\ f # Nothing
      /\ ~ Replaces(node[bySpec[k][f]], d)
  BY <1>0 DEF GetDropped, Finds
<1>2. Seen' = Seen \cup {d}
  BY <1>0, <1>1, TurnSeen
<1> DEFINE e == Def(k, f)
<1>3. e \in Declared /\ Decl(e).kind = k /\ Decl(e).name = Decl(d).name
  BY <1>1, SearchFacts
<1>4. Vis(d) \in {0, 1} /\ Vis(e) \in {0, 1}
  BY <1>3, DeclFacts
<1>5. node[bySpec[k][f]].def = e
  BY DEF Def
<1>6. ~ IsAsm(d) => Vis(e) <= Vis(d)
  <2>1. CASE IsAsm(e)
    BY <2>1, <1>3, <1>4, AsmVis
  <2>2. CASE ~ IsAsm(e) /\ ~ IsAsm(d)
    <3> HIDE DEF e
    <3>1. ~ (Vis(e) > Vis(d))
      BY <2>2, <1>1, <1>5 DEF Replaces
    <3> QED
      BY <3>1, <1>4
  <2> QED
    BY <2>1, <2>2
<1>7. ASSUME ~ IsAsm(d), NEW p \in Hits(k, Key(d)) PROVE Vis(Def(k, p)) <= Vis(d)
  <2> DEFINE c == Def(k, p)
  <2>1. p \in DOMAIN bySpec[k] /\ Key(c) = Key(d)
    BY DEF Hits
  <2>2. c \in Declared /\ Decl(c).kind = k
    BY <2>1 DEF Entries
  <2>3. Decl(c).name = Decl(d).name
    BY <2>1, <2>2, DeclFacts
  <2>4. CASE Key(e) = Key(d)
    <3>1. p = f
      BY <2>1, <2>4, KeyUnique
    <3> QED
      BY <3>1, <1>6, <1>7
  <2>5. CASE Key(e) # Key(d)
    <3> HIDE DEF e, c
    <3>1. Vis(c) = Vis(e)
      BY <2>1, <2>2, <2>3, <2>5, <1>3, AlikeFacts
    <3> QED
      BY <3>1, <1>6, <1>7 DEF c
  <2> QED
    BY <2>4, <2>5
<1> HIDE DEF e
<1> QED
  BY <1>1, <1>2, <1>7, SameStrongest

(* What takes a sinode over is stronger than what it stood for.            *)
LEMMA ReplacedStrongest ==
    ASSUME NamesAlike(Programs), StoreInv, AlikeInv,
           KeyStrongest, StoreType', NEW u \in Image, NEW k \in Kind,
           NEW f \in DOMAIN bySpec[k], GetReplace(u, k, f)
    PROVE  KeyStrongest'
<1> USE DEF StoreInv, AlikeInv
<1>0. PICK d \in Declared : d = Here(u)
  BY HereFacts DEF GetReplace, Conflicting, Finds, Turn
<1>1. /\ Turn(u) /\ Advance(u) /\ UNCHANGED <<decls, unit>>
      /\ Decl(d).kind = k
  BY <1>0 DEF GetReplace, Conflicting, Finds
<1>2. Seen' = Seen \cup {d}
  BY <1>0, <1>1, TurnSeen
<1>3. /\ TookOver(k, f, d) /\ bySpec' = bySpec
      /\ ~ CannotReplace(k, d, Def(k, f))
      /\ ~ IsAsm(d) /\ ~ IsAsm(Def(k, f))
      /\ \/ Vis(d) < Vis(Def(k, f))
         \/ IsFunc(d) /\ ~ Decl(Def(k, f)).body /\ Decl(d).body
  BY <1>0, ReplaceFound
<1>4. /\ Key(Def(k, f)) = Key(d)
      /\ \A j \in Kind : \A q \in DOMAIN bySpec[j] :
            Def(j, q)' = IF j = k /\ q = f THEN d ELSE Def(j, q)
  BY <1>3 DEF TookOver
<1>5. Def(k, f) \in Declared /\ Decl(Def(k, f)).kind = k
  BY DEF Entries
<1>6. Vis(d) \in {0, 1} /\ \A e \in Declared : Vis(e) \in {0, 1}
  BY DeclFacts
<1>7. k \in GlobalKind => Vis(d) < Vis(Def(k, f))
  <2>1. IsFunc(d) <=> IsFunc(Def(k, f))
    BY <1>1, <1>5 DEF IsFunc
  <2>2. CASE IsFunc(d) /\ ~ Decl(Def(k, f)).body /\ Decl(d).body
    <3>1. HasData(d) # HasData(Def(k, f))
      BY <1>3, <2>1, <2>2 DEF HasData
    <3> QED
      BY <1>3, <3>1 DEF CannotReplace
  <2> QED
    BY <1>3, <2>2
<1>8. /\ \A e : Decl(e)' = Decl(e) /\ Key(e)' = Key(e) /\ Vis(e)' = Vis(e)
  BY <1>1, DeclsFixed
<1>9. \A j \in Kind : \A q \in DOMAIN bySpec[j] : Key(Def(j, q)') = Key(Def(j, q))
  BY <1>4
<1>10. \A j \in Kind : \A key : Hits(j, key)' = Hits(j, key)
  BY <1>3, <1>8, <1>9 DEF Hits
<1>11. \A j \in GlobalKind : j \in Kind
  BY DEF Kind
<1> SUFFICES ASSUME NEW e \in SeenGlobal', NEW j \in Kind, j = Decl(e).kind,
                    NEW p \in Hits(j, Key(e))
             PROVE  Vis(Def(j, p)') <= Vis(e)
  <2>1. ASSUME NEW e \in SeenGlobal', NEW p \in Hits(Decl(e).kind, Key(e))'
        PROVE  Vis(Def(Decl(e).kind, p))' <= Vis(e)'
    <3>1. Decl(e).kind \in GlobalKind
      BY <1>8 DEF SeenGlobal
    <3>2. PICK j \in Kind : j = Decl(e).kind
      BY <3>1, <1>11
    <3>3. p \in Hits(j, Key(e))
      BY <3>2, <1>8, <1>10
    <3>4. Vis(Def(j, p)') <= Vis(e)
      BY <3>2, <3>3
    <3> QED
      BY <3>2, <3>4, <1>8
  <2> QED
    BY <2>1 DEF KeyStrongest
<1>12. e \in Seen' /\ ~ IsAsm(e) /\ Decl(e).kind \in GlobalKind
  BY <1>8 DEF SeenGlobal, IsAsm
<1>13. j \in GlobalKind /\ p \in DOMAIN bySpec[j] /\ Key(Def(j, p)) = Key(e)
  BY <1>11, <1>12 DEF Hits
<1>14. Def(j, p) \in Declared
  BY <1>13 DEF Entries
<1>15. CASE e = d
  <2>1. j = k /\ p = f
    BY <1>1, <1>4, <1>13, <1>15, KeyUnique
  <2> QED
    BY <2>1, <1>4, <1>6, <1>15
<1>16. CASE e # d
  <2>1. e \in SeenGlobal
    BY <1>2, <1>12, <1>16 DEF SeenGlobal
  <2>2. Vis(Def(j, p)) <= Vis(e)
    BY <2>1 DEF KeyStrongest
  <2>3. e \in Declared
    BY <2>1, SeenPast DEF SeenGlobal, Past
  <2>4. CASE j = k /\ p = f
    <3>1. Vis(d) < Vis(Def(k, f)) /\ Def(j, p)' = d
      BY <2>4, <1>4, <1>7, <1>12
    <3> QED
      BY <2>2, <2>3, <2>4, <3>1, <1>5, <1>6
  <2>5. CASE ~ (j = k /\ p = f)
    BY <2>2, <2>5, <1>4, <1>13
  <2> QED
    BY <2>4, <2>5
<1> QED
  BY <1>15, <1>16

(* A key that gets its first sinode was not seen before.                   *)
LEMMA NewStrongest ==
    ASSUME StoreInv, AlikeInv, KeyStrongest, StoreType', NEW u \in Image,
           NEW k \in Kind, GetNew(u, k)
    PROVE  KeyStrongest'
<1> USE DEF StoreInv, AlikeInv
<1>0. PICK d \in Declared : d = Here(u)
  BY NewFacts
<1>1. PICK g \in 0..Len(bySpec[k]) :
         /\ bySpec' = [bySpec EXCEPT ![k] = InsertAt(@, g + 1, Len(node) + 1)]
         /\ sinode_new(d) /\ decls' = decls
         /\ Decl(d).kind = k
  BY <1>0, NewFacts
<1>2. InsertedAt(d, k, g)
  BY <1>1, InsertEffect
<1>3. \A q \in DOMAIN bySpec'[k] :
         Def(k, q)' = d \/ \E i \in DOMAIN bySpec[k] : Def(k, q)' = Def(k, i)
  <2>1. Moved(d, k, g)
    BY <1>2, Positions, Zenon
  <2> QED
    BY <2>1, Zenon DEF Moved
<1>4. \A j \in Kind \ {k} : /\ bySpec'[j] = bySpec[j]
                            /\ \A p \in DOMAIN bySpec[j] : Def(j, p)' = Def(j, p)
  BY <1>2 DEF InsertedAt
<1>5. Turn(u) /\ Advance(u) /\ UNCHANGED <<unit>> /\ Nothing \in Search(d)
  BY <1>0 DEF GetNew
<1>6. Seen' = Seen \cup {d}
  BY <1>0, <1>1, <1>5, TurnSeen
<1>7. \A e : Decl(e)' = Decl(e) /\ Key(e)' = Key(e) /\ Vis(e)' = Vis(e)
  BY <1>1, DeclsFixed
<1>8. ~ Resolved(d)
  BY <1>1, <1>5, ResolvedFound
<1>9. Vis(d) \in {0, 1}
  BY DeclFacts
<1> SUFFICES ASSUME NEW e \in SeenGlobal', NEW j \in Kind, j = Decl(e).kind,
                    NEW p \in DOMAIN bySpec'[j], Key(Def(j, p)') = Key(e)
             PROVE  Vis(Def(j, p)') <= Vis(e)
  <2>1. ASSUME NEW e \in SeenGlobal', NEW p \in Hits(Decl(e).kind, Key(e))'
        PROVE  Vis(Def(Decl(e).kind, p))' <= Vis(e)'
    <3>1. Decl(e).kind \in GlobalKind
      BY <1>7 DEF SeenGlobal
    <3>2. PICK j \in Kind : j = Decl(e).kind
      BY <3>1 DEF Kind
    <3>3. p \in DOMAIN bySpec'[j] /\ Key(Def(j, p)') = Key(e)
      BY <3>2, <1>7 DEF Hits
    <3>4. Vis(Def(j, p)') <= Vis(e)
      BY <3>2, <3>3
    <3> QED
      BY <3>2, <3>4, <1>7
  <2> QED
    BY <2>1 DEF KeyStrongest
<1>10. e \in Seen' /\ ~ IsAsm(e) /\ Decl(e).kind \in GlobalKind
  BY <1>7 DEF SeenGlobal, IsAsm
<1>11. j \in Kind
  OBVIOUS
<1>12. CASE \E i \in DOMAIN bySpec[j] : Def(j, p)' = Def(j, i)
  <2>1. PICK i \in DOMAIN bySpec[j] : Def(j, p)' = Def(j, i)
    BY <1>12
  <2>2. i \in Hits(j, Key(e))
    BY <2>1 DEF Hits
  <2>3. CASE e \in Seen
    BY <2>1, <2>2, <2>3, <1>10 DEF KeyStrongest, SeenGlobal
  <2>4. CASE e = d
    <3>1. Has(k, Key(d))
      BY <2>2, <2>4, <1>1 DEF Has, Hits
    <3> QED
      BY <3>1, <1>1, <1>8 DEF Resolved
  <2> QED
    BY <1>6, <1>10, <2>3, <2>4
<1>13. CASE j = k /\ Def(j, p)' = d
  <2>1. Key(e) = Key(d)
    BY <1>13
  <2>2. CASE e = d
    BY <2>2, <1>9, <1>13
  <2>3. CASE e \in Seen
    <3>1. e \in Declared
      BY <2>3, SeenPast DEF Past
    <3>2. Resolved(e)
      BY <2>3, <1>10, <1>11 DEF SeenResolved, Kind, GlobalKind, StaticKind
    <3>3. Decl(e).name = Decl(d).name
      BY <2>1, <3>1, DeclFacts
    <3>4. Rf(e) = Rf(d)
      BY <2>1, <1>1, <1>10, <1>13 DEF Key
    <3>5. Resolved(d)
      BY <2>1, <3>2, <3>3, <3>4, <1>1, <1>13 DEF Resolved, ByBuiltin
    <3> QED
      BY <3>5, <1>8
  <2> QED
    BY <1>6, <1>10, <2>2, <2>3
<1>14. \/ \E i \in DOMAIN bySpec[j] : Def(j, p)' = Def(j, i)
       \/ j = k /\ Def(j, p)' = d
  BY <1>3, <1>4, <1>11
<1> QED
  BY <1>12, <1>13, <1>14

LEMMA StrongestInit ==
    ASSUME Init PROVE KeyStrongest
<1>1. Seen = {}
  <2>1. StoreType
    BY StoreInit DEF StoreInv
  <2>2. pos = [u \in Image |-> 1]
    BY DEF Init
  <2>3. Past = {}
    BY <2>2 DEF Past, Declared
  <2> QED
    BY <2>1, <2>3, SeenPast
<1> QED
  BY <1>1 DEF KeyStrongest, SeenGlobal

(* A step that sees nothing new, or nothing the linker is interested in.   *)
LEMMA PassedByStrongest ==
    ASSUME StoreInv, KeyStrongest, StoreType', NEW u \in Image, Turn(u), Advance(u),
           UNCHANGED <<decls, unit, node, bySpec>>,
           Decl(Here(u)).kind \notin GlobalKind
    PROVE  KeyStrongest'
<1>0. PICK d \in Declared : d = Here(u)
  BY HereFacts DEF Turn, StoreInv
<1>1. Seen' = Seen \cup {d}
  BY <1>0, TurnSeen
<1> QED
  BY <1>0, <1>1, SameStrongest

LEMMA StrongestStep ==
    ASSUME NamesAlike(Programs), AsmStrong(Programs)
    PROVE  StoreInv /\ StoreInv' /\ AlikeInv /\ KeyStrongest /\ [Next]_vars => KeyStrongest'
<1> SUFFICES ASSUME StoreInv, StoreInv', AlikeInv, KeyStrongest, [Next]_vars
             PROVE  KeyStrongest'
  OBVIOUS
<1>0. StoreType'
  BY DEF StoreInv
<1>1. ASSUME NEW u \in Image, GetExtern(u) PROVE KeyStrongest'
  BY <1>0, <1>1, PassedByStrongest DEF GetExtern, fileVars, GlobalKind
<1>2. ASSUME NEW u \in Image, NEW k \in Kind, NEW f \in DOMAIN bySpec[k],
             GetKnown(u, k, f)
      PROVE  KeyStrongest'
  BY <1>0, <1>2, PassedByStrongest DEF GetKnown, Known, Finds, GlobalKind
<1>3. ASSUME NEW u \in Image, NEW k \in Kind, NEW f \in DOMAIN bySpec[k],
             GetDropped(u, k, f)
      PROVE  KeyStrongest'
  BY <1>0, <1>3, DroppedStrongest
<1>4. ASSUME NEW u \in Image, NEW k \in Kind, NEW f \in DOMAIN bySpec[k],
             GetReplace(u, k, f)
      PROVE  KeyStrongest'
  BY <1>0, <1>4, ReplacedStrongest
<1>5. ASSUME NEW u \in Image, NEW k \in Kind, GetNew(u, k) PROVE KeyStrongest'
  BY <1>0, <1>5, NewStrongest
<1>6. ASSUME UNCHANGED <<decls, node, bySpec>>, Seen' \subseteq Seen
      PROVE  KeyStrongest'
  <2>2. \A e \in Seen' : e \in Seen
    BY <1>6
  <2>3. \A d \in Seen : ~ IsAsm(d) /\ Decl(d).kind \in GlobalKind =>
           \A p \in Hits(Decl(d).kind, Key(d)) : Vis(Def(Decl(d).kind, p)) <= Vis(d)
    BY DEF KeyStrongest, SeenGlobal
  <2>4. CASE Seen = {}
    <3>1. Seen' = {}
      BY <2>2, <2>4
    <3> QED
      BY <3>1 DEF KeyStrongest, SeenGlobal
  <2>5. CASE Seen # {}
    <3>1. PICK c : c \in Seen
      BY <2>5
    <3> QED
      BY <2>3, <3>1, <1>6, SameStrongest
  <2> QED
    BY <2>4, <2>5
<1>7. ASSUME NEW u \in Image, FindFile(u) \/ InsertFile(u) \/ ForceAgain(u)
      PROVE  KeyStrongest'
  <2>1. UNCHANGED <<decls, node, bySpec>>
    BY <1>7 DEF FindFile, InsertFile, ForceAgain
  <2>2. Seen' \subseteq Seen
    BY <1>0, <1>7, OtherSeen
  <2> QED
    BY <2>1, <2>2, <1>6
<1>8. ASSUME UNCHANGED <<decls, pos, unit, node, bySpec>> PROVE KeyStrongest'
  <2>1. Linked' = Linked
    BY <1>8 DEF Linked
  <2>2. Seen' = Seen
    BY <1>8, <2>1 DEF Seen
  <2> QED
    BY <1>6, <1>8, <2>2
<1>9. ASSUME NEW u \in Image, NEW k \in Kind, NEW f \in DOMAIN bySpec[k],
             Abort(u, k, f)
      PROVE  KeyStrongest'
  BY <1>8, <1>9 DEF Abort, fileVars
<1>10. CASE UNCHANGED vars
  BY <1>8, <1>10 DEF vars, fileVars
<1> QED
  BY <1>1, <1>2, <1>3, <1>4, <1>5, <1>7, <1>9, <1>10 DEF Next, GetBase

LEMMA KeyStrongestWins ==
    ASSUME NamesAlike(Programs), StoreInv, KeyStrongest
    PROVE  StrongestWins
<1> SUFFICES ASSUME NEW d \in SeenGlobal, NEW f \in Search(d) \ {Nothing}
             PROVE  Vis(Def(Decl(d).kind, f)) <= Vis(d)
  BY DEF StrongestWins
<1> DEFINE k == Decl(d).kind
           e == Def(k, f)
<1>1. d \in Declared /\ k \in Kind
  BY SeenPast DEF SeenGlobal, Past, Kind, StoreInv
<1>2. /\ f \in DOMAIN bySpec[k] /\ e \in Declared /\ Decl(e).kind = k
      /\ Decl(e).name = Decl(d).name
  BY <1>1, SearchFacts DEF StoreInv
<1>3. CASE Key(e) = Key(d)
  BY <1>2, <1>3 DEF KeyStrongest, Hits
<1>4. CASE Key(e) # Key(d)
  <2> HIDE DEF e
  <2>1. Vis(e) = Vis(d) /\ Vis(d) \in {0, 1}
    BY <1>1, <1>2, <1>4, AlikeFacts, DeclFacts DEF StoreInv
  <2> QED
    BY <2>1 DEF e
<1> QED
  BY <1>3, <1>4

(* In whatever order the workers come, the sinode a global name is found   *)
(* under stands for a declaration no weaker than any that was linked, when *)
(* names are alike and no assembly file declares a weak symbol.            *)
THEOREM SinodeStrongestWins ==
    NamesAlike(Programs) /\ AsmStrong(Programs) /\ Spec => []StrongestWins
<1>1. ASSUME NamesAlike(Programs), AsmStrong(Programs) PROVE Spec => []StrongestWins
  <2>1. StoreInv /\ StoreInv' /\ AlikeInv /\ KeyStrongest /\ [Next]_vars => KeyStrongest'
    BY <1>1, StrongestStep
  <2>2. Spec => []AlikeInv
    BY <1>1, AlikeSound
  <2>3. StoreInv /\ KeyStrongest => StrongestWins
    BY <1>1, KeyStrongestWins
  <2>4. Init => KeyStrongest
    BY StrongestInit
  <2> QED
    BY <2>1, <2>2, <2>3, <2>4, StoreSound, PTL DEF Spec
<1> QED
  BY <1>1

=============================================================================
