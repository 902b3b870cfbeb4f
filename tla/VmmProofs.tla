----------------------------- MODULE VmmProofs -----------------------------
(***************************************************************************)
(* Proofs about the virtual memory manager for every amount of RAM, every  *)
(* size of the tables, and any root tables, pages and mappings.            *)
(*                                                                         *)
(* The tables below one root and the tables of different roots share       *)
(* nothing, and a page is found at one place only: that is what makes a    *)
(* change of one page leave every other page, and every cached             *)
(* translation, as it was.  The proof gives each table a level: entries of *)
(* levels 1 to 3 link to tables one level down, each table is linked from  *)
(* one entry, and the entries of level 4 map pages.                        *)
(***************************************************************************)
EXTENDS Vmm, KernelLemmas

Entry ==
  {Absent, [addr |-> 0, flags |-> "stale"]} \cup Mappings \cup {Link(f) : f \in PMM!Frames}

TablesIn(taken) == taken \ ({0} \cup DataFrames)

\* An entry of a table of levels 1 to 3 is absent or links one level down.
LinksDown(mm, taken, level) ==
  \A f \in TablesIn(taken), i \in Indices :
    level[f] # 4 =>
      \/ mm[f][i] = Absent
      \/ \E g \in TablesIn(taken) : level[g] = level[f] + 1 /\ mm[f][i] = Link(g)

LeavesMap(mm, taken, level) ==
  \A f \in TablesIn(taken), i \in Indices :
    level[f] = 4 => mm[f][i] \in {Absent} \cup Mappings

\* No two entries link to the same table,
OneParent(mm, taken, level) ==
  \A f, g \in TablesIn(taken), i, j \in Indices :
    level[f] # 4 /\ level[g] # 4 /\ mm[f][i] # Absent /\ mm[f][i] = mm[g][j] => f = g /\ i = j

\* and every table but the roots is linked.
HasParent(mm, taken, level) ==
  \A h \in TablesIn(taken) \ Roots :
    \E f \in TablesIn(taken), i \in Indices : level[f] # 4 /\ mm[f][i] = Link(h)

Levels(taken, level) ==
  /\ {0} \cup Roots \cup DataFrames \subseteq taken /\ taken \subseteq PMM!Frames
  /\ level \in [TablesIn(taken) -> 1 .. 4]
  /\ \A r \in Roots : level[r] = 1

\* The memory mm holds trees of page tables in the frames taken.
Tree(mm, taken, level) ==
  /\ mm \in [PMM!Frames -> [Indices -> Entry]]
  /\ Levels(taken, level)
  /\ LinksDown(mm, taken, level)
  /\ LeavesMap(mm, taken, level)
  /\ OneParent(mm, taken, level)
  /\ HasParent(mm, taken, level)

\* The entries that the walk for page v from a root looks at, one level after the other.
Follow(mm, e, i) == IF Present(e) THEN mm[e.addr][i] ELSE Absent
Entry1(mm, root, v) == mm[root][v[1]]
Entry2(mm, root, v) == Follow(mm, Entry1(mm, root, v), v[2])
Entry3(mm, root, v) == Follow(mm, Entry2(mm, root, v), v[3])
Walk(mm, root, v) == Follow(mm, Entry3(mm, root, v), v[4])

\* The memory with entry i of table t set, and with frame f made a table there.
WithEntry(mm, t, i, e) == [mm EXCEPT ![t][i] = e]
WithTable(mm, t, i, f) == [mm EXCEPT ![f] = ZeroTable, ![t][i] = Link(f)]
LevelsWith(taken, level, t, f) ==
  [h \in TablesIn(taken \cup {f}) |-> IF h = f THEN level[t] + 1 ELSE level[h]]

USE VmmAssumption
-----------------------------------------------------------------------------
LEMMA Kinds ==
  /\ \A f \in Nat : /\ Present(Link(f)) /\ Link(f).addr = f
                    /\ Link(f) # Absent /\ Link(f) # [addr |-> 0, flags |-> "stale"]
  /\ \A f, g \in Nat : Link(f) = Link(g) => f = g
  /\ \A m \in Mappings : /\ m # Absent /\ m # [addr |-> 0, flags |-> "stale"]
                         /\ \A f \in Nat : m = Link(f) => f \in DataFrames
  /\ Absent # [addr |-> 0, flags |-> "stale"]
  /\ ~Present(Absent)
  /\ PMM!Frames \subseteq Nat /\ Roots \cap DataFrames = {} /\ 0 \notin Roots \cup DataFrames
<1>1. \A f \in Nat : Link(f).addr = f /\ Link(f).addr # Absent.addr
  BY DEF Link, Absent
<1>2. \A f \in Nat : Link(f) # Absent /\ Present(Link(f)) /\ Link(f).addr = f
  BY <1>1 DEF Present
<1>3. \A f \in Nat : Link(f) # [addr |-> 0, flags |-> "stale"]
  <2>1. TableFlags # "stale"
    BY DEF TableFlags
  <2> QED BY <2>1 DEF Link
<1>4. ASSUME NEW m \in Mappings
      PROVE  /\ m # Absent /\ m # [addr |-> 0, flags |-> "stale"]
             /\ \A f \in Nat : m = Link(f) => f \in DataFrames
  <2>1. m.addr \in (1 .. TotalFrames - 1) \ Roots /\ m.addr \in DataFrames
    BY DEF DataFrames
  <2> QED BY <1>1, <2>1 DEF Absent
<1>5. PMM!Frames \subseteq Nat
  BY DEF PMM!Frames
<1>6. Roots \cap DataFrames = {} /\ 0 \notin Roots \cup DataFrames
  BY DEF DataFrames
<1> QED
  BY <1>1, <1>2, <1>3, <1>4, <1>5, <1>6 DEF Absent, Present

\* Roots are tables, and nothing links to them.
LEMMA RootsAreTables ==
  ASSUME NEW taken, NEW level, Levels(taken, level)
  PROVE  Roots \subseteq TablesIn(taken) /\ TablesIn(taken) \subseteq PMM!Frames
BY Kinds DEF Levels, TablesIn
-----------------------------------------------------------------------------
\* What vmm_map_page does where an entry is absent: it clears a frame that was
\* free and links it.  The tables stay trees.
LEMMA NewTableKeepsTree ==
  ASSUME NEW mm, NEW taken, NEW level, Tree(mm, taken, level),
         NEW t \in TablesIn(taken), level[t] # 4, NEW i \in Indices, mm[t][i] = Absent,
         NEW f \in PMM!Frames \ taken,
         NEW mm2, mm2 = WithTable(mm, t, i, f),
         NEW level2, level2 = LevelsWith(taken, level, t, f)
  PROVE  Tree(mm2, taken \cup {f}, level2)
<1> DEFINE T == TablesIn(taken)
           T2 == TablesIn(taken \cup {f})
<1>1. /\ f \notin T /\ T2 = T \cup {f} /\ T \subseteq PMM!Frames /\ t # f /\ f \notin Roots
      /\ t \in T /\ level \in [T -> 1 .. 4]
  <2>1. Levels(taken, level)
    BY DEF Tree
  <2>2. f \notin {0} \cup Roots \cup DataFrames
    BY <2>1 DEF Levels
  <2> QED BY <2>1, <2>2 DEF Levels, TablesIn
<1>2. /\ level[t] \in 1 .. 3
      /\ level2 \in [T2 -> 1 .. 4] /\ level2[f] = level[t] + 1
      /\ \A h \in T : level2[h] = level[h]
  <2>1. level[t] \in 1 .. 3
    BY <1>1
  <2>2. level2 = [h \in T2 |-> IF h = f THEN level[t] + 1 ELSE level[h]]
    BY DEF LevelsWith
  <2> HIDE DEF T, T2
  <2>3. \A h \in T2 : level2[h] \in 1 .. 4
    BY <1>1, <2>1, <2>2
  <2> QED BY <1>1, <2>1, <2>2, <2>3
<1>3. /\ mm2 \in [PMM!Frames -> [Indices -> Entry]]
      /\ \A j \in Indices : mm2[f][j] = Absent
      /\ mm2[t][i] = Link(f)
      /\ \A h \in T, j \in Indices : (h # t \/ j # i) => mm2[h][j] = mm[h][j]
  <2>1. mm \in [PMM!Frames -> [Indices -> Entry]]
    BY DEF Tree
  <2>2. ZeroTable \in [Indices -> Entry] /\ Link(f) \in Entry
    BY DEF ZeroTable, Entry
  <2>3. \A h \in PMM!Frames : mm2[h] = IF h = t THEN [mm[t] EXCEPT ![i] = Link(f)]
                                       ELSE IF h = f THEN ZeroTable ELSE mm[h]
    BY <1>1, <2>1 DEF WithTable
  <2>4. DOMAIN mm2 = PMM!Frames /\ mm2 = [h \in PMM!Frames |-> mm2[h]]
    BY <2>1 DEF WithTable
  <2>5. [mm[t] EXCEPT ![i] = Link(f)] \in [Indices -> Entry]
    BY <1>1, <2>1, <2>2
  <2>6. \A h \in PMM!Frames : mm2[h] \in [Indices -> Entry]
    BY <2>1, <2>2, <2>3, <2>5
  <2>7. mm2 \in [PMM!Frames -> [Indices -> Entry]]
    BY <2>4, <2>6
  <2>8. \A j \in Indices : mm2[f][j] = Absent
    <3>1. mm2[f] = ZeroTable
      BY <1>1, <2>3
    <3> QED BY <3>1 DEF ZeroTable
  <2>9. mm[t] \in [Indices -> Entry]
    BY <1>1, <2>1
  <2> QED BY <1>1, <2>3, <2>7, <2>8, <2>9
<1> HIDE DEF T, T2
<1>4. Levels(taken \cup {f}, level2)
  BY <1>1, <1>2, RootsAreTables DEF Levels, Tree, T, T2
<1>5. LinksDown(mm2, taken \cup {f}, level2)
  <2>1. ASSUME NEW h \in T, NEW j \in Indices, level[h] # 4, h # t \/ j # i
        PROVE  \/ mm2[h][j] = Absent
               \/ \E g \in T2 : level2[g] = level2[h] + 1 /\ mm2[h][j] = Link(g)
    <3>1. mm[h][j] = Absent \/ \E g \in T : level[g] = level[h] + 1 /\ mm[h][j] = Link(g)
      BY <2>1 DEF Tree, LinksDown, T
    <3> QED BY <1>1, <1>2, <1>3, <2>1, <3>1
  <2>2. ASSUME NEW h \in T2, NEW j \in Indices, level2[h] # 4
        PROVE  \/ mm2[h][j] = Absent
               \/ \E g \in T2 : level2[g] = level2[h] + 1 /\ mm2[h][j] = Link(g)
    <3>1. CASE h = f
      BY <3>1, <1>3
    <3>2. CASE h = t /\ j = i
      <4>1. f \in T2 /\ level2[f] = level2[h] + 1 /\ mm2[h][j] = Link(f)
        BY <3>2, <1>1, <1>2, <1>3
      <4> QED BY <4>1
    <3>3. CASE h # f /\ (h # t \/ j # i)
      BY <3>3, <2>1, <2>2, <1>1, <1>2
    <3> QED BY <3>1, <3>2, <3>3
  <2> QED BY <2>2 DEF LinksDown, T2
<1>6. LeavesMap(mm2, taken \cup {f}, level2)
  <2>1. \A h \in T, j \in Indices : level[h] = 4 => mm[h][j] \in {Absent} \cup Mappings
    BY DEF Tree, LeavesMap, T
  <2>2. ASSUME NEW h \in T2, NEW j \in Indices, level2[h] = 4
        PROVE  mm2[h][j] \in {Absent} \cup Mappings
    <3>1. CASE h = f
      BY <3>1, <1>3
    <3>2. CASE h # f
      <4>1. h \in T /\ level[h] = 4 /\ h # t
        BY <3>2, <2>2, <1>1, <1>2
      <4> QED BY <4>1, <2>1, <1>3
    <3> QED BY <3>1, <3>2
  <2> QED BY <2>2 DEF LeavesMap, T2
<1>7. \A h \in T, j \in Indices : level[h] # 4 => mm[h][j] # Link(f)
  <2>1. ASSUME NEW h \in T, NEW j \in Indices, level[h] # 4, mm[h][j] = Link(f) PROVE FALSE
    <3>1. \E g \in T : Link(f) = Link(g)
      BY <2>1, Kinds DEF Tree, LinksDown, T
    <3> QED BY <3>1, <1>1, Kinds
  <2> QED BY <2>1
<1>8. OneParent(mm2, taken \cup {f}, level2)
  <2>1. ASSUME NEW g \in T2, NEW h \in T2, NEW j \in Indices, NEW k \in Indices,
               level2[g] # 4, level2[h] # 4, mm2[g][j] # Absent, mm2[g][j] = mm2[h][k]
        PROVE  g = h /\ j = k
    <3>1. g \in T /\ h \in T /\ level[g] # 4 /\ level[h] # 4
      BY <2>1, <1>1, <1>2, <1>3
    <3>2. CASE g = t /\ j = i
      <4>1. mm2[h][k] = Link(f)
        BY <3>2, <2>1, <1>3
      <4>2. mm[h][k] # Link(f)
        BY <3>1, <1>7
      <4> QED BY <4>1, <4>2, <3>1, <3>2, <1>3
    <3>3. CASE h = t /\ k = i
      <4>1. mm2[g][j] = Link(f)
        BY <3>3, <2>1, <1>3
      <4>2. mm[g][j] # Link(f)
        BY <3>1, <1>7
      <4> QED BY <4>1, <4>2, <3>1, <3>3, <1>3
    <3>4. CASE ~(g = t /\ j = i) /\ ~(h = t /\ k = i)
      <4>1. mm[g][j] = mm2[g][j] /\ mm[h][k] = mm2[h][k]
        BY <3>1, <3>4, <1>3
      <4> QED BY <3>1, <4>1, <2>1 DEF Tree, OneParent, T
    <3> QED BY <3>2, <3>3, <3>4
  <2> QED BY ONLY <2>1 DEF OneParent, T2
<1>9. HasParent(mm2, taken \cup {f}, level2)
  <2>1. ASSUME NEW h \in T2 \ Roots
        PROVE  \E g \in T2, j \in Indices : level2[g] # 4 /\ mm2[g][j] = Link(h)
    <3>1. CASE h = f
      BY <3>1, <1>1, <1>2, <1>3 DEF T
    <3>2. CASE h # f
      <4>1. PICK g \in T, j \in Indices : level[g] # 4 /\ mm[g][j] = Link(h)
        BY <3>2, <1>1 DEF Tree, HasParent, T
      <4>2. Link(h) # Absent
        BY <1>1, <2>1, <3>2, Kinds
      <4>3. g \in T2 /\ level2[g] # 4
        BY <4>1, <1>1, <1>2
      <4>4. mm[t][i] = Absent
        OBVIOUS
      <4>5. g # t \/ j # i
        BY <4>1, <4>2, <4>4
      <4>6. mm2[g][j] = Link(h)
        BY <4>1, <4>5, <1>3
      <4> QED BY <4>3, <4>6
    <3> QED BY <3>1, <3>2
  <2> QED BY <2>1 DEF HasParent, T2
<1> QED
  BY <1>3, <1>4, <1>5, <1>6, <1>8, <1>9 DEF Tree
-----------------------------------------------------------------------------
\* An entry that the walk finds above level n: absent, or a link to a table of level n.
LinkTo(taken, level, n, e) ==
  e = Absent \/ \E g \in TablesIn(taken) : level[g] = n /\ e = Link(g)

LEMMA FollowDescends ==
  ASSUME NEW mm, NEW taken, NEW level, Tree(mm, taken, level),
         NEW n \in 1 .. 3, NEW e, LinkTo(taken, level, n, e), NEW i \in Indices
  PROVE  LinkTo(taken, level, n + 1, Follow(mm, e, i))
<1>1. CASE e = Absent
  BY <1>1, Kinds DEF Follow, LinkTo
<1>2. ASSUME NEW g \in TablesIn(taken), level[g] = n, e = Link(g)
      PROVE  LinkTo(taken, level, n + 1, Follow(mm, e, i))
  <2>1. g \in Nat
    BY Kinds, RootsAreTables DEF Tree
  <2>2. Follow(mm, e, i) = mm[g][i]
    BY <1>2, <2>1, Kinds DEF Follow
  <2>3. level[g] # 4
    BY <1>2
  <2>4. \/ mm[g][i] = Absent
        \/ \E h \in TablesIn(taken) : level[h] = level[g] + 1 /\ mm[g][i] = Link(h)
    BY <2>3 DEF Tree, LinksDown
  <2> QED BY <1>2, <2>2, <2>4 DEF LinkTo
<1> QED
  BY <1>1, <1>2 DEF LinkTo

Page == [1 .. 4 -> Indices]

\* The walk for a page goes down one level with each entry.
LEMMA WalkDescends ==
  ASSUME NEW mm, NEW taken, NEW level, Tree(mm, taken, level),
         NEW root \in Roots, NEW v \in Page
  PROVE  /\ LinkTo(taken, level, 1, Link(root))
         /\ Entry1(mm, root, v) = Follow(mm, Link(root), v[1])
         /\ LinkTo(taken, level, 2, Entry1(mm, root, v))
         /\ LinkTo(taken, level, 3, Entry2(mm, root, v))
         /\ LinkTo(taken, level, 4, Entry3(mm, root, v))
<1>1. v[1] \in Indices /\ v[2] \in Indices /\ v[3] \in Indices /\ v[4] \in Indices
  BY DEF Page
<1>2. root \in TablesIn(taken) /\ level[root] = 1 /\ root \in Nat
  BY Kinds, RootsAreTables DEF Tree, Levels
<1>3. LinkTo(taken, level, 1, Link(root))
  BY <1>2 DEF LinkTo
<1>4. Entry1(mm, root, v) = Follow(mm, Link(root), v[1])
  BY <1>2, Kinds DEF Entry1, Follow
<1>5. LinkTo(taken, level, 1 + 1, Entry1(mm, root, v))
  BY <1>1, <1>3, <1>4, FollowDescends
<1>6. LinkTo(taken, level, 2 + 1, Entry2(mm, root, v))
  BY <1>1, <1>5, FollowDescends DEF Entry2
<1>7. LinkTo(taken, level, 3 + 1, Entry3(mm, root, v))
  BY <1>1, <1>6, FollowDescends DEF Entry3
<1> QED
  BY <1>3, <1>4, <1>5, <1>6, <1>7

\* A new table changes no translation, and no entry that was there: where there
\* was no table there is an empty one now.
LEMMA NewTableKeepsWalks ==
  ASSUME NEW mm, NEW taken, NEW level, Tree(mm, taken, level),
         NEW t \in TablesIn(taken), level[t] # 4, NEW i \in Indices, mm[t][i] = Absent,
         NEW f \in PMM!Frames \ taken,
         NEW mm2, mm2 = WithTable(mm, t, i, f)
  PROVE  /\ \A root \in Roots, v \in Page : Walk(mm2, root, v) = Walk(mm, root, v)
         /\ \A g \in TablesIn(taken), j \in Indices : mm[g][j] # Absent => mm2[g][j] = mm[g][j]
         /\ mm2[t][i] = Link(f)
<1> DEFINE T == TablesIn(taken)
<1>1. /\ T \subseteq PMM!Frames /\ f \notin T /\ t \in T /\ t # f
      /\ level \in [T -> 1 .. 4] /\ level[t] \in 1 .. 3
  <2>1. Levels(taken, level)
    BY DEF Tree
  <2> QED BY <2>1, RootsAreTables DEF Levels, TablesIn
<1>2. /\ \A j \in Indices : mm2[f][j] = Absent
      /\ mm2[t][i] = Link(f)
      /\ \A h \in T, j \in Indices : (h # t \/ j # i) => mm2[h][j] = mm[h][j]
  <2>1. mm \in [PMM!Frames -> [Indices -> Entry]] /\ mm[t] \in [Indices -> Entry]
    BY <1>1 DEF Tree
  <2>2. \A h \in PMM!Frames : mm2[h] = IF h = t THEN [mm[t] EXCEPT ![i] = Link(f)]
                                       ELSE IF h = f THEN ZeroTable ELSE mm[h]
    BY <1>1, <2>1 DEF WithTable
  <2>3. mm2[f] = ZeroTable
    BY <1>1, <2>2
  <2>4. \A j \in Indices : mm2[f][j] = Absent
    BY <2>3 DEF ZeroTable
  <2> HIDE DEF T
  <2> QED BY <1>1, <2>1, <2>2, <2>4
<1>3. ASSUME NEW e, NEW n \in 1 .. 4, LinkTo(taken, level, n, e), n # level[t], NEW j \in Indices
      PROVE  Follow(mm2, e, j) = Follow(mm, e, j)
  <2>1. CASE e = Absent
    BY <2>1, Kinds DEF Follow
  <2>2. ASSUME NEW g \in T, level[g] = n, e = Link(g) PROVE Follow(mm2, e, j) = Follow(mm, e, j)
    <3>1. g # t /\ g \in Nat
      BY <1>1, <1>3, <2>2, Kinds
    <3>2. Follow(mm2, e, j) = mm2[g][j] /\ Follow(mm, e, j) = mm[g][j]
      BY <2>2, <3>1, Kinds DEF Follow
    <3> QED BY <3>1, <3>2, <1>2
  <2> QED BY <1>3, <2>1, <2>2 DEF LinkTo
<1>4. ASSUME NEW e, NEW n, LinkTo(taken, level, n, e), n = level[t], NEW j \in Indices
      PROVE  \/ Follow(mm2, e, j) = Follow(mm, e, j)
             \/ Follow(mm, e, j) = Absent /\ Follow(mm2, e, j) = Link(f)
  <2>1. CASE e = Absent
    BY <2>1, Kinds DEF Follow
  <2>2. ASSUME NEW g \in T, e = Link(g)
        PROVE  \/ Follow(mm2, e, j) = Follow(mm, e, j)
               \/ Follow(mm, e, j) = Absent /\ Follow(mm2, e, j) = Link(f)
    <3>1. g \in Nat
      BY <1>1, Kinds
    <3>2. Follow(mm2, e, j) = mm2[g][j] /\ Follow(mm, e, j) = mm[g][j]
      BY <2>2, <3>1, Kinds DEF Follow
    <3>3. mm[t][i] = Absent
      OBVIOUS
    <3> QED BY <3>2, <3>3, <1>2
  <2> QED BY <1>4, <2>1, <2>2 DEF LinkTo
<1>5. \A j \in Indices : Follow(mm2, Link(f), j) = Absent /\ Follow(mm, Absent, j) = Absent
  <2>1. f \in Nat
    BY Kinds
  <2> QED BY <2>1, <1>2, Kinds DEF Follow
<1>6. ASSUME NEW root \in Roots, NEW v \in Page PROVE Walk(mm2, root, v) = Walk(mm, root, v)
  <2> DEFINE e1 == Entry1(mm, root, v)
             e2 == Entry2(mm, root, v)
             e3 == Entry3(mm, root, v)
             d1 == Entry1(mm2, root, v)
             d2 == Entry2(mm2, root, v)
             d3 == Entry3(mm2, root, v)
  <2>1. v[1] \in Indices /\ v[2] \in Indices /\ v[3] \in Indices /\ v[4] \in Indices
    BY DEF Page
  <2>2. /\ LinkTo(taken, level, 1, Link(root)) /\ LinkTo(taken, level, 2, e1)
        /\ LinkTo(taken, level, 3, e2) /\ LinkTo(taken, level, 4, e3)
    BY WalkDescends
  <2>3. root \in Nat
    BY Kinds
  <2>4. /\ e1 = Follow(mm, Link(root), v[1]) /\ d1 = Follow(mm2, Link(root), v[1])
        /\ e2 = Follow(mm, e1, v[2]) /\ d2 = Follow(mm2, d1, v[2])
        /\ e3 = Follow(mm, e2, v[3]) /\ d3 = Follow(mm2, d2, v[3])
        /\ Walk(mm, root, v) = Follow(mm, e3, v[4]) /\ Walk(mm2, root, v) = Follow(mm2, d3, v[4])
    BY <2>3, Kinds DEF Entry1, Entry2, Entry3, Walk, Follow
  <2> HIDE DEF e1, e2, e3, d1, d2, d3
  <2>a. /\ level[t] # 1 => Follow(mm2, Link(root), v[1]) = e1
        /\ level[t] # 2 => Follow(mm2, e1, v[2]) = e2
        /\ level[t] # 3 => Follow(mm2, e2, v[3]) = e3
        /\ Follow(mm2, e3, v[4]) = Walk(mm, root, v)
    <3>1. 1 \in 1 .. 4 /\ 2 \in 1 .. 4 /\ 3 \in 1 .. 4 /\ 4 \in 1 .. 4 /\ level[t] # 4
      BY <1>1
    <3>2. level[t] # 1 => Follow(mm2, Link(root), v[1]) = Follow(mm, Link(root), v[1])
      BY <3>1, <2>1, <2>2, <1>3
    <3>3. level[t] # 2 => Follow(mm2, e1, v[2]) = Follow(mm, e1, v[2])
      BY <3>1, <2>1, <2>2, <1>3
    <3>4. level[t] # 3 => Follow(mm2, e2, v[3]) = Follow(mm, e2, v[3])
      BY <3>1, <2>1, <2>2, <1>3
    <3>5. Follow(mm2, e3, v[4]) = Follow(mm, e3, v[4])
      BY <3>1, <2>1, <2>2, <1>3
    <3> QED BY <3>2, <3>3, <3>4, <3>5, <2>4
  <2>b. /\ level[t] = 1 => (d1 = e1 \/ (e1 = Absent /\ d1 = Link(f)))
        /\ level[t] = 2 => \/ Follow(mm2, e1, v[2]) = e2
                           \/ e2 = Absent /\ Follow(mm2, e1, v[2]) = Link(f)
        /\ level[t] = 3 => \/ Follow(mm2, e2, v[3]) = e3
                           \/ e3 = Absent /\ Follow(mm2, e2, v[3]) = Link(f)
    <3>1. ASSUME level[t] = 1 PROVE d1 = e1 \/ (e1 = Absent /\ d1 = Link(f))
      BY <3>1, <2>1, <2>2, <2>4, <1>4
    <3>2. ASSUME level[t] = 2
          PROVE  \/ Follow(mm2, e1, v[2]) = Follow(mm, e1, v[2])
                 \/ Follow(mm, e1, v[2]) = Absent /\ Follow(mm2, e1, v[2]) = Link(f)
      BY <3>2, <2>1, <2>2, <1>4
    <3>3. ASSUME level[t] = 3
          PROVE  \/ Follow(mm2, e2, v[3]) = Follow(mm, e2, v[3])
                 \/ Follow(mm, e2, v[3]) = Absent /\ Follow(mm2, e2, v[3]) = Link(f)
      BY <3>3, <2>1, <2>2, <1>4
    <3> QED BY <3>1, <3>2, <3>3, <2>4
  <2>c. /\ Follow(mm2, Link(f), v[2]) = Absent /\ Follow(mm, Absent, v[2]) = Absent
        /\ Follow(mm2, Link(f), v[3]) = Absent /\ Follow(mm, Absent, v[3]) = Absent
        /\ Follow(mm2, Link(f), v[4]) = Absent /\ Follow(mm, Absent, v[4]) = Absent
    BY <2>1, <1>5
  <2>5. CASE level[t] = 1
    <3>1. d2 = e2
      <4>1. CASE d1 = e1
        BY <4>1, <2>4, <2>5, <2>a
      <4>2. CASE e1 = Absent /\ d1 = Link(f)
        BY <4>2, <2>4, <2>c
      <4> QED BY <4>1, <4>2, <2>5, <2>b
    <3> QED BY <3>1, <2>4, <2>5, <2>a
  <2>6. CASE level[t] = 2
    <3>1. d1 = e1
      BY <2>4, <2>6, <2>a
    <3>2. d3 = e3
      <4>1. CASE d2 = e2
        BY <4>1, <2>4, <2>6, <2>a
      <4>2. CASE e2 = Absent /\ d2 = Link(f)
        BY <4>2, <2>4, <2>c
      <4> QED BY <3>1, <4>1, <4>2, <2>4, <2>6, <2>b
    <3> QED BY <3>2, <2>4, <2>a
  <2>7. CASE level[t] = 3
    <3>1. d2 = e2
      BY <2>4, <2>7, <2>a
    <3>2. CASE d3 = e3
      BY <3>2, <2>4, <2>a
    <3>3. CASE e3 = Absent /\ d3 = Link(f)
      BY <3>3, <2>4, <2>c
    <3> QED BY <3>1, <3>2, <3>3, <2>4, <2>7, <2>b
  <2> QED BY <2>5, <2>6, <2>7, <1>1
<1> QED
  <2>1. ASSUME NEW g \in T, NEW j \in Indices, mm[g][j] # Absent PROVE mm2[g][j] = mm[g][j]
    BY <2>1, <1>2
  <2> QED BY <1>2, <1>6, <2>1
-----------------------------------------------------------------------------
\* Writing an entry of a page table changes the translation of the pages whose walk
\* ends there, and no other.
LEMMA WriteKeepsTree ==
  ASSUME NEW mm, NEW taken, NEW level, Tree(mm, taken, level),
         NEW p \in TablesIn(taken), level[p] = 4, NEW i \in Indices,
         NEW e \in {Absent} \cup Mappings,
         NEW mm2, mm2 = WithEntry(mm, p, i, e)
  PROVE  /\ Tree(mm2, taken, level)
         /\ \A root \in Roots, v \in Page :
              /\ Entry1(mm2, root, v) = Entry1(mm, root, v)
              /\ Entry2(mm2, root, v) = Entry2(mm, root, v)
              /\ Entry3(mm2, root, v) = Entry3(mm, root, v)
              /\ Walk(mm2, root, v) = IF Entry3(mm, root, v) = Link(p) /\ v[4] = i
                                      THEN e ELSE Walk(mm, root, v)
<1> DEFINE T == TablesIn(taken)
<1>1. T \subseteq PMM!Frames /\ p \in T /\ level \in [T -> 1 .. 4] /\ T \subseteq Nat
  BY RootsAreTables, Kinds DEF Tree, Levels
<1>2. /\ mm2 \in [PMM!Frames -> [Indices -> Entry]]
      /\ mm2[p][i] = e
      /\ \A h \in T, j \in Indices : (h # p \/ j # i) => mm2[h][j] = mm[h][j]
  <2>1. mm \in [PMM!Frames -> [Indices -> Entry]] /\ e \in Entry
    BY DEF Tree, Entry
  <2> HIDE DEF T
  <2>2. p \in PMM!Frames /\ mm[p] \in [Indices -> Entry]
    BY <1>1, <2>1
  <2>3. mm2[p] = [mm[p] EXCEPT ![i] = e] /\ \A h \in PMM!Frames : h # p => mm2[h] = mm[h]
    BY <2>1, <2>2 DEF WithEntry
  <2>4. [mm[p] EXCEPT ![i] = e] \in [Indices -> Entry]
    BY <2>1, <2>2
  <2>5. mm2 \in [PMM!Frames -> [Indices -> Entry]]
    BY <2>1, <2>2, <2>4 DEF WithEntry
  <2> QED BY <1>1, <2>2, <2>3, <2>5
<1>3. \A h \in T, j \in Indices : level[h] # 4 => mm2[h][j] = mm[h][j]
  BY <1>1, <1>2
<1>4. Tree(mm2, taken, level)
  <2>1. LinksDown(mm2, taken, level)
    BY <1>3 DEF Tree, LinksDown
  <2>2. OneParent(mm2, taken, level)
    BY <1>3 DEF Tree, OneParent
  <2>3. HasParent(mm2, taken, level)
    BY <1>3 DEF Tree, HasParent
  <2>4. LeavesMap(mm2, taken, level)
    <3>1. ASSUME NEW h \in T, NEW j \in Indices, level[h] = 4
          PROVE  mm2[h][j] \in {Absent} \cup Mappings
      <4>1. mm[h][j] \in {Absent} \cup Mappings
        BY <3>1 DEF Tree, LeavesMap
      <4> QED BY <4>1, <1>2
    <3> QED BY <3>1 DEF LeavesMap
  <2> QED BY <1>2, <2>1, <2>2, <2>3, <2>4 DEF Tree
<1>5. ASSUME NEW d, NEW n \in 1 .. 3, LinkTo(taken, level, n, d), NEW j \in Indices
      PROVE  Follow(mm2, d, j) = Follow(mm, d, j)
  <2>1. CASE d = Absent
    BY <2>1, Kinds DEF Follow
  <2>2. ASSUME NEW g \in T, level[g] = n, d = Link(g) PROVE Follow(mm2, d, j) = Follow(mm, d, j)
    <3>1. g \in Nat /\ level[g] # 4
      BY <1>1, <2>2
    <3>2. Follow(mm2, d, j) = mm2[g][j] /\ Follow(mm, d, j) = mm[g][j]
      BY <2>2, <3>1, Kinds DEF Follow
    <3> QED BY <3>1, <3>2, <1>3
  <2> QED BY <1>5, <2>1, <2>2 DEF LinkTo
<1>6. ASSUME NEW root \in Roots, NEW v \in Page
      PROVE  /\ Entry1(mm2, root, v) = Entry1(mm, root, v)
             /\ Entry2(mm2, root, v) = Entry2(mm, root, v)
             /\ Entry3(mm2, root, v) = Entry3(mm, root, v)
             /\ Walk(mm2, root, v) = IF Entry3(mm, root, v) = Link(p) /\ v[4] = i
                                     THEN e ELSE Walk(mm, root, v)
  <2>1. v[1] \in Indices /\ v[2] \in Indices /\ v[3] \in Indices /\ v[4] \in Indices
    BY DEF Page
  <2>2. /\ LinkTo(taken, level, 1, Link(root)) /\ LinkTo(taken, level, 2, Entry1(mm, root, v))
        /\ LinkTo(taken, level, 3, Entry2(mm, root, v))
        /\ LinkTo(taken, level, 4, Entry3(mm, root, v))
        /\ Entry1(mm, root, v) = Follow(mm, Link(root), v[1])
    BY WalkDescends
  <2>3. Entry1(mm2, root, v) = Follow(mm2, Link(root), v[1])
    BY <1>4, WalkDescends
  <2> DEFINE Same(d, j) == Follow(mm2, d, j) = Follow(mm, d, j)
  <2>9. /\ Same(Link(root), v[1])
        /\ Same(Entry1(mm, root, v), v[2]) /\ Same(Entry2(mm, root, v), v[3])
    <3>1. 1 \in 1 .. 3 /\ 2 \in 1 .. 3 /\ 3 \in 1 .. 3
      OBVIOUS
    <3>2. Same(Link(root), v[1])
      BY <3>1, <2>1, <2>2, <1>5
    <3>3. Same(Entry1(mm, root, v), v[2])
      BY <3>1, <2>1, <2>2, <1>5
    <3>4. Same(Entry2(mm, root, v), v[3])
      BY <3>1, <2>1, <2>2, <1>5
    <3> QED BY <3>2, <3>3, <3>4
  <2>4. Entry1(mm2, root, v) = Entry1(mm, root, v)
    BY <2>2, <2>3, <2>9
  <2>5. Entry2(mm2, root, v) = Entry2(mm, root, v)
    BY <2>4, <2>9 DEF Entry2
  <2>6. Entry3(mm2, root, v) = Entry3(mm, root, v)
    BY <2>5, <2>9 DEF Entry3
  <2>7. ASSUME Entry3(mm, root, v) = Absent
        PROVE  Walk(mm2, root, v) = IF Entry3(mm, root, v) = Link(p) /\ v[4] = i
                                    THEN e ELSE Walk(mm, root, v)
    <3>1. Walk(mm2, root, v) = Absent /\ Walk(mm, root, v) = Absent
      BY <2>6, <2>7, Kinds DEF Walk, Follow
    <3>2. Link(p) # Absent
      BY <1>1, Kinds
    <3> QED BY <2>7, <3>1, <3>2
  <2>8. ASSUME NEW g \in T, level[g] = 4, Entry3(mm, root, v) = Link(g)
        PROVE  Walk(mm2, root, v) = IF Entry3(mm, root, v) = Link(p) /\ v[4] = i
                                    THEN e ELSE Walk(mm, root, v)
    <3>1. g \in Nat /\ (Link(g) = Link(p) <=> g = p)
      BY <1>1, Kinds
    <3>2. Walk(mm2, root, v) = mm2[g][v[4]] /\ Walk(mm, root, v) = mm[g][v[4]]
      BY <2>6, <2>8, <3>1, Kinds DEF Walk, Follow
    <3> QED BY <2>1, <2>8, <3>1, <3>2, <1>2
  <2> QED BY <2>2, <2>4, <2>5, <2>6, <2>7, <2>8 DEF LinkTo
<1> QED
  BY <1>4, <1>6

\* A table below the root is reached along one path: from one root, by one choice of
\* the indices above it.
LEMMA FollowIsInjective ==
  ASSUME NEW mm, NEW taken, NEW level, Tree(mm, taken, level),
         NEW n \in 1 .. 3, NEW d, LinkTo(taken, level, n, d), NEW e, LinkTo(taken, level, n, e),
         NEW i \in Indices, NEW j \in Indices,
         Follow(mm, d, i) # Absent, Follow(mm, d, i) = Follow(mm, e, j)
  PROVE  d = e /\ i = j /\ d # Absent
<1>1. d # Absent /\ e # Absent
  BY Kinds DEF Follow
<1>2. PICK g \in TablesIn(taken), h \in TablesIn(taken) :
        level[g] = n /\ d = Link(g) /\ level[h] = n /\ e = Link(h)
  BY <1>1 DEF LinkTo
<1>3. g \in Nat /\ h \in Nat
  BY RootsAreTables, Kinds DEF Tree
<1>4. Follow(mm, d, i) = mm[g][i] /\ Follow(mm, e, j) = mm[h][j]
  BY <1>2, <1>3, Kinds DEF Follow
<1>5. g = h /\ i = j
  <2>1. level[g] # 4 /\ level[h] # 4
    BY <1>2
  <2>2. mm[g][i] # Absent /\ mm[g][i] = mm[h][j]
    BY <1>4
  <2>3. OneParent(mm, taken, level)
    BY DEF Tree
  <2> QED BY <2>1, <2>2, <2>3 DEF OneParent
<1> QED
  BY <1>1, <1>2, <1>5

LEMMA OnePath ==
  ASSUME NEW mm, NEW taken, NEW level, Tree(mm, taken, level),
         NEW root \in Roots, NEW s \in Roots, NEW u \in Page, NEW v \in Page,
         Entry3(mm, root, u) # Absent, Entry3(mm, root, u) = Entry3(mm, s, v), u[4] = v[4]
  PROVE  root = s /\ u = v
<1>1. /\ u[1] \in Indices /\ u[2] \in Indices /\ u[3] \in Indices
      /\ v[1] \in Indices /\ v[2] \in Indices /\ v[3] \in Indices
  BY DEF Page
<1>2. /\ LinkTo(taken, level, 1, Link(root)) /\ LinkTo(taken, level, 1, Link(s))
      /\ LinkTo(taken, level, 2, Entry1(mm, root, u)) /\ LinkTo(taken, level, 2, Entry1(mm, s, v))
      /\ LinkTo(taken, level, 3, Entry2(mm, root, u)) /\ LinkTo(taken, level, 3, Entry2(mm, s, v))
      /\ Entry1(mm, root, u) = Follow(mm, Link(root), u[1])
      /\ Entry1(mm, s, v) = Follow(mm, Link(s), v[1])
  BY WalkDescends
<1>3. Entry2(mm, root, u) = Entry2(mm, s, v) /\ u[3] = v[3] /\ Entry2(mm, root, u) # Absent
  BY <1>1, <1>2, FollowIsInjective DEF Entry3
<1>4. Entry1(mm, root, u) = Entry1(mm, s, v) /\ u[2] = v[2] /\ Entry1(mm, root, u) # Absent
  BY <1>1, <1>2, <1>3, FollowIsInjective DEF Entry2
<1>5. Link(root) = Link(s) /\ u[1] = v[1]
  <2>1. /\ Follow(mm, Link(root), u[1]) # Absent
        /\ Follow(mm, Link(root), u[1]) = Follow(mm, Link(s), v[1])
    BY <1>2, <1>4
  <2> QED BY <2>1, <1>1, <1>2, FollowIsInjective
<1>6. root = s
  BY <1>5, Kinds
<1>7. \A k \in 1 .. 4 : u[k] = v[k]
  BY <1>3, <1>4, <1>5
<1> QED
  BY <1>6, <1>7 DEF Page
-----------------------------------------------------------------------------
LEMMA AllocGivesFree ==
  ASSUME NEW taken, PMM!Frames \ taken # {}
  PROVE  pmm_alloc_frame(taken) \in PMM!Frames \ taken
<1> DEFINE free == PMM!Frames \ taken
<1>1. free \in SUBSET Nat
  BY Kinds
<1>2. PMM!IsLeast(Min(free), free)
  BY <1>1, MinOfNaturals DEF PMM!IsLeast
<1>3. \E f \in free : PMM!IsLeast(f, free)
  BY <1>2 DEF PMM!IsLeast
<1> QED
  BY <1>3 DEF pmm_alloc_frame

\* The memory, the frames in use and the table that vmm_map_page has reached.
Reached(w) == w = [mem |-> w.mem, frames |-> w.frames, table |-> w.table]

\* No entry links to frame 0.
NoNullLink(mm) == \A f \in PMM!Frames, i \in Indices : mm[f][i] # Link(0)

\* From w to d by entry i: the entry links to the table that d has reached, and neither
\* a translation nor an entry that was there has changed.
Deeper(w, i, d) ==
  /\ Reached(d)
  /\ d.table \in TablesIn(d.frames)
  /\ d.mem[w.table][i] = Link(d.table)
  /\ TablesIn(w.frames) \subseteq TablesIn(d.frames)
  /\ TablesIn(d.frames) \subseteq TablesIn(w.frames) \cup {d.table}
  /\ \A g \in TablesIn(w.frames), j \in Indices :
       w.mem[g][j] # Absent => d.mem[g][j] = w.mem[g][j]
  /\ NoNullLink(w.mem) => NoNullLink(d.mem)
  /\ \A root \in Roots, v \in Page : Walk(d.mem, root, v) = Walk(w.mem, root, v)

\* One level of vmm_map_page, while frames last: the entry links to a table one level
\* down.
LEMMA DescendKeepsTree ==
  ASSUME NEW w, Reached(w), NEW level, Tree(w.mem, w.frames, level),
         w.table \in TablesIn(w.frames), level[w.table] # 4, NEW i \in Indices,
         Present(w.mem[w.table][i]) \/ PMM!Frames \ w.frames # {},
         NEW d, d = Descend(w, i)
  PROVE  /\ Deeper(w, i, d)
         /\ \E level2 : Tree(d.mem, d.frames, level2) /\ level2[d.table] = level[w.table] + 1
<1>1. CASE Present(w.mem[w.table][i])
  <2>1. PICK g \in TablesIn(w.frames) :
          level[g] = level[w.table] + 1 /\ w.mem[w.table][i] = Link(g)
    BY <1>1 DEF Present, Tree, LinksDown
  <2>2. d = [w EXCEPT !.table = w.mem[w.table][i].addr]
    BY <1>1 DEF Descend
  <2>3. g \in Nat
    BY RootsAreTables, Kinds DEF Tree
  <2>4. w.mem[w.table][i].addr = g
    BY <2>1, <2>3, Kinds
  <2>5. d.table = g /\ d.mem = w.mem /\ d.frames = w.frames /\ Reached(d)
    <3>1. d = [mem |-> w.mem, frames |-> w.frames, table |-> g]
      BY <2>2, <2>4 DEF Reached
    <3> QED BY <3>1 DEF Reached
  <2> QED BY <2>1, <2>5 DEF Deeper
<1>2. CASE ~Present(w.mem[w.table][i])
  <2>1. PICK mm, taken, t : mm = w.mem /\ taken = w.frames /\ t = w.table
    OBVIOUS
  <2>2. PICK f \in PMM!Frames \ taken : f = pmm_alloc_frame(taken)
    BY <1>2, <2>1, AllocGivesFree
  <2>3. PICK mm2, level2 : mm2 = WithTable(mm, t, i, f) /\ level2 = LevelsWith(taken, level, t, f)
    OBVIOUS
  <2>4. d.mem = mm2 /\ d.frames = taken \cup {f} /\ d.table = f /\ Reached(d)
    BY <1>2, <2>1, <2>2, <2>3 DEF Descend, Reached, WithTable
  <2>5. /\ Tree(mm, taken, level) /\ t \in TablesIn(taken) /\ level[t] # 4
        /\ mm[t][i] = Absent
    BY <1>2, <2>1 DEF Present
  <2>6. Tree(mm2, taken \cup {f}, level2)
    BY <2>3, <2>5, NewTableKeepsTree
  <2>7. /\ f \in TablesIn(d.frames) /\ TablesIn(taken) \subseteq TablesIn(d.frames)
        /\ TablesIn(d.frames) \subseteq TablesIn(taken) \cup {f} /\ f # 0
    <3>1. Levels(taken, level)
      BY <2>5 DEF Tree
    <3> QED BY <2>4, <3>1 DEF Levels, TablesIn
  <2>8. level2[f] = level[t] + 1
    BY <2>3, <2>4, <2>7 DEF LevelsWith
  <2>9. /\ \A root \in Roots, v \in Page : Walk(mm2, root, v) = Walk(mm, root, v)
        /\ \A g \in TablesIn(taken), j \in Indices :
             mm[g][j] # Absent => mm2[g][j] = mm[g][j]
        /\ mm2[t][i] = Link(f)
    BY <2>3, <2>5, NewTableKeepsWalks
  <2>10. NoNullLink(mm) => NoNullLink(mm2)
    <3>1. SUFFICES ASSUME NoNullLink(mm), NEW g \in PMM!Frames, NEW j \in Indices
                   PROVE  mm2[g][j] # Link(0)
      BY DEF NoNullLink
    <3>2. Link(f) # Link(0) /\ Absent # Link(0)
      BY <2>7, Kinds
    <3>3. mm \in [PMM!Frames -> [Indices -> Entry]] /\ t \in PMM!Frames
      BY <2>5, RootsAreTables DEF Tree
    <3>4. mm2[g] = IF g = t THEN [IF t = f THEN ZeroTable ELSE mm[t] EXCEPT ![i] = Link(f)]
                   ELSE IF g = f THEN ZeroTable ELSE mm[g]
      BY <2>3, <3>3 DEF WithTable
    <3>5. mm[g][j] # Link(0) /\ mm[t][j] # Link(0) /\ ZeroTable[j] = Absent
      BY <3>1, <3>3 DEF NoNullLink, ZeroTable
    <3>6. mm[t] \in [Indices -> Entry] /\ DOMAIN ZeroTable = Indices
      BY <3>3 DEF ZeroTable
    <3>7. CASE g = t /\ j = i
      BY <3>2, <3>4, <3>6, <3>7
    <3>8. CASE g = t /\ j # i
      BY <3>2, <3>4, <3>5, <3>6, <3>8
    <3> QED BY <3>2, <3>4, <3>5, <3>7, <3>8
  <2>11. Deeper(w, i, d)
    <3>1. w.mem = mm /\ w.frames = taken /\ w.table = t /\ d.mem = mm2 /\ d.table = f
      BY <2>1, <2>4
    <3>2. \A root \in Roots, v \in Page : Walk(d.mem, root, v) = Walk(w.mem, root, v)
      BY <3>1, <2>9
    <3>3. \A g \in TablesIn(w.frames), j \in Indices :
            w.mem[g][j] # Absent => d.mem[g][j] = w.mem[g][j]
      BY <3>1, <2>9
    <3>4. d.mem[w.table][i] = Link(d.table) /\ (NoNullLink(w.mem) => NoNullLink(d.mem))
      BY <3>1, <2>9, <2>10
    <3> QED BY <3>1, <3>2, <3>3, <3>4, <2>4, <2>7 DEF Deeper
  <2>12. Tree(d.mem, d.frames, level2) /\ level2[d.table] = level[w.table] + 1
    BY <2>1, <2>4, <2>6, <2>8
  <2> QED BY <2>11, <2>12
<1> QED
  BY <1>1, <1>2

\* Without a frame vmm_map_page takes frame 0 for its table and stays there.
Stuck(w) ==
  /\ Reached(w)
  /\ w.mem \in [PMM!Frames -> [Indices -> Entry]]
  /\ PMM!Frames \subseteq w.frames
  /\ w.table = 0 /\ \A j \in Indices : w.mem[0][j] \in {Absent, Link(0)}

LEMMA DescendFails ==
  ASSUME NEW w, w.mem \in [PMM!Frames -> [Indices -> Entry]], PMM!Frames \subseteq w.frames,
         w.table \in PMM!Frames, NEW i \in Indices, ~Present(w.mem[w.table][i]),
         w.table = 0 => \A j \in Indices : w.mem[0][j] \in {Absent, Link(0)},
         NEW d, d = Descend(w, i)
  PROVE  /\ Stuck(d)
         /\ \A h \in PMM!Frames \ {0, w.table} : d.mem[h] = w.mem[h]
         /\ d.mem[w.table][i] = Link(0)
<1>1. pmm_alloc_frame(w.frames) = 0
  BY DEF pmm_alloc_frame
<1>2. /\ d.mem = [w.mem EXCEPT ![0] = ZeroTable, ![w.table][i] = Link(0)]
      /\ d.frames = w.frames \cup {0} /\ d.table = 0 /\ Reached(d)
  BY <1>1 DEF Descend, Reached
<1>3. 0 \in PMM!Frames
  BY Kinds DEF PMM!Frames
<1>4. ZeroTable \in [Indices -> Entry] /\ Link(0) \in Entry
  BY <1>3 DEF ZeroTable, Entry
<1> DEFINE base == [w.mem EXCEPT ![0] = ZeroTable]
<1>5. /\ base \in [PMM!Frames -> [Indices -> Entry]] /\ base[0] = ZeroTable
      /\ \A h \in PMM!Frames \ {0} : base[h] = w.mem[h]
  BY <1>3, <1>4
<1>6. d.mem = [base EXCEPT ![w.table] = [base[w.table] EXCEPT ![i] = Link(0)]]
  BY <1>2
<1> HIDE DEF base
<1>7. base[w.table] \in [Indices -> Entry]
  BY <1>5
<1>8. [base[w.table] EXCEPT ![i] = Link(0)] \in [Indices -> Entry]
  BY <1>4, <1>7
<1>9. /\ d.mem \in [PMM!Frames -> [Indices -> Entry]]
      /\ d.mem[w.table] = [base[w.table] EXCEPT ![i] = Link(0)]
      /\ \A h \in PMM!Frames \ {w.table} : d.mem[h] = base[h]
  BY <1>5, <1>6, <1>8
<1>10. d.mem[w.table][i] = Link(0)
  BY <1>7, <1>9
<1>11. \A j \in Indices : d.mem[0][j] \in {Absent, Link(0)}
  <2>1. \A j \in Indices : base[0][j] = Absent
    BY <1>5 DEF ZeroTable
  <2>2. CASE w.table = 0
    BY <1>7, <1>9, <2>1, <2>2
  <2>3. CASE w.table # 0
    BY <1>3, <1>9, <2>1, <2>3
  <2> QED BY <2>2, <2>3
<1> QED
  BY <1>2, <1>3, <1>5, <1>9, <1>10, <1>11 DEF Stuck

LEMMA StuckStays ==
  ASSUME 0 \in PMM!Frames, NEW w, Stuck(w), NEW i \in Indices, NEW d, d = Descend(w, i)
  PROVE  Stuck(d) /\ \A h \in PMM!Frames \ {0} : d.mem[h] = w.mem[h]
<1>1. CASE Present(w.mem[w.table][i])
  <2>1. w.mem[w.table][i] = Link(0) /\ Link(0).addr = 0
    BY <1>1, Kinds DEF Present, Stuck
  <2>2. d = [w EXCEPT !.table = 0]
    BY <1>1, <2>1 DEF Descend
  <2>3. d = w
    BY <2>2 DEF Stuck, Reached
  <2> QED BY <2>3 DEF Stuck
<1>2. CASE ~Present(w.mem[w.table][i])
  <2>1. w.table = 0 /\ \A j \in Indices : w.mem[0][j] \in {Absent, Link(0)}
    BY DEF Stuck
  <2>2. w.mem \in [PMM!Frames -> [Indices -> Entry]] /\ PMM!Frames \subseteq w.frames
    BY DEF Stuck
  <2>3. w.table \in PMM!Frames
    BY <2>1
  <2> QED BY <1>2, <2>1, <2>2, <2>3, DescendFails
<1> QED
  BY <1>1, <1>2
-----------------------------------------------------------------------------
\* No pmm_alloc_frame of vmm_map_page has failed: a table that frame 0 was taken for
\* is linked by the address 0.
TablesAllocated == NoNullLink(mem)

VmmInv ==
  /\ \E level \in [TablesIn(frames) -> 1 .. 4] : Tree(mem, frames, level)
  /\ cr3 \in Roots
  /\ \A t \in tlb : t.page \in VirtualPages /\ t.entry = Walk(mem, cr3, t.page)

LEMMA LevelsExist ==
  (\E level : Tree(mem, frames, level)) =>
     \E level \in [TablesIn(frames) -> 1 .. 4] : Tree(mem, frames, level)
BY DEF Tree, Levels

\* The walk of vmm_virt_to_phys is the walk entry by entry.
LEMMA TranslationIsWalk ==
  \A root, v : vmm_virt_to_phys(root, v) = Walk(mem, root, v)
<1> TAKE root, v
<1> DEFINE e1 == mem[root][v[1]]
           e2 == mem[e1.addr][v[2]]
           e3 == mem[e2.addr][v[3]]
           e4 == mem[e3.addr][v[4]]
<1>1. HasTable(root, v) <=> Present(e1) /\ Present(e2) /\ Present(e3)
  BY DEF HasTable, Below
<1>2. vmm_virt_to_phys(root, v) = IF HasTable(root, v) THEN e4 ELSE Absent
  BY DEF vmm_virt_to_phys, PageTable, Below
<1>3. /\ Entry1(mem, root, v) = e1
      /\ Entry2(mem, root, v) = IF Present(Entry1(mem, root, v))
                                THEN mem[Entry1(mem, root, v).addr][v[2]] ELSE Absent
      /\ Entry3(mem, root, v) = IF Present(Entry2(mem, root, v))
                                THEN mem[Entry2(mem, root, v).addr][v[3]] ELSE Absent
      /\ Walk(mem, root, v) = IF Present(Entry3(mem, root, v))
                              THEN mem[Entry3(mem, root, v).addr][v[4]] ELSE Absent
  BY DEF Entry1, Entry2, Entry3, Walk, Follow
<1> HIDE DEF e1, e2, e3, e4
<1>4. Entry2(mem, root, v) = IF Present(e1) THEN e2 ELSE Absent
  BY <1>3 DEF e2
<1>5. Entry3(mem, root, v) = IF Present(e1) /\ Present(e2) THEN e3 ELSE Absent
  BY <1>3, <1>4, Kinds DEF e3
<1>6. Walk(mem, root, v) = IF Present(e1) /\ Present(e2) /\ Present(e3) THEN e4 ELSE Absent
  BY <1>3, <1>5, Kinds DEF e4
<1> QED
  BY <1>1, <1>2, <1>6

LEMMA TablesAreReached ==
  ASSUME NEW root, NEW v, HasTable(root, v)
  PROVE  PageTable(root, v) = Entry3(mem, root, v).addr /\ Present(Entry3(mem, root, v))
BY DEF HasTable, PageTable, Below, Entry1, Entry2, Entry3, Follow

\* vmm_map_page, with a frame for each table it makes: the page translates to what it
\* was mapped to, and no other page of any root has changed.
LEMMA MapKeepsTrees ==
  ASSUME VmmInv, NEW root \in Roots, NEW v \in VirtualPages, NEW m \in Mappings,
         vmm_map_page(root, v, m), TablesAllocated'
  PROVE  /\ \E level : Tree(mem', frames', level)
         /\ \A s \in Roots, u \in Page :
              Walk(mem', s, u) = IF s = root /\ u = v THEN m ELSE Walk(mem, s, u)
<1> DEFINE w0 == [mem |-> mem, frames |-> frames, table |-> root]
           w1 == Descend(w0, v[1])
           w2 == Descend(w1, v[2])
           w3 == Descend(w2, v[3])
<1>1. mem' = [w3.mem EXCEPT ![w3.table][v[4]] = m] /\ frames' = w3.frames
  BY DEF vmm_map_page
<1>2. v[1] \in Indices /\ v[2] \in Indices /\ v[3] \in Indices /\ v[4] \in Indices /\ v \in Page
  BY DEF Indices, Page
<1>3. PICK l0 : Tree(mem, frames, l0)
  BY DEF VmmInv
<1>4. w0.mem = mem /\ w0.frames = frames /\ w0.table = root /\ Reached(w0)
  BY DEF Reached
<1>5. /\ root \in TablesIn(frames) /\ l0[root] = 1 /\ 0 \in PMM!Frames
      /\ \A ff, l, mm : Tree(mm, ff, l) =>
           /\ TablesIn(ff) \subseteq PMM!Frames \ {0}
           /\ mm \in [PMM!Frames -> [Indices -> Entry]]
  <2>1. Levels(frames, l0)
    BY <1>3 DEF Tree
  <2>2. root \in TablesIn(frames) /\ l0[root] = 1 /\ 0 \in PMM!Frames
    BY <2>1, RootsAreTables DEF Levels
  <2>3. ASSUME NEW ff, NEW l, NEW mm, Tree(mm, ff, l)
        PROVE  /\ TablesIn(ff) \subseteq PMM!Frames \ {0}
               /\ mm \in [PMM!Frames -> [Indices -> Entry]]
    BY <2>3, RootsAreTables DEF Tree, TablesIn
  <2> QED BY <2>2, <2>3
<1> HIDE DEF w0, w1, w2, w3
\* A level where no frame was left would have left a link to frame 0.
<1>6. ASSUME NEW f \in PMM!Frames, NEW i \in Indices, Stuck(w3) => w3.mem[f][i] = Link(0), f # 0
      PROVE  ~Stuck(w3)
  <2>1. SUFFICES ASSUME Stuck(w3) PROVE FALSE
    OBVIOUS
  <2>2. mem'[f] = w3.mem[f]
    BY <1>1, <1>6, <2>1 DEF Stuck
  <2> QED BY <1>6, <2>1, <2>2 DEF TablesAllocated, NoNullLink
<1>7. Present(mem[root][v[1]]) \/ PMM!Frames \ frames # {}
  <2>1. SUFFICES ASSUME ~Present(mem[root][v[1]]), PMM!Frames \subseteq frames PROVE FALSE
    OBVIOUS
  <2>2. root \in PMM!Frames /\ root # 0 /\ mem \in [PMM!Frames -> [Indices -> Entry]]
    BY <1>3, <1>5
  <2>3. Stuck(w1) /\ w1.mem[root][v[1]] = Link(0)
    BY <1>2, <1>4, <2>1, <2>2, DescendFails DEF w1
  <2>4. Stuck(w2) /\ w2.mem[root] = w1.mem[root]
    BY <1>2, <1>5, <2>2, <2>3, StuckStays DEF w2
  <2>5. Stuck(w3) /\ w3.mem[root] = w2.mem[root]
    BY <1>2, <1>5, <2>2, <2>4, StuckStays DEF w3
  <2> QED BY <1>2, <1>6, <2>2, <2>3, <2>4, <2>5
<1>8. PICK l1 :
        /\ Tree(w1.mem, w1.frames, l1) /\ l1[w1.table] = 2 /\ Reached(w1)
        /\ w1.table \in TablesIn(w1.frames) /\ w1.mem[root][v[1]] = Link(w1.table)
        /\ root \in TablesIn(w1.frames)
        /\ \A s \in Roots, u \in Page : Walk(w1.mem, s, u) = Walk(mem, s, u)
  <2>1. l0[root] # 4 /\ l0[root] + 1 = 2
    BY <1>5
  <2>2. Tree(w0.mem, w0.frames, l0) /\ w0.table \in TablesIn(w0.frames) /\ l0[w0.table] # 4
    BY <1>3, <1>4, <1>5, <2>1
  <2>3. Present(w0.mem[w0.table][v[1]]) \/ PMM!Frames \ w0.frames # {}
    BY <1>4, <1>7
  <2>4. PICK l1 :
          /\ Deeper(w0, v[1], w1)
          /\ Tree(w1.mem, w1.frames, l1) /\ l1[w1.table] = l0[w0.table] + 1
    BY <1>2, <1>4, <2>2, <2>3, DescendKeepsTree DEF w1
  <2> QED BY <1>4, <1>5, <2>1, <2>4 DEF Deeper
<1>9. Present(w1.mem[w1.table][v[2]]) \/ PMM!Frames \ w1.frames # {}
  <2>1. SUFFICES ASSUME ~Present(w1.mem[w1.table][v[2]]), PMM!Frames \subseteq w1.frames
                 PROVE  FALSE
    OBVIOUS
  <2>2. /\ w1.table \in PMM!Frames /\ w1.table # 0
        /\ w1.mem \in [PMM!Frames -> [Indices -> Entry]]
    BY <1>5, <1>8
  <2>3. Stuck(w2) /\ w2.mem[w1.table][v[2]] = Link(0)
    BY <1>2, <1>8, <2>1, <2>2, DescendFails DEF w2
  <2>4. Stuck(w3) /\ w3.mem[w1.table] = w2.mem[w1.table]
    <3>1. 0 \in PMM!Frames
      BY <1>5
    <3> QED BY <3>1, <1>2, <2>2, <2>3, StuckStays DEF w3
  <2> QED BY <1>2, <1>6, <2>2, <2>3, <2>4
<1>10. PICK l2 :
        /\ Tree(w2.mem, w2.frames, l2) /\ l2[w2.table] = 3 /\ Reached(w2)
        /\ w2.table \in TablesIn(w2.frames) /\ w2.mem[w1.table][v[2]] = Link(w2.table)
        /\ root \in TablesIn(w2.frames) /\ w1.table \in TablesIn(w2.frames)
        /\ w2.mem[root][v[1]] = Link(w1.table)
        /\ \A s \in Roots, u \in Page : Walk(w2.mem, s, u) = Walk(mem, s, u)
  <2>1. l1[w1.table] # 4 /\ l1[w1.table] + 1 = 3
    BY <1>8
  <2>2. Link(w1.table) # Absent
    <3>1. w1.table \in Nat
      BY <1>5, <1>8, Kinds
    <3> QED BY <3>1, Kinds
  <2>3. PICK l2 :
          /\ Deeper(w1, v[2], w2)
          /\ Tree(w2.mem, w2.frames, l2) /\ l2[w2.table] = l1[w1.table] + 1
    <3>1. /\ Reached(w1) /\ Tree(w1.mem, w1.frames, l1)
          /\ w1.table \in TablesIn(w1.frames) /\ l1[w1.table] # 4
      BY <1>8, <2>1
    <3> QED BY <3>1, <1>2, <1>9, DescendKeepsTree DEF w2
  <2>4. w2.mem[root][v[1]] = Link(w1.table)
    <3>1. w1.mem[root][v[1]] = Link(w1.table) /\ root \in TablesIn(w1.frames)
      BY <1>8
    <3> QED BY <3>1, <1>2, <2>2, <2>3 DEF Deeper
  <2> QED BY <1>8, <2>1, <2>3, <2>4 DEF Deeper
<1>11. Present(w2.mem[w2.table][v[3]]) \/ PMM!Frames \ w2.frames # {}
  <2>1. SUFFICES ASSUME ~Present(w2.mem[w2.table][v[3]]), PMM!Frames \subseteq w2.frames
                 PROVE  FALSE
    OBVIOUS
  <2>2. /\ w2.table \in PMM!Frames /\ w2.table # 0
        /\ w2.mem \in [PMM!Frames -> [Indices -> Entry]]
    BY <1>5, <1>10
  <2>3. Stuck(w3) /\ w3.mem[w2.table][v[3]] = Link(0)
    BY <1>2, <1>10, <2>1, <2>2, DescendFails DEF w3
  <2> QED BY <1>2, <1>6, <2>2, <2>3
<1>12. PICK l3 :
        /\ Tree(w3.mem, w3.frames, l3) /\ l3[w3.table] = 4
        /\ w3.table \in TablesIn(w3.frames) /\ w3.mem[w2.table][v[3]] = Link(w3.table)
        /\ w3.mem[w1.table][v[2]] = Link(w2.table) /\ w3.mem[root][v[1]] = Link(w1.table)
        /\ \A s \in Roots, u \in Page : Walk(w3.mem, s, u) = Walk(mem, s, u)
  <2>1. l2[w2.table] # 4 /\ l2[w2.table] + 1 = 4
    BY <1>10
  <2>2. Link(w1.table) # Absent /\ Link(w2.table) # Absent
    <3>1. w1.table \in Nat /\ w2.table \in Nat
      BY <1>5, <1>8, <1>10, Kinds
    <3> QED BY <3>1, Kinds
  <2>3. PICK l3 :
          /\ Deeper(w2, v[3], w3)
          /\ Tree(w3.mem, w3.frames, l3) /\ l3[w3.table] = l2[w2.table] + 1
    <3>1. /\ Reached(w2) /\ Tree(w2.mem, w2.frames, l2)
          /\ w2.table \in TablesIn(w2.frames) /\ l2[w2.table] # 4
      BY <1>10, <2>1
    <3> QED BY <3>1, <1>2, <1>11, DescendKeepsTree DEF w3
  <2>4. w3.mem[w1.table][v[2]] = Link(w2.table) /\ w3.mem[root][v[1]] = Link(w1.table)
    <3>1. /\ w2.mem[root][v[1]] = Link(w1.table) /\ w2.mem[w1.table][v[2]] = Link(w2.table)
          /\ root \in TablesIn(w2.frames) /\ w1.table \in TablesIn(w2.frames)
      BY <1>10
    <3> QED BY <3>1, <1>2, <2>2, <2>3 DEF Deeper
  <2> QED BY <1>10, <2>1, <2>3, <2>4 DEF Deeper
<1>13. Entry3(w3.mem, root, v) = Link(w3.table) /\ Link(w3.table) # Absent
  <2>1. w1.table \in Nat /\ w2.table \in Nat /\ w3.table \in Nat
    BY <1>5, <1>8, <1>10, <1>12, Kinds
  <2> QED BY <2>1, <1>12, Kinds DEF Entry1, Entry2, Entry3, Follow
<1>14. m \in {Absent} \cup Mappings /\ mem' = WithEntry(w3.mem, w3.table, v[4], m)
  BY <1>1 DEF WithEntry
<1>15. /\ Tree(mem', frames', l3)
       /\ \A s \in Roots, u \in Page :
            Walk(mem', s, u) = IF Entry3(w3.mem, s, u) = Link(w3.table) /\ u[4] = v[4]
                               THEN m ELSE Walk(w3.mem, s, u)
  BY <1>1, <1>2, <1>12, <1>14, WriteKeepsTree
<1>16. ASSUME NEW s \in Roots, NEW u \in Page
       PROVE  Walk(mem', s, u) = IF s = root /\ u = v THEN m ELSE Walk(mem, s, u)
  <2>1. Entry3(w3.mem, s, u) = Link(w3.table) /\ u[4] = v[4] <=> s = root /\ u = v
    BY <1>2, <1>12, <1>13, OnePath
  <2> QED BY <2>1, <1>12, <1>15
<1> QED
  BY <1>15, <1>16

LEMMA UnmapKeepsTrees ==
  ASSUME VmmInv, NEW root \in Roots, NEW v \in VirtualPages, vmm_unmap_page(root, v)
  PROVE  /\ \E level : Tree(mem', frames', level)
         /\ \A s \in Roots, u \in Page :
              Walk(mem', s, u) = IF s = root /\ u = v THEN Absent ELSE Walk(mem, s, u)
<1>1. /\ HasTable(root, v) /\ frames' = frames
      /\ mem' = [mem EXCEPT ![PageTable(root, v)][v[4]] = Absent]
  BY DEF vmm_unmap_page
<1>2. PICK level : Tree(mem, frames, level)
  BY DEF VmmInv
<1>3. v \in Page /\ v[4] \in Indices
  BY DEF Page, Indices
<1>4. PICK p \in TablesIn(frames) : level[p] = 4 /\ Entry3(mem, root, v) = Link(p)
  <2>1. LinkTo(frames, level, 4, Entry3(mem, root, v))
    BY <1>2, <1>3, WalkDescends
  <2>2. Entry3(mem, root, v) # Absent
    BY <1>1, TablesAreReached DEF Present
  <2> QED BY <2>1, <2>2 DEF LinkTo
<1>5. p \in Nat /\ PageTable(root, v) = p /\ Link(p) # Absent
  <2>1. p \in Nat
    BY <1>2, RootsAreTables, Kinds DEF Tree
  <2> QED BY <2>1, <1>1, <1>4, TablesAreReached, Kinds
<1>6. Absent \in {Absent} \cup Mappings /\ mem' = WithEntry(mem, p, v[4], Absent)
  BY <1>1, <1>5 DEF WithEntry
<1>7. /\ Tree(mem', frames, level)
      /\ \A s \in Roots, u \in Page :
           Walk(mem', s, u) = IF Entry3(mem, s, u) = Link(p) /\ u[4] = v[4]
                              THEN Absent ELSE Walk(mem, s, u)
  BY <1>2, <1>3, <1>4, <1>6, WriteKeepsTree
<1>8. ASSUME NEW s \in Roots, NEW u \in Page
      PROVE  Entry3(mem, s, u) = Link(p) /\ u[4] = v[4] <=> s = root /\ u = v
  BY <1>2, <1>3, <1>4, <1>5, OnePath
<1> QED
  BY <1>1, <1>7, <1>8
-----------------------------------------------------------------------------
LEMMA InitTree == Init => VmmInv
<1> SUFFICES ASSUME Init PROVE VmmInv
  OBVIOUS
<1> DEFINE level == [f \in Roots |-> 1]
<1>1. TablesIn(frames) = Roots /\ frames \subseteq PMM!Frames
  <2>1. Roots \cup DataFrames \subseteq PMM!Frames
    BY DEF DataFrames, PMM!Frames
  <2>2. 0 \in PMM!Frames
    BY DEF Init, PMM!Frames
  <2>3. Roots \cap DataFrames = {} /\ 0 \notin Roots
    BY Kinds
  <2> QED BY <2>1, <2>2, <2>3 DEF Init, TablesIn
<1>2. Levels(frames, level)
  BY <1>1 DEF Init, Levels
<1>3. \A f \in Roots, i \in Indices : mem[f][i] = Absent
  <2>1. \A f \in Roots : mem[f] = ZeroTable
    BY <1>1 DEF Init
  <2> QED BY <2>1 DEF ZeroTable
<1>4. mem \in [PMM!Frames -> [Indices -> Entry]]
  <2>1. ZeroTable \in [Indices -> Entry] /\ Stale \in [Indices -> Entry]
    BY DEF ZeroTable, Stale, Entry
  <2> QED BY <2>1 DEF Init
<1>5. Tree(mem, frames, level)
  <2> HIDE DEF level
  <2>1. \A f \in Roots : level[f] = 1
    BY DEF level
  <2> QED BY <1>1, <1>2, <1>3, <1>4, <2>1
            DEF Tree, LinksDown, LeavesMap, OneParent, HasParent
<1> QED
  BY <1>5, LevelsExist DEF Init, VmmInv

LEMMA StepKeepsTrees == VmmInv /\ [Next]_vars /\ TablesAllocated' => VmmInv'
<1> SUFFICES ASSUME VmmInv, [Next]_vars, TablesAllocated' PROVE VmmInv'
  OBVIOUS
<1>0. (\E level : Tree(mem', frames', level)) =>
        \E level \in [TablesIn(frames') -> 1 .. 4] : Tree(mem', frames', level)
  BY DEF Tree, Levels
<1>1. \A v \in VirtualPages : v \in Page
  BY DEF Page, Indices
<1>2. ASSUME NEW root \in Roots, NEW v \in VirtualPages, NEW m \in Mappings,
             vmm_map_page(root, v, m)
      PROVE  VmmInv'
  <2>1. /\ \E level : Tree(mem', frames', level)
        /\ \A s \in Roots, u \in Page :
             Walk(mem', s, u) = IF s = root /\ u = v THEN m ELSE Walk(mem, s, u)
    BY <1>2, MapKeepsTrees
  <2>2. cr3' = cr3 /\ tlb' = {t \in tlb : t.page # v}
    BY <1>2 DEF vmm_map_page, vmm_invlpg
  <2> QED BY <1>0, <1>1, <2>1, <2>2 DEF VmmInv
<1>3. ASSUME NEW root \in Roots, NEW v \in VirtualPages, vmm_unmap_page(root, v)
      PROVE  VmmInv'
  <2>1. /\ \E level : Tree(mem', frames', level)
        /\ \A s \in Roots, u \in Page :
             Walk(mem', s, u) = IF s = root /\ u = v THEN Absent ELSE Walk(mem, s, u)
    BY <1>3, UnmapKeepsTrees
  <2>2. cr3' = cr3 /\ tlb' = {t \in tlb : t.page # v}
    BY <1>3 DEF vmm_unmap_page, vmm_invlpg
  <2> QED BY <1>0, <1>1, <2>1, <2>2 DEF VmmInv
<1>4. ASSUME NEW root \in Roots, vmm_switch_pml4(root) PROVE VmmInv'
  BY <1>4 DEF vmm_switch_pml4, VmmInv
<1>5. ASSUME NEW v \in VirtualPages, TlbFill(v) PROVE VmmInv'
  BY <1>5, TranslationIsWalk DEF TlbFill, VmmInv
<1>6. CASE UNCHANGED vars
  BY <1>6 DEF vars, VmmInv
<1> QED
  BY <1>2, <1>3, <1>4, <1>5, <1>6 DEF Next, vmm_unmap_nothing

LEMMA TreesSatisfyRun == VmmInv => TablesFormTrees
<1> SUFFICES ASSUME VmmInv PROVE TablesFormTrees
  OBVIOUS
<1>1. PICK level : Tree(mem, frames, level)
  BY DEF VmmInv
<1>2. /\ Levels(frames, level) /\ LinksDown(mem, frames, level)
      /\ LeavesMap(mem, frames, level) /\ OneParent(mem, frames, level)
      /\ HasParent(mem, frames, level)
  BY <1>1 DEF Tree
<1>3. TypeOK
  <2>1. ASSUME NEW f \in PMM!Frames, NEW i \in Indices
        PROVE  \/ mem[f][i] \in {Absent, Stale[i]} \cup Mappings
               \/ mem[f][i].addr \in PMM!Frames /\ mem[f][i] = Link(mem[f][i].addr)
    <3>1. mem[f][i] \in Entry
      BY <1>1 DEF Tree
    <3>2. ASSUME NEW g \in PMM!Frames, mem[f][i] = Link(g)
          PROVE  mem[f][i].addr \in PMM!Frames /\ mem[f][i] = Link(mem[f][i].addr)
      BY <3>2, Kinds
    <3> QED BY <3>1, <3>2 DEF Entry, Stale
  <2> QED BY <2>1, <1>2 DEF TypeOK, Levels, VmmInv
<1>4. Tables = TablesIn(frames) /\ Tables \subseteq Nat /\ Roots \subseteq Tables
  BY <1>2, RootsAreTables, Kinds DEF Tables, TablesIn
\* Where a table is linked, the entry is of a table of levels 1 to 3.
<1>5. ASSUME NEW f \in Tables, NEW g \in Tables, NEW i \in Indices, mem[g][i] = Link(f)
      PROVE  level[g] # 4 /\ level[f] = level[g] + 1
  <2>1. CASE level[g] = 4
    <3>1. Link(f) \in {Absent} \cup Mappings
      BY <1>2, <1>4, <1>5, <2>1 DEF LeavesMap
    <3>2. f \in DataFrames
      BY <3>1, <1>4, Kinds
    <3> QED BY <3>2 DEF Tables
  <2>2. CASE level[g] # 4
    <3>1. PICK h \in Tables : level[h] = level[g] + 1 /\ mem[g][i] = Link(h)
      <4>1. Link(f) # Absent
        BY <1>4, Kinds
      <4> QED BY <4>1, <1>2, <1>4, <1>5, <2>2 DEF LinksDown
    <3>2. h = f
      BY <3>1, <1>4, <1>5, Kinds
    <3> QED BY <2>2, <3>1, <3>2
  <2> QED BY <2>1, <2>2
<1>6. ASSUME NEW f \in Tables
      PROVE  Cardinality(LinksTo(f)) = IF f \in Roots THEN 0 ELSE 1
  <2>1. CASE f \in Roots
    <3>1. ASSUME NEW e \in LinksTo(f) PROVE FALSE
      <4>1. /\ e[1] \in Tables /\ e[2] \in Indices /\ mem[e[1]][e[2]] = Link(f)
        BY DEF LinksTo
      <4>2. level[f] = level[e[1]] + 1 /\ level[f] = 1 /\ level[e[1]] \in 1 .. 4
        BY <4>1, <1>2, <1>4, <1>5, <2>1 DEF Levels
      <4> QED BY <4>2
    <3>2. LinksTo(f) = {}
      BY <3>1
    <3> QED BY <2>1, <3>2, FS_EmptySet
  <2>2. CASE f \notin Roots
    <3>1. PICK g \in Tables, i \in Indices : level[g] # 4 /\ mem[g][i] = Link(f)
      BY <1>2, <1>4, <2>2 DEF HasParent
    <3>2. <<g, i>> \in LinksTo(f)
      BY <3>1 DEF LinksTo
    <3>3. ASSUME NEW e \in LinksTo(f) PROVE e = <<g, i>>
      <4>1. e \in Tables \X Indices /\ mem[e[1]][e[2]] = Link(f)
        BY DEF LinksTo
      <4>2. level[e[1]] # 4 /\ Link(f) # Absent
        BY <4>1, <1>4, <1>5, Kinds
      <4>3. e[1] = g /\ e[2] = i
        BY <4>1, <4>2, <3>1, <1>2, <1>4 DEF OneParent
      <4> QED BY <4>1, <4>3
    <3>4. LinksTo(f) = {<<g, i>>}
      BY <3>2, <3>3
    <3> QED BY <2>2, <3>4, FS_Singleton
  <2> QED BY <2>1, <2>2
<1>7. ASSUME NEW f \in Tables, NEW i \in Indices PROVE mem[f][i] # Stale[i]
  <2>1. Stale[i] = [addr |-> 0, flags |-> "stale"]
    BY DEF Stale
  <2>2. \/ mem[f][i] \in {Absent} \cup Mappings
        \/ \E g \in Tables : mem[f][i] = Link(g)
    BY <1>2, <1>4 DEF LinksDown, LeavesMap
  <2> QED BY <2>1, <2>2, <1>4, Kinds
<1> QED
  BY <1>3, <1>6, <1>7 DEF TablesFormTrees

LEMMA VmmInvariance == Spec /\ []TablesAllocated => []VmmInv
<1>1. Init => VmmInv
  BY InitTree
<1>2. VmmInv /\ [Next]_vars /\ TablesAllocated' => VmmInv'
  BY StepKeepsTrees
<1> QED
  BY <1>1, <1>2, PTL DEF Spec

\* As long as no allocation of vmm_map_page has failed, its tables form trees under the
\* roots: no table is linked twice, whichever spaces and pages were mapped and taken
\* back, and nothing of what a frame held before is read as an entry.
THEOREM TablesStayTrees == Spec /\ []TablesAllocated => []TablesFormTrees
BY TreesSatisfyRun, VmmInvariance, PTL

\* vmm_invlpg after each change, and the empty cache after a write of CR3, are enough:
\* no other translation of the active space changes with the page.
THEOREM CacheIsNeverStale == Spec /\ []TablesAllocated => []NoStaleTranslation
<1>1. VmmInv => NoStaleTranslation
  BY TranslationIsWalk DEF VmmInv, NoStaleTranslation
<1> QED
  BY <1>1, VmmInvariance, PTL
-----------------------------------------------------------------------------
SpaceIn(mm) == [root \in Roots |-> [v \in VirtualPages |-> Walk(mm, root, v)]]
WithPage(space, root, v, e) == [space EXCEPT ![root][v] = e]

\* A change of one translation is a change of one page of one space.
LEMMA OnePageChanges ==
  ASSUME NEW mm, NEW mm2, NEW root \in Roots, NEW v \in VirtualPages, NEW e,
         \A s \in Roots, u \in Page :
           Walk(mm2, s, u) = IF s = root /\ u = v THEN e ELSE Walk(mm, s, u)
  PROVE  SpaceIn(mm2) = WithPage(SpaceIn(mm), root, v, e)
<1>1. VirtualPages \subseteq Page
  BY DEF Page, Indices
<1>2. WithPage(SpaceIn(mm), root, v, e) =
        [s \in Roots |-> [u \in VirtualPages |->
           IF s = root /\ u = v THEN e ELSE Walk(mm, s, u)]]
  BY DEF SpaceIn, WithPage
<1>3. ASSUME NEW s \in Roots, NEW u \in VirtualPages
      PROVE  Walk(mm2, s, u) = IF s = root /\ u = v THEN e ELSE Walk(mm, s, u)
  BY <1>1
<1>4. SpaceIn(mm2) = [s \in Roots |-> [u \in VirtualPages |->
                        IF s = root /\ u = v THEN e ELSE Walk(mm, s, u)]]
  BY <1>3 DEF SpaceIn
<1> QED
  BY <1>2, <1>4

LEMMA TranslationIsWalkNext ==
  (\A root, v : vmm_virt_to_phys(root, v) = Walk(mem, root, v))'
BY TranslationIsWalk, PTL

\* Every step of the page tables and the cache is a step of the address spaces, or none.
LEMMA StepMapsToSpaces ==
  VmmInv /\ [Next]_vars /\ TablesAllocated' =>
    [AS!Next]_<<[root \in Roots |-> [v \in VirtualPages |-> vmm_virt_to_phys(root, v)]], cr3>>
<1> DEFINE S == [root \in Roots |-> [v \in VirtualPages |-> vmm_virt_to_phys(root, v)]]
<1> SUFFICES ASSUME VmmInv, [Next]_vars, TablesAllocated'
             PROVE  [AS!Next]_<<S, cr3>>
  OBVIOUS
<1>1. S = SpaceIn(mem)
  BY TranslationIsWalk DEF SpaceIn
<1>2. S' = SpaceIn(mem')
  BY TranslationIsWalkNext DEF SpaceIn
<1>3. ASSUME NEW root \in Roots, NEW v \in VirtualPages, NEW m \in Mappings,
             vmm_map_page(root, v, m)
      PROVE  AS!Next
  <2>1. SpaceIn(mem') = WithPage(SpaceIn(mem), root, v, m)
    <3>1. \A s \in Roots, u \in Page :
            Walk(mem', s, u) = IF s = root /\ u = v THEN m ELSE Walk(mem, s, u)
      BY <1>3, MapKeepsTrees
    <3> QED BY <3>1, OnePageChanges
  <2>2. AS!Map(root, v, m)
    BY <1>1, <1>2, <1>3, <2>1 DEF AS!Map, vmm_map_page, WithPage
  <2> QED BY <2>2 DEF AS!Next
<1>4. ASSUME NEW root \in Roots, NEW v \in VirtualPages, vmm_unmap_page(root, v)
      PROVE  AS!Next
  <2>1. SpaceIn(mem') = WithPage(SpaceIn(mem), root, v, Absent)
    <3>1. \A s \in Roots, u \in Page :
            Walk(mem', s, u) = IF s = root /\ u = v THEN Absent ELSE Walk(mem, s, u)
      BY <1>4, UnmapKeepsTrees
    <3> QED BY <3>1, OnePageChanges
  <2>2. AS!Unmap(root, v)
    BY <1>1, <1>2, <1>4, <2>1 DEF AS!Unmap, vmm_unmap_page, WithPage
  <2> QED BY <2>2 DEF AS!Next
<1>5. ASSUME NEW root \in Roots, vmm_switch_pml4(root) PROVE AS!Next
  <2>1. AS!Switch(root)
    BY <1>1, <1>2, <1>5 DEF AS!Switch, vmm_switch_pml4
  <2> QED BY <2>1 DEF AS!Next
<1>6. ASSUME NEW v \in VirtualPages, TlbFill(v) PROVE UNCHANGED <<S, cr3>>
  BY <1>1, <1>2, <1>6 DEF TlbFill
<1>7. CASE UNCHANGED vars
  BY <1>1, <1>2, <1>7 DEF vars
<1> HIDE DEF S
<1> QED
  BY <1>3, <1>4, <1>5, <1>6, <1>7 DEF Next, vmm_unmap_nothing

LEMMA InitMapsToSpaces == Init => AS!Init
<1> SUFFICES ASSUME Init PROVE AS!Init
  OBVIOUS
<1>1. ASSUME NEW root \in Roots, NEW v \in VirtualPages PROVE vmm_virt_to_phys(root, v) = Absent
  <2>1. v[1] \in Indices /\ root \in PMM!Frames
    BY DEF Indices, PMM!Frames
  <2>2. mem[root][v[1]] = Absent
    <3>1. mem[root] = ZeroTable
      BY <2>1 DEF Init
    <3> QED BY <2>1, <3>1 DEF ZeroTable
  <2>3. ~HasTable(root, v)
    BY <2>2, Kinds DEF HasTable
  <2> QED BY <2>3 DEF vmm_virt_to_phys
<1> QED
  BY <1>1 DEF Init, AS!Init

\* The page tables implement the address spaces of module AddressSpace: vmm_map_page and
\* vmm_unmap_page change one page of one space, and nothing else changes a translation.
THEOREM VmmRefines == Spec /\ []TablesAllocated => RefinesAddressSpace
<1>1. Init => AS!Init
  BY InitMapsToSpaces
<1>2. VmmInv /\ [Next]_vars /\ TablesAllocated' =>
        [AS!Next]_<<[root \in Roots |-> [v \in VirtualPages |-> vmm_virt_to_phys(root, v)]], cr3>>
  BY StepMapsToSpaces
<1> QED
  BY <1>1, <1>2, VmmInvariance, PTL DEF Spec, AS!Spec, RefinesAddressSpace
-----------------------------------------------------------------------------
\* RAM that holds the tables of every page in every space, one path of three for each.
FramesSuffice ==
  /\ IsFiniteSet(VirtualPages)
  /\ TotalFrames >= 1 + Cardinality(Roots) + Cardinality(DataFrames)
                       + 3 * (Cardinality(Roots) * Cardinality(VirtualPages))

EntryAbove(mm, root, v, n) ==
  IF n = 1 THEN Entry1(mm, root, v)
  ELSE IF n = 2 THEN Entry2(mm, root, v) ELSE Entry3(mm, root, v)

\* Every table below a root is on the path of a page.
OnPaths(mm, taken) ==
  \A h \in TablesIn(taken) \ Roots :
    \E root \in Roots, v \in VirtualPages, n \in 1 .. 3 : EntryAbove(mm, root, v, n) = Link(h)

LEMMA UnionAtMost ==
  ASSUME NEW A, NEW B, IsFiniteSet(A), IsFiniteSet(B)
  PROVE  IsFiniteSet(A \cup B) /\ Cardinality(A \cup B) <= Cardinality(A) + Cardinality(B)
<1>1. /\ IsFiniteSet(A \cup B)
      /\ Cardinality(A \cup B) = Cardinality(A) + Cardinality(B) - Cardinality(A \cap B)
  BY FS_Union
<1>2. Cardinality(A) \in Nat /\ Cardinality(B) \in Nat /\ Cardinality(A \cap B) \in Nat
  BY FS_Subset, FS_CardinalityType
<1> QED
  BY <1>1, <1>2

\* Where a table of a page is missing, there are fewer tables than that many paths have,
\* and a frame is left.
LEMMA FrameIsLeft ==
  ASSUME FramesSuffice, NEW mm, NEW taken, NEW level, Tree(mm, taken, level),
         OnPaths(mm, taken), NEW root \in Roots, NEW v \in VirtualPages, NEW n \in 1 .. 3,
         EntryAbove(mm, root, v, n) = Absent
  PROVE  PMM!Frames \ taken # {}
<1> DEFINE Paths == (Roots \X VirtualPages) \X (1 .. 3)
           D == Paths \ {<< <<root, v>>, n>>}
           F == [d \in D |-> EntryAbove(mm, d[1][1], d[1][2], d[2]).addr]
           R == {F[d] : d \in D}
           Lower == TablesIn(taken) \ Roots
<1>1. /\ IsFiniteSet(PMM!Frames) /\ Cardinality(PMM!Frames) = TotalFrames
      /\ IsFiniteSet(1 .. 3) /\ Cardinality(1 .. 3) = 3
  <2>1. /\ IsFiniteSet(0 .. TotalFrames - 1)
        /\ Cardinality(0 .. TotalFrames - 1) =
             IF 0 > TotalFrames - 1 THEN 0 ELSE (TotalFrames - 1) - 0 + 1
    <3>1. 0 \in Int /\ TotalFrames - 1 \in Int
      OBVIOUS
    <3> QED BY ONLY <3>1, FS_Interval
  <2>2. IsFiniteSet(1 .. 3) /\ Cardinality(1 .. 3) = IF 1 > 3 THEN 0 ELSE 3 - 1 + 1
    <3>1. 1 \in Int /\ 3 \in Int
      OBVIOUS
    <3> QED BY ONLY <3>1, FS_Interval
  <2>3. TotalFrames \in Nat
    OBVIOUS
  <2> QED BY <2>1, <2>2, <2>3 DEF PMM!Frames
<1>2. Roots \cup DataFrames \subseteq PMM!Frames /\ taken \subseteq PMM!Frames
  BY DEF Tree, Levels
<1>3. /\ IsFiniteSet(Roots) /\ Cardinality(Roots) \in Nat
      /\ IsFiniteSet(DataFrames) /\ Cardinality(DataFrames) \in Nat
  BY <1>1, <1>2, FS_Subset, FS_CardinalityType
<1>4. IsFiniteSet(VirtualPages) /\ Cardinality(VirtualPages) \in Nat
  BY FS_CardinalityType DEF FramesSuffice
<1> DEFINE C == Cardinality(Roots) * Cardinality(VirtualPages)
<1>5. IsFiniteSet(Roots \X VirtualPages) /\ Cardinality(Roots \X VirtualPages) = C /\ C \in Nat
  BY <1>3, <1>4, FS_Product
<1>6. TotalFrames >= 1 + Cardinality(Roots) + Cardinality(DataFrames) + 3 * C
  BY DEF FramesSuffice
<1> HIDE DEF C
<1>7. IsFiniteSet(Paths) /\ Cardinality(Paths) = 3 * C
  <2>1. IsFiniteSet(Paths) /\ Cardinality(Paths) = C * 3
    BY <1>1, <1>5, FS_Product
  <2> QED BY <2>1, <1>5
<1>8. IsFiniteSet(D) /\ Cardinality(D) = 3 * C - 1
  <2>1. << <<root, v>>, n>> \in Paths
    OBVIOUS
  <2> QED BY <2>1, <1>7, FS_RemoveElement
<1>9. IsFiniteSet(R) /\ Cardinality(R) <= 3 * C - 1
  <2>1. F \in [D -> R] /\ \A r \in R : \E d \in D : F[d] = r
    OBVIOUS
  <2>2. F \in Surjection(D, R)
    BY <2>1 DEF Surjection
  <2> HIDE DEF D, F, R
  <2> QED BY <2>2, <1>8, FS_Surjection
<1>10. Lower \subseteq R
  <2>1. ASSUME NEW h \in Lower PROVE h \in R
    <3>1. PICK s \in Roots, u \in VirtualPages, k \in 1 .. 3 : EntryAbove(mm, s, u, k) = Link(h)
      BY DEF OnPaths
    <3>2. h \in Nat /\ Link(h) # Absent /\ Link(h).addr = h
      <4>1. h \in Nat
        BY <1>2, Kinds DEF TablesIn
      <4> QED BY <4>1, Kinds
    <3> DEFINE d == << <<s, u>>, k>>
    <3>3. d \in D
      BY <3>1, <3>2
    <3>4. F[d] = h
      BY <3>1, <3>2, <3>3
    <3> QED BY <3>3, <3>4
  <2> QED BY <2>1
<1> HIDE DEF R
<1>11. IsFiniteSet(Lower) /\ Cardinality(Lower) <= 3 * C - 1 /\ Cardinality(Lower) \in Nat
  <2>1. Lower \in SUBSET R
    BY <1>10
  <2> QED BY <2>1, <1>5, <1>9, FS_Subset, FS_CardinalityType
<1>12. taken \subseteq {0} \cup Roots \cup DataFrames \cup Lower
  BY DEF TablesIn
<1> HIDE DEF Lower, D, F, Paths
<1>13. /\ IsFiniteSet({0} \cup Roots \cup DataFrames \cup Lower)
       /\ Cardinality({0} \cup Roots \cup DataFrames \cup Lower) < TotalFrames
  <2>1. IsFiniteSet({0} \cup Roots) /\ Cardinality({0} \cup Roots) <= 1 + Cardinality(Roots)
    <3>1. IsFiniteSet({0}) /\ Cardinality({0}) = 1
      BY FS_Singleton
    <3> QED BY <3>1, <1>3, UnionAtMost
  <2>2. /\ IsFiniteSet({0} \cup Roots \cup DataFrames)
        /\ Cardinality({0} \cup Roots \cup DataFrames)
              <= 1 + Cardinality(Roots) + Cardinality(DataFrames)
    <3>1. /\ IsFiniteSet(({0} \cup Roots) \cup DataFrames)
          /\ Cardinality(({0} \cup Roots) \cup DataFrames)
                <= Cardinality({0} \cup Roots) + Cardinality(DataFrames)
      BY <1>3, <2>1, UnionAtMost
    <3>2. /\ Cardinality({0} \cup Roots) \in Nat
          /\ Cardinality(({0} \cup Roots) \cup DataFrames) \in Nat
      BY <2>1, <3>1, FS_CardinalityType
    <3> QED BY <3>1, <3>2, <2>1, <1>3
  <2>3. /\ IsFiniteSet({0} \cup Roots \cup DataFrames \cup Lower)
        /\ Cardinality({0} \cup Roots \cup DataFrames \cup Lower)
              <= Cardinality({0} \cup Roots \cup DataFrames) + Cardinality(Lower)
    BY <1>11, <2>2, UnionAtMost
  <2>4. /\ Cardinality({0} \cup Roots \cup DataFrames) \in Nat
        /\ Cardinality({0} \cup Roots \cup DataFrames \cup Lower) \in Nat
    BY <2>2, <2>3, FS_CardinalityType
  <2> QED BY <2>2, <2>3, <2>4, <1>3, <1>5, <1>6, <1>11
<1>14. PMM!Frames # taken
  <2>1. Cardinality(taken) <= Cardinality({0} \cup Roots \cup DataFrames \cup Lower)
    BY <1>12, <1>13, FS_Subset
  <2>2. /\ Cardinality(taken) \in Nat
        /\ Cardinality({0} \cup Roots \cup DataFrames \cup Lower) \in Nat
    BY <1>1, <1>2, <1>13, FS_Subset, FS_CardinalityType
  <2> QED BY <2>1, <2>2, <1>1, <1>13
<1> QED
  BY <1>2, <1>14

\* Links that stay keep the path to a table.
LEMMA PathsPersist ==
  ASSUME NEW mm, NEW taken, NEW level, Tree(mm, taken, level), NEW mm2,
         \A g \in TablesIn(taken), j \in Indices : mm[g][j] # Absent => mm2[g][j] = mm[g][j],
         NEW root \in Roots, NEW v \in Page, NEW n \in 1 .. 3,
         EntryAbove(mm, root, v, n) # Absent
  PROVE  EntryAbove(mm2, root, v, n) = EntryAbove(mm, root, v, n)
<1>1. v[1] \in Indices /\ v[2] \in Indices /\ v[3] \in Indices
  BY DEF Page
<1>2. /\ root \in TablesIn(taken) /\ LinkTo(taken, level, 2, Entry1(mm, root, v))
      /\ LinkTo(taken, level, 3, Entry2(mm, root, v))
  BY WalkDescends, RootsAreTables DEF Tree
<1>3. ASSUME NEW k, NEW e, LinkTo(taken, level, k, e), NEW j \in Indices, Follow(mm, e, j) # Absent
      PROVE  Follow(mm2, e, j) = Follow(mm, e, j) /\ e # Absent
  <2>1. e # Absent
    BY <1>3, Kinds DEF Follow
  <2>2. PICK g \in TablesIn(taken) : e = Link(g)
    BY <1>3, <2>1 DEF LinkTo
  <2>3. g \in Nat
    BY RootsAreTables, Kinds DEF Tree
  <2>4. Follow(mm, e, j) = mm[g][j] /\ Follow(mm2, e, j) = mm2[g][j]
    BY <2>2, <2>3, Kinds DEF Follow
  <2> QED BY <1>3, <2>1, <2>4
<1>4. Entry1(mm, root, v) # Absent => Entry1(mm2, root, v) = Entry1(mm, root, v)
  BY <1>1, <1>2 DEF Entry1
<1>5. Entry2(mm, root, v) # Absent =>
        Entry2(mm2, root, v) = Entry2(mm, root, v) /\ Entry1(mm, root, v) # Absent
  BY <1>1, <1>2, <1>3, <1>4 DEF Entry2
<1>6. Entry3(mm, root, v) # Absent => Entry3(mm2, root, v) = Entry3(mm, root, v)
  BY <1>1, <1>2, <1>3, <1>5 DEF Entry3
<1> QED
  BY <1>4, <1>5, <1>6 DEF EntryAbove

\* vmm_map_page for page v has come to its table n levels below the root.
OnItsWay(w, root, v, n) ==
  /\ Reached(w)
  /\ \E level : Tree(w.mem, w.frames, level) /\ level[w.table] = n + 1
  /\ w.table \in TablesIn(w.frames)
  /\ IF n = 0 THEN w.table = root ELSE EntryAbove(w.mem, root, v, n) = Link(w.table)
  /\ OnPaths(w.mem, w.frames)
  /\ NoNullLink(w.mem)

LEMMA DescendHasRoom ==
  ASSUME FramesSuffice, NEW root \in Roots, NEW v \in VirtualPages, NEW n \in 0 .. 2,
         NEW w, OnItsWay(w, root, v, n), NEW i, i = v[n + 1], NEW d, d = Descend(w, i)
  PROVE  OnItsWay(d, root, v, n + 1)
<1>1. v \in Page /\ i \in Indices
  BY DEF Page, Indices
<1>2. PICK level : Tree(w.mem, w.frames, level) /\ level[w.table] = n + 1
  BY DEF OnItsWay
<1>3. w.table \in TablesIn(w.frames) /\ w.table \in Nat /\ level[w.table] # 4
  <2>1. w.table \in TablesIn(w.frames) /\ Levels(w.frames, level)
    BY <1>2 DEF OnItsWay, Tree
  <2>2. w.table \in Nat
    BY <2>1, RootsAreTables, Kinds
  <2>3. level[w.table] # 4
    BY <1>2
  <2> QED BY <2>1, <2>2, <2>3
\* The entry below table w.table on the path of v.
<1>4. \A mm : (n = 0 \/ EntryAbove(mm, root, v, n) = Link(w.table)) =>
                EntryAbove(mm, root, v, n + 1) = mm[w.table][i]
  <2>1. TAKE mm
  <2>2. CASE n = 0
    BY <2>2, <1>3 DEF OnItsWay, EntryAbove, Entry1
  <2>3. ASSUME n # 0, EntryAbove(mm, root, v, n) = Link(w.table)
        PROVE  EntryAbove(mm, root, v, n + 1) = mm[w.table][i]
    <3>1. Follow(mm, Link(w.table), i) = mm[w.table][i]
      BY <1>3, Kinds DEF Follow
    <3>2. EntryAbove(mm, root, v, n + 1) = Follow(mm, EntryAbove(mm, root, v, n), v[n + 1])
      <4>1. CASE n = 1
        BY <4>1 DEF EntryAbove, Entry2
      <4>2. CASE n = 2
        BY <4>2 DEF EntryAbove, Entry3
      <4> QED BY <2>3, <4>1, <4>2
    <3> QED BY <2>3, <3>1, <3>2
  <2> QED BY <2>2, <2>3
<1>5. Present(w.mem[w.table][i]) \/ PMM!Frames \ w.frames # {}
  <2>1. EntryAbove(w.mem, root, v, n + 1) = w.mem[w.table][i]
    BY <1>4 DEF OnItsWay
  <2>2. CASE w.mem[w.table][i] = Absent
    <3>1. /\ n + 1 \in 1 .. 3 /\ OnPaths(w.mem, w.frames)
          /\ EntryAbove(w.mem, root, v, n + 1) = Absent
      BY <2>1, <2>2 DEF OnItsWay
    <3> QED BY <3>1, <1>2, FrameIsLeft
  <2> QED BY <2>2 DEF Present
<1>6. /\ Deeper(w, i, d)
      /\ \E level2 : Tree(d.mem, d.frames, level2) /\ level2[d.table] = level[w.table] + 1
  BY <1>1, <1>2, <1>3, <1>5, DescendKeepsTree DEF OnItsWay
<1>7. ASSUME NEW s \in Roots, NEW u \in VirtualPages, NEW k \in 1 .. 3, NEW h \in Nat,
             EntryAbove(w.mem, s, u, k) = Link(h)
      PROVE  EntryAbove(d.mem, s, u, k) = Link(h)
  <2>1. u \in Page /\ Link(h) # Absent
    BY Kinds DEF Page, Indices
  <2> QED BY <2>1, <1>2, <1>6, <1>7, PathsPersist DEF Deeper
<1>8. EntryAbove(d.mem, root, v, n + 1) = Link(d.table)
  <2>1. n = 0 \/ EntryAbove(d.mem, root, v, n) = Link(w.table)
    BY <1>3, <1>7 DEF OnItsWay
  <2> QED BY <2>1, <1>4, <1>6 DEF Deeper
<1>9. OnPaths(d.mem, d.frames)
  <2>1. ASSUME NEW h \in TablesIn(d.frames) \ Roots
        PROVE  \E s \in Roots, u \in VirtualPages, k \in 1 .. 3 :
                 EntryAbove(d.mem, s, u, k) = Link(h)
    <3>1. CASE h = d.table
      BY <3>1, <1>8
    <3>2. CASE h # d.table
      <4>1. h \in TablesIn(w.frames) \ Roots /\ h \in Nat
        BY <3>2, <1>2, <1>6, RootsAreTables, Kinds DEF Deeper, Tree
      <4> QED BY <4>1, <1>7 DEF OnItsWay, OnPaths
    <3> QED BY <3>1, <3>2
  <2> QED BY <2>1 DEF OnPaths
<1>10. level[w.table] + 1 = (n + 1) + 1 /\ n + 1 # 0
  BY <1>2
<1> QED
  BY <1>6, <1>8, <1>9, <1>10 DEF OnItsWay, Deeper

RoomInv == VmmInv /\ OnPaths(mem, frames) /\ TablesAllocated

LEMMA WritePreservesRoom ==
  ASSUME NEW mm, NEW taken, NEW level, Tree(mm, taken, level), OnPaths(mm, taken), NoNullLink(mm),
         NEW p \in TablesIn(taken), level[p] = 4, NEW i \in Indices,
         NEW e \in {Absent} \cup Mappings,
         NEW mm2, mm2 = WithEntry(mm, p, i, e)
  PROVE  OnPaths(mm2, taken) /\ NoNullLink(mm2)
<1>1. OnPaths(mm2, taken)
  <2>1. \A root \in Roots, v \in VirtualPages, n \in 1 .. 3 :
          EntryAbove(mm2, root, v, n) = EntryAbove(mm, root, v, n)
    <3>1. VirtualPages \subseteq Page
      BY DEF Page, Indices
    <3>2. \A root \in Roots, v \in Page : /\ Entry1(mm2, root, v) = Entry1(mm, root, v)
                                         /\ Entry2(mm2, root, v) = Entry2(mm, root, v)
                                         /\ Entry3(mm2, root, v) = Entry3(mm, root, v)
      BY WriteKeepsTree
    <3> QED BY <3>1, <3>2 DEF EntryAbove
  <2> QED BY <2>1 DEF OnPaths
<1>2. NoNullLink(mm2)
  <2>1. e # Link(0)
    BY Kinds
  <2>2. p \in PMM!Frames /\ mm \in [PMM!Frames -> [Indices -> Entry]]
    BY RootsAreTables DEF Tree
  <2>3. ASSUME NEW f \in PMM!Frames, NEW j \in Indices
        PROVE  mm2[f][j] = IF f = p /\ j = i THEN e ELSE mm[f][j]
    <3>1. mm[f] \in [Indices -> Entry]
      BY <2>2
    <3> QED BY <2>2, <3>1 DEF WithEntry
  <2> QED BY <2>1, <2>3 DEF NoNullLink
<1> QED
  BY <1>1, <1>2

LEMMA MapHasRoom ==
  ASSUME FramesSuffice, RoomInv, NEW root \in Roots, NEW v \in VirtualPages, NEW m \in Mappings,
         vmm_map_page(root, v, m)
  PROVE  OnPaths(mem', frames') /\ TablesAllocated'
<1> DEFINE w0 == [mem |-> mem, frames |-> frames, table |-> root]
           w1 == Descend(w0, v[1])
           w2 == Descend(w1, v[2])
           w3 == Descend(w2, v[3])
<1>1. mem' = [w3.mem EXCEPT ![w3.table][v[4]] = m] /\ frames' = w3.frames
  BY DEF vmm_map_page
<1>2. OnItsWay(w0, root, v, 0)
  <2>1. PICK level : Tree(mem, frames, level)
    BY DEF RoomInv, VmmInv
  <2>2. root \in TablesIn(frames) /\ level[root] = 0 + 1
    BY <2>1, RootsAreTables DEF Tree, Levels
  <2> QED BY <2>1, <2>2 DEF OnItsWay, Reached, RoomInv, TablesAllocated
<1> HIDE DEF w0
<1>3. OnItsWay(w1, root, v, 1)
  <2>1. OnItsWay(w1, root, v, 0 + 1)
    BY <1>2, DescendHasRoom
  <2> QED BY <2>1
<1> HIDE DEF w1
<1>4. OnItsWay(w2, root, v, 2)
  <2>1. OnItsWay(w2, root, v, 1 + 1)
    BY <1>3, DescendHasRoom
  <2> QED BY <2>1
<1> HIDE DEF w2
<1>5. OnItsWay(w3, root, v, 3)
  <2>1. OnItsWay(w3, root, v, 2 + 1)
    BY <1>4, DescendHasRoom
  <2> QED BY <2>1
<1> HIDE DEF w3
<1>6. PICK level : Tree(w3.mem, w3.frames, level) /\ level[w3.table] = 4
  BY <1>5 DEF OnItsWay
<1>7. /\ w3.table \in TablesIn(w3.frames) /\ OnPaths(w3.mem, w3.frames) /\ NoNullLink(w3.mem)
      /\ v[4] \in Indices /\ m \in {Absent} \cup Mappings
      /\ mem' = WithEntry(w3.mem, w3.table, v[4], m)
  BY <1>1, <1>5 DEF OnItsWay, WithEntry, Indices
<1>8. OnPaths(mem', w3.frames) /\ NoNullLink(mem')
  BY <1>6, <1>7, WritePreservesRoom
<1> QED
  BY <1>1, <1>8 DEF TablesAllocated

LEMMA UnmapHasRoom ==
  ASSUME RoomInv, NEW root \in Roots, NEW v \in VirtualPages, vmm_unmap_page(root, v)
  PROVE  OnPaths(mem', frames') /\ TablesAllocated'
<1>1. /\ HasTable(root, v) /\ frames' = frames
      /\ mem' = [mem EXCEPT ![PageTable(root, v)][v[4]] = Absent]
  BY DEF vmm_unmap_page
<1>2. PICK level : Tree(mem, frames, level)
  BY DEF RoomInv, VmmInv
<1>3. v \in Page /\ v[4] \in Indices
  BY DEF Page, Indices
<1>4. PICK p \in TablesIn(frames) : level[p] = 4 /\ Entry3(mem, root, v) = Link(p)
  <2>1. LinkTo(frames, level, 4, Entry3(mem, root, v))
    BY <1>2, <1>3, WalkDescends
  <2>2. Entry3(mem, root, v) # Absent
    BY <1>1, TablesAreReached DEF Present
  <2> QED BY <2>1, <2>2 DEF LinkTo
<1>5. PageTable(root, v) = p
  <2>1. p \in Nat
    BY <1>2, RootsAreTables, Kinds DEF Tree
  <2> QED BY <2>1, <1>1, <1>4, TablesAreReached, Kinds
<1>6. Absent \in {Absent} \cup Mappings /\ mem' = WithEntry(mem, p, v[4], Absent)
  BY <1>1, <1>5 DEF WithEntry
<1>7. OnPaths(mem, frames) /\ NoNullLink(mem)
  BY DEF RoomInv, TablesAllocated
<1>8. OnPaths(mem', frames) /\ NoNullLink(mem')
  BY <1>2, <1>3, <1>4, <1>6, <1>7, WritePreservesRoom
<1> QED
  BY <1>1, <1>8 DEF TablesAllocated

\* With a path of three tables for every page in every space, vmm_map_page always gets
\* its frames: the tables of a page are made once and used from then on.
THEOREM FramesNeverRunOut == ASSUME FramesSuffice PROVE Spec => []TablesAllocated
<1>1. Init => RoomInv
  <2> SUFFICES ASSUME Init PROVE RoomInv
    OBVIOUS
  <2>1. TablesIn(frames) \subseteq Roots
    BY DEF Init, TablesIn
  <2>2. TablesAllocated
    <3>1. \A i \in Indices : ZeroTable[i] # Link(0) /\ Stale[i] # Link(0)
      BY Kinds DEF ZeroTable, Stale
    <3> QED BY <3>1 DEF Init, TablesAllocated, NoNullLink
  <2> QED BY <2>1, <2>2, InitTree DEF RoomInv, OnPaths
<1>2. RoomInv /\ [Next]_vars => RoomInv'
  <2> SUFFICES ASSUME RoomInv, [Next]_vars PROVE RoomInv'
    OBVIOUS
  <2>1. OnPaths(mem', frames') /\ TablesAllocated'
    <3>1. ASSUME UNCHANGED <<mem, frames>> PROVE OnPaths(mem', frames') /\ TablesAllocated'
      BY <3>1 DEF RoomInv, TablesAllocated
    <3> QED BY <3>1, MapHasRoom, UnmapHasRoom
              DEF Next, vars, vmm_unmap_nothing, vmm_switch_pml4, TlbFill
  <2> QED BY <2>1, StepKeepsTrees DEF RoomInv
<1>3. RoomInv => TablesAllocated
  BY DEF RoomInv
<1> QED
  BY <1>1, <1>2, <1>3, PTL DEF Spec
=============================================================================
