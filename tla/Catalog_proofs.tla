--------------------------- MODULE Catalog_proofs ---------------------------
(***************************************************************************)
(* The catalogue for every seed, any number of instances, tabs and edits.  *)
(* What the code never says and everything rests on is that rows are only  *)
(* added, and that level, parent and name of a row never change: a parent  *)
(* found stays one, and the seed, once complete, stays complete.           *)
(***************************************************************************)
EXTENDS Catalog, SequenceTheorems, TLAPS

\* A colour that node n may show as its own.
OwnColour(c, n, pk) == c = NoColour \/ c \in pk[n]

RowsInv(some, pk) ==
    /\ some \in Seq(Nodes) /\ Len(some) <= MaxNodes
    /\ \A i \in DOMAIN some : Hangs(some, i)
    /\ \A i, j \in DOMAIN some : SameName(some[i], some[j]) => i = j
    /\ \A n \in DOMAIN some : OwnColour(some[n].accent, n, pk)

Seeding(b) == b.phase \in {"seed", "complete"}

\* Only the winner of the lock inserts before the lock is completed, and what
\* is stored by then is the beginning of the plan.
LockInv(lk, bt, some) ==
    /\ lk \in {"absent", "taken", "completed"}
    /\ bt \in [Instances -> [phase: Phase, inserted: 0..Len(Plan)]]
    /\ lk = "absent" => some = <<>> /\ \A i \in Instances : bt[i].phase \in {"down", "acquire"}
    /\ \A i \in Instances : bt[i].phase = "serving" => lk = "completed"
    /\ \A i \in Instances : Seeding(bt[i]) => lk = "taken"
    /\ \A i, j \in Instances : Seeding(bt[i]) /\ Seeding(bt[j]) => i = j
    /\ \A i \in Instances : bt[i].phase = "seed" => Len(some) = bt[i].inserted /\ Len(some) < Len(Plan)
    /\ \A i \in Instances : bt[i].phase = "complete" => Len(some) = Len(Plan)
    /\ lk # "completed" => Len(some) <= Len(Plan) /\ \A n \in DOMAIN some : some[n] = Plan[n]
    /\ lk = "completed" => Len(some) >= Len(Plan) /\ \A n \in DOMAIN Plan : SameName(some[n], Plan[n])

Colour   == Colours \cup {NoColour}
Change   == [active: BOOLEAN] \cup [accent: Colour]
Asked    == {<<>>} \cup Nodes \cup Change
Mutation == [step: Steps, node: 0..MaxNodes, asked: Asked, seen: Asked]

\* What assertValidParent has seen.
Fits(new, some) ==
    IF new.parent = 0 THEN ParentLevel[new.level] = "NULL"
    ELSE new.parent \in DOMAIN some /\ some[new.parent].level = ParentLevel[new.level]

MutationInv(k, some, pk, lk) ==
    /\ k.step # "idle" => lk = "completed"
    /\ k.step \in {"parent", "insert"} => k.asked \in Nodes /\ k.asked.accent = NoColour
    /\ k.step = "insert" => Fits(k.asked, some)
    /\ k.step \in {"load", "save"} =>
        /\ k.node \in DOMAIN some /\ k.asked \in Change
        /\ k.asked \in [accent: Colour] => OwnColour(k.asked.accent, k.node, pk)
    /\ k.step = "save" => \/ k.asked \in [active: BOOLEAN] /\ k.seen \in [active: BOOLEAN]
                          \/ k.asked \in [accent: Colour] /\ k.seen \in [accent: Colour]

TreeInv(tr, some, pk) ==
    /\ Len(tr) <= Len(some)
    /\ \A n \in DOMAIN tr : OwnColour(tr[n].accent, n, pk)

DialogInv(d, some, pk) ==
    d = NoDialog \/ (d.node \in DOMAIN some /\ OwnColour(d.accent, d.node, pk))

TabsInv(tr, dl, k, some, pk, lk) ==
    /\ tr \in [Tabs -> Seq(Nodes)] /\ \A t \in Tabs : TreeInv(tr[t], some, pk)
    /\ dl \in [Tabs -> [node: 0..MaxNodes, accent: Colour]] /\ \A t \in Tabs : DialogInv(dl[t], some, pk)
    /\ k \in [Tabs -> Mutation] /\ \A t \in Tabs : MutationInv(k[t], some, pk, lk)

IInv ==
    /\ picked \in [1..MaxNodes -> SUBSET Colour]
    /\ \A n \in DOMAIN Plan : Plan[n].accent \in picked[n]
    /\ RowsInv(rows, picked)
    /\ LockInv(lock, boot, rows)
    /\ TabsInv(tree, dialog, h, rows, picked, lock)

-----------------------------------------------------------------------------
(***************************************************************************)
(* The collection only grows, and what places a row never changes.         *)
(***************************************************************************)
Grown(a, b) ==
    /\ Len(a) <= Len(b)
    /\ \A n \in DOMAIN a : SameName(a[n], b[n])

\* The pages and the mutations stay right when the collection grows and when
\* a colour is picked.
LEMMA TabsGrow ==
    ASSUME NEW tr, NEW dl, NEW k, NEW a \in Seq(Nodes), NEW b \in Seq(Nodes), NEW pk, NEW pk2, NEW lk, NEW lk2,
           TabsInv(tr, dl, k, a, pk, lk), Grown(a, b), \A n \in DOMAIN b : pk[n] \subseteq pk2[n],
           lk = "completed" => lk2 = "completed"
    PROVE  TabsInv(tr, dl, k, b, pk2, lk2)
<1>1. DOMAIN a \subseteq DOMAIN b /\ \A c, n : n \in DOMAIN a /\ OwnColour(c, n, pk) => OwnColour(c, n, pk2)
  BY DEF Grown, OwnColour
<1>2. ASSUME NEW t \in Tabs PROVE TreeInv(tr[t], b, pk2)
  <2>1. tr[t] \in Seq(Nodes) /\ Len(tr[t]) <= Len(a) /\ TreeInv(tr[t], a, pk) BY DEF TabsInv, TreeInv
  <2>2. DOMAIN tr[t] \subseteq DOMAIN a /\ Len(tr[t]) <= Len(b) BY <2>1 DEF Grown
  <2> QED BY <2>1, <2>2, <1>1 DEF TreeInv
<1>3. ASSUME NEW t \in Tabs PROVE DialogInv(dl[t], b, pk2)
  BY <1>1 DEF TabsInv, DialogInv
<1>4. ASSUME NEW t \in Tabs PROVE MutationInv(k[t], b, pk2, lk2)
  <2>1. k[t] \in Mutation /\ MutationInv(k[t], a, pk, lk) BY DEF TabsInv
  <2>2. k[t].step = "insert" => Fits(k[t].asked, b)
    BY <2>1, <1>1 DEF MutationInv, Fits, Grown, SameName
  <2> QED BY <2>1, <2>2, <1>1 DEF MutationInv
<1> QED BY <1>2, <1>3, <1>4 DEF TabsInv

\* A row that fits is one more node of the tree.
LEMMA AppendKeeps ==
    ASSUME CatalogAssumption, NEW some, NEW pk, RowsInv(some, pk),
           NEW new \in Nodes, Fits(new, some), Len(some) < MaxNodes,
           \A i \in DOMAIN some : ~SameName(some[i], new), OwnColour(new.accent, Len(some) + 1, pk)
    PROVE  RowsInv(Append(some, new), pk) /\ Grown(some, Append(some, new))
<1> DEFINE b == Append(some, new)
           m == Len(some) + 1
<1>1. some \in Seq(Nodes) /\ Len(some) \in Nat /\ MaxNodes \in Nat BY DEF RowsInv, CatalogAssumption
<1>2. /\ b \in Seq(Nodes) /\ Len(b) = m /\ DOMAIN b = 1..m /\ DOMAIN some = 1..Len(some) /\ b[m] = new
      /\ \A i \in DOMAIN some : b[i] = some[i]
  BY <1>1
<1> HIDE DEF b
<1>3. ASSUME NEW i \in DOMAIN b PROVE Hangs(b, i)
  <2>1. CASE i = m
    <3>1. new.parent \in 0..MaxNodes BY DEF Nodes
    <3> QED BY <2>1, <3>1, <1>1, <1>2 DEF Hangs, Fits
  <2>2. CASE i # m
    <3>1. i \in DOMAIN some /\ b[i] = some[i] /\ Hangs(some, i) /\ some[i] \in Nodes
      BY <2>2, <1>1, <1>2 DEF RowsInv
    <3>2. some[i].parent \in 0..MaxNodes BY <3>1 DEF Nodes
    <3>3. CASE some[i].parent = 0 BY <3>1, <3>3 DEF Hangs
    <3>4. CASE some[i].parent # 0
      <4>1. some[i].parent \in DOMAIN some BY <3>1, <3>2, <3>4, <1>1, <1>2 DEF Hangs
      <4> QED BY <3>1, <3>4, <4>1, <1>2 DEF Hangs
    <3> QED BY <3>3, <3>4
  <2> QED BY <2>1, <2>2
<1>4. ASSUME NEW i \in DOMAIN b, NEW j \in DOMAIN b, SameName(b[i], b[j]) PROVE i = j
  <2>1. SameName(b[j], b[i]) BY <1>4 DEF SameName
  <2>2. CASE i = m /\ j # m BY <2>1, <2>2, <1>1, <1>2
  <2>3. CASE i # m /\ j = m BY <2>3, <1>4, <1>1, <1>2
  <2>4. CASE i # m /\ j # m BY <2>4, <1>4, <1>1, <1>2 DEF RowsInv
  <2> QED BY <2>2, <2>3, <2>4
<1>5. ASSUME NEW n \in DOMAIN b PROVE OwnColour(b[n].accent, n, pk)
  BY <1>1, <1>2 DEF RowsInv
<1>6. Grown(some, b) BY <1>1, <1>2 DEF Grown, SameName
<1>7. RowsInv(b, pk) BY <1>1, <1>2, <1>3, <1>4, <1>5 DEF RowsInv
<1> QED BY <1>6, <1>7 DEF b

\* The value that SaveNode leaves in a row.
Patched(r, asked, seen) ==
    [f \in DOMAIN r |-> IF f \in DOMAIN asked THEN SetIfModified(seen[f], asked[f], r[f]) ELSE r[f]]

LEMMA PatchKeepsPlace ==
    ASSUME NEW r \in Nodes, NEW asked, NEW seen,
           \/ asked \in [active: BOOLEAN] /\ seen \in [active: BOOLEAN]
           \/ asked \in [accent: Colour] /\ seen \in [accent: Colour]
    PROVE  /\ Patched(r, asked, seen) \in Nodes /\ SameName(r, Patched(r, asked, seen))
           /\ \/ Patched(r, asked, seen).accent = r.accent
              \/ asked \in [accent: Colour] /\ Patched(r, asked, seen).accent = asked.accent
<1> DEFINE p == Patched(r, asked, seen)
<1>1. DOMAIN r = {"level", "parent", "name", "active", "accent"} BY DEF Nodes
<1>2. p = [f \in {"level", "parent", "name", "active", "accent"} |->
             IF f \in DOMAIN asked THEN SetIfModified(seen[f], asked[f], r[f]) ELSE r[f]]
  BY <1>1, Zenon DEF Patched
<1>3. DOMAIN asked \in {{"active"}, {"accent"}} BY DEF Change
<1>4. p.level = r.level /\ p.parent = r.parent /\ p.name = r.name BY <1>2, <1>3
<1>5. CASE asked \in [active: BOOLEAN] /\ seen \in [active: BOOLEAN]
  <2>1. DOMAIN asked = {"active"} BY <1>5
  <2>2. p.accent = r.accent /\ p.active \in {asked.active, r.active} BY <1>2, <2>1 DEF SetIfModified
  <2>3. p.active \in BOOLEAN BY <2>2, <1>5 DEF Nodes
  <2>4. p \in Nodes BY <1>2, <1>4, <2>2, <2>3 DEF Nodes, Colour
  <2> QED BY <1>4, <2>2, <2>4 DEF SameName
<1>6. CASE asked \in [accent: Colour] /\ seen \in [accent: Colour]
  <2>1. DOMAIN asked = {"accent"} BY <1>6
  <2>2. p.active = r.active /\ p.accent \in {asked.accent, r.accent} BY <1>2, <2>1 DEF SetIfModified
  <2>3. p.accent \in Colour BY <2>2, <1>6 DEF Nodes, Colour
  <2>4. p \in Nodes BY <1>2, <1>4, <2>2, <2>3 DEF Nodes, Colour
  <2> QED BY <1>4, <1>6, <2>2, <2>4 DEF SameName
<1> QED BY <1>5, <1>6

\* A patch of a colour or of active leaves the tree as it is.
LEMMA PatchKeeps ==
    ASSUME CatalogAssumption, NEW some, NEW pk, RowsInv(some, pk), NEW n \in DOMAIN some, NEW v \in Nodes,
           SameName(some[n], v), OwnColour(v.accent, n, pk)
    PROVE  RowsInv([some EXCEPT ![n] = v], pk) /\ Grown(some, [some EXCEPT ![n] = v])
           /\ Len([some EXCEPT ![n] = v]) = Len(some)
<1> DEFINE b == [some EXCEPT ![n] = v]
<1>1. some \in Seq(Nodes) /\ Len(some) \in Nat /\ DOMAIN some = 1..Len(some) BY DEF RowsInv
<1>2. b \in Seq(Nodes) /\ Len(b) = Len(some) /\ DOMAIN b = 1..Len(some) BY <1>1
<1>3. b[n] = v /\ \A i \in DOMAIN some : i # n => b[i] = some[i] BY <1>1
<1> HIDE DEF b
<1>4. \A i \in DOMAIN some : /\ SameName(some[i], b[i]) /\ b[i].parent = some[i].parent
                             /\ b[i].level = some[i].level
  BY <1>3 DEF SameName
<1>5. ASSUME NEW i \in DOMAIN b PROVE Hangs(b, i)
  <2>1. i \in DOMAIN some /\ Hangs(some, i) /\ some[i] \in Nodes BY <1>1, <1>2 DEF RowsInv
  <2>2. some[i].parent \in 0..MaxNodes /\ MaxNodes \in Nat BY <2>1 DEF Nodes, CatalogAssumption
  <2>3. CASE some[i].parent = 0 BY <2>1, <2>3, <1>4 DEF Hangs
  <2>4. CASE some[i].parent # 0
    <3>1. some[i].parent \in DOMAIN some BY <2>1, <2>2, <2>4, <1>1 DEF Hangs
    <3> QED BY <2>1, <2>4, <3>1, <1>4 DEF Hangs
  <2> QED BY <2>3, <2>4
<1>6. ASSUME NEW i \in DOMAIN b, NEW j \in DOMAIN b, SameName(b[i], b[j]) PROVE i = j
  <2>1. SameName(some[i], some[j]) BY <1>1, <1>2, <1>4, <1>6 DEF SameName
  <2> QED BY <2>1, <1>1, <1>2 DEF RowsInv
<1>7. ASSUME NEW i \in DOMAIN b PROVE OwnColour(b[i].accent, i, pk)
  BY <1>1, <1>2, <1>3 DEF RowsInv
<1>8. RowsInv(b, pk) BY <1>1, <1>2, <1>5, <1>6, <1>7 DEF RowsInv
<1>9. Grown(some, b) BY <1>1, <1>2, <1>4 DEF Grown
<1> QED BY <1>2, <1>8, <1>9 DEF b

\* What an administrator does to a row while instances serve.
LEMMA LockKeeps ==
    ASSUME CatalogAssumption, NEW lk, NEW bt, NEW a \in Seq(Nodes), NEW b \in Seq(Nodes),
           LockInv(lk, bt, a), Grown(a, b), lk = "completed"
    PROVE  LockInv(lk, bt, b)
<1>1. Len(a) >= Len(Plan) /\ \A n \in DOMAIN Plan : SameName(a[n], Plan[n]) BY DEF LockInv
<1>2. Len(Plan) \in Nat /\ DOMAIN Plan = 1..Len(Plan) /\ Len(a) \in Nat /\ Len(b) \in Nat /\ DOMAIN a = 1..Len(a)
  BY DEF CatalogAssumption
<1>3. Len(b) >= Len(Plan) BY <1>1, <1>2 DEF Grown
<1>4. ASSUME NEW n \in DOMAIN Plan PROVE SameName(b[n], Plan[n])
  BY <1>1, <1>2 DEF Grown, SameName
<1>5. ASSUME NEW i \in Instances PROVE ~Seeding(bt[i]) BY DEF LockInv
<1>6. \A i \in Instances : bt[i].phase # "seed" /\ bt[i].phase # "complete" BY <1>5 DEF Seeding
<1> QED BY <1>3, <1>4, <1>5, <1>6 DEF LockInv

-----------------------------------------------------------------------------
(***************************************************************************)
(* The instances.                                                          *)
(***************************************************************************)
LEMMA SeedRowKeeps ==
    ASSUME CatalogAssumption, IInv, NEW i \in Instances, SeedRow(i)
    PROVE  RowsInv(rows', picked) /\ Grown(rows, rows') /\ LockInv(lock', boot', rows')
<1> DEFINE n == boot[i].inserted + 1
           m == Len(rows) + 1
<1>1. /\ boot[i].phase = "seed" /\ rows' = Append(rows, Plan[n]) /\ lock' = lock
      /\ boot' = [boot EXCEPT ![i] = [phase |-> IF n = Len(Plan) THEN "complete" ELSE "seed", inserted |-> n]]
  BY DEF SeedRow
<1>2. /\ Len(rows) = boot[i].inserted /\ Len(rows) < Len(Plan) /\ lock = "taken"
      /\ \A k \in DOMAIN rows : rows[k] = Plan[k]
      /\ boot \in [Instances -> [phase: Phase, inserted: 0..Len(Plan)]]
      /\ \A j \in Instances : Seeding(boot[j]) => j = i
  BY <1>1 DEF IInv, LockInv, Seeding
<1>3. rows \in Seq(Nodes) /\ RowsInv(rows, picked) BY DEF IInv, RowsInv
<1>4. /\ Plan \in Seq(Nodes) /\ Len(Plan) \in 1..MaxNodes /\ MaxNodes \in Nat /\ DOMAIN Plan = 1..Len(Plan)
      /\ \A k \in DOMAIN Plan : Hangs(Plan, k)
      /\ \A k, l \in DOMAIN Plan : SameName(Plan[k], Plan[l]) => k = l
  BY DEF CatalogAssumption
<1>5. n = m /\ n \in DOMAIN Plan /\ Plan[n] \in Nodes /\ Len(rows) \in Nat /\ DOMAIN rows = 1..Len(rows)
  BY <1>2, <1>3, <1>4
<1>6. Fits(Plan[n], rows)
  <2>1. Hangs(Plan, n) /\ Plan[n].parent \in 0..MaxNodes BY <1>4, <1>5 DEF Nodes
  <2>2. CASE Plan[n].parent = 0 BY <2>1, <2>2 DEF Hangs, Fits
  <2>3. CASE Plan[n].parent # 0
    <3>1. Plan[n].parent \in DOMAIN rows BY <2>1, <2>3, <1>4, <1>5 DEF Hangs
    <3> QED BY <2>1, <2>3, <3>1, <1>2 DEF Hangs, Fits
  <2> QED BY <2>2, <2>3
<1>7. \A k \in DOMAIN rows : ~SameName(rows[k], Plan[n]) BY <1>2, <1>4, <1>5
<1>8. OwnColour(Plan[n].accent, m, picked)
  BY <1>5 DEF IInv, OwnColour
<1>9. RowsInv(rows', picked) /\ Grown(rows, rows')
  <2> HIDE DEF n
  <2>1. Len(rows) < MaxNodes BY <1>2, <1>4, <1>5
  <2>2. OwnColour(Plan[n].accent, Len(rows) + 1, picked) BY <1>8
  <2>3. RowsInv(Append(rows, Plan[n]), picked) /\ Grown(rows, Append(rows, Plan[n]))
    BY <2>1, <2>2, <1>3, <1>5, <1>6, <1>7, AppendKeeps
  <2> QED BY <2>3, <1>1
<1>10. /\ Len(rows') = n /\ DOMAIN rows' = 1..n /\ rows'[n] = Plan[n]
       /\ \A k \in DOMAIN rows : rows'[k] = rows[k]
  <2> HIDE DEF n
  <2> QED BY <1>1, <1>3, <1>5
<1>11. \A k \in DOMAIN rows' : rows'[k] = Plan[k] BY <1>2, <1>5, <1>10
<1>12. n \in 1..Len(Plan) /\ Len(Plan) \in Nat BY <1>4, <1>5
<1> DEFINE last == [phase |-> IF n = Len(Plan) THEN "complete" ELSE "seed", inserted |-> n]
<1>13. last \in [phase: Phase, inserted: 0..Len(Plan)] BY <1>12 DEF Phase
<1>14. /\ last.inserted = n /\ Seeding(last)
       /\ last.phase = "complete" => n = Len(Plan)
       /\ last.phase = "seed" => n < Len(Plan)
  BY <1>12 DEF Seeding
<1>15. boot'[i] = last /\ \A j \in Instances : j # i => boot'[j] = boot[j] BY <1>1, <1>2
<1>16. boot' \in [Instances -> [phase: Phase, inserted: 0..Len(Plan)]] BY <1>1, <1>2, <1>13
<1> HIDE DEF n, m, last
<1>17. ASSUME NEW j \in Instances
       PROVE  /\ boot'[j].phase # "serving"
              /\ Seeding(boot'[j]) => j = i
              /\ boot'[j].phase = "seed" => Len(rows') = boot'[j].inserted /\ Len(rows') < Len(Plan)
              /\ boot'[j].phase = "complete" => Len(rows') = Len(Plan)
  <2>1. CASE j = i BY <2>1, <1>10, <1>14, <1>15 DEF Seeding
  <2>2. CASE j # i
    <3>1. boot'[j] = boot[j] /\ ~Seeding(boot[j]) BY <2>2, <1>2, <1>15
    <3>2. boot[j].phase # "serving" BY <1>2 DEF IInv, LockInv
    <3> QED BY <3>1, <3>2 DEF Seeding
  <2> QED BY <2>1, <2>2
<1>18. Len(rows') <= Len(Plan) BY <1>10, <1>12
<1>19. lock' = "taken" BY <1>1, <1>2
<1>20. LockInv(lock', boot', rows') BY <1>11, <1>16, <1>17, <1>18, <1>19 DEF LockInv
<1> QED BY <1>9, <1>20

\* The other steps of an instance leave the collection alone.
LEMMA BootKeeps ==
    ASSUME CatalogAssumption, IInv, NEW i \in Instances, rows' = rows,
           Boot(i) \/ TryAcquire(i) \/ Complete(i) \/ Poll(i) \/ TimeOut(i) \/ Die(i)
    PROVE  LockInv(lock', boot', rows') /\ (lock = "completed" => lock' = "completed")
<1> DEFINE To(phase) == [phase |-> phase, inserted |-> 0]
<1>1. /\ LockInv(lock, boot, rows) /\ boot \in [Instances -> [phase: Phase, inserted: 0..Len(Plan)]]
      /\ Len(Plan) \in Nat /\ 0 \in 0..Len(Plan)
  BY DEF IInv, LockInv, CatalogAssumption
<1>2. ASSUME NEW phase \in Phase, Go(i, phase)
      PROVE  /\ boot' \in [Instances -> [phase: Phase, inserted: 0..Len(Plan)]]
             /\ boot'[i].phase = phase /\ \A j \in Instances : j # i => boot'[j] = boot[j]
  <2>1. To(phase) \in [phase: Phase, inserted: 0..Len(Plan)] BY <1>1
  <2>2. boot' = [boot EXCEPT ![i] = To(phase)] BY <1>2 DEF Go
  <2> QED BY <1>1, <2>1, <2>2
<1>3. CASE Boot(i)
  <2>1. Go(i, "acquire") /\ lock' = lock /\ "acquire" \in Phase BY <1>3 DEF Boot, Phase
  <2> QED BY <2>1, <1>1, <1>2 DEF LockInv, Seeding
<1>4. CASE TryAcquire(i)
  <2>1. CASE lock = "absent"
    <3>1. Go(i, "seed") /\ lock' = "taken" /\ "seed" \in Phase BY <1>4, <2>1 DEF TryAcquire, Phase
    <3>2. rows = <<>> /\ \A j \in Instances : boot[j].phase \in {"down", "acquire"}
      BY <2>1, <1>1 DEF LockInv
    <3>3. boot'[i].inserted = 0 /\ Len(Plan) > 0 /\ Len(rows) = 0
      BY <3>1, <3>2, <1>1 DEF Go, CatalogAssumption
    <3>4. \A j \in Instances : j # i => boot'[j].phase \in {"down", "acquire"} BY <3>1, <3>2, <1>2
    <3>5. ASSUME NEW j \in Instances
          PROVE  /\ Seeding(boot'[j]) => j = i
                 /\ boot'[j].phase \notin {"serving", "complete"}
                 /\ boot'[j].phase = "seed" => boot'[j].inserted = 0
      BY <3>1, <3>3, <3>4, <1>2 DEF Seeding
    <3>6. Len(rows) <= Len(Plan) /\ \A n \in DOMAIN rows : rows[n] = Plan[n]
      BY <2>1, <1>1 DEF LockInv
    <3>7. boot' \in [Instances -> [phase: Phase, inserted: 0..Len(Plan)]] BY <3>1, <1>2
    <3> QED BY <3>1, <3>3, <3>5, <3>6, <3>7, <1>1 DEF LockInv
  <2>2. CASE lock # "absent"
    <3>1. Go(i, "wait") /\ lock' = lock /\ "wait" \in Phase BY <1>4, <2>2 DEF TryAcquire, Phase
    <3> QED BY <3>1, <2>2, <1>1, <1>2 DEF LockInv, Seeding
  <2> QED BY <2>1, <2>2
<1>5. CASE Complete(i)
  <2>1. Go(i, "serving") /\ lock' = "completed" /\ boot[i].phase = "complete" /\ "serving" \in Phase
    BY <1>5 DEF Complete, Phase
  <2>2. lock = "taken" /\ Len(rows) = Len(Plan) /\ \A j \in Instances : Seeding(boot[j]) => j = i
    BY <2>1, <1>1 DEF LockInv, Seeding
  <2>3. \A n \in DOMAIN rows : rows[n] = Plan[n] BY <2>2, <1>1 DEF LockInv
  <2>4. DOMAIN rows = DOMAIN Plan
    BY <2>2 DEF IInv, RowsInv, CatalogAssumption
  <2>5. \A n \in DOMAIN Plan : SameName(rows[n], Plan[n]) BY <2>3, <2>4 DEF SameName
  <2>6. \A j \in Instances : ~Seeding(boot'[j]) BY <2>1, <2>2, <1>2 DEF Seeding
  <2> QED BY <2>1, <2>2, <2>5, <2>6, <1>1, <1>2 DEF LockInv, Seeding
<1>6. CASE Poll(i)
  <2>1. Go(i, "serving") /\ lock' = lock /\ lock = "completed" /\ "serving" \in Phase
    BY <1>6 DEF Poll, Done, Phase
  <2> QED BY <2>1, <1>1, <1>2 DEF LockInv, Seeding
<1>7. CASE TimeOut(i) \/ Die(i)
  <2>1. Go(i, "down") /\ lock' = lock /\ "down" \in Phase BY <1>7 DEF TimeOut, Die, Phase
  <2> QED BY <2>1, <1>1, <1>2 DEF LockInv, Seeding
<1> QED BY <1>3, <1>4, <1>5, <1>6, <1>7

LEMMA InstancesKeep ==
    ASSUME CatalogAssumption, IInv, SeedLockNext, UNCHANGED <<picked, tree, dialog, h, edits>>
    PROVE  IInv' /\ Grown(rows, rows')
<1>1. PICK i \in Instances : \/ SeedRow(i)
                             \/ Boot(i) \/ TryAcquire(i) \/ Complete(i) \/ Poll(i) \/ TimeOut(i) \/ Die(i)
  BY DEF SeedLockNext
<1>2. rows \in Seq(Nodes) /\ TabsInv(tree, dialog, h, rows, picked, lock) /\ RowsInv(rows, picked)
  BY DEF IInv, RowsInv
<1>3. picked' = picked /\ tree' = tree /\ dialog' = dialog /\ h' = h OBVIOUS
<1>4. CASE SeedRow(i)
  <2>1. RowsInv(rows', picked) /\ Grown(rows, rows') /\ LockInv(lock', boot', rows')
    BY <1>4, SeedRowKeeps
  <2>2. lock' = lock BY <1>4 DEF SeedRow
  <2>3. rows' \in Seq(Nodes) BY <2>1 DEF RowsInv
  <2>4. TabsInv(tree, dialog, h, rows', picked, lock') BY <2>1, <2>2, <2>3, <1>2, TabsGrow
  <2> QED BY <2>1, <2>4, <1>3 DEF IInv
<1>5. CASE Boot(i) \/ TryAcquire(i) \/ Complete(i) \/ Poll(i) \/ TimeOut(i) \/ Die(i)
  <2>1. rows' = rows BY <1>5 DEF Boot, TryAcquire, Complete, Poll, TimeOut, Die
  <2>2. LockInv(lock', boot', rows') /\ (lock = "completed" => lock' = "completed")
    BY <1>5, <2>1, BootKeeps
  <2>3. Grown(rows, rows') BY <2>1, <1>2 DEF Grown, SameName
  <2>4. TabsInv(tree, dialog, h, rows', picked, lock') BY <2>1, <2>2, <2>3, <1>2, TabsGrow
  <2> QED BY <2>1, <2>2, <2>3, <2>4, <1>2, <1>3 DEF IInv
<1> QED BY <1>1, <1>4, <1>5

-----------------------------------------------------------------------------
(***************************************************************************)
(* The page and the calls it makes.                                        *)
(***************************************************************************)
\* What a tab does to itself: the others and the collection are as before.
LEMMA OneTab ==
    ASSUME IInv, NEW t \in Tabs, UNCHANGED <<bootVars, rows, picked>>,
           tree' \in [Tabs -> Seq(Nodes)], dialog' \in [Tabs -> [node: 0..MaxNodes, accent: Colour]],
           h' \in [Tabs -> Mutation],
           \A u \in Tabs : u # t => tree'[u] = tree[u] /\ dialog'[u] = dialog[u] /\ h'[u] = h[u],
           TreeInv(tree'[t], rows, picked), DialogInv(dialog'[t], rows, picked),
           MutationInv(h'[t], rows, picked, lock)
    PROVE  IInv' /\ Grown(rows, rows')
<1>1. rows' = rows /\ lock' = lock /\ boot' = boot /\ picked' = picked BY DEF bootVars
<1>2. ASSUME NEW u \in Tabs
      PROVE  /\ TreeInv(tree'[u], rows, picked) /\ DialogInv(dialog'[u], rows, picked)
             /\ MutationInv(h'[u], rows, picked, lock)
  <2>1. CASE u = t BY <2>1
  <2>2. CASE u # t BY <2>2 DEF IInv, TabsInv
  <2> QED BY <2>1, <2>2
<1>3. TabsInv(tree', dialog', h', rows, picked, lock) BY <1>2 DEF TabsInv
<1>4. Grown(rows, rows') BY <1>1 DEF Grown, SameName, IInv, RowsInv
<1> QED BY <1>1, <1>3, <1>4 DEF IInv

LEMMA Typing ==
    ASSUME CatalogAssumption, IInv, NEW t \in Tabs
    PROVE  /\ rows \in Seq(Nodes) /\ Len(rows) \in 0..MaxNodes /\ MaxNodes \in Nat
           /\ DOMAIN rows = 1..Len(rows) /\ DOMAIN rows \subseteq 1..MaxNodes
           /\ tree \in [Tabs -> Seq(Nodes)] /\ TreeInv(tree[t], rows, picked)
           /\ DOMAIN tree[t] \subseteq DOMAIN rows /\ \A n \in DOMAIN tree[t] : tree[t][n] \in Nodes
           /\ dialog \in [Tabs -> [node: 0..MaxNodes, accent: Colour]] /\ DialogInv(dialog[t], rows, picked)
           /\ h \in [Tabs -> Mutation] /\ MutationInv(h[t], rows, picked, lock)
           /\ RowsInv(rows, picked) /\ Idle \in Mutation /\ (Serving # {} => lock = "completed")
<1>1. rows \in Seq(Nodes) /\ Len(rows) <= MaxNodes /\ MaxNodes \in Nat
  BY DEF IInv, RowsInv, CatalogAssumption
<1>2. /\ tree \in [Tabs -> Seq(Nodes)] /\ TreeInv(tree[t], rows, picked)
      /\ dialog \in [Tabs -> [node: 0..MaxNodes, accent: Colour]] /\ DialogInv(dialog[t], rows, picked)
      /\ h \in [Tabs -> Mutation] /\ MutationInv(h[t], rows, picked, lock)
  BY DEF IInv, TabsInv
<1>3. tree[t] \in Seq(Nodes) /\ Len(tree[t]) <= Len(rows) BY <1>2 DEF TreeInv
<1>4. Len(rows) \in 0..MaxNodes /\ DOMAIN rows = 1..Len(rows) /\ DOMAIN rows \subseteq 1..MaxNodes BY <1>1
<1>5. DOMAIN tree[t] \subseteq DOMAIN rows /\ \A n \in DOMAIN tree[t] : tree[t][n] \in Nodes BY <1>1, <1>3
<1>6. Idle \in Mutation BY <1>1 DEF Idle, Mutation, Steps, Asked
<1>7. Serving # {} => lock = "completed" BY DEF IInv, LockInv, Serving
<1> QED BY <1>1, <1>2, <1>4, <1>5, <1>6, <1>7 DEF IInv

\* A mutation of tab t whose value is k.
LEMMA Mutates ==
    ASSUME CatalogAssumption, IInv, NEW t \in Tabs, NEW k \in Mutation, h' = [h EXCEPT ![t] = k],
           MutationInv(k, rows, picked, lock), UNCHANGED <<bootVars, rows, picked, tree, dialog>>
    PROVE  IInv' /\ Grown(rows, rows')
<1>1. h' \in [Tabs -> Mutation] /\ h'[t] = k /\ \A u \in Tabs : u # t => h'[u] = h[u] BY Typing
<1>2. UNCHANGED <<bootVars, rows, picked>> OBVIOUS
<1> QED BY <1>1, <1>2, Typing, OneTab

\* What Send leaves: a mutation at its first step.
LEMMA Sends ==
    ASSUME CatalogAssumption, IInv, NEW t \in Tabs, NEW step \in {"parent", "load"}, NEW node \in 0..MaxNodes,
           NEW asked \in Asked, Send(t, step, node, asked), UNCHANGED <<bootVars, rows, picked, tree, dialog>>,
           Serving # {},
           step = "parent" => asked \in Nodes /\ asked.accent = NoColour,
           step = "load" => node \in DOMAIN rows /\ asked \in Change
                              /\ (asked \in [accent: Colour] => OwnColour(asked.accent, node, picked))
    PROVE  IInv' /\ Grown(rows, rows')
<1> DEFINE k == [Idle EXCEPT !.step = step, !.node = node, !.asked = asked]
<1>1. Idle \in Mutation BY Typing
<1>2. k \in Mutation BY <1>1 DEF Mutation, Steps
<1>3. k.step = step /\ k.node = node /\ k.asked = asked BY <1>1 DEF Mutation
<1> HIDE DEF k
<1>4. lock = "completed" BY Typing
<1>5. MutationInv(k, rows, picked, lock) BY <1>3, <1>4 DEF MutationInv
<1>6. h' = [h EXCEPT ![t] = k] BY DEF Send, k
<1> QED BY <1>2, <1>5, <1>6, Mutates

\* Refused and the end of a mutation.
LEMMA Ends ==
    ASSUME CatalogAssumption, IInv, NEW t \in Tabs, Refused(t), UNCHANGED <<bootVars, rows, picked, tree, dialog>>
    PROVE  IInv' /\ Grown(rows, rows')
<1>1. MutationInv(Idle, rows, picked, lock) BY DEF MutationInv, Idle
<1> QED BY <1>1, Typing, Mutates DEF Refused

LEMMA EditKeeps ==
    ASSUME CatalogAssumption, IInv, NEW t \in Tabs, Edit(t)
    PROVE  IInv' /\ Grown(rows, rows')
<1>1. CASE LoadTree(t)
  <2>1. tree' = [tree EXCEPT ![t] = rows] /\ UNCHANGED <<bootVars, rows, picked>> /\ dialog' = dialog /\ h' = h
    BY <1>1 DEF LoadTree, FetchTree, nodes
  <2>2. /\ tree' \in [Tabs -> Seq(Nodes)] /\ tree'[t] = rows
        /\ \A u \in Tabs : u # t => tree'[u] = tree[u]
    BY <2>1, Typing
  <2>3. TreeInv(rows, rows, picked) BY Typing DEF TreeInv, RowsInv
  <2> QED BY <2>1, <2>2, <2>3, Typing, OneTab
<1>2. CASE CloseAppearance(t)
  <2>1. dialog' = [dialog EXCEPT ![t] = NoDialog] /\ UNCHANGED <<bootVars, rows, picked>> /\ tree' = tree /\ h' = h
    BY <1>2 DEF CloseAppearance
  <2>2. NoDialog \in [node: 0..MaxNodes, accent: Colour] BY Typing DEF NoDialog, Colour
  <2>3. /\ dialog' \in [Tabs -> [node: 0..MaxNodes, accent: Colour]] /\ dialog'[t] = NoDialog
        /\ \A u \in Tabs : u # t => dialog'[u] = dialog[u]
    BY <2>1, <2>2, Typing
  <2>4. DialogInv(NoDialog, rows, picked) BY DEF DialogInv
  <2> QED BY <2>1, <2>3, <2>4, Typing, OneTab
<1>3. CASE SubmitAppearance(t)
  <2> DEFINE asked == [accent |-> dialog[t].accent]
  <2>1. Send(t, "load", dialog[t].node, asked) /\ Serving # {} /\ dialog[t] # NoDialog
    BY <1>3 DEF SubmitAppearance
  <2>2. UNCHANGED <<bootVars, rows, picked, tree, dialog>> BY <1>3 DEF SubmitAppearance
  <2>3. dialog[t].node \in DOMAIN rows /\ OwnColour(dialog[t].accent, dialog[t].node, picked)
    BY <2>1, Typing DEF DialogInv
  <2>4. dialog[t].node \in 0..MaxNodes /\ dialog[t].accent \in Colour BY Typing
  <2>5. asked \in [accent: Colour] /\ asked.accent = dialog[t].accent BY <2>4
  <2>6. asked \in Change /\ asked \in Asked BY <2>5 DEF Change, Asked
  <2> HIDE DEF asked
  <2> QED BY <2>1, <2>2, <2>3, <2>4, <2>5, <2>6, Sends
<1>4. ASSUME NEW level \in Level, NEW parent \in 0..Len(tree[t]), NEW name \in Names, AddNode(t, level, parent, name)
      PROVE  IInv' /\ Grown(rows, rows')
  <2> DEFINE new == Node(level, parent, name)
  <2>1. Send(t, "parent", 0, new) /\ Serving # {} BY <1>4 DEF AddNode, Ready
  <2>2. UNCHANGED <<bootVars, rows, picked, tree, dialog>> BY <1>4 DEF AddNode
  <2>3. tree[t] \in Seq(Nodes) /\ Len(tree[t]) <= Len(rows) /\ Len(rows) \in 0..MaxNodes
    BY Typing DEF TreeInv
  <2>4. parent \in 0..MaxNodes /\ 0 \in 0..MaxNodes BY <2>3, Typing
  <2>5. new \in Nodes /\ new.accent = NoColour BY <2>4 DEF Node, Nodes
  <2>6. new \in Asked BY <2>5 DEF Asked
  <2> HIDE DEF new
  <2> QED BY <2>1, <2>2, <2>4, <2>5, <2>6, Sends
<1>5. ASSUME NEW n \in Listed(t), ToggleActive(t, n) PROVE IInv' /\ Grown(rows, rows')
  <2> DEFINE asked == [active |-> ~tree[t][n].active]
  <2>1. Send(t, "load", n, asked) /\ Serving # {} BY <1>5 DEF ToggleActive, Ready
  <2>2. UNCHANGED <<bootVars, rows, picked, tree, dialog>> BY <1>5 DEF ToggleActive
  <2>3. n \in DOMAIN tree[t] BY DEF Listed
  <2>4. n \in DOMAIN rows /\ n \in 0..MaxNodes BY <2>3, Typing
  <2>5. asked \in [active: BOOLEAN] /\ DOMAIN asked = {"active"} OBVIOUS
  <2>6. asked \notin [accent: Colour] BY <2>5
  <2>7. asked \in Change /\ asked \in Asked BY <2>5 DEF Change, Asked
  <2> HIDE DEF asked
  <2> QED BY <2>1, <2>2, <2>4, <2>6, <2>7, Sends
<1>6. ASSUME NEW n \in Listed(t), OpenAppearance(t, n) PROVE IInv' /\ Grown(rows, rows')
  <2> DEFINE d == [node |-> n, accent |-> tree[t][n].accent]
  <2>1. dialog' = [dialog EXCEPT ![t] = d] /\ UNCHANGED <<bootVars, rows, picked>> /\ tree' = tree /\ h' = h
    BY <1>6 DEF OpenAppearance
  <2>2. n \in DOMAIN tree[t] BY DEF Listed
  <2>3. n \in DOMAIN rows /\ n \in 0..MaxNodes /\ tree[t][n] \in Nodes BY <2>2, Typing
  <2>4. tree[t][n].accent \in Colour /\ OwnColour(tree[t][n].accent, n, picked)
    BY <2>2, <2>3, Typing DEF Nodes, Colour, TreeInv
  <2>5. d \in [node: 0..MaxNodes, accent: Colour] /\ DialogInv(d, rows, picked) BY <2>3, <2>4 DEF DialogInv
  <2> HIDE DEF d
  <2>6. /\ dialog' \in [Tabs -> [node: 0..MaxNodes, accent: Colour]] /\ dialog'[t] = d
        /\ \A u \in Tabs : u # t => dialog'[u] = dialog[u]
    BY <2>1, <2>5, Typing
  <2> QED BY <2>1, <2>5, <2>6, Typing, OneTab
<1>7. ASSUME NEW colour \in Colours \cup {NoColour}, PickColour(t, colour) PROVE IInv' /\ Grown(rows, rows')
  <2> DEFINE n == dialog[t].node
             d == [dialog[t] EXCEPT !.accent = colour]
             pk == [picked EXCEPT ![n] = @ \cup {colour}]
  <2>1. /\ dialog' = [dialog EXCEPT ![t].accent = colour] /\ picked' = pk /\ dialog[t] # NoDialog
        /\ UNCHANGED <<bootVars, rows>> /\ tree' = tree /\ h' = h
    BY <1>7 DEF PickColour
  <2>2. n \in DOMAIN rows /\ n \in 1..MaxNodes /\ dialog[t] \in [node: 0..MaxNodes, accent: Colour]
    BY <2>1, Typing DEF DialogInv
  <2>3. picked \in [1..MaxNodes -> SUBSET Colour] BY DEF IInv
  <2>4. /\ pk \in [1..MaxNodes -> SUBSET Colour] /\ colour \in pk[n]
        /\ \A i \in 1..MaxNodes : picked[i] \subseteq pk[i]
    BY <2>2, <2>3 DEF Colour
  <2>5. d \in [node: 0..MaxNodes, accent: Colour] /\ d.node = n /\ d.accent = colour
    BY <2>2 DEF Colour
  <2>6. DialogInv(d, rows, pk) BY <2>2, <2>4, <2>5 DEF DialogInv, OwnColour
  <2>7. /\ dialog' \in [Tabs -> [node: 0..MaxNodes, accent: Colour]] /\ dialog'[t] = d
        /\ \A u \in Tabs : u # t => dialog'[u] = dialog[u]
    BY <2>1, <2>5, Typing
  <2> HIDE DEF n, d, pk
  <2>8. Grown(rows, rows) BY Typing DEF Grown, SameName
  <2>9. \A i \in DOMAIN rows : picked[i] \subseteq pk[i] BY <2>4, Typing
  <2>10. TabsInv(tree, dialog, h, rows, picked, lock) BY DEF IInv
  <2>11. TabsInv(tree, dialog, h, rows, pk, lock) BY <2>8, <2>9, <2>10, Typing, TabsGrow
  <2>12. TabsInv(tree, dialog', h, rows, pk, lock)
    <3>1. ASSUME NEW u \in Tabs PROVE DialogInv(dialog'[u], rows, pk)
      <4>1. CASE u = t BY <4>1, <2>6, <2>7
      <4>2. CASE u # t BY <4>2, <2>7, <2>11 DEF TabsInv
      <4> QED BY <4>1, <4>2
    <3> QED BY <3>1, <2>7, <2>11 DEF TabsInv
  <2>13. RowsInv(rows, pk) BY <2>9, Typing DEF RowsInv, OwnColour
  <2>14. \A i \in DOMAIN Plan : Plan[i].accent \in pk[i]
    <3>1. DOMAIN Plan \subseteq 1..MaxNodes BY DEF CatalogAssumption
    <3> QED BY <3>1, <2>4 DEF IInv
  <2>15. LockInv(lock, boot, rows) BY DEF IInv
  <2>16. lock' = lock /\ boot' = boot /\ rows' = rows BY <2>1 DEF bootVars
  <2> QED BY <2>1, <2>4, <2>8, <2>12, <2>13, <2>14, <2>15, <2>16 DEF IInv
<1> QED BY <1>1, <1>2, <1>3, <1>4, <1>5, <1>6, <1>7 DEF Edit

LEMMA AnswerKeeps ==
    ASSUME CatalogAssumption, IInv, NEW t \in Tabs, Answer(t)
    PROVE  IInv' /\ Grown(rows, rows')
<1>1. CASE CheckParent(t)
  <2>1. UNCHANGED <<bootVars, rows, picked, tree, dialog>> /\ h[t].step = "parent" BY <1>1 DEF CheckParent
  <2>2. CASE Fits(h[t].asked, rows)
    <3> DEFINE k == [h[t] EXCEPT !.step = "insert"]
    <3>1. h' = [h EXCEPT ![t].step = "insert"]
      BY <1>1, <2>2 DEF CheckParent, Fits, nodes
    <3>2. h[t] \in Mutation BY Typing
    <3>3. k \in Mutation /\ k.step = "insert" /\ k.asked = h[t].asked BY <3>2 DEF Mutation, Steps
    <3>4. h' = [h EXCEPT ![t] = k] BY <3>1
    <3> HIDE DEF k
    <3>5. MutationInv(k, rows, picked, lock) BY <2>1, <2>2, <3>3, Typing DEF MutationInv
    <3> QED BY <2>1, <3>3, <3>4, <3>5, Mutates
  <2>3. CASE ~Fits(h[t].asked, rows)
    <3>1. Refused(t) BY <1>1, <2>3 DEF CheckParent, Fits, nodes
    <3> QED BY <2>1, <3>1, Ends
  <2> QED BY <2>2, <2>3
<1>2. CASE InsertNode(t)
  <2>1. UNCHANGED <<bootVars, picked, tree, dialog>> /\ h[t].step = "insert" BY <1>2 DEF InsertNode
  <2>2. CASE NewName(h[t].asked) /\ Len(rows) < MaxNodes
    <3> DEFINE k == [Idle EXCEPT !.step = "refetch"]
               b == Append(rows, h[t].asked)
    <3>1. rows' = b /\ h' = [h EXCEPT ![t] = k] BY <1>2, <2>2 DEF InsertNode, nodes
    <3>2. /\ h[t].asked \in Nodes /\ h[t].asked.accent = NoColour /\ Fits(h[t].asked, rows)
          /\ lock = "completed"
      BY <2>1, Typing DEF MutationInv
    <3>3. \A i \in DOMAIN rows : ~SameName(rows[i], h[t].asked) BY <2>2 DEF NewName, nodes
    <3>4. OwnColour(h[t].asked.accent, Len(rows) + 1, picked) BY <3>2 DEF OwnColour
    <3>5. RowsInv(b, picked) /\ Grown(rows, b) BY <2>2, <3>2, <3>3, <3>4, Typing, AppendKeeps
    <3>6. k \in Mutation /\ k.step = "refetch"
      <4>1. Idle \in Mutation BY Typing
      <4> QED BY <4>1 DEF Mutation, Steps
    <3> HIDE DEF b, k
    <3>7. b \in Seq(Nodes) BY <3>5 DEF RowsInv
    <3>8. LockInv(lock, boot, b) BY <3>2, <3>5, <3>7, Typing, LockKeeps DEF IInv
    <3>9. TabsInv(tree, dialog, h, b, picked, lock) BY <3>5, <3>7, Typing, TabsGrow DEF IInv
    <3>10. TabsInv(tree, dialog, h', b, picked, lock)
      <4>1. h' \in [Tabs -> Mutation] /\ h'[t] = k /\ \A u \in Tabs : u # t => h'[u] = h[u]
        BY <3>1, <3>6, Typing
      <4>2. MutationInv(k, b, picked, lock) BY <3>2, <3>6 DEF MutationInv
      <4>3. \A u \in Tabs : MutationInv(h'[u], b, picked, lock) BY <4>1, <4>2, <3>9 DEF TabsInv
      <4> QED BY <4>1, <4>3, <3>9 DEF TabsInv
    <3>11. tree' = tree /\ dialog' = dialog /\ picked' = picked /\ lock' = lock /\ boot' = boot
      BY <2>1 DEF bootVars
    <3> QED BY <3>1, <3>5, <3>8, <3>10, <3>11 DEF IInv
  <2>3. CASE ~(NewName(h[t].asked) /\ Len(rows) < MaxNodes)
    <3>1. Refused(t) /\ rows' = rows BY <1>2, <2>3 DEF InsertNode, nodes
    <3> QED BY <2>1, <3>1, Ends
  <2> QED BY <2>2, <2>3
<1>3. CASE LoadNode(t)
  <2> DEFINE n == h[t].node
             seen == [f \in DOMAIN h[t].asked |-> rows[n][f]]
             k == [h[t] EXCEPT !.step = "save", !.seen = seen]
  <2>1. UNCHANGED <<bootVars, rows, picked, tree, dialog>> /\ h[t].step = "load" BY <1>3 DEF LoadNode
  <2>2. h' = [h EXCEPT ![t].step = "save", ![t].seen = seen] BY <1>3 DEF LoadNode, nodes
  <2>3. h' = [h EXCEPT ![t] = k] BY <2>2, Typing
  <2>4. /\ h[t] \in Mutation /\ MutationInv(h[t], rows, picked, lock)
        /\ n \in DOMAIN rows /\ h[t].asked \in Change
    BY <2>1, Typing DEF MutationInv
  <2>5. rows[n] \in Nodes BY <2>4, Typing
  <2>6. \/ h[t].asked \in [active: BOOLEAN] /\ seen \in [active: BOOLEAN]
        \/ h[t].asked \in [accent: Colour] /\ seen \in [accent: Colour]
    <3>1. CASE h[t].asked \in [active: BOOLEAN]
      <4>1. DOMAIN h[t].asked = {"active"} BY <3>1
      <4>2. rows[n].active \in BOOLEAN BY <2>5 DEF Nodes
      <4>3. seen = [active |-> rows[n].active] BY <4>1
      <4> QED BY <3>1, <4>2, <4>3
    <3>2. CASE h[t].asked \in [accent: Colour]
      <4>1. DOMAIN h[t].asked = {"accent"} BY <3>2
      <4>2. rows[n].accent \in Colour BY <2>5 DEF Nodes, Colour
      <4>3. seen = [accent |-> rows[n].accent] BY <4>1
      <4> QED BY <3>2, <4>2, <4>3
    <3> QED BY <3>1, <3>2, <2>4 DEF Change
  <2>7. seen \in Asked BY <2>6 DEF Asked, Change
  <2> HIDE DEF seen
  <2>8. k \in Mutation /\ k.step = "save" /\ k.seen = seen /\ k.asked = h[t].asked /\ k.node = n
    BY <2>4, <2>7 DEF Mutation, Steps
  <2> HIDE DEF k
  <2>9. MutationInv(k, rows, picked, lock) BY <2>1, <2>4, <2>6, <2>8 DEF MutationInv
  <2> QED BY <2>1, <2>3, <2>8, <2>9, Mutates
<1>4. CASE SaveNode(t)
  <2> DEFINE n == h[t].node
             v == Patched(rows[n], h[t].asked, h[t].seen)
             b == [rows EXCEPT ![n] = v]
             k == [Idle EXCEPT !.step = "refetch"]
  <2>1. /\ UNCHANGED <<bootVars, picked, tree>> /\ h[t].step = "save"
        /\ rows' = b /\ dialog' = [dialog EXCEPT ![t] = NoDialog] /\ h' = [h EXCEPT ![t] = k]
    BY <1>4 DEF SaveNode, Patched
  <2>2. /\ MutationInv(h[t], rows, picked, lock) /\ n \in DOMAIN rows /\ lock = "completed"
        /\ \/ h[t].asked \in [active: BOOLEAN] /\ h[t].seen \in [active: BOOLEAN]
           \/ h[t].asked \in [accent: Colour] /\ h[t].seen \in [accent: Colour]
    BY <2>1, Typing DEF MutationInv
  <2>3. rows[n] \in Nodes /\ OwnColour(rows[n].accent, n, picked) BY <2>2, Typing DEF RowsInv
  <2>4. h[t].asked \in [accent: Colour] => OwnColour(h[t].asked.accent, n, picked)
    BY <2>1, <2>2 DEF MutationInv
  <2>5. /\ v \in Nodes /\ SameName(rows[n], v)
        /\ v.accent = rows[n].accent \/ (h[t].asked \in [accent: Colour] /\ v.accent = h[t].asked.accent)
    BY <2>2, <2>3, PatchKeepsPlace
  <2> HIDE DEF v
  <2>6. OwnColour(v.accent, n, picked) BY <2>3, <2>4, <2>5
  <2>7. RowsInv(b, picked) /\ Grown(rows, b)
    <3> HIDE DEF n
    <3> QED BY <2>2, <2>5, <2>6, Typing, PatchKeeps
  <2>8. k \in Mutation /\ k.step = "refetch"
    <3>1. Idle \in Mutation BY Typing
    <3> QED BY <3>1 DEF Mutation, Steps
  <2> HIDE DEF b, k
  <2>9. b \in Seq(Nodes) BY <2>7 DEF RowsInv
  <2>10. LockInv(lock, boot, b) BY <2>2, <2>7, <2>9, Typing, LockKeeps DEF IInv
  <2>11. TabsInv(tree, dialog, h, b, picked, lock) BY <2>7, <2>9, Typing, TabsGrow DEF IInv
  <2>12. TabsInv(tree, dialog', h', b, picked, lock)
    <3>1. h' \in [Tabs -> Mutation] /\ h'[t] = k /\ \A u \in Tabs : u # t => h'[u] = h[u]
      BY <2>1, <2>8, Typing
    <3>2. NoDialog \in [node: 0..MaxNodes, accent: Colour] BY Typing DEF NoDialog, Colour
    <3>3. /\ dialog' \in [Tabs -> [node: 0..MaxNodes, accent: Colour]] /\ dialog'[t] = NoDialog
          /\ \A u \in Tabs : u # t => dialog'[u] = dialog[u]
      BY <2>1, <3>2, Typing
    <3>4. MutationInv(k, b, picked, lock) BY <2>2, <2>8 DEF MutationInv
    <3>5. DialogInv(NoDialog, b, picked) BY DEF DialogInv
    <3>6. \A u \in Tabs : MutationInv(h'[u], b, picked, lock) /\ DialogInv(dialog'[u], b, picked)
      BY <3>1, <3>3, <3>4, <3>5, <2>11 DEF TabsInv
    <3> QED BY <3>1, <3>3, <3>6, <2>11 DEF TabsInv
  <2>13. tree' = tree /\ picked' = picked /\ lock' = lock /\ boot' = boot BY <2>1 DEF bootVars
  <2> QED BY <2>1, <2>7, <2>10, <2>12, <2>13 DEF IInv
<1>5. CASE Refetch(t)
  <2>1. UNCHANGED <<bootVars, rows, picked>> /\ dialog' = dialog /\ h' = [h EXCEPT ![t] = Idle]
    BY <1>5 DEF Refetch, Refused
  <2>2. /\ tree' \in [Tabs -> Seq(Nodes)] /\ tree'[t] \in {tree[t], rows}
        /\ \A u \in Tabs : u # t => tree'[u] = tree[u]
    BY <1>5, Typing DEF Refetch, FetchTree, nodes
  <2>3. TreeInv(tree'[t], rows, picked) BY <2>2, Typing DEF TreeInv, RowsInv
  <2>4. h' \in [Tabs -> Mutation] /\ h'[t] = Idle /\ \A u \in Tabs : u # t => h'[u] = h[u] BY <2>1, Typing
  <2>5. MutationInv(Idle, rows, picked, lock) BY DEF MutationInv, Idle
  <2> QED BY <2>1, <2>2, <2>3, <2>4, <2>5, Typing, OneTab
<1>6. CASE RequestLost(t)
  <2>1. Refused(t) /\ UNCHANGED <<bootVars, rows, picked, tree, dialog>> BY <1>6 DEF RequestLost
  <2> QED BY <2>1, Ends
<1> QED BY <1>1, <1>2, <1>3, <1>4, <1>5, <1>6 DEF Answer

-----------------------------------------------------------------------------
LEMMA NextKeeps ==
    ASSUME CatalogAssumption, IInv, [Next]_vars
    PROVE  IInv' /\ Grown(rows, rows')
<1>1. CASE SeedLockNext /\ UNCHANGED <<picked, tree, dialog, h, edits>> BY <1>1, InstancesKeep
<1>2. ASSUME NEW t \in Tabs, Edit(t) \/ Answer(t) PROVE IInv' /\ Grown(rows, rows')
  BY <1>2, EditKeeps, AnswerKeeps
<1>3. CASE UNCHANGED vars
  <2>1. /\ rows' = rows /\ lock' = lock /\ boot' = boot /\ picked' = picked /\ tree' = tree
        /\ dialog' = dialog /\ h' = h
    BY <1>3 DEF vars, bootVars
  <2>2. Grown(rows, rows') BY <2>1 DEF Grown, SameName, IInv, RowsInv
  <2> QED BY <2>1, <2>2 DEF IInv
<1> QED BY <1>1, <1>2, <1>3 DEF Next

LEMMA InitInv == ASSUME CatalogAssumption, Init PROVE IInv
<1>1. rows = <<>> /\ lock = "absent" BY DEF Init, SeedLockInit
<1>2. rows \in Seq(Nodes) /\ Len(rows) = 0 /\ DOMAIN rows = {} BY <1>1
<1>3. RowsInv(rows, picked) BY <1>2 DEF RowsInv, CatalogAssumption
<1>4. LockInv(lock, boot, rows)
  <2>1. 0 \in 0..Len(Plan) /\ "down" \in Phase /\ Len(Plan) >= 0 BY DEF CatalogAssumption, Phase
  <2>2. boot = [i \in Instances |-> [phase |-> "down", inserted |-> 0]] BY DEF Init, SeedLockInit
  <2>3. boot \in [Instances -> [phase: Phase, inserted: 0..Len(Plan)]] BY <2>1, <2>2
  <2>4. \A i \in Instances : boot[i].phase = "down" BY <2>2
  <2> QED BY <1>1, <1>2, <2>1, <2>3, <2>4 DEF LockInv, Seeding
<1>5. picked \in [1..MaxNodes -> SUBSET Colour] /\ \A n \in DOMAIN Plan : Plan[n].accent \in picked[n]
  <2>1. /\ Plan \in Seq(Nodes) /\ DOMAIN Plan \subseteq 1..MaxNodes
        /\ \A n \in DOMAIN Plan : Plan[n].accent \in Colour
    <3>1. Plan \in Seq(Nodes) /\ DOMAIN Plan \subseteq 1..MaxNodes BY DEF CatalogAssumption
    <3>2. \A n \in DOMAIN Plan : Plan[n] \in Nodes BY <3>1
    <3>3. \A r \in Nodes : r.accent \in Colour BY DEF Nodes, Colour
    <3> QED BY <3>1, <3>2, <3>3
  <2>2. picked = [n \in 1..MaxNodes |-> IF n \in DOMAIN Plan THEN {Plan[n].accent} ELSE {}] BY DEF Init
  <2> QED BY <2>1, <2>2
<1>6. TabsInv(tree, dialog, h, rows, picked, lock)
  <2>1. tree = [t \in Tabs |-> <<>>] /\ dialog = [t \in Tabs |-> NoDialog] /\ h = [t \in Tabs |-> Idle]
    BY DEF Init
  <2>2. NoDialog \in [node: 0..MaxNodes, accent: Colour] /\ Idle \in Mutation /\ <<>> \in Seq(Nodes)
    BY DEF NoDialog, Idle, Mutation, Steps, Asked, Colour, CatalogAssumption
  <2>3. TreeInv(<<>>, rows, picked) BY <1>2 DEF TreeInv
  <2>4. DialogInv(NoDialog, rows, picked) BY DEF DialogInv
  <2>5. MutationInv(Idle, rows, picked, lock) BY DEF MutationInv, Idle
  <2> QED BY <2>1, <2>2, <2>3, <2>4, <2>5 DEF TabsInv
<1> QED BY <1>3, <1>4, <1>5, <1>6 DEF IInv

\* In every reachable state what the tabs show and send was true of the
\* collection once, and stays true enough: the invariant the rest follows from.
THEOREM Invariance == Spec => []IInv
<1>1. Init => IInv BY InitInv, CatalogAssumption
<1>2. IInv /\ [Next]_vars => IInv' BY NextKeeps, CatalogAssumption
<1> QED BY <1>1, <1>2, PTL DEF Spec

\* Every variable keeps its type.
THEOREM Typed == Spec => []TypeOK
<1>1. IInv => TypeOK
  <2> SUFFICES ASSUME IInv PROVE TypeOK OBVIOUS
  <2>1. SeedLockOK /\ rows \in Seq(Nodes) /\ Len(rows) <= MaxNodes
    BY DEF IInv, LockInv, RowsInv, SeedLockOK
  <2>2. \A t \in Tabs : tree[t] \in Seq(Nodes) /\ h[t].step \in Steps BY DEF IInv, TabsInv, Mutation
  <2> QED BY <2>1, <2>2 DEF TypeOK
<1> QED BY <1>1, Invariance, PTL

\* The tree stays a tree and siblings keep different names, whatever any
\* number of administrators add from trees of any age (catalog.service.ts:58).
THEOREM AlwaysATree == Spec => []TreeIsSound
<1>1. IInv => TreeIsSound BY DEF IInv, RowsInv, TreeIsSound, nodes
<1> QED BY <1>1, Invariance, PTL

\* No inherited colour is ever saved as a node's own (appearance-dialog.tsx:27).
THEOREM NothingFrozen == Spec => []InheritanceKept
<1>1. IInv => InheritanceKept BY DEF IInv, RowsInv, OwnColour, InheritanceKept, nodes
<1> QED BY <1>1, Invariance, PTL

-----------------------------------------------------------------------------
(***************************************************************************)
(* The seed: every step is one of SeededOnce, or none.                     *)
(***************************************************************************)
LEMMA SeedStays ==
    ASSUME CatalogAssumption, rows \in Seq(Nodes), rows' \in Seq(Nodes), Grown(rows, rows'), Seeded
    PROVE  Seeded'
<1>1. ASSUME NEW i \in DOMAIN Plan PROVE \E j \in DOMAIN rows' : SameName(rows'[j], Plan[i])
  <2>1. PICK j \in DOMAIN rows : SameName(rows[j], Plan[i]) BY DEF Seeded
  <2>2. j \in DOMAIN rows' BY DEF Grown
  <2> QED BY <2>1, <2>2 DEF Grown, SameName
<1> QED BY <1>1 DEF Seeded

LEMMA ServedIsSeeded == ASSUME CatalogAssumption, IInv, Serving # {} PROVE Seeded
<1>1. lock = "completed" BY DEF IInv, LockInv, Serving
<1>2. Len(rows) >= Len(Plan) /\ \A n \in DOMAIN Plan : SameName(rows[n], Plan[n])
  BY <1>1 DEF IInv, LockInv
<1>3. DOMAIN Plan \subseteq DOMAIN rows BY <1>2 DEF IInv, RowsInv, CatalogAssumption
<1> QED BY <1>2, <1>3 DEF Seeded

LEMMA StepRefines ==
    ASSUME CatalogAssumption, IInv, IInv', Grown(rows, rows'), [Next]_vars
    PROVE  [Abstract!Next]_<<Seeded, Serving>>
<1>1. Seeded => Seeded' BY SeedStays DEF IInv, RowsInv
<1>2. Serving' # {} => Seeded'
  <2>1. Serving' # {} => lock' = "completed" BY DEF IInv, LockInv, Serving
  <2>2. lock' = "completed" => Len(rows') >= Len(Plan) /\ \A n \in DOMAIN Plan : SameName(rows'[n], Plan[n])
    BY DEF IInv, LockInv
  <2>3. rows' \in Seq(Nodes) /\ Plan \in Seq(Nodes) BY DEF IInv, RowsInv, CatalogAssumption
  <2>4. lock' = "completed" => DOMAIN Plan \subseteq DOMAIN rows' BY <2>2, <2>3
  <2> QED BY <2>1, <2>2, <2>4 DEF Seeded
<1>3. CASE Serving' = Serving
  BY <1>1, <1>3 DEF Abstract!Next, Abstract!Seed, Seeded
<1>4. ASSUME NEW i \in Instances, NEW phase, Go(i, phase), rows' = rows
      PROVE  [Abstract!Next]_<<Seeded, Serving>>
  <2>1. Seeded' = Seeded BY <1>4 DEF Seeded
  <2>2. boot \in [Instances -> [phase: Phase, inserted: 0..Len(Plan)]] BY DEF IInv, LockInv
  <2>3. boot'[i].phase = phase /\ \A j \in Instances : j # i => boot'[j] = boot[j] BY <1>4, <2>2 DEF Go
  <2>4. CASE phase = "serving"
    <3>1. Serving' = Serving \cup {i} BY <2>3, <2>4 DEF Serving
    <3>2. Seeded BY <1>2, <2>1, <3>1
    <3> QED BY <2>1, <3>1, <3>2 DEF Abstract!Next, Abstract!Serve
  <2>5. CASE phase # "serving"
    <3>1. Serving' = Serving \ {i} BY <2>3, <2>5 DEF Serving
    <3> QED BY <2>1, <3>1 DEF Abstract!Next, Abstract!Stop
  <2> QED BY <2>4, <2>5
<1>5. ASSUME NEW i \in Instances, SeedRow(i) PROVE Serving' = Serving
  <2>1. boot \in [Instances -> [phase: Phase, inserted: 0..Len(Plan)]] BY DEF IInv, LockInv
  <2>2. /\ boot[i].phase = "seed" /\ boot'[i].phase \in {"seed", "complete"}
        /\ \A j \in Instances : j # i => boot'[j] = boot[j]
    BY <1>5, <2>1 DEF SeedRow
  <2> QED BY <2>2 DEF Serving
<1>6. ASSUME NEW t \in Tabs, Edit(t) \/ Answer(t) PROVE Serving' = Serving
  <2>1. boot' = boot
    BY <1>6 DEF Edit, LoadTree, CloseAppearance, SubmitAppearance, AddNode, ToggleActive, OpenAppearance,
       PickColour, Answer, CheckParent, InsertNode, LoadNode, SaveNode, Refetch, RequestLost, bootVars
  <2> QED BY <2>1 DEF Serving
<1>7. CASE UNCHANGED vars BY <1>3, <1>7 DEF vars, bootVars, Serving
<1>8. CASE SeedLockNext
  <2>1. PICK i \in Instances : \/ SeedRow(i)
                               \/ Boot(i) \/ TryAcquire(i) \/ Complete(i) \/ Poll(i) \/ TimeOut(i) \/ Die(i)
    BY <1>8 DEF SeedLockNext
  <2>2. CASE SeedRow(i) BY <1>3, <1>5, <2>2
  <2>3. CASE Boot(i) \/ TryAcquire(i) \/ Complete(i) \/ Poll(i) \/ TimeOut(i) \/ Die(i)
    <3>1. rows' = rows /\ \E phase \in Phase : Go(i, phase)
      BY <2>3 DEF Boot, TryAcquire, Complete, Poll, TimeOut, Die, Phase
    <3> QED BY <1>4, <3>1
  <2> QED BY <2>1, <2>2, <2>3
<1> QED BY <1>3, <1>6, <1>7, <1>8 DEF Next

\* Every behaviour of the boot and of the editor is one of SeededOnce: the
\* seed is complete before anybody serves, and stays so, although any instance
\* may die at any moment (seed-lock.service.ts:20).
THEOREM SeedComesFirst == Spec => SeededBeforeServing
<1>1. Init => Abstract!Init
  <2> SUFFICES ASSUME Init PROVE Abstract!Init OBVIOUS
  <2>1. rows = <<>> /\ Serving = {} BY DEF Init, SeedLockInit, Serving
  <2>2. 1 \in DOMAIN Plan BY CatalogAssumption DEF CatalogAssumption
  <2>3. ~Seeded BY <2>1, <2>2 DEF Seeded
  <2> QED BY <2>1, <2>3 DEF Abstract!Init
<1>2. IInv /\ IInv' /\ [Next]_vars => [Abstract!Next]_<<Seeded, Serving>>
  BY NextKeeps, StepRefines, CatalogAssumption
<1> QED BY <1>1, <1>2, Invariance, PTL DEF Spec, SeededBeforeServing, Abstract!Spec
=============================================================================
