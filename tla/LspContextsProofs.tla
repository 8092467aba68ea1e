----------------------------- MODULE LspContextsProofs -----------------------------
(***************************************************************************)
(* Proofs about LspContexts, for any number of handlers, documents and     *)
(* folders: a result id that is still current stands for diagnostics made  *)
(* with the context of now, and in a spaced session every folder comes to  *)
(* have the configuration on disk.                                         *)
(***************************************************************************)
EXTENDS LspContexts, FiniteSetTheorems, TLAPS

Context == [root : Folder, config : Config]
MaybeConfig == Config \cup {None}
ResultId == (0..MaxVersion) \X Nat

\* The handlers in progress, by what they are at.
Reloading == [pc : {"adopt", "clear", "bump"}, loaded : Seq(Context)]
Moving == [pc : {"folders", "extend", "clear", "bump"},
           added : SUBSET Folder, removed : SUBSET Folder, loaded : Seq(Context)]
Answering == [pc : {"route", "cache", "insert", "answer"}, doc : Doc,
              kind : {"items", "gate", "edits"}, id : ResultId, config : MaybeConfig]

TypeOK ==
  /\ session \in Sessions /\ disk \in Config /\ pending \in BOOLEAN
  /\ wanted \in SUBSET Folder /\ folders \in SUBSET Folder
  /\ contexts \in Seq(Context)
  /\ standalone \in [Doc -> MaybeConfig] /\ generation \in Nat
  /\ version \in [Doc -> 1..MaxVersion]
  /\ held \in [Doc -> [id : ResultId, config : MaybeConfig]]
  /\ task \in [Task -> {Idle} \cup Reloading \cup Moving \cup Answering]
  /\ reloads \in Nat /\ moves \in Nat

-----------------------------------------------------------------------------
(* The result ids.                                                          *)

\* A handler that answers a pull, and what it has found, is as old as its result id.
Fresh(d, id, config) ==
  Bumped /\ id[2] = generation /\ Routes(d) # {} => config = contexts[Route(d)].config

\* No result id is from a generation to come.
IdsPast ==
  /\ \A d \in Doc : held[d].id[2] <= generation
  /\ \A t \in Task : task[t] \in Answering => task[t].id[2] <= generation

\* What goes out under a result id, and what went out.
IdsFresh ==
  /\ \A d \in Doc : held[d].id # NoId => Fresh(d, held[d].id, held[d].config)
  /\ \A t \in Task : task[t] \in Answering /\ task[t].kind = "items" =>
       /\ At(t, "answer") => Fresh(task[t].doc, task[t].id, task[t].config)
       /\ task[t].pc \in {"cache", "insert"} /\ Bumped /\ task[t].id[2] = generation =>
            Routes(task[t].doc) = {}

IInv == TypeOK /\ IdsPast /\ IdsFresh

-----------------------------------------------------------------------------
\* A handler's place in its code says what it is at.
LEMMA Shape ==
  ASSUME TypeOK, NEW t \in Task
  PROVE  /\ At(t, "adopt") => task[t] \in Reloading
         /\ task[t].pc \in {"folders", "extend"} => task[t] \in Moving
         /\ task[t].pc \in {"clear", "bump"} => task[t] \in Reloading \cup Moving
         /\ task[t].pc \in {"route", "cache", "insert", "answer"} <=> task[t] \in Answering
         /\ At(t, "idle") <=> task[t] = Idle
BY DEF TypeOK, At, Idle, Reloading, Moving, Answering

\* A handler that goes on keeps what it is at.
LEMMA GoOn ==
  ASSUME TypeOK, NEW t \in Task, NEW to, Goto(t, to),
         \/ task[t] \in Reloading /\ to \in {"clear", "bump"}
         \/ task[t] \in Moving /\ to \in {"extend", "clear", "bump"}
         \/ task[t] \in Answering /\ to \in {"route", "cache", "insert", "answer"}
  PROVE  /\ task' \in [Task -> {Idle} \cup Reloading \cup Moving \cup Answering]
         /\ task'[t] = [task[t] EXCEPT !.pc = to] /\ task'[t].pc = to
         /\ task'[t] \in Answering <=> task[t] \in Answering
         /\ \A u \in Task \ {t} : task'[u] = task[u]
<1>1. task' = [task EXCEPT ![t].pc = to] BY DEF Goto
<1>2. task'[t] = [task[t] EXCEPT !.pc = to] /\ \A u \in Task \ {t} : task'[u] = task[u]
  BY <1>1 DEF TypeOK
<1>3. CASE task[t] \in Reloading /\ to \in {"clear", "bump"}
  <2>1. [task[t] EXCEPT !.pc = to] \in Reloading BY <1>3 DEF Reloading
  <2>2. task'[t] \in Reloading /\ task'[t].pc = to BY <1>2, <1>3, <2>1 DEF Reloading
  <2> QED BY <1>1, <1>2, <1>3, <2>2 DEF TypeOK, Reloading, Answering
<1>4. CASE task[t] \in Moving /\ to \in {"extend", "clear", "bump"}
  <2>1. [task[t] EXCEPT !.pc = to] \in Moving BY <1>4 DEF Moving
  <2>2. task'[t] \in Moving /\ task'[t].pc = to BY <1>2, <1>4, <2>1 DEF Moving
  <2> QED BY <1>1, <1>2, <1>4, <2>2 DEF TypeOK, Moving, Answering
<1>5. CASE task[t] \in Answering /\ to \in {"route", "cache", "insert", "answer"}
  <2>1. [task[t] EXCEPT !.pc = to] \in Answering BY <1>5 DEF Answering
  <2>2. task'[t] \in Answering /\ task'[t].pc = to BY <1>2, <1>5, <2>1 DEF Answering
  <2> QED BY <1>1, <1>2, <1>5, <2>2 DEF TypeOK
<1> QED BY <1>3, <1>4, <1>5

\* A handler that is set to something is at that, and no other moves.
LEMMA GoTo ==
  ASSUME TypeOK, NEW t \in Task,
         NEW next \in {Idle} \cup Reloading \cup Moving \cup Answering, Step(t, next)
  PROVE  /\ task' \in [Task -> {Idle} \cup Reloading \cup Moving \cup Answering]
         /\ task'[t] = next /\ \A u \in Task \ {t} : task'[u] = task[u]
BY DEF TypeOK, Step

-----------------------------------------------------------------------------
(* The folders.                                                             *)

\* A list of contexts has one for each of these folders, loaded from this configuration.
EachOnce(list, roots, config) ==
  /\ list \in Seq(Context)
  /\ roots = {list[i].root : i \in DOMAIN list}
  /\ \A i, j \in DOMAIN list : list[i].root = list[j].root => i = j
  /\ \A i \in DOMAIN list : list[i].config = config

\* In a spaced session one handler at a time replaces contexts.
OneAtATime ==
  \A t, u \in Task : /\ task[t].pc \in {"adopt", "folders", "extend", "clear", "bump"}
                     /\ task[u].pc \in {"adopt", "folders", "extend", "clear", "bump"}
                     => t = u

\* The server's folders are the client's but for the change a handler has yet to make.
FoldersFollow ==
  /\ (\A t \in Task : ~At(t, "folders")) => folders = wanted
  /\ \A t \in Task : At(t, "folders") =>
       /\ task[t].removed \subseteq folders /\ task[t].added \cap folders = {}
       /\ wanted = (folders \ task[t].removed) \cup task[t].added
  /\ \A t \in Task : At(t, "extend") =>
       task[t].removed \cap wanted = {} /\ task[t].added \subseteq wanted

\* The contexts follow the client's folders but for what a handler has yet to replace.
ContextsFollow ==
  ~pending /\ Loadable =>
    /\ (\A t \in Task : task[t].pc \notin {"adopt", "folders", "extend"}) =>
         EachOnce(contexts, wanted, disk)
    /\ \A t \in Task : At(t, "adopt") => EachOnce(task[t].loaded, wanted, disk)
    /\ \A t \in Task : task[t].pc \in {"folders", "extend"} =>
         /\ EachOnce(contexts, (wanted \ task[t].added) \cup task[t].removed, disk)
         /\ EachOnce(task[t].loaded, task[t].added, disk)

FoldersInv == OneAtATime /\ FoldersFollow /\ ContextsFollow

\* What a spaced session keeps.
SpacedInv == session.spaced => FoldersInv

\* A folder loaded is a context of the list, and no folder is loaded twice.
LEMMA LoadEachOnce ==
  ASSUME NEW R \in SUBSET Folder, disk \in Config
  PROVE  EachOnce(Load(R), R, disk)
<1> DEFINE n == Cardinality(R)
           order == SetToSeq(R)
<1>1. IsFiniteSet(R) /\ n \in Nat
  BY FolderAssumption, FS_Subset, FS_CardinalityType
<1>2. PICK f \in [1..n -> R] : IsInjective(f)
  <2>1. ExistsBijection(1..n, R) BY <1>1, FS_CardinalityType
  <2> QED BY <2>1 DEF ExistsBijection, Bijection, Injection, IsInjective
<1>3. order \in [1..n -> R] /\ IsInjective(order)
  BY <1>2 DEF SetToSeq
<1>4. \A r \in R : \E i \in 1..n : order[i] = r
  <2>1. order \in Injection(1..n, R) BY <1>3 DEF Injection, IsInjective
  <2>2. Cardinality(1..n) = n BY <1>1, FS_Interval
  <2>3. order \in Surjection(1..n, R) BY <1>1, <2>1, <2>2, FS_Injection
  <2> QED BY <2>3 DEF Surjection
<1> HIDE DEF order, n
<1>5. DOMAIN order = 1..n BY <1>3
<1>6. Load(R) = [i \in 1..n |-> [root |-> order[i], config |-> disk]]
  BY <1>5 DEF Load, order
<1>7. /\ Load(R) \in Seq(Context) /\ DOMAIN Load(R) = 1..n
      /\ \A i \in 1..n : Load(R)[i].root = order[i] /\ Load(R)[i].config = disk
  BY <1>1, <1>3, <1>6 DEF Context
<1> QED BY <1>3, <1>4, <1>5, <1>7 DEF EachOnce, IsInjective

\* What holds of 0, and of a number's successor when it holds of it, holds up to n.
LEMMA CountingUp ==
  ASSUME NEW n \in Nat, NEW A \in SUBSET (0..n), 0 \in A, \A m \in A : m < n => m + 1 \in A
  PROVE  A = 0..n
<1>1. SUFFICES ASSUME NEW k \in (0..n) \ A PROVE FALSE
  OBVIOUS
<1> DEFINE B == {m \in 0..k : m \notin A}
           back == [m \in B |-> m - 1]
<1>2. IsFiniteSet(B)
  <2>1. IsFiniteSet(0..k) /\ B \in SUBSET (0..k) BY FS_Interval
  <2> QED BY <2>1, FS_Subset
<1>3. \A m \in B : m - 1 \in B
  <2>1. SUFFICES ASSUME NEW m \in 0..k, m \notin A PROVE m - 1 \in 0..k /\ m - 1 \notin A
    OBVIOUS
  <2>2. m # 0 BY <2>1
  <2>3. m - 1 \in 0..n /\ m - 1 < n /\ (m - 1) + 1 = m BY <2>2
  <2>4. m - 1 \notin A BY <2>1, <2>3
  <2> QED BY <2>2, <2>4
<1>4. back \in Injection(B, B) BY <1>3 DEF Injection, IsInjective
<1>5. back \in Surjection(B, B) BY <1>2, <1>4, FS_Injection
<1>6. k \in B BY <1>1
<1>7. PICK m \in B : back[m] = k
  <2> HIDE DEF B, back
  <2> QED BY <1>5, <1>6 DEF Surjection
<1> QED BY <1>7

\* How the list of kept contexts grows along the list, as retain goes through it.
Grown(kept, list, removed) ==
  /\ kept \in [0..Len(list) -> Seq(Context)]
  /\ Kept(list, removed) = kept[Len(list)] /\ kept[0] = <<>>
  /\ \A i \in 1..Len(list) :
       kept[i] = IF list[i].root \in removed THEN kept[i - 1] ELSE Append(kept[i - 1], list[i])

\* It does grow so.
LEMMA KeptGrows ==
  ASSUME NEW list \in Seq(Context), NEW removed
  PROVE  \E kept : Grown(kept, list, removed)
<1> DEFINE n == Len(list)
           After(before, i) == IF list[i].root \in removed THEN before ELSE Append(before, list[i])
           Grows(f, m) == /\ f \in [0..m -> Seq(Context)] /\ f[0] = <<>>
                          /\ \A i \in 1..m : f[i] = After(f[i - 1], i)
           A == {m \in 0..n : \E f : Grows(f, m)}
           kept[i \in 0..n] == IF i = 0 THEN <<>> ELSE After(kept[i - 1], i)
<1>1. n \in Nat /\ \A i \in 1..n : list[i] \in Context OBVIOUS
<1>2. Kept(list, removed) = kept[n] BY DEF Kept
<1>3. ASSUME NEW before \in Seq(Context), NEW i \in 1..n PROVE After(before, i) \in Seq(Context)
  BY <1>1
<1>4. ASSUME NEW f, f = [i \in 0..n |-> IF i = 0 THEN <<>> ELSE After(f[i - 1], i)]
      PROVE  kept = [i \in 0..n |-> IF i = 0 THEN <<>> ELSE After(kept[i - 1], i)]
  <2> HIDE DEF After, n
  <2> QED BY <1>4
<1> HIDE DEF n, After, kept
<1>5. 0 \in A
  <2>1. Grows([i \in 0..0 |-> <<>>], 0) BY <1>1
  <2> HIDE DEF Grows
  <2> QED BY <2>1, <1>1
<1>6. ASSUME NEW m \in A, m < n PROVE m + 1 \in A
  <2>1. PICK f : Grows(f, m) BY <1>6
  <2> DEFINE g == [i \in 0..(m + 1) |-> IF i <= m THEN f[i] ELSE After(f[m], m + 1)]
  <2>2. m \in Nat /\ m + 1 \in 1..n /\ m + 1 \in 0..n BY <1>1, <1>6
  <2>3. f[m] \in Seq(Context) BY <2>1, <2>2
  <2>4. After(f[m], m + 1) \in Seq(Context) BY <1>3, <2>2, <2>3
  <2>5. \A i \in 0..m : f[i] \in Seq(Context) BY <2>1
  <2>6. g \in [0..(m + 1) -> Seq(Context)] BY <2>2, <2>4, <2>5
  <2>7. g[0] = <<>> BY <2>1, <2>2
  <2>8. ASSUME NEW i \in 1..(m + 1) PROVE g[i] = After(g[i - 1], i)
    <3>1. CASE i <= m
      <4>1. g[i] = f[i] /\ g[i - 1] = f[i - 1] /\ i \in 1..m BY <2>2, <3>1
      <4> QED BY <2>1, <4>1
    <3>2. CASE i = m + 1
      <4>1. g[i] = After(f[m], i) /\ g[i - 1] = f[m] BY <2>2, <3>2
      <4> QED BY <4>1
    <3> QED BY <2>2, <3>1, <3>2
  <2>9. Grows(g, m + 1) BY <2>6, <2>7, <2>8
  <2> HIDE DEF Grows
  <2> QED BY <2>2, <2>9
<1>7. A = 0..n
  <2>1. A \in SUBSET (0..n) OBVIOUS
  <2> HIDE DEF A
  <2> QED BY <1>1, <1>5, <1>6, <2>1, CountingUp
<1>8. PICK f : Grows(f, n)
  <2>1. n \in A
    <3> HIDE DEF A
    <3> QED BY <1>1, <1>7
  <2> QED BY <2>1
<1>9. f = [i \in 0..n |-> IF i = 0 THEN <<>> ELSE After(f[i - 1], i)]
  <2> DEFINE h == [i \in 0..n |-> IF i = 0 THEN <<>> ELSE After(f[i - 1], i)]
  <2>1. \A i \in 0..n : f[i] = h[i] BY <1>1, <1>8
  <2> QED BY <1>8, <2>1
<1>10. kept = [i \in 0..n |-> IF i = 0 THEN <<>> ELSE After(kept[i - 1], i)]
  BY <1>4, <1>9
<1>11. kept[0] = <<>> /\ \A i \in 1..n : kept[i] = After(kept[i - 1], i)
  BY <1>1, <1>10
<1> DEFINE C == {m \in 0..n : kept[m] \in Seq(Context)}
<1>12. C = 0..n
  <2>1. C \in SUBSET (0..n) /\ 0 \in C
    <3>1. kept[0] \in Seq(Context)
      <4>1. <<>> \in Seq(Context) OBVIOUS
      <4> QED BY <1>11, <4>1
    <3> QED BY <1>1, <3>1
  <2>2. ASSUME NEW m \in C, m < n PROVE m + 1 \in C
    <3>1. m + 1 \in 1..n /\ m + 1 \in 0..n /\ (m + 1) - 1 = m BY <1>1, <2>2
    <3> QED BY <1>3, <1>11, <2>2, <3>1
  <2> HIDE DEF C
  <2> QED BY <1>1, <2>1, <2>2, CountingUp
<1>13. kept \in [0..n -> Seq(Context)] BY <1>10, <1>12
<1>14. Grown(kept, list, removed) BY <1>2, <1>11, <1>13 DEF n, After, Grown
<1> QED BY <1>14

\* Of a list with a context for each of these folders, there are those of the folders
\* not removed.
LEMMA KeptEachOnce ==
  ASSUME NEW Q, NEW config, NEW list, EachOnce(list, Q, config), NEW removed
  PROVE  EachOnce(Kept(list, removed), Q \ removed, config)
<1> DEFINE n == Len(list)
           From(s, m) ==
             /\ \A i \in DOMAIN s : \E j \in 1..m : s[i] = list[j] /\ list[j].root \notin removed
             /\ \A j \in 1..m : list[j].root \notin removed => \E i \in DOMAIN s : s[i] = list[j]
             /\ \A i, j \in DOMAIN s : s[i].root = s[j].root => i = j
<1>1. list \in Seq(Context) /\ n \in Nat /\ DOMAIN list = 1..n BY DEF EachOnce
<1>0. PICK kept : Grown(kept, list, removed) BY <1>1, KeptGrows
<1>2. /\ kept \in [0..n -> Seq(Context)]
      /\ Kept(list, removed) = kept[n] /\ kept[0] = <<>>
      /\ \A i \in 1..n : kept[i] = IF list[i].root \in removed THEN kept[i - 1]
                                                    ELSE Append(kept[i - 1], list[i])
  BY <1>0 DEF Grown
<1> DEFINE C == {m \in 0..n : From(kept[m], m)}
<1> HIDE DEF n
<1>3. 0 \in C
  <2>1. From(kept[0], 0) BY <1>2
  <2> HIDE DEF From
  <2> QED BY <1>1, <2>1
<1>4. ASSUME NEW m \in C, m < n PROVE m + 1 \in C
  <2>1. m \in Nat /\ m + 1 \in 1..n /\ m + 1 \in 0..n /\ (m + 1) - 1 = m BY <1>1, <1>4
  <2>2. kept[m] \in Seq(Context) /\ From(kept[m], m) BY <1>2, <1>4
  <2>3. kept[m + 1] = IF list[m + 1].root \in removed THEN kept[m]
                                                  ELSE Append(kept[m], list[m + 1])
    BY <1>2, <2>1
  <2> DEFINE s == kept[m]  x == list[m + 1]
  <2>4. /\ x \in Context /\ x = list[m + 1] /\ s \in Seq(Context)
        /\ \A i \in DOMAIN s : \E j \in 1..m : s[i] = list[j] /\ list[j].root \notin removed
        /\ \A j \in 1..m : list[j].root \notin removed => \E i \in DOMAIN s : s[i] = list[j]
        /\ \A i, j \in DOMAIN s : s[i].root = s[j].root => i = j
    BY <1>1, <2>1, <2>2
  <2>5. kept[m + 1] = IF x.root \in removed THEN s ELSE Append(s, x) BY <2>3
  <2> HIDE DEF s, x
  <2>6. ASSUME x.root \notin removed PROVE From(Append(s, x), m + 1)
    <3> DEFINE r == Append(s, x)
               l == Len(s)
    <3>1. /\ DOMAIN r = 1..(l + 1) /\ DOMAIN s = 1..l /\ l \in Nat
          /\ r[l + 1] = x /\ \A i \in 1..l : r[i] = s[i]
      BY <2>4
    <3> HIDE DEF r, l
    <3>2. \A i \in DOMAIN r : \E j \in 1..(m + 1) : r[i] = list[j] /\ list[j].root \notin removed
      <4>1. ASSUME NEW i \in 1..l
            PROVE  \E j \in 1..(m + 1) : r[i] = list[j] /\ list[j].root \notin removed
        <5>1. PICK j \in 1..m : s[i] = list[j] /\ list[j].root \notin removed BY ZenonT(30), <2>4, <3>1
        <5> QED BY <2>1, <3>1, <5>1
      <4>2. m + 1 \in 1..(m + 1) BY <2>1
      <4> QED BY <2>4, <2>6, <3>1, <4>1, <4>2
    <3>3. ASSUME NEW j \in 1..(m + 1), list[j].root \notin removed
          PROVE  \E i \in DOMAIN r : r[i] = list[j]
      <4>1. CASE j \in 1..m
        <5>1. PICK i \in 1..l : s[i] = list[j] BY <2>4, <3>1, <3>3, <4>1
        <5> QED BY <3>1, <5>1
      <4>2. CASE j = m + 1 BY <2>4, <3>1, <4>2
      <4> QED BY <2>1, <4>1, <4>2
    <3>4. \A i \in 1..l : r[i].root # x.root
      <4>1. SUFFICES ASSUME NEW i \in 1..l PROVE s[i].root # x.root BY <3>1
      <4>2. PICK j \in 1..m : s[i] = list[j] BY <2>4, <3>1
      <4>3. j # m + 1 /\ j \in 1..n /\ m + 1 \in 1..n BY <1>1, <2>1
      <4> QED BY <1>1, <2>4, <4>2, <4>3 DEF EachOnce
    <3>5. ASSUME NEW i \in DOMAIN r, NEW j \in DOMAIN r, r[i].root = r[j].root PROVE i = j
      <4>1. CASE i \in 1..l /\ j \in 1..l
        <5>1. s[i].root = s[j].root /\ i \in DOMAIN s /\ j \in DOMAIN s BY <3>1, <3>5, <4>1
        <5> QED BY <2>4, <5>1
      <4>2. \A k \in DOMAIN r : k \in 1..l \/ (k = l + 1 /\ r[k].root = x.root) BY <3>1
      <4> QED BY <3>4, <3>5, <4>1, <4>2
    <3>6. From(r, m + 1) BY <3>2, <3>3, <3>5
    <3> QED BY <3>6 DEF r
  <2>7. ASSUME x.root \in removed PROVE From(s, m + 1)
    BY <2>1, <2>4, <2>7
  <2> HIDE DEF From
  <2>8. From(kept[m + 1], m + 1) BY <2>5, <2>6, <2>7
  <2> QED BY <2>1, <2>8
<1>5. From(kept[n], n)
  <2>1. C = 0..n
    <3>1. C \in SUBSET (0..n) OBVIOUS
    <3> HIDE DEF C
    <3> QED BY <1>1, <1>3, <1>4, <3>1, CountingUp
  <2>2. n \in C
    <3> HIDE DEF C
    <3> QED BY <1>1, <2>1
  <2> HIDE DEF From
  <2> QED BY <2>2
<1>6. kept[n] \in Seq(Context) BY <1>1, <1>2
<1> DEFINE s == kept[n]
<1>7. \A i \in DOMAIN s : s[i].config = config BY <1>1, <1>5 DEF EachOnce
<1>8. Q = {list[j].root : j \in 1..n} BY <1>1 DEF EachOnce
<1> HIDE DEF s
<1>9. Q \ removed = {s[i].root : i \in DOMAIN s}
  <2>1. From(s, n) BY <1>5 DEF s
  <2>2. ASSUME NEW q \in Q \ removed PROVE \E i \in DOMAIN s : s[i].root = q
    BY <1>8, <2>1, <2>2
  <2>3. ASSUME NEW i \in DOMAIN s PROVE s[i].root \in Q \ removed
    BY <1>8, <2>1, <2>3
  <2> QED BY <2>2, <2>3
<1> QED BY <1>2, <1>5, <1>6, <1>7, <1>9 DEF EachOnce, s

\* Two lists of different folders, one after the other.
LEMMA JoinEachOnce ==
  ASSUME NEW config, NEW P, NEW Q, P \cap Q = {},
         NEW r, EachOnce(r, P, config), NEW s, EachOnce(s, Q, config)
  PROVE  EachOnce(r \o s, P \cup Q, config)
<1> DEFINE k == Len(r)
           l == Len(s)
           u == r \o s
<1>1. /\ u \in Seq(Context) /\ k \in Nat /\ l \in Nat
      /\ DOMAIN u = 1..(k + l) /\ DOMAIN r = 1..k /\ DOMAIN s = 1..l
      /\ \A i \in 1..k : u[i] = r[i]
      /\ \A i \in 1..l : u[k + i] = s[i]
  BY DEF EachOnce
<1>2. \A i \in 1..(k + l) : i \in 1..k \/ (i - k \in 1..l /\ i = k + (i - k)) BY <1>1
<1> HIDE DEF u, k, l
<1>3. \A i \in DOMAIN u : /\ u[i].config = config
                          /\ i \in 1..k => u[i] = r[i] /\ u[i].root \in P
                          /\ i \notin 1..k => u[i] = s[i - k] /\ u[i].root \in Q
  BY <1>1, <1>2 DEF EachOnce
<1>4. P \cup Q = {u[i].root : i \in DOMAIN u}
  <2>1. ASSUME NEW p \in P PROVE \E i \in DOMAIN u : u[i].root = p
    <3>1. PICK i \in 1..k : r[i].root = p BY <1>1 DEF EachOnce
    <3> QED BY <1>1, <3>1
  <2>2. ASSUME NEW p \in Q PROVE \E i \in DOMAIN u : u[i].root = p
    <3>1. PICK i \in 1..l : s[i].root = p BY <1>1 DEF EachOnce
    <3>2. k + i \in DOMAIN u BY <1>1
    <3> QED BY <1>1, <3>1, <3>2
  <2> QED BY <1>3, <2>1, <2>2
<1>5. ASSUME NEW i \in DOMAIN u, NEW j \in DOMAIN u, u[i].root = u[j].root PROVE i = j
  <2>1. CASE i \in 1..k /\ j \in 1..k BY <1>1, <1>5, <2>1 DEF EachOnce
  <2>2. CASE i \notin 1..k /\ j \notin 1..k
    <3>1. i - k \in 1..l /\ j - k \in 1..l BY <1>1, <1>2, <2>2
    <3>2. i - k = j - k BY <1>1, <1>3, <1>5, <2>2, <3>1 DEF EachOnce
    <3> QED BY <1>1, <3>2
  <2>3. i \in 1..k <=> j \in 1..k BY <1>3, <1>5
  <2> QED BY <2>1, <2>2, <2>3
<1> QED BY <1>1, <1>3, <1>4, <1>5 DEF EachOnce, u

\* A document in a folder has a context to go by: the deepest, and the last of equal ones.
LEMMA RouteIsThere ==
  ASSUME contexts \in Seq(Context), NEW d \in Doc, Routes(d) # {}
  PROVE  Route(d) \in Routes(d) /\ contexts[Route(d)] \in Context
<1> DEFINE n == Len(contexts)
           Yields(j, i) == \/ Depth[contexts[j].root] < Depth[contexts[i].root]
                           \/ Depth[contexts[j].root] = Depth[contexts[i].root] /\ j <= i
           Upto(m) == {i \in Routes(d) : i <= m}
           A == {m \in 0..n : Upto(m) = {} \/ \E i \in Upto(m) : \A j \in Upto(m) : Yields(j, i)}
<1>1. n \in Nat /\ DOMAIN contexts = 1..n /\ \A i \in 1..n : contexts[i] \in Context OBVIOUS
<1>2. Routes(d) \subseteq 1..n BY <1>1 DEF Routes
<1>3. \A i \in Routes(d) : Depth[contexts[i].root] \in Nat /\ i \in 1..n
  BY <1>1, <1>2, FolderAssumption DEF Context
<1> DEFINE depth == [i \in Routes(d) |-> Depth[contexts[i].root]]
<1>4. \A i, j \in Routes(d) :
        Yields(j, i) <=> (depth[j] < depth[i] \/ (depth[j] = depth[i] /\ j <= i))
  OBVIOUS
<1>5. depth \in [Routes(d) -> Nat] BY <1>3
<1> HIDE DEF n, Yields, depth
<1>6. 0 \in A
  <2>1. Upto(0) = {} BY <1>2
  <2> HIDE DEF Upto
  <2> QED BY <1>1, <2>1
<1>7. ASSUME NEW m \in A, m < n PROVE m + 1 \in A
  <2>1. m + 1 \in 0..n BY <1>1, <1>7
  <2>2. CASE m + 1 \notin Routes(d)
    <3>1. Upto(m + 1) = Upto(m) BY <1>1, <1>2, <2>1, <2>2
    <3> HIDE DEF Upto
    <3> QED BY <1>7, <2>1, <3>1
  <2>3. CASE m + 1 \in Routes(d)
    <3>1. Upto(m + 1) = Upto(m) \cup {m + 1} /\ Upto(m) \subseteq Routes(d)
      BY <1>1, <1>2, <2>1, <2>3
    <3>2. \A j \in Upto(m) : j <= m + 1 BY <1>3, <2>1
    <3>3. CASE Upto(m) = {} \/ \A j \in Upto(m) : Yields(j, m + 1)
      <4>1. Yields(m + 1, m + 1) BY <1>4, <1>5, <2>1, <2>3
      <4> HIDE DEF Upto
      <4> QED BY <2>1, <3>1, <3>3, <4>1
    <3>4. CASE \E i \in Upto(m) : \A j \in Upto(m) : Yields(j, i)
      <4>1. PICK i \in Upto(m) : \A j \in Upto(m) : Yields(j, i) BY <3>4
      <4>2. i \in Routes(d) /\ i <= m + 1 BY <3>1, <3>2
      <4>3. Yields(m + 1, i) \/ \A j \in Upto(m) : Yields(j, m + 1)
        <5>1. CASE depth[m + 1] < depth[i] BY <1>4, <2>3, <4>2, <5>1
        <5>2. CASE ~ (depth[m + 1] < depth[i])
          <6>1. SUFFICES ASSUME NEW j \in Upto(m) PROVE Yields(j, m + 1) OBVIOUS
          <6>2. j \in Routes(d) /\ Yields(j, i) /\ j <= m + 1 BY <3>1, <3>2, <4>1
          <6>3. /\ depth[j] \in Nat /\ depth[i] \in Nat /\ depth[m + 1] \in Nat
                /\ depth[j] <= depth[i]
            BY <1>4, <1>5, <2>3, <4>2, <6>2
          <6> QED BY <1>4, <2>3, <5>2, <6>2, <6>3
        <5> QED BY <5>1, <5>2
      <4>4. CASE Yields(m + 1, i)
        <5> HIDE DEF Upto
        <5> QED BY <2>1, <3>1, <4>1, <4>4
      <4> QED BY <3>3, <4>3, <4>4
    <3>5. Upto(m) = {} \/ \E i \in Upto(m) : \A j \in Upto(m) : Yields(j, i)
      BY <1>7
    <3> QED BY <3>3, <3>4, <3>5
  <2> QED BY <2>2, <2>3
<1>8. n \in A
  <2>1. A \in SUBSET (0..n) OBVIOUS
  <2> HIDE DEF A
  <2> QED BY <1>1, <1>6, <1>7, <2>1, CountingUp
<1>9. Upto(n) = Routes(d) BY <1>1, <1>2
<1>10. \E i \in Routes(d) : \A j \in Routes(d) : Yields(j, i)
  <2> HIDE DEF Upto
  <2> QED BY <1>8, <1>9
<1>11. Route(d) \in Routes(d)
  <2>1. Route(d) = CHOOSE i \in Routes(d) : \A j \in Routes(d) : Yields(j, i)
    BY DEF Route, Yields
  <2> QED BY <1>10, <2>1
<1> QED BY <1>1, <1>2, <1>11

-----------------------------------------------------------------------------
(* The steps.                                                               *)

\* What a task may be.
AnyTask == {Idle} \cup Reloading \cup Moving \cup Answering

\* A handler that replaces contexts leaves every task what it may be, and its id alone.
LEMMA TypedReplacing ==
  ASSUME TypeOK, NEW t \in Task,
         Adopt(t) \/ Clear(t) \/ Bump(t) \/ SetFolders(t) \/ Extend(t)
  PROVE  TypeOK'
<1> USE ConfigAssumption DEF server, client
<1>1. CASE Adopt(t)
  <2>1. task[t] \in Reloading BY <1>1, Shape DEF Adopt
  <2>2. task' \in [Task -> AnyTask]
    BY <1>1, <2>1, GoOn DEF Adopt, AnyTask
  <2>3. contexts' \in Seq(Context) BY <1>1, <2>1 DEF Adopt, Reloading
  <2> QED BY <1>1, <2>2, <2>3 DEF TypeOK, Adopt, AnyTask
<1>2. CASE Clear(t)
  <2>1. task[t] \in Reloading \cup Moving BY <1>2, Shape DEF Clear, At
  <2>2. task' \in [Task -> AnyTask] BY <1>2, <2>1, GoOn DEF Clear, AnyTask
  <2>3. standalone' \in [Doc -> MaybeConfig] BY <1>2 DEF Clear, MaybeConfig
  <2> QED BY <1>2, <2>2, <2>3 DEF TypeOK, Clear, AnyTask
<1>3. CASE Bump(t)
  <2>1. task' \in [Task -> AnyTask] BY <1>3, GoTo DEF Bump, AnyTask
  <2> QED BY <1>3, <2>1 DEF TypeOK, Bump, AnyTask
<1>4. CASE SetFolders(t)
  <2>1. task[t] \in Moving BY <1>4, Shape DEF SetFolders, At
  <2>2. task' \in [Task -> AnyTask] BY <1>4, <2>1, GoOn DEF SetFolders, AnyTask
  <2>3. folders' \in SUBSET Folder BY <1>4, <2>1 DEF SetFolders, Moving, TypeOK
  <2> QED BY <1>4, <2>2, <2>3 DEF TypeOK, SetFolders, AnyTask
<1>5. CASE Extend(t)
  <2>1. task[t] \in Moving BY <1>5, Shape DEF Extend, At
  <2>2. task' \in [Task -> AnyTask] BY <1>5, <2>1, GoOn DEF Extend, AnyTask
  <2>3. contexts' \in Seq(Context)
    <3>1. PICK kept : Grown(kept, contexts, task[t].removed) BY KeptGrows DEF TypeOK
    <3>2. Len(contexts) \in 0..Len(contexts) BY DEF TypeOK
    <3>3. Kept(contexts, task[t].removed) \in Seq(Context) BY <3>1, <3>2 DEF Grown
    <3> QED BY <1>5, <2>1, <3>3 DEF Extend, Moving
  <2> QED BY <1>5, <2>2, <2>3 DEF TypeOK, Extend, AnyTask
<1> QED BY <1>1, <1>2, <1>3, <1>4, <1>5

\* So does a handler that answers.
LEMMA TypedAnswering ==
  ASSUME TypeOK, NEW t \in Task,
         LookUp(t) \/ LookUpCache(t) \/ Insert(t) \/ Report(t) \/ Gate(t) \/ ReplyEdits(t)
  PROVE  /\ TypeOK' /\ task[t] \in Answering
         /\ \A u \in Task \ {t} : task'[u] = task[u]
         /\ \/ task'[t] = Idle
            \/ /\ task'[t] \in Answering /\ task'[t].id = task[t].id
               /\ task'[t].doc = task[t].doc
<1> USE ConfigAssumption DEF server, client
<1> DEFINE q == task[t]
<1>0. q \in Answering
  BY Shape DEF At, LookUp, LookUpCache, Insert, Report, Gate, ReplyEdits
<1>2. ASSUME NEW to \in {"route", "cache", "insert", "answer"}, NEW config \in MaybeConfig,
             Step(t, [q EXCEPT !.pc = to, !.config = config])
      PROVE  /\ task' \in [Task -> AnyTask] /\ \A u \in Task \ {t} : task'[u] = task[u]
             /\ task'[t] \in Answering /\ task'[t].id = task[t].id /\ task'[t].doc = task[t].doc
  <2> DEFINE r == [q EXCEPT !.pc = to, !.config = config]
  <2>1. r \in Answering /\ r.id = q.id /\ r.doc = q.doc BY <1>0, <1>2 DEF Answering
  <2> HIDE DEF r, q
  <2>2. Step(t, r) BY <1>2 DEF r
  <2> QED BY <2>1, <2>2, GoTo DEF AnyTask, q
<1>3. ASSUME NEW to \in {"route", "cache", "insert", "answer"}, Goto(t, to)
      PROVE  /\ task' \in [Task -> AnyTask] /\ \A u \in Task \ {t} : task'[u] = task[u]
             /\ task'[t] \in Answering /\ task'[t].id = task[t].id /\ task'[t].doc = task[t].doc
  <2>1. task' \in [Task -> AnyTask] /\ task'[t] = [q EXCEPT !.pc = to]
          /\ \A u \in Task \ {t} : task'[u] = task[u]
    BY <1>0, <1>3, GoOn DEF AnyTask
  <2> QED BY <1>0, <2>1 DEF Answering
<1>4. ASSUME Step(t, Idle)
      PROVE  /\ task' \in [Task -> AnyTask] /\ \A u \in Task \ {t} : task'[u] = task[u]
             /\ task'[t] = Idle
  BY <1>4, GoTo DEF AnyTask
<1>5. CASE LookUp(t)
  <2>1. q.doc \in Doc BY <1>0 DEF Answering
  <2>2. Routes(q.doc) # {} => contexts[Route(q.doc)].config \in MaybeConfig
    BY <2>1, RouteIsThere DEF TypeOK, Context, MaybeConfig
  <2>3. \/ \E config \in MaybeConfig : Step(t, [q EXCEPT !.pc = "answer", !.config = config])
        \/ Goto(t, "cache")
    BY <1>5, <2>2 DEF LookUp
  <2> QED BY <1>0, <1>2, <1>3, <1>5, <2>3 DEF LookUp, TypeOK, AnyTask
<1>6. CASE LookUpCache(t)
  <2>1. \E to \in {"answer", "insert"}, config \in MaybeConfig :
          Step(t, [q EXCEPT !.pc = to, !.config = config])
    BY <1>0, <1>6 DEF LookUpCache, TypeOK, MaybeConfig, Answering
  <2> QED BY <1>0, <1>2, <1>6, <2>1 DEF LookUpCache, TypeOK, AnyTask
<1>7. CASE Insert(t)
  <2>1. standalone' \in [Doc -> MaybeConfig]
    BY <1>0, <1>7 DEF Insert, TypeOK, Answering
  <2>2. Goto(t, "answer") BY <1>7 DEF Insert
  <2> QED BY <1>0, <1>3, <1>7, <2>1, <2>2 DEF Insert, TypeOK, AnyTask
<1>8. CASE Report(t)
  <2>1. held' \in [Doc -> [id : ResultId, config : MaybeConfig]]
    BY <1>0, <1>8 DEF Report, TypeOK, Answering
  <2> QED BY <1>0, <1>4, <1>8, <2>1 DEF Report, TypeOK, AnyTask
<1>9. CASE Gate(t)
  <2>1. \/ Step(t, Idle)
        \/ Step(t, [q EXCEPT !.pc = "route", !.kind = "edits", !.config = None])
    BY <1>9 DEF Gate
  <2>2. ASSUME Step(t, [q EXCEPT !.pc = "route", !.kind = "edits", !.config = None])
        PROVE  /\ task' \in [Task -> AnyTask] /\ \A u \in Task \ {t} : task'[u] = task[u]
               /\ task'[t] \in Answering /\ task'[t].id = task[t].id /\ task'[t].doc = task[t].doc
    <3> DEFINE r == [q EXCEPT !.pc = "route", !.kind = "edits", !.config = None]
    <3>1. r \in Answering /\ r.id = q.id /\ r.doc = q.doc BY <1>0 DEF Answering, MaybeConfig
    <3> HIDE DEF r, q
    <3>2. Step(t, r) BY <2>2 DEF r
    <3> QED BY <3>1, <3>2, GoTo DEF AnyTask, q
  <2> QED BY <1>0, <1>4, <1>9, <2>1, <2>2 DEF Gate, TypeOK, AnyTask
<1>10. CASE ReplyEdits(t)
  BY <1>0, <1>4, <1>10 DEF ReplyEdits, TypeOK, AnyTask
<1> QED BY <1>5, <1>6, <1>7, <1>8, <1>9, <1>10

\* So does what begins a handler: a pull asks under the id of now.
LEMMA TypedAsking ==
  ASSUME TypeOK, NEW t \in Task, NEW d \in Doc, Diagnose(t, d) \/ WillSave(t, d)
  PROVE  /\ TypeOK' /\ UNCHANGED <<server, client, held>> /\ At(t, "idle")
         /\ \A u \in Task \ {t} : task'[u] = task[u]
         /\ task'[t] \in Answering /\ task'[t].pc = "route" /\ task'[t].id[2] <= generation
<1> USE ConfigAssumption
<1> DEFINE id(kind) == IF kind = "items" THEN <<version[d], generation>> ELSE NoId
           query(kind) ==
             [pc |-> "route", doc |-> d, kind |-> kind, id |-> id(kind), config |-> None]
<1>1. PICK kind \in {"items", "gate"} : Ask(t, query(kind))
  BY DEF Diagnose, WillSave
<1>2. id(kind) \in ResultId /\ id(kind)[2] <= generation
  BY DEF TypeOK, ResultId, NoId
<1>3. query(kind) \in Answering BY <1>2 DEF Answering, MaybeConfig
<1>4. query(kind).pc = "route" /\ query(kind).id[2] <= generation BY <1>2
<1> HIDE DEF query
<1>5. Step(t, query(kind)) BY <1>1 DEF Ask
<1>6. task' \in [Task -> AnyTask] /\ task'[t] = query(kind)
        /\ \A u \in Task \ {t} : task'[u] = task[u]
  BY <1>3, <1>5, GoTo DEF AnyTask
<1>7. UNCHANGED <<server, client, held>> /\ At(t, "idle") BY <1>1 DEF Ask, Takes
<1>8. TypeOK' BY <1>6, <1>7 DEF TypeOK, AnyTask, server, client
<1> QED BY <1>3, <1>4, <1>6, <1>7, <1>8

\* A reload and a move begin with what they load.
LEMMA TypedStarting ==
  ASSUME TypeOK, NEW t \in Task,
         \/ StartReload(t)
         \/ \E added \in SUBSET (Folder \ wanted), removed \in SUBSET wanted :
              StartMove(t, added, removed)
  PROVE  /\ TypeOK' /\ UNCHANGED <<server, version, held>> /\ At(t, "idle")
         /\ \A u \in Task \ {t} : task'[u] = task[u]
         /\ task'[t] = Idle \/ task'[t] \in Reloading \cup Moving
         /\ task'[t].pc \notin {"clear", "bump"}
<1> USE ConfigAssumption DEF server, client
<1>1. \A R \in SUBSET Folder : Load(R) \in Seq(Context)
  BY LoadEachOnce DEF TypeOK, EachOnce
<1>2. CASE StartReload(t)
  <2> DEFINE next == [pc |-> "adopt", loaded |-> Load(folders)]
  <2>1. next \in Reloading /\ next.pc = "adopt" BY <1>1 DEF TypeOK, Reloading
  <2>2. At(t, "idle") /\ task[t] = Idle BY <1>2, Shape DEF StartReload, Takes
  <2>3. \/ UNCHANGED task
        \/ Step(t, next)
    BY <1>2 DEF StartReload
  <2> HIDE DEF next
  <2>4. /\ task' \in [Task -> AnyTask] /\ \A u \in Task \ {t} : task'[u] = task[u]
        /\ task'[t] = Idle \/ (task'[t] \in Reloading /\ task'[t].pc = "adopt")
    BY <2>1, <2>2, <2>3, GoTo DEF AnyTask, TypeOK
  <2>5. /\ UNCHANGED <<folders, contexts, standalone, generation, session, disk, wanted>>
        /\ UNCHANGED <<version, moves, held>>
    BY <1>2 DEF StartReload
  <2>6. pending' \in BOOLEAN /\ reloads' \in Nat
    <3>1. \/ (pending' = FALSE /\ reloads' = reloads)
          \/ (reloads > 0 /\ reloads' = reloads - 1 /\ pending' = pending)
      BY <1>2 DEF StartReload
    <3>2. pending \in BOOLEAN /\ reloads \in Nat BY DEF TypeOK
    <3>3. pending' \in BOOLEAN BY <3>1, <3>2, Zenon
    <3>4. reloads' \in Nat
      <4>1. reloads' = reloads \/ (reloads > 0 /\ reloads' = reloads - 1) BY <3>1
      <4> QED BY <3>2, <4>1
    <3> QED BY <3>3, <3>4
  <2>7. TypeOK'
    <3>1. task' \in [Task -> {Idle} \cup Reloading \cup Moving \cup Answering] BY <2>4 DEF AnyTask
    <3> QED BY <2>5, <2>6, <3>1 DEF TypeOK
  <2> QED BY <2>2, <2>4, <2>5, <2>7 DEF Idle
<1>3. ASSUME NEW added \in SUBSET (Folder \ wanted), NEW removed \in SUBSET wanted,
             StartMove(t, added, removed)
      PROVE  /\ TypeOK' /\ UNCHANGED <<server, version, held>> /\ At(t, "idle")
             /\ \A u \in Task \ {t} : task'[u] = task[u]
             /\ task'[t] \in Moving /\ task'[t].pc = "folders"
  <2> DEFINE next == [pc |-> "folders", added |-> added, removed |-> removed,
                      loaded |-> IF Loadable THEN Load(added) ELSE <<>>]
  <2>1. next \in Moving /\ next.pc = "folders"
    <3>1. added \in SUBSET Folder /\ removed \in SUBSET Folder BY DEF TypeOK
    <3>2. Load(added) \in Seq(Context) /\ <<>> \in Seq(Context) BY <1>1, <3>1
    <3> QED BY <3>1, <3>2 DEF Moving
  <2>2. Step(t, next) BY <1>3 DEF StartMove
  <2> HIDE DEF next
  <2>3. /\ task' \in [Task -> AnyTask] /\ \A u \in Task \ {t} : task'[u] = task[u]
        /\ task'[t] \in Moving /\ task'[t].pc = "folders"
    BY <2>1, <2>2, GoTo DEF AnyTask
  <2>4. wanted' \in SUBSET Folder BY <1>3 DEF StartMove, TypeOK
  <2>5. TypeOK' BY <1>3, <2>3, <2>4 DEF StartMove, TypeOK, AnyTask
  <2> QED BY <1>3, <2>3, <2>5 DEF StartMove, Takes
<1> QED BY <1>2, <1>3

\* An edit of the configuration or of a document.
LEMMA TypedEdit ==
  ASSUME TypeOK, EditConfig \/ \E d \in Doc : Change(d)
  PROVE  TypeOK' /\ UNCHANGED <<server, held, task>>
<1> USE DEF server
<1>1. session.configs \in Config /\ session.versions \in 1..MaxVersion
  BY ConfigAssumption DEF TypeOK
<1>2. CASE EditConfig
  <2>1. disk' \in Config BY <1>1, <1>2, ConfigAssumption DEF EditConfig, TypeOK, Config
  <2> QED BY <1>2, <2>1 DEF EditConfig, TypeOK
<1>3. ASSUME NEW d \in Doc, Change(d) PROVE TypeOK' /\ UNCHANGED <<server, held, task>>
  <2>1. version' \in [Doc -> 1..MaxVersion]
    BY <1>1, <1>3, ConfigAssumption DEF Change, TypeOK
  <2> QED BY <1>3, <2>1 DEF Change, TypeOK
<1> QED BY <1>2, <1>3

\* Routes depend on the contexts alone, so a step that leaves these and the generation, and
\* brings no handler between the two, keeps fresh what is fresh before it.
LEMMA FreshStays ==
  ASSUME UNCHANGED <<contexts, generation>>, Bumped' => Bumped,
         \A d \in Doc : held'[d].id # NoId => Fresh(d, held'[d].id, held'[d].config),
         \A t \in Task : task'[t] \in Answering /\ task'[t].kind = "items" =>
           /\ task'[t].pc = "answer" => Fresh(task'[t].doc, task'[t].id, task'[t].config)
           /\ task'[t].pc \in {"cache", "insert"} /\ Bumped /\ task'[t].id[2] = generation =>
                Routes(task'[t].doc) = {}
  PROVE  IdsFresh'
<1>1. ASSUME NEW d \in Doc, held'[d].id # NoId PROVE Fresh(d, held[d].id, held[d].config)'
  BY <1>1 DEF Fresh, Routes, Route
<1>2. ASSUME NEW t \in Task, task'[t] \in Answering, task'[t].kind = "items", At(t, "answer")'
      PROVE  Fresh(task[t].doc, task[t].id, task[t].config)'
  BY SMTT(30), <1>2 DEF Fresh, Routes, Route, At
<1>3. ASSUME NEW t \in Task, task'[t] \in Answering, task'[t].kind = "items",
             task'[t].pc \in {"cache", "insert"}, Bumped', task'[t].id[2] = generation'
      PROVE  Routes(task[t].doc)' = {}
  BY <1>3 DEF Routes
<1> QED BY <1>1, <1>2, <1>3 DEF IdsFresh

\* Every step keeps result ids and what stands under them.
LEMMA IdsStep ==
  ASSUME IInv, [Next]_vars PROVE IInv'
<1> USE ConfigAssumption
<1>0. TypeOK /\ IdsPast /\ IdsFresh BY DEF IInv
<1> DEFINE Asks(u) == task[u] \in Answering /\ task[u].kind = "items"
<1>1. ASSUME NEW t \in Task, Adopt(t) \/ Extend(t) PROVE IInv'
  <2>1. TypeOK' BY <1>0, <1>1, TypedReplacing
  <2>2. /\ task'[t].pc = "clear" /\ \A u \in Task \ {t} : task'[u] = task[u]
        /\ task'[t] \notin Answering
    <3>1. task[t] \in Reloading \cup Moving BY <1>0, <1>1, Shape DEF Adopt, Extend, At
    <3>2. task[t] \notin Answering BY <3>1 DEF Reloading, Moving, Answering
    <3>3. Goto(t, "clear") BY <1>1 DEF Adopt, Extend
    <3> QED BY <1>0, <3>1, <3>2, <3>3, GoOn
  <2>3. ~Bumped' BY <2>2 DEF Bumped
  <2>4. IdsPast' BY <1>0, <1>1, <2>2 DEF IdsPast, Adopt, Extend
  <2>5. IdsFresh' BY <2>3 DEF IdsFresh, Fresh
  <2> QED BY <2>1, <2>4, <2>5 DEF IInv
<1>2. ASSUME NEW t \in Task, Bump(t) PROVE IInv'
  <2>1. TypeOK' BY <1>0, <1>2, TypedReplacing
  <2>2. task'[t] = Idle /\ \A u \in Task \ {t} : task'[u] = task[u]
    BY <1>0, <1>2, GoTo DEF Bump
  <2>3. Idle \notin Answering BY DEF Idle, Answering
  <2>4. \A d \in Doc : held[d].id[2] \in Nat BY <1>0 DEF TypeOK, ResultId
  <2>5. \A u \in Task : task[u] \in Answering => task[u].id[2] \in Nat
    BY <1>0 DEF Answering, ResultId
  <2>6. generation' = generation + 1 /\ generation \in Nat /\ held' = held
    BY <1>0, <1>2 DEF Bump, TypeOK
  <2>7. \A d \in Doc : held'[d].id[2] < generation' BY <1>0, <2>4, <2>6 DEF IdsPast
  <2>8. \A u \in Task : task'[u] \in Answering => task'[u].id[2] < generation'
    BY <1>0, <2>2, <2>3, <2>5, <2>6 DEF IdsPast
  <2>9. generation' \in Nat /\ \A d \in Doc : held'[d].id[2] \in Nat BY <2>4, <2>6
  <2>10. \A u \in Task : task'[u] \in Answering => task'[u].id[2] \in Nat
    BY <2>1 DEF TypeOK, Answering, ResultId
  <2>11. IdsPast'
    <3>1. \A d \in Doc : held'[d].id[2] <= generation' BY <2>7, <2>9
    <3>2. \A u \in Task : task'[u] \in Answering => task'[u].id[2] <= generation'
      BY <2>8, <2>9, <2>10
    <3> QED BY <3>1, <3>2 DEF IdsPast
  <2>12. \A d \in Doc : held'[d].id[2] # generation' BY <2>7, <2>9
  <2>13. \A u \in Task : task'[u] \in Answering => task'[u].id[2] # generation'
    BY <2>8, <2>9, <2>10
  <2>14. IdsFresh' BY <2>12, <2>13 DEF IdsFresh, Fresh
  <2> QED BY <2>1, <2>11, <2>14 DEF IInv
<1>3. ASSUME NEW t \in Task, Clear(t) \/ SetFolders(t) PROVE IInv'
  <2>1. TypeOK' BY <1>0, <1>3, TypedReplacing
  <2>2. /\ task'[t].pc \in {"bump", "extend"} /\ \A u \in Task \ {t} : task'[u] = task[u]
        /\ task'[t] \notin Answering /\ (task'[t].pc = "extend" => task[t].pc = "folders")
    <3>1. task[t] \in Reloading \cup Moving BY <1>0, <1>3, Shape DEF Clear, SetFolders, At
    <3>2. task[t] \notin Answering BY <3>1 DEF Reloading, Moving, Answering
    <3>3. CASE Clear(t)
      <4>1. Goto(t, "bump") BY <3>3 DEF Clear
      <4>2. task'[t].pc = "bump" /\ task'[t] \notin Answering /\ \A u \in Task \ {t} : task'[u] = task[u]
        <5>1. CASE task[t] \in Reloading BY <1>0, <3>2, <4>1, <5>1, GoOn
        <5>2. CASE task[t] \in Moving BY <1>0, <3>2, <4>1, <5>2, GoOn
        <5> QED BY <3>1, <5>1, <5>2
      <4> QED BY <4>2
    <3>4. CASE SetFolders(t)
      <4>1. Goto(t, "extend") /\ task[t].pc = "folders" BY <3>4 DEF SetFolders, At
      <4>2. task[t] \in Moving BY <1>0, <4>1, Shape
      <4> QED BY <1>0, <3>2, <4>1, <4>2, GoOn
    <3> QED BY <1>3, <3>3, <3>4
  <2>3. Bumped' => Bumped BY <2>2 DEF Bumped
  <2>4. UNCHANGED <<contexts, generation, held>> BY <1>3 DEF Clear, SetFolders
  <2>5. IdsPast' BY <1>0, <2>2, <2>4 DEF IdsPast
  <2>6. \A u \in Task : task'[u] \in Answering => task'[u] = task[u] BY <2>2
  <2>7. IdsFresh'
    BY <1>0, <2>3, <2>4, <2>6, FreshStays DEF IdsFresh, At
  <2> QED BY <2>1, <2>5, <2>7 DEF IInv
<1>4. ASSUME NEW t \in Task,
             LookUp(t) \/ LookUpCache(t) \/ Insert(t) \/ Report(t) \/ Gate(t) \/ ReplyEdits(t)
      PROVE  IInv'
  <2> DEFINE q == task[t]
             d == q.doc
  <2>1. /\ TypeOK' /\ q \in Answering
        /\ \A u \in Task \ {t} : task'[u] = task[u]
        /\ task'[t] = Idle \/ (task'[t] \in Answering /\ task'[t].id = q.id /\ task'[t].doc = d)
    BY <1>0, <1>4, TypedAnswering
  <2>2. UNCHANGED <<contexts, generation>>
    BY <1>4 DEF LookUp, LookUpCache, Insert, Report, Gate, ReplyEdits, server
  <2>3. task'[t].pc \notin {"clear", "bump"} /\ q.pc \notin {"clear", "bump"}
          /\ (task'[t] \in Answering => task'[t] # Idle)
    BY <2>1 DEF Idle, Answering
  <2>4. Bumped' <=> Bumped BY <2>1, <2>3 DEF Bumped
  <2>7. task'[t] \in Answering /\ task'[t].kind = "items" =>
          /\ task'[t].pc = "answer" => Fresh(d, q.id, task'[t].config)
          /\ task'[t].pc \in {"cache", "insert"} /\ Bumped /\ q.id[2] = generation => Routes(d) = {}
    <3>0. q.kind = "items" => /\ At(t, "answer") => Fresh(d, q.id, q.config)
                              /\ q.pc \in {"cache", "insert"} /\ Bumped /\ q.id[2] = generation =>
                                   Routes(d) = {}
      BY <1>0, <2>1 DEF IdsFresh
    <3> HIDE DEF d
    <3>1. CASE LookUp(t)
      <4>1. CASE Routes(d) # {}
        <5>1. task' = [task EXCEPT ![t] = [q EXCEPT !.pc = "answer", !.config = contexts[Route(d)].config]]
          BY <3>1, <4>1 DEF LookUp, Step, d
        <5>2. task'[t] = [q EXCEPT !.pc = "answer", !.config = contexts[Route(d)].config]
          BY <1>0, <5>1 DEF TypeOK
        <5> QED BY <2>1, <5>2 DEF Fresh, Answering
      <4>2. CASE Routes(d) = {}
        <5>1. task' = [task EXCEPT ![t].pc = "cache"] BY <3>1, <4>2 DEF LookUp, Goto, d
        <5>2. task'[t] = [q EXCEPT !.pc = "cache"] BY <1>0, <5>1 DEF TypeOK
        <5> QED BY <2>1, <4>2, <5>2 DEF Answering
      <4> QED BY <4>1, <4>2
    <3>2. CASE LookUpCache(t)
      <4>1. PICK to \in {"answer", "insert"}, config \in MaybeConfig :
              task' = [task EXCEPT ![t] = [q EXCEPT !.pc = to, !.config = config]]
        BY <1>0, <2>1, <3>2 DEF LookUpCache, Step, TypeOK, MaybeConfig, Answering
      <4>2. task'[t] = [q EXCEPT !.pc = to, !.config = config] BY <1>0, <4>1 DEF TypeOK
      <4>3. task'[t].kind = q.kind BY <2>1, <4>2 DEF Answering
      <4>4. q.pc = "cache" BY <3>2 DEF LookUpCache, At
      <4> QED BY <3>0, <4>3, <4>4 DEF Fresh
    <3>3. CASE Insert(t)
      <4>1. task' = [task EXCEPT ![t].pc = "answer"] BY <3>3 DEF Insert, Goto
      <4>2. task'[t] = [q EXCEPT !.pc = "answer"] BY <1>0, <4>1 DEF TypeOK
      <4>3. task'[t].kind = q.kind /\ task'[t].pc = "answer" BY <2>1, <4>2 DEF Answering
      <4>4. q.pc = "insert" BY <3>3 DEF Insert, At
      <4> QED BY <3>0, <4>3, <4>4 DEF Fresh
    <3>4. CASE Report(t) \/ ReplyEdits(t)
      <4>1. task'[t] = Idle BY <1>0, <3>4, GoTo DEF Report, ReplyEdits
      <4> QED BY <2>3, <4>1
    <3>5. CASE Gate(t)
      <4> DEFINE next == IF q.config \in OnSave
                         THEN [q EXCEPT !.pc = "route", !.kind = "edits", !.config = None] ELSE Idle
      <4>1. task' = [task EXCEPT ![t] = next] BY <3>5 DEF Gate, Step
      <4>2. task'[t] = next BY <1>0, <4>1 DEF TypeOK
      <4>3. next # Idle => next.kind = "edits" BY <2>1 DEF Answering
      <4> HIDE DEF next
      <4> QED BY <2>3, <4>2, <4>3
    <3> QED BY <1>4, <3>1, <3>2, <3>3, <3>4, <3>5
  <2>8. ASSUME NEW e \in Doc
        PROVE  /\ held'[e].id[2] <= generation
               /\ held'[e].id # NoId => Fresh(e, held'[e].id, held'[e].config)
    <3>1. CASE Report(t)
      <4>1. q.kind = "items" /\ At(t, "answer") /\ d \in Doc
        BY <2>1, <3>1 DEF Report, Answering
      <4>2. Fresh(d, q.id, q.config) /\ q.id[2] <= generation
        BY <1>0, <2>1, <4>1 DEF IdsFresh, IdsPast
      <4>3. held' = [held EXCEPT ![d] = [id |-> q.id, config |-> q.config]] BY <3>1 DEF Report
      <4>4. CASE e = d
        <5>1. held'[e].id = q.id /\ held'[e].config = q.config
          BY <1>0, <4>1, <4>3, <4>4 DEF TypeOK
        <5> QED BY <4>2, <4>4, <5>1
      <4>5. CASE e # d
        <5>1. held'[e] = held[e] BY <1>0, <4>3, <4>5 DEF TypeOK
        <5> QED BY <1>0, <5>1 DEF IdsFresh, IdsPast
      <4> QED BY <4>4, <4>5
    <3>2. CASE ~Report(t)
      <4>1. held' = held BY <1>4, <3>2 DEF LookUp, LookUpCache, Insert, Gate, ReplyEdits
      <4> QED BY <1>0, <4>1 DEF IdsFresh, IdsPast
    <3> QED BY <3>1, <3>2
  <2>9. IdsPast'
    <3>1. ASSUME NEW u \in Task, task'[u] \in Answering PROVE task'[u].id[2] <= generation
      <4>1. CASE u = t BY <1>0, <2>1, <2>3, <3>1, <4>1 DEF IdsPast
      <4>2. CASE u # t BY <1>0, <2>1, <3>1, <4>2 DEF IdsPast
      <4> QED BY <4>1, <4>2
    <3> QED BY <2>2, <2>8, <3>1 DEF IdsPast
  <2>10. IdsFresh'
    <3>1. ASSUME NEW u \in Task, task'[u] \in Answering, task'[u].kind = "items"
          PROVE  /\ task'[u].pc = "answer" => Fresh(task'[u].doc, task'[u].id, task'[u].config)
                 /\ task'[u].pc \in {"cache", "insert"} /\ Bumped /\ task'[u].id[2] = generation =>
                      Routes(task'[u].doc) = {}
      <4>1. CASE u = t
        <5>1. task'[u].id = q.id /\ task'[u].doc = d BY <2>1, <2>3, <3>1, <4>1
        <5> HIDE DEF d
        <5> QED BY <2>7, <3>1, <4>1, <5>1
      <4>2. CASE u # t
        <5>1. task'[u] = task[u] BY <2>1, <4>2
        <5> QED BY <1>0, <3>1, <5>1 DEF IdsFresh, At
      <4> QED BY <4>1, <4>2
    <3> QED BY <2>2, <2>4, <2>8, <3>1, FreshStays
  <2> QED BY <2>1, <2>9, <2>10 DEF IInv
<1>5. ASSUME NEW t \in Task, NEW d \in Doc, Diagnose(t, d) \/ WillSave(t, d) PROVE IInv'
  <2>1. /\ TypeOK' /\ UNCHANGED <<server, client, held>> /\ At(t, "idle")
        /\ \A u \in Task \ {t} : task'[u] = task[u]
        /\ task'[t] \in Answering /\ task'[t].pc = "route" /\ task'[t].id[2] <= generation
    BY <1>0, <1>5, TypedAsking
  <2>2. UNCHANGED <<contexts, generation, held>> /\ (Bumped' => Bumped)
    BY <2>1 DEF server, Bumped, At
  <2>3. IdsPast' BY <1>0, <2>1, <2>2 DEF IdsPast
  <2>4. \A u \in Task : task'[u] = task[u] \/ task'[u].pc = "route" BY <2>1
  <2>5. IdsFresh' BY <1>0, <2>2, <2>4, FreshStays DEF IdsFresh, At
  <2> QED BY <2>1, <2>3, <2>5 DEF IInv
<1>6. ASSUME NEW t \in Task,
             \/ StartReload(t)
             \/ \E added \in SUBSET (Folder \ wanted), removed \in SUBSET wanted :
                  StartMove(t, added, removed)
      PROVE  IInv'
  <2>1. /\ TypeOK' /\ UNCHANGED <<server, version, held>> /\ At(t, "idle")
        /\ \A u \in Task \ {t} : task'[u] = task[u]
        /\ task'[t] = Idle \/ task'[t] \in Reloading \cup Moving
    BY <1>0, <1>6, TypedStarting
  <2>2. UNCHANGED <<contexts, generation, held>> /\ (Bumped' => Bumped)
    BY <2>1 DEF server, Bumped, At
  <2>3. task'[t] \notin Answering BY <2>1 DEF Idle, Reloading, Moving, Answering
  <2>4. IdsPast' BY <1>0, <2>1, <2>2, <2>3 DEF IdsPast
  <2>5. \A u \in Task : task'[u] \in Answering => task'[u] = task[u] BY <2>1, <2>3
  <2>6. IdsFresh' BY <1>0, <2>2, <2>5, FreshStays DEF IdsFresh, At
  <2> QED BY <2>1, <2>4, <2>6 DEF IInv
<1>7. CASE EditConfig \/ \E d \in Doc : Change(d)
  <2>1. TypeOK' /\ UNCHANGED <<server, held, task>> BY <1>0, <1>7, TypedEdit
  <2>2. UNCHANGED <<contexts, generation, held, task>> /\ (Bumped' => Bumped)
    BY <2>1 DEF server, Bumped
  <2>3. IdsPast' BY <1>0, <2>2 DEF IdsPast
  <2>4. IdsFresh' BY <1>0, <2>2, FreshStays DEF IdsFresh, At
  <2> QED BY <2>1, <2>3, <2>4 DEF IInv
<1>8. CASE UNCHANGED vars
  <2>1. TypeOK' BY <1>0, <1>8 DEF TypeOK, vars, server, client
  <2>2. UNCHANGED <<contexts, generation, held, task>> /\ (Bumped' => Bumped)
    BY <1>8 DEF vars, server, client, Bumped
  <2>3. IdsPast' BY <1>0, <2>2 DEF IdsPast
  <2>4. IdsFresh' BY <1>0, <2>2, FreshStays DEF IdsFresh, At
  <2> QED BY <2>1, <2>3, <2>4 DEF IInv
<1> QED BY <1>1, <1>2, <1>3, <1>4, <1>5, <1>6, <1>7, <1>8 DEF Next, Progress

\* A session begins with no result id and nothing in progress.
LEMMA IdsInit ==
  ASSUME Init PROVE IInv
<1> USE ConfigAssumption DEF Init
<1>1. contexts \in Seq(Context)
  <2>1. disk \in Config /\ Opened \in SUBSET Folder BY FolderAssumption DEF Config
  <2> QED BY <2>1, LoadEachOnce DEF EachOnce
<1>2. TypeOK
  <2>1. NoId \in ResultId /\ None \in MaybeConfig BY DEF NoId, ResultId, MaybeConfig
  <2>2. held \in [Doc -> [id : ResultId, config : MaybeConfig]] BY <2>1
  <2>3. moves \in Nat BY DEF Config
  <2>4. standalone \in [Doc -> MaybeConfig] /\ version \in [Doc -> 1..MaxVersion] BY <2>1
  <2>5. disk \in Config /\ wanted \in SUBSET Folder /\ folders \in SUBSET Folder
    BY FolderAssumption DEF Config
  <2>6. task \in [Task -> {Idle} \cup Reloading \cup Moving \cup Answering] OBVIOUS
  <2> HIDE DEF Init
  <2>7. session \in Sessions /\ pending \in BOOLEAN /\ generation \in Nat /\ reloads \in Nat
    BY DEF Init
  <2> QED BY <1>1, <2>2, <2>3, <2>4, <2>5, <2>6, <2>7 DEF TypeOK
<1>3. Idle \notin Answering BY DEF Idle, Answering
<1>4. NoId[2] = 0 /\ generation = 0 BY DEF NoId
<1> QED BY <1>2, <1>3, <1>4 DEF IInv, IdsPast, IdsFresh

\* IInv holds in every state.
LEMMA IdsHold == Spec => []IInv
<1>1. Init => IInv BY IdsInit
<1>2. IInv /\ [Next]_vars => IInv' BY IdsStep
<1> QED BY <1>1, <1>2, PTL DEF Spec

\* The diagnostics a client holds under a result id the server still answers with
\* "unchanged" were computed with the context their document has now: for any number of
\* handlers, documents and folders, and for any session.
THEOREM CurrentIdIsFresh == Spec => []CurrentIdIsCurrent
<1>1. IInv => CurrentIdIsCurrent
  <2>1. SUFFICES ASSUME IInv, Bumped, NEW d \in Doc,
                        held[d].id = <<version[d], generation>>, Routes(d) # {}
                 PROVE  held[d].config = contexts[Route(d)].config
    BY DEF CurrentIdIsCurrent
  <2>2. version[d] \in 1..MaxVersion /\ 0 \notin 1..MaxVersion
    BY <2>1, ConfigAssumption DEF IInv, TypeOK
  <2>3. held[d].id # NoId /\ held[d].id[2] = generation BY <2>1, <2>2 DEF NoId
  <2>4. Fresh(d, held[d].id, held[d].config) BY <2>1, <2>3 DEF IInv, IdsFresh
  <2> QED BY <2>1, <2>3, <2>4 DEF Fresh
<1> QED BY <1>1, IdsHold, PTL

-----------------------------------------------------------------------------
(* The folders: what a spaced session keeps.                                *)

Replacing == {"adopt", "folders", "extend", "clear", "bump"}

\* A step that leaves folders, contexts and what is on disk keeps all of it, when the one
\* handler that moves is between its replacements and begins none.
LEMMA FoldersStay ==
  ASSUME FoldersInv, UNCHANGED <<folders, contexts, disk, session, wanted, pending>>,
         \A u \in Task : \/ task'[u] = task[u]
                        \/ /\ task[u].pc \notin {"adopt", "folders", "extend"}
                           /\ task'[u].pc \notin {"adopt", "folders", "extend"}
                           /\ task'[u].pc \in Replacing => task[u].pc \in Replacing
  PROVE  FoldersInv'
<1>1. \A u \in Task : /\ task'[u].pc \in {"adopt", "folders", "extend"} <=>
                           task[u].pc \in {"adopt", "folders", "extend"}
                      /\ task[u].pc \in {"adopt", "folders", "extend"} => task'[u] = task[u]
                      /\ task'[u].pc \in Replacing => task[u].pc \in Replacing
  OBVIOUS
<1>2. OneAtATime' BY <1>1 DEF FoldersInv, OneAtATime, Replacing
<1>3. FoldersFollow' BY <1>1 DEF FoldersInv, FoldersFollow, At
<1>4. ContextsFollow'
  <2>1. SUFFICES ASSUME ~pending, Loadable
                 PROVE  /\ (\A u \in Task : task'[u].pc \notin {"adopt", "folders", "extend"}) =>
                             EachOnce(contexts, wanted, disk)
                        /\ \A u \in Task : task'[u].pc = "adopt" => EachOnce(task'[u].loaded, wanted, disk)
                        /\ \A u \in Task : task'[u].pc \in {"folders", "extend"} =>
                             /\ EachOnce(contexts, (wanted \ task'[u].added) \cup task'[u].removed, disk)
                             /\ EachOnce(task'[u].loaded, task'[u].added, disk)
    BY DEF ContextsFollow, Loadable, EachOnce, At
  <2>2. /\ (\A u \in Task : task[u].pc \notin {"adopt", "folders", "extend"}) =>
             EachOnce(contexts, wanted, disk)
        /\ \A u \in Task : task[u].pc = "adopt" => EachOnce(task[u].loaded, wanted, disk)
        /\ \A u \in Task : task[u].pc \in {"folders", "extend"} =>
             /\ EachOnce(contexts, (wanted \ task[u].added) \cup task[u].removed, disk)
             /\ EachOnce(task[u].loaded, task[u].added, disk)
    BY <2>1 DEF FoldersInv, ContextsFollow, At
  <2> QED BY <1>1, <2>2
<1> QED BY <1>2, <1>3, <1>4 DEF FoldersInv

\* A handler begins to replace contexts when none does: what it loaded is what it is to add.
LEMMA FoldersStarting ==
  ASSUME TypeOK, session.spaced, FoldersInv, NEW t \in Task,
         \/ StartReload(t)
         \/ \E added \in SUBSET (Folder \ wanted), removed \in SUBSET wanted :
              StartMove(t, added, removed)
  PROVE  FoldersInv'
<1>1. \A u \in Task : task[u].pc \notin Replacing
  BY DEF StartReload, StartMove, MaySend, Configuring, Replacing
<1>2. folders = wanted /\ (~pending /\ Loadable => EachOnce(contexts, wanted, disk))
  BY <1>1 DEF FoldersInv, FoldersFollow, ContextsFollow, Replacing, At
<1>3. \A u \in Task \ {t} : task'[u] = task[u] BY TypedStarting
<1>4. OneAtATime' BY <1>1, <1>3 DEF OneAtATime, Replacing
<1>5. CASE StartReload(t)
  <2>1. UNCHANGED <<folders, contexts, disk, session, wanted>>
    BY <1>5 DEF StartReload, server
  <2>2. CASE Loadable
    <3> DEFINE next == [pc |-> "adopt", loaded |-> Load(folders)]
    <3>1. EachOnce(Load(folders), wanted, disk) BY <1>2, LoadEachOnce DEF TypeOK
    <3>2. next \in Reloading BY <3>1 DEF Reloading, EachOnce
    <3>3. Step(t, next) BY <1>5, <2>2 DEF StartReload
    <3>4. next.pc = "adopt" /\ next.loaded = Load(folders) OBVIOUS
    <3> HIDE DEF next
    <3>5. task'[t] = next BY <3>2, <3>3, GoTo
    <3>6. \A u \in Task : task'[u].pc \notin {"folders", "extend"}
      BY <1>1, <1>3, <3>4, <3>5 DEF Replacing
    <3>7. FoldersFollow' BY <1>2, <2>1, <3>6 DEF FoldersFollow, At
    <3>8. \A u \in Task : task'[u].pc = "adopt" => EachOnce(task'[u].loaded, wanted, disk)
      BY <1>1, <1>3, <3>1, <3>4, <3>5 DEF Replacing
    <3>9. task'[t].pc = "adopt" BY <3>4, <3>5
    <3>10. ContextsFollow' BY <2>1, <3>6, <3>8, <3>9 DEF ContextsFollow, EachOnce, At
    <3> QED BY <1>4, <3>7, <3>10 DEF FoldersInv
  <2>3. CASE ~Loadable
    <3>1. task' = task BY <1>5, <2>3 DEF StartReload
    <3>2. FoldersFollow' BY <2>1, <3>1 DEF FoldersInv, FoldersFollow, At
    <3>3. ~Loadable' BY <2>1, <2>3 DEF Loadable
    <3>4. ContextsFollow' BY <3>3 DEF ContextsFollow
    <3> QED BY <1>4, <3>2, <3>4 DEF FoldersInv
  <2> QED BY <2>2, <2>3
<1>6. ASSUME NEW added \in SUBSET (Folder \ wanted), NEW removed \in SUBSET wanted,
             StartMove(t, added, removed)
      PROVE  FoldersInv'
  <2> DEFINE next == [pc |-> "folders", added |-> added, removed |-> removed,
                      loaded |-> IF Loadable THEN Load(added) ELSE <<>>]
  <2>1. UNCHANGED <<folders, contexts, disk, session, pending>>
          /\ wanted' = (wanted \ removed) \cup added
    BY <1>6 DEF StartMove, server
  <2>2. added \in SUBSET Folder /\ removed \in SUBSET Folder BY DEF TypeOK
  <2>3. EachOnce(Load(added), added, disk) BY <2>2, LoadEachOnce DEF TypeOK
  <2>4. next \in Moving
    <3>1. Load(added) \in Seq(Context) /\ <<>> \in Seq(Context) BY <2>3 DEF EachOnce
    <3> QED BY <2>2, <3>1 DEF Moving
  <2>5. Step(t, next) BY <1>6 DEF StartMove
  <2>6. /\ next.pc = "folders" /\ next.added = added /\ next.removed = removed
        /\ Loadable => next.loaded = Load(added)
    OBVIOUS
  <2> HIDE DEF next
  <2>7. task'[t] = next BY <2>4, <2>5, GoTo
  <2>8. \A u \in Task : /\ task'[u].pc \notin {"adopt", "extend"}
                        /\ task'[u].pc = "folders" => u = t
    BY <1>1, <1>3, <2>6, <2>7 DEF Replacing
  <2>9. task'[t].pc = "folders" BY <2>6, <2>7
  <2>10. FoldersFollow'
    <3>1. /\ removed \subseteq folders' /\ added \cap folders' = {}
          /\ wanted' = (folders' \ removed) \cup added
      BY <1>2, <2>1
    <3>2. /\ task'[t].removed \subseteq folders' /\ task'[t].added \cap folders' = {}
          /\ wanted' = (folders' \ task'[t].removed) \cup task'[t].added
      BY <2>6, <2>7, <3>1
    <3> QED BY <2>8, <2>9, <3>2 DEF FoldersFollow, At
  <2>11. ContextsFollow'
    <3>1. SUFFICES ASSUME ~pending, Loadable
                   PROVE  /\ EachOnce(contexts, (wanted' \ added) \cup removed, disk)
                          /\ EachOnce(next.loaded, added, disk)
      BY <2>1, <2>6, <2>7, <2>8, <2>9 DEF ContextsFollow, Loadable, EachOnce, At
    <3>2. (wanted' \ added) \cup removed = wanted BY <2>1
    <3> QED BY <1>2, <2>3, <2>6, <3>1, <3>2
  <2> QED BY <1>4, <2>10, <2>11 DEF FoldersInv
<1> QED BY <1>5, <1>6

\* The one handler that replaces contexts leaves the folders and the contexts of the client.
LEMMA FoldersReplacing ==
  ASSUME TypeOK, FoldersInv, NEW t \in Task, Adopt(t) \/ SetFolders(t) \/ Extend(t)
  PROVE  FoldersInv'
<1>1. /\ task[t].pc \in {"adopt", "folders", "extend"}
      /\ UNCHANGED <<disk, session, wanted, pending>>
  BY DEF Adopt, SetFolders, Extend, At, client
<1>2. \A u \in Task : task[u].pc \in Replacing => u = t
  BY <1>1 DEF FoldersInv, OneAtATime, Replacing
<1>3. \E to \in {"extend", "clear"} : Goto(t, to) /\ (to = "extend" => SetFolders(t))
                                    /\ (to = "clear" => Adopt(t) \/ Extend(t))
  BY DEF Adopt, SetFolders, Extend
<1>4. PICK to \in {"extend", "clear"} : Goto(t, to) /\ (to = "extend" => SetFolders(t))
                                    /\ (to = "clear" => Adopt(t) \/ Extend(t))
  BY <1>3
<1>5. /\ task'[t] = [task[t] EXCEPT !.pc = to] /\ task'[t].pc = to
      /\ \A u \in Task \ {t} : task'[u] = task[u]
  <2>1. \/ task[t] \in Reloading /\ to = "clear"
        \/ task[t] \in Moving
    BY <1>4, Shape DEF Adopt, SetFolders, Extend, At
  <2> QED BY <1>4, <2>1, GoOn
<1>6. \A u \in Task : task'[u].pc \in Replacing => u = t BY <1>2, <1>5
<1>7. OneAtATime' BY <1>6 DEF OneAtATime, Replacing
<1>8. CASE Adopt(t)
  <2>1. \A u \in Task : /\ task[u].pc # "folders"
                        /\ task'[u].pc \notin {"adopt", "folders", "extend"}
    <3>1. task[t].pc = "adopt" /\ task'[t].pc \in {"clear"}
      <4>1. Goto(t, "clear") /\ task[t].pc = "adopt" BY <1>8 DEF Adopt, At
      <4>2. task[t] \in Reloading BY <4>1, Shape DEF At
      <4> QED BY <4>1, <4>2, GoOn
    <3> QED BY <1>2, <1>6, <3>1 DEF Replacing
  <2>2. folders' = folders /\ contexts' = task[t].loaded /\ task[t].pc = "adopt"
    BY <1>8 DEF Adopt, At
  <2>3. FoldersFollow' BY <1>1, <2>1, <2>2 DEF FoldersInv, FoldersFollow, At
  <2>4. ~pending /\ Loadable => EachOnce(task[t].loaded, wanted, disk)
    BY <2>2 DEF FoldersInv, ContextsFollow, At
  <2>5. ContextsFollow' BY <1>1, <2>1, <2>2, <2>4 DEF ContextsFollow, Loadable, EachOnce, At
  <2> QED BY <1>7, <2>3, <2>5 DEF FoldersInv
<1>9. CASE SetFolders(t)
  <2>1. /\ task[t].pc = "folders" /\ task[t] \in Moving /\ Goto(t, "extend") /\ contexts' = contexts
        /\ folders' = (folders \ task[t].removed) \cup task[t].added
    BY <1>9, Shape DEF SetFolders, At
  <2>2. /\ task'[t].pc = "extend" /\ task'[t].added = task[t].added
        /\ task'[t].removed = task[t].removed /\ task'[t].loaded = task[t].loaded
    <3>1. task'[t] = [task[t] EXCEPT !.pc = "extend"] BY <2>1, GoOn
    <3> QED BY <2>1, <3>1 DEF Moving
  <2>3. \A u \in Task : /\ task'[u].pc \notin {"adopt", "folders"}
                        /\ task'[u].pc = "extend" => u = t
    BY <1>6, <2>2 DEF Replacing
  <2>4. /\ task[t].removed \subseteq folders /\ task[t].added \cap folders = {}
        /\ wanted = (folders \ task[t].removed) \cup task[t].added
    BY <2>1 DEF FoldersInv, FoldersFollow, At
  <2>5. FoldersFollow' BY <1>1, <2>1, <2>2, <2>3, <2>4 DEF FoldersFollow, At
  <2>6. ~pending /\ Loadable =>
          /\ EachOnce(contexts, (wanted \ task[t].added) \cup task[t].removed, disk)
          /\ EachOnce(task[t].loaded, task[t].added, disk)
    BY <2>1 DEF FoldersInv, ContextsFollow, At
  <2>7. ContextsFollow'
    BY <1>1, <2>1, <2>2, <2>3, <2>6 DEF ContextsFollow, Loadable, EachOnce, At
  <2> QED BY <1>7, <2>5, <2>7 DEF FoldersInv
<1>10. CASE Extend(t)
  <2>1. /\ task[t].pc = "extend" /\ task[t] \in Moving /\ Goto(t, "clear") /\ folders' = folders
        /\ contexts' = Kept(contexts, task[t].removed) \o task[t].loaded
    BY <1>10, Shape DEF Extend, At
  <2>2. task'[t].pc = "clear" BY <2>1, GoOn
  <2>3. \A u \in Task : /\ task[u].pc # "folders"
                        /\ task'[u].pc \notin {"adopt", "folders", "extend"}
    BY <1>2, <1>6, <2>1, <2>2 DEF Replacing
  <2>4. FoldersFollow' BY <1>1, <2>1, <2>3 DEF FoldersInv, FoldersFollow, At
  <2>5. ASSUME ~pending, Loadable PROVE EachOnce(contexts', wanted, disk)
    <3> DEFINE added == task[t].added
               removed == task[t].removed
    <3>1. /\ EachOnce(contexts, (wanted \ added) \cup removed, disk)
          /\ EachOnce(task[t].loaded, added, disk)
      BY <2>1, <2>5 DEF FoldersInv, ContextsFollow, At
    <3>2. removed \cap wanted = {} /\ added \subseteq wanted
      BY <2>1 DEF FoldersInv, FoldersFollow, At
    <3> HIDE DEF added, removed
    <3>3. EachOnce(Kept(contexts, removed), ((wanted \ added) \cup removed) \ removed, disk)
      BY <3>1, KeptEachOnce
    <3>4. ((wanted \ added) \cup removed) \ removed = wanted \ added BY <3>2
    <3>5. EachOnce(Kept(contexts, removed) \o task[t].loaded, (wanted \ added) \cup added, disk)
      <4>1. (wanted \ added) \cap added = {} OBVIOUS
      <4> QED BY <3>1, <3>3, <3>4, <4>1, JoinEachOnce
    <3>6. (wanted \ added) \cup added = wanted BY <3>2
    <3> QED BY <2>1, <3>5, <3>6 DEF removed
  <2>6. ContextsFollow' BY <1>1, <2>3, <2>5 DEF ContextsFollow, Loadable, EachOnce, At
  <2> QED BY <1>7, <2>4, <2>6 DEF FoldersInv
<1> QED BY <1>8, <1>9, <1>10

\* Every step keeps what a spaced session keeps.
LEMMA FoldersStep ==
  ASSUME TypeOK, SpacedInv, [Next]_vars PROVE SpacedInv'
<1>1. session' = session
  BY DEF Next, vars, client, EditConfig, Change, StartReload, StartMove, Diagnose, WillSave, Ask,
         Progress, Adopt, Clear, Bump, SetFolders, Extend, LookUp, LookUpCache, Insert, Report,
         Gate, ReplyEdits
<1>2. SUFFICES ASSUME session.spaced PROVE FoldersInv'
  BY <1>1 DEF SpacedInv
<1>3. FoldersInv BY <1>2 DEF SpacedInv
<1>4. ASSUME NEW t \in Task, Adopt(t) \/ SetFolders(t) \/ Extend(t) PROVE FoldersInv'
  BY <1>3, <1>4, FoldersReplacing
<1>5. ASSUME NEW t \in Task, Clear(t) \/ Bump(t) PROVE FoldersInv'
  <2>1. UNCHANGED <<folders, contexts, disk, session, wanted, pending>>
    BY <1>5 DEF Clear, Bump, client
  <2>2. task[t].pc \in {"clear", "bump"} BY <1>5 DEF Clear, Bump, At
  <2>3. task'[t].pc \in {"bump", "idle"} /\ \A u \in Task \ {t} : task'[u] = task[u]
    <3>1. CASE Clear(t)
      <4>1. Goto(t, "bump") BY <3>1 DEF Clear
      <4>2. CASE task[t] \in Reloading BY <4>1, <4>2, GoOn
      <4>3. CASE task[t] \in Moving BY <4>1, <4>3, GoOn
      <4> QED BY <2>2, <4>2, <4>3, Shape
    <3>2. CASE Bump(t)
      <4>1. task'[t] = Idle /\ \A u \in Task \ {t} : task'[u] = task[u]
        BY <3>2, GoTo DEF Bump
      <4> QED BY <4>1 DEF Idle
    <3> QED BY <1>5, <3>1, <3>2
  <2> QED BY <1>3, <2>1, <2>2, <2>3, FoldersStay DEF Replacing
<1>6. ASSUME NEW t \in Task,
             LookUp(t) \/ LookUpCache(t) \/ Insert(t) \/ Report(t) \/ Gate(t) \/ ReplyEdits(t)
      PROVE  FoldersInv'
  <2>1. UNCHANGED <<folders, contexts, disk, session, wanted, pending>>
    BY <1>6 DEF LookUp, LookUpCache, Insert, Report, Gate, ReplyEdits, client, server
  <2>2. /\ task[t] \in Answering /\ \A u \in Task \ {t} : task'[u] = task[u]
        /\ task'[t] = Idle \/ task'[t] \in Answering
    BY <1>6, TypedAnswering
  <2>3. task[t].pc \notin Replacing /\ task'[t].pc \notin Replacing
    BY <2>2 DEF Answering, Idle, Replacing
  <2> QED BY <1>3, <2>1, <2>2, <2>3, FoldersStay DEF Replacing
<1>7. ASSUME NEW t \in Task, NEW d \in Doc, Diagnose(t, d) \/ WillSave(t, d) PROVE FoldersInv'
  <2>1. /\ UNCHANGED <<server, client>> /\ At(t, "idle") /\ task'[t].pc = "route"
        /\ \A u \in Task \ {t} : task'[u] = task[u]
    BY <1>7, TypedAsking
  <2>2. UNCHANGED <<folders, contexts, disk, session, wanted, pending>>
    BY <2>1 DEF server, client
  <2> QED BY <1>3, <2>1, <2>2, FoldersStay DEF Replacing, At
<1>8. ASSUME NEW t \in Task,
             \/ StartReload(t)
             \/ \E added \in SUBSET (Folder \ wanted), removed \in SUBSET wanted :
                  StartMove(t, added, removed)
      PROVE  FoldersInv'
  BY <1>2, <1>3, <1>8, FoldersStarting
<1>9. CASE EditConfig
  <2>1. UNCHANGED <<folders, contexts, session, wanted, task>> /\ pending' = TRUE
    BY <1>9 DEF EditConfig, server
  <2>2. FoldersFollow' BY <1>3, <2>1 DEF FoldersInv, FoldersFollow, At
  <2>3. OneAtATime' BY <1>3, <2>1 DEF FoldersInv, OneAtATime
  <2> QED BY <2>1, <2>2, <2>3 DEF FoldersInv, ContextsFollow
<1>10. CASE UNCHANGED vars \/ \E d \in Doc : Change(d)
  <2>1. UNCHANGED <<folders, contexts, disk, session, wanted, pending, task>>
    BY <1>10 DEF Change, vars, server, client
  <2> QED BY <1>3, <2>1, FoldersStay
<1> QED BY <1>4, <1>5, <1>6, <1>7, <1>8, <1>9, <1>10 DEF Next, Progress

\* A list with one context for each folder is as long as there are folders.
LEMMA OneForEach ==
  ASSUME NEW list, NEW R, NEW config, EachOnce(list, R, config)
  PROVE  Len(list) = Cardinality(R)
<1> DEFINE n == Len(list)
           root == [i \in 1..n |-> list[i].root]
<1>1. /\ n \in Nat /\ DOMAIN list = 1..n /\ R = {list[i].root : i \in 1..n}
      /\ \A i, j \in 1..n : list[i].root = list[j].root => i = j
  BY DEF EachOnce
<1> HIDE DEF n
<1>2. root \in Bijection(1..n, R)
  BY <1>1 DEF Bijection, Injection, Surjection, IsInjective
<1>3. IsFiniteSet(1..n) /\ Cardinality(1..n) = n BY <1>1, FS_Interval
<1>4. ExistsBijection(1..n, R) BY <1>2 DEF ExistsBijection
<1>5. Cardinality(R) = n BY <1>1, <1>4, FS_CountingElements
<1> QED BY <1>5 DEF n

\* In a session whose client leaves a configuration event time to be handled before it sends
\* the next, every folder the client has open ends with one context, and it is the
\* configuration on disk: for any folders, any number of handlers and any edits.
THEOREM FoldersAreCurrent == Spec => []FoldersCurrent
<1>1. Init => TypeOK /\ SpacedInv
  <2>1. SUFFICES ASSUME Init PROVE TypeOK /\ SpacedInv OBVIOUS
  <2>2. TypeOK BY <2>1, IdsInit DEF IInv
  <2>3. \A t \in Task : task[t].pc = "idle" BY <2>1 DEF Init, Idle
  <2>4. folders = wanted /\ contexts = Load(wanted) BY <2>1 DEF Init
  <2>5. EachOnce(contexts, wanted, disk) BY <2>2, <2>4, LoadEachOnce DEF TypeOK
  <2> QED BY <2>2, <2>3, <2>4, <2>5 DEF SpacedInv, FoldersInv, OneAtATime, FoldersFollow, ContextsFollow, At
<1>2. IInv /\ SpacedInv /\ [Next]_vars => SpacedInv' BY FoldersStep DEF IInv
<1>3. SpacedInv => FoldersCurrent
  <2>1. SUFFICES ASSUME SpacedInv, session.spaced, ~Configuring, ~pending, Loadable
                 PROVE  /\ Roots = wanted /\ Len(contexts) = Cardinality(Roots)
                        /\ \A i \in DOMAIN contexts : contexts[i].config = disk
    BY DEF FoldersCurrent
  <2>2. EachOnce(contexts, wanted, disk) BY <2>1 DEF SpacedInv, FoldersInv, ContextsFollow, Configuring
  <2>3. Roots = wanted /\ \A i \in DOMAIN contexts : contexts[i].config = disk
    BY <2>2 DEF EachOnce, Roots
  <2> QED BY <2>2, <2>3, OneForEach
<1> QED BY <1>1, <1>2, <1>3, IdsHold, PTL DEF Spec
=============================================================================
