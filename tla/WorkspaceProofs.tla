--------------------------- MODULE WorkspaceProofs --------------------------
(***************************************************************************)
(* For every set of documents, skills and configurations of OpenClaw, any  *)
(* number of commands that run beside each other, and of faults: a         *)
(* migration with backups loses no text, one with --refresh copies all     *)
(* that it does not report, and a migration that changes a configuration   *)
(* keeps the providers, the channels, the search key and the model that    *)
(* are in use there.                                                       *)
(***************************************************************************)
EXTENDS Workspace, SequenceTheorems, FiniteSetTheorems, TLAPS

USE WorkspaceAssumption DEF WorkspaceAssumption

-----------------------------------------------------------------------------
(* The inductive invariant.                                                *)

Content == Texts \cup {Absent, Torn, Template, Online, Bundled}

AnyConfig == Config \cup {NoConfig, TornConfig}

\* What a plan is made of.
Tasks == [type : {"skip", "backup", "copy"}, f : Files] \cup [type : {"mkdir", "stray"}, f : Skills]
           \cup {Action("config", "config")}

Migration == [at : {"idle", "confirm", "run", "save", "backup", "copy", "write"},
              todo : Seq(Tasks), refresh : BOOLEAN, errors : BOOLEAN,
              config : AnyConfig, loaded : AnyConfig]

\* A skill has a file or a backup only in its directory.
DirInv == \A s \in Skills \ dirs : dst[s] = Absent /\ bak[s] = Absent

TypeInv ==
  /\ src \in [Files -> {Absent} \cup Texts] /\ raw \in OpenClawConfigs
  /\ stray \in SUBSET Skills
  /\ dst \in [Files -> Content] /\ bak \in [Files -> Content \cup {Stray}]
  /\ dirs \in SUBSET Skills /\ DirInv
  /\ config \in AnyConfig /\ mig \in Migration
  /\ install \in [at : {"idle", "fetch", "write"}, skill : Skills \cup {"none"}]
  /\ install.at # "idle" => install.skill \in Skills
  /\ edits \in Nat
  /\ before \in [Files -> Content] /\ touched \in SUBSET Files

\* The task a migration is at, and its place in it.
Copies(a, f) == a.type \in {"copy", "backup"} /\ a.f = f

PlaceInv ==
  /\ mig.at = "idle" => mig.todo = <<>>
  /\ mig.at = "save" => mig.todo # <<>> /\ mig.todo[1].type = "config"
  /\ mig.at \in {"backup", "copy"} => mig.todo # <<>> /\ mig.todo[1].type = "backup"
  /\ mig.at = "write" => mig.todo # <<>> /\ mig.todo[1].type \in {"copy", "backup", "stray"}
  /\ \A i \in DOMAIN mig.todo : mig.todo[i].type = "stray" => mig.todo[i].f \in stray
  /\ raw = NoConfig => \A i \in DOMAIN mig.todo : mig.todo[i].type # "config"

\* No file is copied twice.
OnceInv ==
  \A i, j \in DOMAIN mig.todo : \A f \in Files :
    Copies(mig.todo[i], f) /\ Copies(mig.todo[j], f) => i = j

\* A file that has something to lose is copied only after its backup, which is in
\* place from the moment the file is opened for writing.
SurvivesOf(f) ==
  /\ before[f] \in {dst[f], bak[f]}
  /\ \A i \in DOMAIN mig.todo : Copies(mig.todo[i], f) =>
       /\ mig.todo[i].type = "backup"
       /\ IF i = 1 /\ mig.at \in {"copy", "write"} THEN bak[f] = before[f] ELSE dst[f] = before[f]
       /\ i = 1 /\ mig.at = "backup" => bak[f] # Absent

SurvivesInv == \A f \in Files \ (touched \cup stray) : before[f] # Absent => SurvivesOf(f)

\* A file of OpenClaw's is copied, or will be.
RefreshOf(f) ==
  \/ dst[f] = src[f]
  \/ \E i \in DOMAIN mig.todo : /\ mig.todo[i] = Action("copy", f)
                                /\ i = 1 /\ mig.at = "write" => dst[f] # Absent

RefreshInv ==
  mig.refresh => /\ \A i \in DOMAIN mig.todo : mig.todo[i].type # "backup"
                 /\ ~mig.errors => \A f \in Files \ touched : src[f] # Absent => RefreshOf(f)

\* What is saved is what was loaded, merged.
ConfigInv ==
  mig.at = "save" /\ mig.loaded # NoConfig =>
    /\ mig.loaded \in Config
    /\ mig.config = MergeConfig(mig.loaded, ConvertConfig(raw))

IInv == TypeInv /\ PlaceInv /\ OnceInv /\ SurvivesInv /\ RefreshInv /\ ConfigInv

-----------------------------------------------------------------------------
(* The plan of a migration.                                                *)

LEMMA TaskFields ==
  ASSUME NEW a \in Tasks
  PROVE  /\ a.type \in {"skip", "backup", "copy", "stray", "mkdir", "config"}
         /\ a.type \in {"skip", "backup", "copy"} => a.f \in Files
         /\ a.type \in {"mkdir", "stray"} => a.f \in Skills
BY DEF Tasks, Action

\* The elements of a finite set, each once.
LEMMA SetToSeqElements ==
  ASSUME NEW S, IsFiniteSet(S)
  PROVE  /\ SetToSeq(S) \in Seq(S) /\ Len(SetToSeq(S)) = Cardinality(S) /\ Cardinality(S) \in Nat
         /\ \A i, j \in 1 .. Cardinality(S) : SetToSeq(S)[i] = SetToSeq(S)[j] => i = j
         /\ \A x \in S : \E i \in 1 .. Cardinality(S) : SetToSeq(S)[i] = x
<1>. DEFINE n == Cardinality(S)
            q == SetToSeq(S)
<1>1. n \in Nat /\ ExistsBijection(1 .. n, S)
  BY FS_CardinalityType
<1>2. \E h \in [1 .. n -> S] : IsInjective(h)
  BY <1>1 DEF ExistsBijection, Bijection, Injection, IsInjective
<1>3. q \in [1 .. n -> S] /\ IsInjective(q)
  BY <1>2 DEF SetToSeq
<1>4. q \in Injection(1 .. n, S)
  BY <1>3 DEF Injection, IsInjective
<1>5. Cardinality(1 .. n) = n
  BY <1>1, FS_Interval
<1>. HIDE DEF q
<1>6. q \in Surjection(1 .. n, S)
  BY <1>4, <1>5, FS_Injection
<1>7. q \in Seq(S) /\ Len(q) = n
  BY <1>1, <1>3, SeqDef, LenProperties
<1>8. \A i, j \in 1 .. n : q[i] = q[j] => i = j
  BY <1>3 DEF IsInjective
<1>9. \A x \in S : \E i \in 1 .. n : q[i] = x
  BY <1>6 DEF Surjection
<1>10. QED
  BY <1>1, <1>7, <1>8, <1>9 DEF q

\* What a plan of the files of a set looks like: all tasks with their type as
\* planned, no file twice, none of the files that are there forgotten.
Planned(plan, force, S) ==
  /\ plan \in Seq(Tasks)
  /\ \A i \in DOMAIN plan : plan[i].type # "config"
  /\ \A i \in DOMAIN plan : plan[i].type = "stray" => plan[i].f \in stray
  /\ \A i \in DOMAIN plan : plan[i].type \in {"copy", "backup"} =>
       plan[i].f \in S /\ plan[i] = PlanFileCopy(plan[i].f, force)
  /\ \A i, j \in DOMAIN plan : \A f \in S : Copies(plan[i], f) /\ Copies(plan[j], f) => i = j
  /\ \A f \in S : src[f] # Absent => \E i \in DOMAIN plan : plan[i] = PlanFileCopy(f, force)

LEMMA PlanFileCopyType ==
  ASSUME NEW f \in Files, NEW force
  PROVE  PlanFileCopy(f, force) \in Tasks /\ PlanFileCopy(f, force).f = f
         /\ PlanFileCopy(f, force).type \in {"skip", "backup", "copy"}
BY DEF PlanFileCopy, Action, Tasks

DocsPlan(force) == [i \in 1 .. Cardinality(Docs) |-> PlanFileCopy(SetToSeq(Docs)[i], force)]

Found == SetToSeq({s \in Skills : src[s] # Absent})
SkillsPlan(force) ==
  [i \in 1 .. 3 * Len(Found) |->
     LET s == Found[(i + 2) \div 3]
     IN  CASE i % 3 = 1 -> Action("mkdir", s)
           [] i % 3 = 2 -> PlanFileCopy(s, force)
           [] OTHER     -> Action(IF s \in stray THEN "stray" ELSE "skip", s)]

LEMMA DocsPlanned ==
  ASSUME NEW force
  PROVE  Planned(DocsPlan(force), force, Docs)
<1>. DEFINE plan == DocsPlan(force)
            q == SetToSeq(Docs)
            n == Cardinality(Docs)
<1>1. IsFiniteSet(Docs)
  BY FS_Subset DEF Files
<1>2. /\ q \in Seq(Docs) /\ Len(q) = n /\ n \in Nat
      /\ \A i, j \in 1 .. n : q[i] = q[j] => i = j
      /\ \A x \in Docs : \E i \in 1 .. n : q[i] = x
  BY <1>1, SetToSeqElements
<1>3. \A i \in 1 .. n : q[i] \in Docs /\ q[i] \in Files
  BY <1>2, ElementOfSeq DEF Files
<1>4. DOMAIN plan = 1 .. n /\ \A i \in 1 .. n : plan[i] = PlanFileCopy(q[i], force)
  BY DEF DocsPlan
<1>. HIDE DEF plan, q, n
<1>5. \A i \in 1 .. n : /\ plan[i] \in Tasks /\ plan[i].f = q[i]
                         /\ plan[i].type \in {"skip", "backup", "copy"}
  BY <1>3, <1>4, PlanFileCopyType
<1>6. plan \in Seq(Tasks)
  <2>1. plan = [i \in 1 .. n |-> plan[i]]
    BY <1>4 DEF plan, DocsPlan, n
  <2>2. plan \in [1 .. n -> Tasks]
    BY <1>5, <2>1
  <2>3. QED
    BY <1>2, <2>2, SeqDef
<1>7. \A i \in DOMAIN plan : plan[i].f \in Docs /\ plan[i] = PlanFileCopy(plan[i].f, force)
  BY <1>3, <1>4, <1>5
<1>8. \A i, j \in DOMAIN plan : \A f \in Docs : Copies(plan[i], f) /\ Copies(plan[j], f) => i = j
  BY <1>2, <1>4, <1>5 DEF Copies
<1>9. \A f \in Docs : \E i \in DOMAIN plan : plan[i] = PlanFileCopy(f, force)
  BY <1>2, <1>4
<1>10. \A i \in DOMAIN plan : plan[i].type # "config" /\ plan[i].type # "stray"
  BY <1>4, <1>5
<1>11. QED
  BY <1>6, <1>7, <1>8, <1>9, <1>10 DEF Planned, plan

LEMMA SkillsPlanned ==
  ASSUME NEW force
  PROVE  Planned(SkillsPlan(force), force, Skills)
<1>. DEFINE plan == SkillsPlan(force)
            q == Found
            n == Len(Found)
            F == {s \in Skills : src[s] # Absent}
<1>1. IsFiniteSet(F)
  BY FS_Subset DEF Files
<1>2. /\ q \in Seq(F) /\ n \in Nat
      /\ \A i, j \in 1 .. n : q[i] = q[j] => i = j
      /\ \A x \in F : \E i \in 1 .. n : q[i] = x
  BY <1>1, SetToSeqElements DEF Found
<1>3. \A i \in 1 .. n : q[i] \in Skills /\ q[i] \in Files
  BY <1>2, ElementOfSeq DEF Files
<1>4. DOMAIN plan = 1 .. 3 * n
  BY DEF SkillsPlan
<1>5. \A i \in 1 .. 3 * n : (i + 2) \div 3 \in 1 .. n /\ (i % 3 = 2 => i = 3 * ((i + 2) \div 3) - 1)
  <2>. SUFFICES ASSUME NEW i \in 1 .. 3 * n
                PROVE  (i + 2) \div 3 \in 1 .. n /\ (i % 3 = 2 => i = 3 * ((i + 2) \div 3) - 1)
    OBVIOUS
  <2>. DEFINE k == (i + 2) \div 3
  <2>1. k \in Int /\ 3 * k =< i + 2 /\ i + 2 < 3 * k + 3
    BY <1>2
  <2>2. k \in 1 .. n
    <3>. HIDE DEF k
    <3>1. QED
      BY <1>2, <2>1
  <2>3. ASSUME i % 3 = 2 PROVE i = 3 * k - 1
    <3>1. PICK m \in Int : i = 3 * m + 2
      <4>1. i = 3 * (i \div 3) + 2 /\ i \div 3 \in Int
        BY <1>2, <2>3
      <4>2. QED
        BY <4>1
    <3>. HIDE DEF k
    <3>2. QED
      BY <2>1, <3>1
  <2>4. QED
    BY <2>2, <2>3
<1>6. \A k \in 1 .. n : 3 * k - 1 \in 1 .. 3 * n /\ (3 * k - 1) % 3 = 2 /\ (3 * k - 1 + 2) \div 3 = k
  BY <1>2
<1>7. \A i \in 1 .. 3 * n :
        LET s == q[(i + 2) \div 3]
        IN  CASE i % 3 = 1 -> plan[i] = Action("mkdir", s)
              [] i % 3 = 2 -> plan[i] = PlanFileCopy(s, force)
              [] OTHER     -> plan[i] = Action(IF s \in stray THEN "stray" ELSE "skip", s)
  BY DEF SkillsPlan
<1>. HIDE DEF plan, q, n
<1>8. \A i \in 1 .. 3 * n :
        /\ plan[i] \in Tasks /\ plan[i].type # "config" /\ plan[i].f = q[(i + 2) \div 3]
        /\ plan[i].type = "stray" => plan[i].f \in stray
        /\ plan[i].type \in {"copy", "backup"} => i % 3 = 2 /\ plan[i] = PlanFileCopy(plan[i].f, force)
  <2>. SUFFICES ASSUME NEW i \in 1 .. 3 * n
       PROVE  /\ plan[i] \in Tasks /\ plan[i].type # "config" /\ plan[i].f = q[(i + 2) \div 3]
              /\ plan[i].type = "stray" => plan[i].f \in stray
              /\ plan[i].type \in {"copy", "backup"} => i % 3 = 2 /\ plan[i] = PlanFileCopy(plan[i].f, force)
    OBVIOUS
  <2>. DEFINE s == q[(i + 2) \div 3]
  <2>1. s \in Skills /\ s \in Files
    BY <1>3, <1>5
  <2>2. \/ plan[i] = Action("mkdir", s)
        \/ i % 3 = 2 /\ plan[i] = PlanFileCopy(s, force)
        \/ plan[i] = Action("stray", s) /\ s \in stray
        \/ plan[i] = Action("skip", s)
    BY <1>7
  <2>. HIDE DEF s
  <2>3. CASE i % 3 = 2 /\ plan[i] = PlanFileCopy(s, force)
    BY <2>1, <2>3, PlanFileCopyType DEF s
  <2>4. CASE plan[i] = Action("mkdir", s)
    BY <2>1, <2>4 DEF Action, Tasks, s
  <2>5. CASE plan[i] = Action("stray", s) /\ s \in stray
    BY <2>1, <2>5 DEF Action, Tasks, s
  <2>6. CASE plan[i] = Action("skip", s)
    BY <2>1, <2>6 DEF Action, Tasks, s
  <2>7. QED
    BY <2>2, <2>3, <2>4, <2>5, <2>6
<1>9. plan \in Seq(Tasks)
  <2>1. plan = [i \in 1 .. 3 * n |-> plan[i]] /\ 3 * n \in Nat
    BY <1>2, <1>4 DEF plan, SkillsPlan, n
  <2>. DEFINE m == 3 * n
  <2>2. \A i \in 1 .. m : plan[i] \in Tasks
    BY <1>8
  <2>3. plan = [i \in 1 .. m |-> plan[i]] /\ m \in Nat
    BY <2>1
  <2>. HIDE DEF m
  <2>4. plan \in [1 .. m -> Tasks]
    BY <2>2, <2>3
  <2>5. QED
    BY <2>3, <2>4, SeqDef
<1>10. ASSUME NEW i \in DOMAIN plan, NEW j \in DOMAIN plan, NEW f \in Skills,
              Copies(plan[i], f), Copies(plan[j], f)
       PROVE  i = j
  <2>1. /\ q[(i + 2) \div 3] = q[(j + 2) \div 3]
        /\ i = 3 * ((i + 2) \div 3) - 1 /\ j = 3 * ((j + 2) \div 3) - 1
        /\ (i + 2) \div 3 \in 1 .. n /\ (j + 2) \div 3 \in 1 .. n
    BY <1>4, <1>5, <1>8, <1>10 DEF Copies
  <2>2. (i + 2) \div 3 = (j + 2) \div 3
    BY <1>2, <2>1
  <2>3. QED
    BY <2>1, <2>2
<1>11. \A f \in Skills : src[f] # Absent => \E i \in DOMAIN plan : plan[i] = PlanFileCopy(f, force)
  <2>1. ASSUME NEW k \in 1 .. n
        PROVE  3 * k - 1 \in DOMAIN plan /\ plan[3 * k - 1] = PlanFileCopy(q[k], force)
    <3>. DEFINE i == 3 * k - 1
    <3>1. i \in 1 .. 3 * n /\ i % 3 = 2 /\ i % 3 # 1 /\ (i + 2) \div 3 = k
      BY <1>6
    <3>. HIDE DEF i
    <3>2. plan[i] = PlanFileCopy(q[(i + 2) \div 3], force)
      BY <1>7, <3>1
    <3>3. QED
      BY <1>4, <3>1, <3>2 DEF i
  <2>2. QED
    BY <1>2, <2>1
<1>12. QED
  BY <1>3, <1>4, <1>5, <1>8, <1>9, <1>10, <1>11 DEF Planned, plan

LEMMA ConcatTasks ==
  ASSUME NEW p \in Seq(Tasks), NEW q \in Seq(Tasks)
  PROVE  /\ p \o q \in Seq(Tasks)
         /\ \A i \in DOMAIN (p \o q) :
              \/ i \in DOMAIN p /\ (p \o q)[i] = p[i]
              \/ i - Len(p) \in DOMAIN q /\ ~(i \in DOMAIN p) /\ (p \o q)[i] = q[i - Len(p)]
         /\ \A i \in DOMAIN p : i \in DOMAIN (p \o q) /\ (p \o q)[i] = p[i]
         /\ \A i \in DOMAIN q : i + Len(p) \in DOMAIN (p \o q) /\ (p \o q)[i + Len(p)] = q[i]
<1>1. /\ p \o q \in Seq(Tasks) /\ Len(p \o q) = Len(p) + Len(q)
      /\ \A i \in 1 .. Len(p) + Len(q) : (p \o q)[i] = IF i <= Len(p) THEN p[i] ELSE q[i - Len(p)]
  BY ConcatProperties
<1>2. /\ DOMAIN p = 1 .. Len(p) /\ DOMAIN q = 1 .. Len(q) /\ DOMAIN (p \o q) = 1 .. Len(p) + Len(q)
      /\ Len(p) \in Nat /\ Len(q) \in Nat
  BY <1>1, LenProperties
<1>. DEFINE r == p \o q
<1>. HIDE DEF r
<1>3. QED
  <2>1. \A i \in DOMAIN r : \/ i \in DOMAIN p /\ r[i] = p[i]
                            \/ i - Len(p) \in DOMAIN q /\ ~(i \in DOMAIN p) /\ r[i] = q[i - Len(p)]
    BY <1>1, <1>2 DEF r
  <2>2. \A i \in DOMAIN p : i \in DOMAIN r /\ r[i] = p[i]
    BY <1>1, <1>2 DEF r
  <2>3. ASSUME NEW i \in DOMAIN q PROVE i + Len(p) \in DOMAIN r /\ r[i + Len(p)] = q[i]
    <3>1. i + Len(p) \in 1 .. Len(p) + Len(q) /\ ~(i + Len(p) <= Len(p)) /\ i + Len(p) - Len(p) = i
      BY <1>2
    <3>2. r[i + Len(p)] = q[i + Len(p) - Len(p)]
      BY <1>1, <3>1 DEF r
    <3>3. QED
      BY <1>2, <3>1, <3>2 DEF r
  <2>4. QED
    BY <1>1, <2>1, <2>2, <2>3 DEF r

LEMMA WorkspacePlanned ==
  ASSUME NEW force
  PROVE  Planned(PlanWorkspace(force), force, Files)
<1>. DEFINE p == DocsPlan(force)
            q == SkillsPlan(force)
            r == p \o q
<1>1. PlanWorkspace(force) = r
  BY DEF PlanWorkspace, DocsPlan, SkillsPlan, Found
<1>2. Planned(p, force, Docs) /\ Planned(q, force, Skills)
  BY DocsPlanned, SkillsPlanned
<1>. HIDE DEF p, q
<1>3. p \in Seq(Tasks) /\ q \in Seq(Tasks)
  BY <1>2 DEF Planned
<1>4. /\ r \in Seq(Tasks)
      /\ \A i \in DOMAIN r :
              \/ i \in DOMAIN p /\ r[i] = p[i]
              \/ i - Len(p) \in DOMAIN q /\ ~(i \in DOMAIN p) /\ r[i] = q[i - Len(p)]
      /\ \A i \in DOMAIN p : i \in DOMAIN r /\ r[i] = p[i]
      /\ \A i \in DOMAIN q : i + Len(p) \in DOMAIN r /\ r[i + Len(p)] = q[i]
  BY <1>3, ConcatTasks
<1>5. Len(p) \in Nat /\ DOMAIN r \subseteq Int
  <2>1. DOMAIN r = 1 .. Len(r) /\ Len(r) \in Nat
    BY <1>4, LenProperties
  <2>2. QED
    BY <1>3, <2>1, LenProperties
<1>. HIDE DEF r
<1>6. ASSUME NEW i \in DOMAIN r PROVE r[i].type # "config" /\ (r[i].type = "stray" => r[i].f \in stray)
  <2>1. CASE i \in DOMAIN p /\ r[i] = p[i]
    BY <1>2, <2>1 DEF Planned
  <2>2. CASE i - Len(p) \in DOMAIN q /\ r[i] = q[i - Len(p)]
    BY <1>2, <2>2 DEF Planned
  <2>3. QED
    BY <1>4, <2>1, <2>2
<1>7. ASSUME NEW i \in DOMAIN r, r[i].type \in {"copy", "backup"}
      PROVE  r[i].f \in Files /\ r[i] = PlanFileCopy(r[i].f, force)
  <2>1. CASE i \in DOMAIN p /\ r[i] = p[i]
    BY <1>2, <1>7, <2>1 DEF Planned, Files
  <2>2. CASE i - Len(p) \in DOMAIN q /\ r[i] = q[i - Len(p)]
    BY <1>2, <1>7, <2>2 DEF Planned, Files
  <2>3. QED
    BY <1>4, <2>1, <2>2
<1>8. ASSUME NEW i \in DOMAIN r, NEW j \in DOMAIN r, NEW f \in Files,
             Copies(r[i], f), Copies(r[j], f)
      PROVE  i = j
  <2>0. r[i].type \in {"copy", "backup"} /\ r[j].type \in {"copy", "backup"} /\ r[i].f = f /\ r[j].f = f
    BY <1>8 DEF Copies
  <2>1. CASE i \in DOMAIN p /\ j \in DOMAIN p
    <3>1. r[i] = p[i] /\ r[j] = p[j]
      BY <1>4, <2>1
    <3>2. f \in Docs
      BY <1>2, <2>0, <2>1, <3>1 DEF Planned
    <3>3. QED
      BY <1>2, <1>8, <2>1, <3>1, <3>2 DEF Planned
  <2>2. CASE i \in DOMAIN p /\ j \notin DOMAIN p
    <3>1. f \in Docs /\ f \in Skills
      BY <1>2, <1>4, <2>0, <2>2 DEF Planned
    <3>2. QED
      BY <3>1
  <2>3. CASE i \notin DOMAIN p /\ j \in DOMAIN p
    <3>1. f \in Docs /\ f \in Skills
      BY <1>2, <1>4, <2>0, <2>3 DEF Planned
    <3>2. QED
      BY <3>1
  <2>4. CASE i \notin DOMAIN p /\ j \notin DOMAIN p
    <3>1. /\ i - Len(p) \in DOMAIN q /\ j - Len(p) \in DOMAIN q
          /\ r[i] = q[i - Len(p)] /\ r[j] = q[j - Len(p)]
      BY <1>4, <2>4
    <3>2. f \in Skills
      BY <1>2, <2>0, <3>1 DEF Planned
    <3>3. i - Len(p) = j - Len(p)
      BY <1>2, <1>8, <3>1, <3>2 DEF Planned
    <3>4. QED
      BY <1>5, <3>3
  <2>5. QED
    BY <2>1, <2>2, <2>3, <2>4
<1>9. \A f \in Files : src[f] # Absent => \E i \in DOMAIN r : r[i] = PlanFileCopy(f, force)
  <2>. SUFFICES ASSUME NEW f \in Files, src[f] # Absent
                PROVE  \E i \in DOMAIN r : r[i] = PlanFileCopy(f, force)
    OBVIOUS
  <2>1. CASE f \in Docs
    <3>1. PICK i \in DOMAIN p : p[i] = PlanFileCopy(f, force)
      BY <1>2, <2>1 DEF Planned
    <3>2. QED
      BY <1>4, <3>1
  <2>2. CASE f \in Skills
    <3>1. PICK i \in DOMAIN q : q[i] = PlanFileCopy(f, force)
      BY <1>2, <2>2 DEF Planned
    <3>2. QED
      BY <1>4, <3>1
  <2>3. QED
    BY <2>1, <2>2 DEF Files
<1>10. QED
  BY <1>1, <1>4, <1>6, <1>7, <1>8, <1>9 DEF Planned

\* What a new migration has to do.
LEMMA MigratePlan ==
  ASSUME TypeInv, NEW force \in BOOLEAN, NEW refresh \in BOOLEAN, NEW flags, Migrate(force, refresh, flags)
  PROVE  /\ mig' \in Migration /\ mig'.at \in {"run", "confirm"} /\ OnceInv'
         /\ \A i \in DOMAIN mig'.todo : \A f \in Files :
              Copies(mig'.todo[i], f) => mig'.todo[i] = PlanFileCopy(f, force \/ refresh)
         /\ \A i \in DOMAIN mig'.todo : mig'.todo[i].type = "backup" =>
              \E f \in Files : mig'.todo[i] = PlanFileCopy(f, force \/ refresh)
         /\ mig'.refresh => /\ refresh
                            /\ \A f \in Files : src[f] # Absent =>
                                 \E i \in DOMAIN mig'.todo : mig'.todo[i] = PlanFileCopy(f, force \/ refresh)
         /\ raw = NoConfig => \A i \in DOMAIN mig'.todo : mig'.todo[i].type # "config"
         /\ \A i \in DOMAIN mig'.todo : mig'.todo[i].type = "stray" => mig'.todo[i].f \in stray
         /\ before' \in [Files -> Content]
         /\ \A f \in Files : before'[f] # Absent => ~force /\ ~refresh /\ before'[f] = dst[f]
         /\ touched' = {} /\ UNCHANGED <<files, install, edits>>
<1>. DEFINE copies  == IF "config" \in flags THEN <<>> ELSE PlanWorkspace(force \/ refresh)
            convert == IF refresh \/ "workspace" \in flags \/ raw = NoConfig THEN <<>>
                       ELSE <<Action("config", "config")>>
            todo == convert \o copies
<1>1. /\ mig' = [NoMigration EXCEPT !.at = IF force THEN "run" ELSE "confirm",
                                    !.todo = todo, !.refresh = refresh /\ copies # <<>>]
      /\ before' = [f \in Files |-> IF force \/ refresh \/ copies = <<>> THEN Absent ELSE dst[f]]
      /\ touched' = {} /\ UNCHANGED <<files, install, edits>>
  BY DEF Migrate
<1>2. copies = <<>> \/ Planned(copies, force \/ refresh, Files)
  BY WorkspacePlanned
<1>3. convert \in Seq(Tasks) /\ \A i \in DOMAIN convert : convert[i].type = "config"
  <2>1. Action("config", "config") \in Tasks /\ Action("config", "config").type = "config"
    BY DEF Tasks, Action
  <2>2. <<Action("config", "config")>> \in Seq(Tasks) /\ DOMAIN <<Action("config", "config")>> = {1}
    BY <2>1
  <2>3. <<>> \in Seq(Tasks) /\ DOMAIN <<>> = {}
    OBVIOUS
  <2>. DEFINE c == Action("config", "config")
  <2>. HIDE DEF c
  <2>4. CASE convert = <<>>
    BY <2>3, <2>4
  <2>5. CASE convert = <<c>>
    BY <2>1, <2>2, <2>5 DEF c
  <2>6. QED
    BY <2>4, <2>5 DEF c
<1>4. copies \in Seq(Tasks)
  <2>1. CASE copies = <<>>
    <3>1. <<>> \in Seq(Tasks)
      OBVIOUS
    <3>. HIDE DEF copies
    <3>2. QED
      BY <2>1, <3>1
  <2>2. CASE Planned(copies, force \/ refresh, Files)
    <3>. HIDE DEF copies
    <3>1. QED
      BY <2>2 DEF Planned
  <2>3. QED
    BY <1>2, <2>1, <2>2
<1>. HIDE DEF copies, convert
<1>5. /\ todo \in Seq(Tasks)
      /\ \A i \in DOMAIN todo :
              \/ i \in DOMAIN convert /\ todo[i] = convert[i]
              \/ i - Len(convert) \in DOMAIN copies /\ ~(i \in DOMAIN convert) /\ todo[i] = copies[i - Len(convert)]
      /\ \A i \in DOMAIN copies : i + Len(convert) \in DOMAIN todo /\ todo[i + Len(convert)] = copies[i]
  BY <1>3, <1>4, ConcatTasks
<1>6. DOMAIN todo \subseteq Int /\ Len(convert) \in Nat
  <2>1. DOMAIN todo = 1 .. Len(todo) /\ Len(todo) \in Nat
    BY <1>5, LenProperties
  <2>2. QED
    BY <1>3, <2>1, LenProperties
<1>. HIDE DEF todo
<1>7. /\ mig' \in Migration /\ mig'.at \in {"run", "confirm"}
      /\ mig'.todo = todo /\ mig'.refresh = (refresh /\ copies # <<>>)
  BY <1>1, <1>5 DEF NoMigration, Migration, AnyConfig
<1>8. ASSUME NEW i \in DOMAIN todo, todo[i].type \in {"copy", "backup"}
      PROVE  /\ copies # <<>> /\ i - Len(convert) \in DOMAIN copies /\ todo[i] = copies[i - Len(convert)]
             /\ todo[i].f \in Files /\ todo[i] = PlanFileCopy(todo[i].f, force \/ refresh)
  <2>1. i - Len(convert) \in DOMAIN copies /\ todo[i] = copies[i - Len(convert)]
    BY <1>3, <1>5, <1>8
  <2>2. copies # <<>>
    BY <2>1
  <2>3. QED
    BY <1>2, <1>8, <2>1, <2>2 DEF Planned
<1>9. OnceInv'
  <2>. SUFFICES ASSUME NEW i \in DOMAIN todo, NEW j \in DOMAIN todo, NEW f \in Files,
                       Copies(todo[i], f), Copies(todo[j], f)
                PROVE  i = j
    BY <1>7 DEF OnceInv
  <2>1. i - Len(convert) = j - Len(convert)
    BY <1>2, <1>8 DEF Planned, Copies
  <2>2. QED
    BY <1>6, <2>1
<1>10. refresh /\ copies # <<>> =>
         \A f \in Files : src[f] # Absent => \E i \in DOMAIN todo : todo[i] = PlanFileCopy(f, force \/ refresh)
  BY <1>2, <1>5 DEF Planned
<1>11. before' \in [Files -> Content] /\ \A f \in Files : before'[f] # Absent => ~force /\ ~refresh /\ before'[f] = dst[f]
  BY <1>1 DEF TypeInv, Content
<1>12. /\ \A i \in DOMAIN todo : \A f \in Files : Copies(todo[i], f) => todo[i] = PlanFileCopy(f, force \/ refresh)
       /\ \A i \in DOMAIN todo : todo[i].type = "backup" =>
            \E f \in Files : todo[i] = PlanFileCopy(f, force \/ refresh)
  BY <1>8 DEF Copies
<1>13. mig'.refresh => /\ refresh
                       /\ \A f \in Files : src[f] # Absent =>
                            \E i \in DOMAIN mig'.todo : mig'.todo[i] = PlanFileCopy(f, force \/ refresh)
  BY <1>7, <1>10
<1>14. raw = NoConfig => \A i \in DOMAIN todo : todo[i].type # "config"
  <2>. SUFFICES ASSUME raw = NoConfig, NEW i \in DOMAIN todo PROVE todo[i].type # "config"
    OBVIOUS
  <2>1. DOMAIN convert = {}
    BY DEF convert
  <2>2. i - Len(convert) \in DOMAIN copies /\ todo[i] = copies[i - Len(convert)] /\ copies # <<>>
    BY <1>5, <2>1
  <2>3. QED
    BY <1>2, <2>2 DEF Planned
<1>15. ASSUME NEW i \in DOMAIN todo, todo[i].type = "stray" PROVE todo[i].f \in stray
  <2>1. i - Len(convert) \in DOMAIN copies /\ todo[i] = copies[i - Len(convert)]
    BY <1>3, <1>5, <1>15
  <2>2. copies # <<>>
    BY <2>1
  <2>3. QED
    BY <1>2, <1>15, <2>1, <2>2 DEF Planned
<1>16. QED
  BY <1>1, <1>7, <1>9, <1>11, <1>12, <1>13, <1>14, <1>15

-----------------------------------------------------------------------------
(* Configurations.                                                         *)

ProviderSettings == [api_key : Values, api_base : Values, auth_method : Values]
ChannelSettings  == [enabled : BOOLEAN, token : Values]

LEMMA ValuesOfCode == "" \in Values /\ "default" \in Values /\ "own" \in Values /\ "oauth" \in Values
BY ValuesAssumption DEF ValuesAssumption

LEMMA DefaultTyped == DefaultConfig \in Config
BY ValuesOfCode DEF DefaultConfig, Config, NoProvider

LEMMA ConvertTyped ==
  ASSUME NEW r \in OpenClawConfigs \ {NoConfig, TornConfig}
  PROVE  ConvertConfig(r) \in Config
<1>1. Get(r, "model", DefaultConfig.model) \in Values /\ Get(r, "search", "") \in Values
  BY OpenClawAssumption, ValuesOfCode DEF OpenClawAssumption, Get, DefaultConfig
<1>2. ASSUME NEW p \in SupportedProviders, p \in DOMAIN r.providers
      PROVE  [api_key |-> Get(r.providers[p], "api_key", ""), api_base |-> Get(r.providers[p], "api_base", ""),
              auth_method |-> ""] \in ProviderSettings
  BY <1>2, OpenClawAssumption, ValuesOfCode DEF OpenClawAssumption, Get, ProviderSettings
<1>3. ASSUME NEW c \in DOMAIN r.channels
      PROVE  [enabled |-> Get(r.channels[c], "enabled", FALSE), token |-> Get(r.channels[c], "token", "")]
               \in ChannelSettings
  <2>1. "token" \in DOMAIN r.channels[c] => r.channels[c].token \in Values
    BY OpenClawAssumption DEF OpenClawAssumption
  <2>2. "enabled" \in DOMAIN r.channels[c] => r.channels[c].enabled \in BOOLEAN
    BY OpenClawAssumption DEF OpenClawAssumption
  <2>3. Get(r.channels[c], "token", "") \in Values
    BY <2>1, ValuesOfCode DEF Get
  <2>4. Get(r.channels[c], "enabled", FALSE) \in BOOLEAN
    <3>1. CASE "enabled" \in DOMAIN r.channels[c]
      BY <2>2, <3>1 DEF Get
    <3>2. CASE "enabled" \notin DOMAIN r.channels[c]
      BY <3>2 DEF Get
    <3>3. QED
      BY <3>1, <3>2
  <2>5. QED
    BY <2>3, <2>4 DEF ChannelSettings
<1>4. NoProvider \in ProviderSettings
  BY ValuesOfCode DEF NoProvider, ProviderSettings
<1>5. ConvertConfig(r).providers \in [SupportedProviders -> ProviderSettings]
  BY <1>2, <1>4 DEF ConvertConfig
<1>6. /\ DOMAIN DefaultConfig.channels = SupportedChannels \cup {"slack"}
      /\ \A c \in SupportedChannels \cup {"slack"} : DefaultConfig.channels[c] \in ChannelSettings
  BY ValuesOfCode DEF DefaultConfig, ChannelSettings
<1>7. ConvertConfig(r).channels \in [SupportedChannels \cup {"slack"} -> ChannelSettings]
  BY <1>3, <1>6 DEF ConvertConfig
<1>8. QED
  BY <1>1, <1>5, <1>7 DEF ConvertConfig, Config, ProviderSettings, ChannelSettings

LEMMA MergeTyped ==
  ASSUME NEW existing \in Config, NEW incoming \in Config
  PROVE  MergeConfig(existing, incoming) \in Config
<1>. DEFINE ps == [p \in DOMAIN existing.providers |->
                     IF Unset(existing, p) THEN incoming.providers[p] ELSE existing.providers[p]]
            cs == [c \in DOMAIN existing.channels |->
                     IF ~existing.channels[c].enabled /\ incoming.channels[c].enabled
                     THEN incoming.channels[c] ELSE existing.channels[c]]
            sr == IF existing.search = "" THEN incoming.search ELSE existing.search
<1>1. MergeConfig(existing, incoming) = [existing EXCEPT !.providers = ps, !.channels = cs, !.search = sr]
  BY DEF MergeConfig
<1>2. ps \in [SupportedProviders -> ProviderSettings]
  BY DEF Config, ProviderSettings
<1>3. cs \in [SupportedChannels \cup {"slack"} -> ChannelSettings]
  BY DEF Config, ChannelSettings
<1>4. sr \in Values
  BY DEF Config
<1>. HIDE DEF ps, cs, sr
<1>5. QED
  BY <1>1, <1>2, <1>3, <1>4 DEF Config, ProviderSettings, ChannelSettings

\* MergeConfig (config.go) keeps what is in use, whatever OpenClaw's file holds.
LEMMA MergeKeeps ==
  ASSUME NEW existing \in Config, NEW incoming
  PROVE  Keeps(MergeConfig(existing, incoming), existing)
<1>. DEFINE new == MergeConfig(existing, incoming)
<1>1. /\ new.model = existing.model
      /\ new.providers = [p \in DOMAIN existing.providers |->
                     IF Unset(existing, p) THEN incoming.providers[p] ELSE existing.providers[p]]
      /\ new.channels = [c \in DOMAIN existing.channels |->
                     IF ~existing.channels[c].enabled /\ incoming.channels[c].enabled
                     THEN incoming.channels[c] ELSE existing.channels[c]]
      /\ new.search = IF existing.search = "" THEN incoming.search ELSE existing.search
  BY DEF MergeConfig, Config
<1>. HIDE DEF new
<1>2. \A p \in DOMAIN existing.providers :
        existing.providers[p].api_key # "" \/ (p = "vllm" /\ existing.providers[p].api_base # "") =>
          new.providers[p] = existing.providers[p]
  BY <1>1 DEF Unset
<1>3. \A c \in DOMAIN existing.channels : existing.channels[c].enabled => new.channels[c] = existing.channels[c]
  BY <1>1
<1>4. QED
  BY <1>1, <1>2, <1>3 DEF Keeps, new

LEMMA SettingsTyped ==
  ASSUME NEW c \in Config, NEW d \in Settings(c)
  PROVE  d \in Config
<1>. DEFINE Setting == [api_key : Values, api_base : Values, auth_method : Values]
<1>0. ASSUME NEW p \in SupportedProviders, NEW s \in Setting, d = [c EXCEPT !.providers[p] = s]
      PROVE  d \in Config
  <2>1. c.providers \in [SupportedProviders -> Setting]
    BY DEF Config
  <2>2. [c.providers EXCEPT ![p] = s] \in [SupportedProviders -> Setting]
    BY <2>1
  <2>3. d = [c EXCEPT !.providers = [c.providers EXCEPT ![p] = s]]
    BY <1>0
  <2>4. QED
    BY <2>2, <2>3 DEF Config
<1>1. ASSUME NEW p \in SupportedProviders, d = [c EXCEPT !.providers[p].api_key = "own"]
      PROVE  d \in Config
  <2>1. c.providers[p] \in Setting
    BY DEF Config
  <2>2. [c.providers[p] EXCEPT !.api_key = "own"] \in Setting
    BY <2>1, ValuesOfCode
  <2>3. QED
    BY <1>0, <1>1, <2>2
<1>2. ASSUME NEW p \in SupportedProviders, d = [c EXCEPT !.providers[p].auth_method = "oauth"]
      PROVE  d \in Config
  <2>1. c.providers[p] \in Setting
    BY DEF Config
  <2>2. [c.providers[p] EXCEPT !.auth_method = "oauth"] \in Setting
    BY <2>1, ValuesOfCode
  <2>3. QED
    BY <1>0, <1>2, <2>2
<1>2a. ASSUME NEW p \in SupportedProviders, d = [c EXCEPT !.providers[p].api_base = "own"]
       PROVE  d \in Config
  <2>1. c.providers[p] \in Setting
    BY DEF Config
  <2>2. [c.providers[p] EXCEPT !.api_base = "own"] \in Setting
    BY <2>1, ValuesOfCode
  <2>3. QED
    BY <1>0, <1>2a, <2>2
<1>3. ASSUME NEW n \in DOMAIN c.channels, d = [c EXCEPT !.channels[n] = [enabled |-> TRUE, token |-> "own"]]
      PROVE  d \in Config
  BY <1>3, ValuesOfCode DEF Config
<1>4. QED
  BY <1>1, <1>2, <1>2a, <1>3 DEF Settings

-----------------------------------------------------------------------------
(* The kinds of steps.                                                     *)

LEMMA TodoTail ==
  ASSUME NEW q \in Seq(Tasks), q # <<>>
  PROVE  /\ Head(q) = q[1] /\ 1 \in DOMAIN q /\ q[1] \in Tasks /\ Tail(q) \in Seq(Tasks)
         /\ \A i \in DOMAIN Tail(q) : i + 1 \in DOMAIN q /\ i + 1 # 1 /\ Tail(q)[i] = q[i + 1] /\ i \in Int
         /\ \A i \in DOMAIN q : i # 1 => \E j \in DOMAIN Tail(q) : Tail(q)[j] = q[i]
<1>1. /\ Len(q) \in Nat /\ DOMAIN q = 1 .. Len(q) /\ Len(q) # 0
  BY EmptySeq, LenProperties
<1>2. /\ Head(q) = q[1] /\ Tail(q) \in Seq(Tasks) /\ Len(Tail(q)) = Len(q) - 1
      /\ \A i \in 1 .. Len(q) - 1 : Tail(q)[i] = q[i + 1]
  BY HeadTailProperties
<1>3. DOMAIN Tail(q) = 1 .. Len(q) - 1
  BY <1>2, LenProperties
<1>4. 1 \in DOMAIN q /\ q[1] \in Tasks
  BY <1>1, ElementOfSeq
<1>5. ASSUME NEW i \in DOMAIN q, i # 1 PROVE \E j \in DOMAIN Tail(q) : Tail(q)[j] = q[i]
  <2>1. i - 1 \in 1 .. Len(q) - 1 /\ i - 1 + 1 = i
    BY <1>1, <1>5
  <2>2. QED
    BY <1>2, <1>3, <2>1
<1>6. \A i \in DOMAIN Tail(q) : i + 1 \in DOMAIN q /\ i + 1 # 1 /\ Tail(q)[i] = q[i + 1] /\ i \in Int
  BY <1>1, <1>2, <1>3
<1>7. QED
  BY <1>2, <1>4, <1>5, <1>6

\* The task at hand is over.
Dropped ==
  /\ mig.todo # <<>> /\ mig' \in Migration
  /\ mig'.at = "run" /\ mig'.todo = Tail(mig.todo) /\ mig'.refresh = mig.refresh

\* The migration goes to another place of the task.
Moved(place) ==
  /\ mig' \in Migration /\ mig'.at = place /\ mig'.todo = mig.todo
  /\ mig'.refresh = mig.refresh /\ mig'.errors = mig.errors

LEMMA MigFields ==
  ASSUME TypeInv
  PROVE  /\ mig.todo # <<>> /\ Done => Dropped /\ mig'.errors = mig.errors
         /\ mig.todo # <<>> /\ Failed => Dropped /\ mig'.errors = TRUE
         /\ \A place \in {"idle", "confirm", "run", "save", "backup", "copy", "write"} : Goto(place) => Moved(place)
<1>1. mig \in Migration /\ mig.todo \in Seq(Tasks)
  BY DEF TypeInv, Migration
<1>2. mig.todo # <<>> => Tail(mig.todo) \in Seq(Tasks)
  BY <1>1, TodoTail
<1>3. ASSUME mig.todo # <<>>, Done PROVE Dropped /\ mig'.errors = mig.errors
  BY <1>1, <1>2, <1>3 DEF Done, Dropped, Migration
<1>4. ASSUME mig.todo # <<>>, Failed PROVE Dropped /\ mig'.errors = TRUE
  BY <1>1, <1>2, <1>4 DEF Failed, Dropped, Migration
<1>5. ASSUME NEW place \in {"idle", "confirm", "run", "save", "backup", "copy", "write"}, Goto(place)
      PROVE  Moved(place)
  BY <1>1, <1>5 DEF Goto, Moved, Migration
<1>6. QED
  BY <1>3, <1>4, <1>5

\* The task at hand, and the file it is about.
LEMMA TaskAtHand ==
  ASSUME TypeInv, NEW place, NEW types, At(place, types)
  PROVE  /\ mig.at = place /\ mig.todo # <<>> /\ mig.todo[1] \in Tasks /\ mig.todo[1].type \in types
         /\ 1 \in DOMAIN mig.todo /\ File = mig.todo[1].f
         /\ mig.todo[1].type \in {"skip", "backup", "copy"} => File \in Files
         /\ mig.todo[1].type \in {"mkdir", "stray"} => File \in Skills
<1>1. mig.todo \in Seq(Tasks)
  BY DEF TypeInv, Migration
<1>2. QED
  BY <1>1, TodoTail, TaskFields DEF At, File

\* Migrations go on from what they have read and written.
LEMMA DropInv ==
  ASSUME TypeInv, PlaceInv, OnceInv, Dropped, UNCHANGED <<raw, stray>>
  PROVE  PlaceInv' /\ OnceInv'
<1>1. mig.todo \in Seq(Tasks)
  BY DEF TypeInv, Migration
<1>2. ASSUME NEW i \in DOMAIN mig'.todo, NEW j \in DOMAIN mig'.todo, NEW f \in Files,
             Copies(mig'.todo[i], f), Copies(mig'.todo[j], f)
      PROVE  i = j
  <2>1. /\ i + 1 \in DOMAIN mig.todo /\ mig'.todo[i] = mig.todo[i + 1] /\ i \in Int
        /\ j + 1 \in DOMAIN mig.todo /\ mig'.todo[j] = mig.todo[j + 1] /\ j \in Int
    BY <1>1, <1>2, TodoTail DEF Dropped
  <2>2. i + 1 = j + 1
    BY <1>2, <2>1 DEF OnceInv
  <2>3. QED
    BY <2>1, <2>2
<1>3. \A i \in DOMAIN mig'.todo : \E j \in DOMAIN mig.todo : mig'.todo[i] = mig.todo[j]
  BY <1>1, TodoTail DEF Dropped
<1>3a. /\ raw = NoConfig => \A i \in DOMAIN mig'.todo : mig'.todo[i].type # "config"
       /\ \A i \in DOMAIN mig'.todo : mig'.todo[i].type = "stray" => mig'.todo[i].f \in stray
  BY <1>3 DEF PlaceInv
<1>4. PlaceInv'
  BY <1>3a DEF Dropped, PlaceInv
<1>5. QED
  BY <1>2, <1>4 DEF OnceInv

\* What was saved from a file stays, and nothing else is given up, when a task ends.
LEMMA SurvivesDrop ==
  ASSUME TypeInv, OnceInv, SurvivesInv, Dropped, UNCHANGED <<stray, history>>,
         \A f \in Files \ stray : bak'[f] = bak[f],
         \A f \in Files : \/ dst'[f] = dst[f]
                          \/ Copies(mig.todo[1], f) /\ mig.at \in {"copy", "write"}
  PROVE  SurvivesInv'
<1>. SUFFICES ASSUME NEW f \in Files \ (touched \cup stray), before[f] # Absent PROVE SurvivesOf(f)'
  BY DEF SurvivesInv, history
<1>1. mig.todo \in Seq(Tasks)
  BY DEF TypeInv, Migration
<1>2. /\ before'[f] = before[f] /\ bak'[f] = bak[f]
      /\ SurvivesOf(f) /\ 1 \in DOMAIN mig.todo
  BY <1>1, TodoTail DEF SurvivesInv, history, Dropped
<1>3. before[f] \in {dst'[f], bak[f]}
  BY <1>2 DEF SurvivesOf
<1>4. ASSUME NEW i \in DOMAIN mig'.todo, Copies(mig'.todo[i], f)
      PROVE  mig'.todo[i].type = "backup" /\ dst'[f] = before[f]
  <2>1. i + 1 \in DOMAIN mig.todo /\ mig'.todo[i] = mig.todo[i + 1] /\ i + 1 # 1
    BY <1>1, <1>4, TodoTail DEF Dropped
  <2>2. ~Copies(mig.todo[1], f)
    BY <1>2, <1>4, <2>1 DEF OnceInv
  <2>3. QED
    BY <1>2, <1>4, <2>1, <2>2 DEF SurvivesOf
<1>5. mig'.at = "run"
  BY DEF Dropped
<1>6. QED
  BY <1>2, <1>3, <1>4, <1>5 DEF SurvivesOf

\* A file is copied when its task ends without an error.
LEMMA RefreshDrop ==
  ASSUME TypeInv, RefreshInv, Dropped, UNCHANGED <<src, touched>>,
         \/ mig'.errors
         \/ /\ ~mig.errors
            /\ \A f \in Files : IF Copies(mig.todo[1], f)
                                THEN mig.at = "write" /\ (dst[f] # Absent => dst'[f] = src[f])
                                ELSE dst'[f] = dst[f]
  PROVE  RefreshInv'
<1>. SUFFICES ASSUME mig.refresh PROVE RefreshInv'
  BY DEF RefreshInv, Dropped
<1>1. mig.todo \in Seq(Tasks)
  BY DEF TypeInv, Migration
<1>2. \A i \in DOMAIN mig'.todo : mig'.todo[i].type # "backup"
  BY <1>1, TodoTail DEF RefreshInv, Dropped
<1>3. ASSUME ~mig'.errors, NEW f \in Files \ touched, src[f] # Absent
      PROVE  RefreshOf(f)'
  <2>1. RefreshOf(f)
    BY <1>3 DEF RefreshInv
  <2>2. CASE dst[f] = src[f]
    BY <1>3, <2>2 DEF RefreshOf
  <2>3. ASSUME NEW i \in DOMAIN mig.todo, mig.todo[i] = Action("copy", f),
               i = 1 /\ mig.at = "write" => dst[f] # Absent
        PROVE  RefreshOf(f)'
    <3>1. CASE i = 1
      <4>1. Copies(mig.todo[1], f)
        BY <2>3, <3>1 DEF Copies, Action
      <4>2. QED
        BY <1>3, <2>3, <3>1, <4>1 DEF RefreshOf
    <3>2. CASE i # 1
      BY <1>1, <2>3, <3>2, TodoTail DEF RefreshOf, Dropped
    <3>3. QED
      BY <3>1, <3>2
  <2>4. QED
    BY <2>1, <2>2, <2>3 DEF RefreshOf
<1>4. QED
  BY <1>2, <1>3 DEF RefreshInv

\* Steps beside a migration touch the files they change.
Beside ==
  /\ UNCHANGED <<stray, raw, mig, before>> /\ touched \subseteq touched'
  /\ \A f \in Files \ touched' : dst'[f] = dst[f] /\ bak'[f] = bak[f] /\ src'[f] = src[f]

LEMMA BesideInv ==
  ASSUME PlaceInv, OnceInv, SurvivesInv, RefreshInv, ConfigInv, Beside
  PROVE  PlaceInv' /\ OnceInv' /\ SurvivesInv' /\ RefreshInv' /\ ConfigInv'
<1>1. PlaceInv' /\ OnceInv' /\ ConfigInv'
  BY DEF Beside, PlaceInv, OnceInv, ConfigInv
<1>2. SurvivesInv'
  BY DEF Beside, SurvivesInv, SurvivesOf
<1>3. RefreshInv'
  BY DEF Beside, RefreshInv, RefreshOf
<1>4. QED
  BY <1>1, <1>2, <1>3

-----------------------------------------------------------------------------
(* Types.                                                                  *)

LEMMA TypeInit == Init => TypeInv
<1>. SUFFICES ASSUME Init PROVE TypeInv
  OBVIOUS
<1>1. 1 \in Texts
  BY DEF Texts
<1>2. src \in [Files -> {Absent} \cup Texts] /\ raw \in OpenClawConfigs
  BY <1>1 DEF Init
<1>3. dst \in [Files -> Content] /\ bak \in [Files -> Content \cup {Stray}] /\ before \in [Files -> Content]
  BY DEF Init, Content
<1>4. mig \in Migration
  BY DEF Init, NoMigration, Migration, AnyConfig
<1>5. install \in [at : {"idle", "fetch", "write"}, skill : Skills \cup {"none"}] /\ install.at = "idle"
  BY DEF Init, NoInstall
<1>6. dirs \in SUBSET Skills /\ DirInv /\ config \in AnyConfig /\ edits \in Nat /\ touched \in SUBSET Files
  BY DEF Init, DirInv, AnyConfig, Files
<1>7. stray \in SUBSET Skills
  BY Zenon DEF Init
<1>8. QED
  BY <1>2, <1>3, <1>4, <1>5, <1>6, <1>7 DEF TypeInv

LEMMA TypeStep == TypeInv /\ PlaceInv /\ [Next]_vars => TypeInv'
<1>. SUFFICES ASSUME TypeInv, PlaceInv, [Next]_vars PROVE TypeInv'
  OBVIOUS
<1>0. /\ src \in [Files -> {Absent} \cup Texts] /\ raw \in OpenClawConfigs
      /\ stray \in SUBSET Skills
      /\ dst \in [Files -> Content] /\ bak \in [Files -> Content \cup {Stray}]
      /\ dirs \in SUBSET Skills /\ DirInv
      /\ config \in AnyConfig /\ mig \in Migration
      /\ install \in [at : {"idle", "fetch", "write"}, skill : Skills \cup {"none"}]
      /\ install.at # "idle" => install.skill \in Skills
      /\ edits \in Nat
      /\ before \in [Files -> Content] /\ touched \in SUBSET Files
  BY DEF TypeInv
<1>a. /\ Absent \in Content /\ Torn \in Content /\ Template \in Content /\ Online \in Content
      /\ Bundled \in Content /\ Texts \subseteq Content /\ Docs \subseteq Files /\ Skills \subseteq Files
  BY DEF Content, Files
<1>1. ASSUME NEW f \in Files, Edit(f) PROVE TypeInv'
  <2>1. edits' \in Texts /\ edits' \in Nat
    BY <1>0, <1>1 DEF Edit, Texts
  <2>2. /\ UNCHANGED <<stray, raw, bak, config, mig, install, before>> /\ touched' = touched \cup {f}
    BY <1>1 DEF Edit, Touch
  <2>3. CASE dst' = [dst EXCEPT ![f] = edits'] /\ dirs' = dirs \cup ({f} \cap Skills) /\ UNCHANGED src
    <3>1. dst' \in [Files -> Content] /\ dirs' \in SUBSET Skills
      BY <1>0, <1>a, <2>1, <2>3
    <3>2. DirInv'
      BY <1>0, <1>a, <2>2, <2>3 DEF DirInv
    <3>3. QED
      BY <1>0, <2>1, <2>2, <2>3, <3>1, <3>2 DEF TypeInv
  <2>4. CASE src' = [src EXCEPT ![f] = edits'] /\ UNCHANGED <<dst, dirs>>
    <3>1. src' \in [Files -> {Absent} \cup Texts]
      BY <1>0, <2>1, <2>4
    <3>2. QED
      BY <1>0, <2>1, <2>2, <2>4, <3>1 DEF TypeInv, DirInv
  <2>5. QED
    BY <1>1, <2>3, <2>4 DEF Edit
<1>2. CASE EditConfig
  <2>1. config' \in AnyConfig
    BY <1>0, <1>2, SettingsTyped DEF EditConfig, AnyConfig
  <2>2. edits' \in Nat
    BY <1>0, <1>2 DEF EditConfig
  <2>3. QED
    BY <1>0, <1>2, <2>1, <2>2 DEF EditConfig, history, TypeInv, DirInv
<1>3. CASE Onboard
  <2>1. config' \in AnyConfig
    BY <1>3, DefaultTyped DEF Onboard, AnyConfig
  <2>2. dst' \in [Files -> Content] /\ \A s \in Skills : dst'[s] = dst[s]
    BY <1>0, <1>a, <1>3 DEF Onboard
  <2>3. touched' \in SUBSET Files /\ UNCHANGED <<src, stray, raw, bak, dirs, mig, install, edits, before>>
    BY <1>0, <1>3 DEF Onboard, Touch
  <2>4. QED
    BY <1>0, <2>1, <2>2, <2>3 DEF TypeInv, DirInv
<1>4. ASSUME NEW force \in BOOLEAN, NEW refresh \in BOOLEAN, NEW flags, Migrate(force, refresh, flags) PROVE TypeInv'
  <2>1. /\ mig' \in Migration /\ before' \in [Files -> Content]
        /\ touched' = {} /\ UNCHANGED <<files, install, edits>>
    BY <1>4, MigratePlan
  <2>2. QED
    BY <1>0, <2>1 DEF files, TypeInv, DirInv
<1>5. ASSUME NEW yes \in BOOLEAN, Confirm(yes) PROVE TypeInv'
  <2>1. mig' \in Migration
    <3>1. NoMigration \in Migration
      BY DEF NoMigration, Migration, AnyConfig
    <3>2. mig \in Migration => [mig EXCEPT !.at = "run"] \in Migration
      BY DEF Migration
    <3>3. QED
      BY <1>0, <1>5, <3>1, <3>2 DEF Confirm, TypeInv
  <2>2. QED
    BY <1>0, <1>5, <2>1 DEF Confirm, files, counters, history, TypeInv, DirInv
<1>b. ASSUME InMigration, mig' \in Migration, dst' \in [Files -> Content], bak' \in [Files -> Content \cup {Stray}],
             dirs' \in SUBSET Skills, DirInv', config' \in AnyConfig
      PROVE  TypeInv'
  BY <1>0, <1>b DEF InMigration, history, TypeInv
<1>6. CASE MigrateSkip
  <2>1. mig' \in Migration
    BY <1>6, TaskAtHand, MigFields DEF MigrateSkip, Dropped
  <2>2. QED
    BY <1>0, <1>b, <1>6, <2>1 DEF MigrateSkip, DirInv
<1>7. CASE MigrateDir
  <2>1. File \in Skills
    BY <1>7, TaskAtHand DEF MigrateDir
  <2>2. mig' \in Migration
    BY <1>7, TaskAtHand, MigFields DEF MigrateDir, Dropped
  <2>3. dirs' \in SUBSET Skills /\ DirInv'
    BY <1>0, <1>7, <2>1 DEF MigrateDir, DirInv
  <2>4. QED
    BY <1>0, <1>b, <1>7, <2>2, <2>3 DEF MigrateDir
<1>8. CASE LoadAndMerge
  <2>1. mig' \in Migration
    <3>1. CASE raw = TornConfig \/ config = TornConfig
      BY <1>8, <3>1, TaskAtHand, MigFields DEF LoadAndMerge, Dropped
    <3>2. CASE ~(raw = TornConfig \/ config = TornConfig)
      <4>. DEFINE new == IF config = NoConfig THEN ConvertConfig(raw) ELSE MergeConfig(config, ConvertConfig(raw))
      <4>1. mig' = [mig EXCEPT !.at = "save", !.loaded = config, !.config = new]
        BY <1>8, <3>2 DEF LoadAndMerge
      <4>2. raw # NoConfig => ConvertConfig(raw) \in Config
        BY <1>0, <3>2, ConvertTyped
      <4>3. raw # NoConfig
        BY <1>8, TaskAtHand DEF LoadAndMerge, PlaceInv
      <4>4. new \in AnyConfig
        BY <1>0, <3>2, <4>2, <4>3, MergeTyped DEF AnyConfig
      <4>. HIDE DEF new
      <4>5. QED
        BY <1>0, <4>1, <4>4 DEF Migration
    <3>3. QED
      BY <3>1, <3>2
  <2>2. QED
    BY <1>0, <1>b, <1>8, <2>1 DEF LoadAndMerge, DirInv
<1>9. CASE SaveConfig
  <2>1. mig' \in Migration
    BY <1>9, TaskAtHand, MigFields DEF SaveConfig, Dropped
  <2>2. config' \in AnyConfig
    BY <1>0, <1>9 DEF SaveConfig, AnyConfig, Migration
  <2>3. QED
    BY <1>0, <1>b, <1>9, <2>1, <2>2 DEF SaveConfig, DirInv
<1>10. CASE BackupOpen
  <2>1. File \in Files
    BY <1>10, TaskAtHand DEF BackupOpen
  <2>2. mig' \in Migration
    BY <1>10, TaskAtHand, MigFields DEF BackupOpen, Dropped, Moved
  <2>3. bak' \in [Files -> Content \cup {Stray}] /\ DirInv'
    <3>1. CASE dst[File] # Absent /\ bak' = [bak EXCEPT ![File] = Torn]
      BY <1>0, <1>a, <1>10, <2>1, <3>1 DEF BackupOpen, DirInv
    <3>2. CASE UNCHANGED bak
      BY <1>0, <1>10, <3>2 DEF BackupOpen, DirInv
    <3>3. QED
      BY <1>10, <3>1, <3>2 DEF BackupOpen
  <2>4. QED
    BY <1>0, <1>b, <1>10, <2>2, <2>3 DEF BackupOpen
<1>11. CASE BackupWrite
  <2>1. File \in Files
    BY <1>11, TaskAtHand DEF BackupWrite
  <2>2. mig' \in Migration
    BY <1>11, TaskAtHand, MigFields DEF BackupWrite, Dropped, Moved
  <2>3. bak' \in [Files -> Content \cup {Stray}] /\ DirInv'
    <3>1. CASE bak' = [bak EXCEPT ![File] = IF @ = Absent THEN @ ELSE dst[File]]
      BY <1>0, <1>a, <1>11, <2>1, <3>1 DEF BackupWrite, DirInv
    <3>2. CASE UNCHANGED bak
      BY <1>0, <1>11, <3>2 DEF BackupWrite, DirInv
    <3>3. QED
      BY <1>11, <3>1, <3>2 DEF BackupWrite
  <2>4. QED
    BY <1>0, <1>b, <1>11, <2>2, <2>3 DEF BackupWrite
<1>12. CASE CopyOpen
  <2>1. File \in Files /\ mig.todo # <<>>
    BY <1>12, TaskAtHand DEF CopyOpen
  <2>2. mig' \in Migration
    BY <1>12, <2>1, MigFields DEF CopyOpen, Dropped, Moved
  <2>3. dst' \in [Files -> Content] /\ dirs' \in SUBSET Skills /\ DirInv'
    <3>1. CASE dirs' = dirs \cup ({File} \cap Skills) /\ dst' = [dst EXCEPT ![File] = Torn]
      BY <1>0, <1>a, <1>12, <2>1, <3>1 DEF CopyOpen, DirInv
    <3>2. CASE UNCHANGED <<dst, dirs>>
      BY <1>0, <1>12, <3>2 DEF CopyOpen, DirInv
    <3>3. QED
      BY <1>12, <3>1, <3>2 DEF CopyOpen
  <2>4. QED
    BY <1>0, <1>b, <1>12, <2>2, <2>3 DEF CopyOpen
<1>13. CASE CopyWrite
  <2>1. File \in Files
    BY <1>13, TaskAtHand DEF CopyWrite
  <2>2. mig' \in Migration
    BY <1>13, TaskAtHand, MigFields DEF CopyWrite, Dropped
  <2>3. dst' \in [Files -> Content] /\ DirInv'
    <3>1. CASE dst' = [dst EXCEPT ![File] = IF @ = Absent THEN @ ELSE src[File]]
      <4>1. src[File] \in Content /\ dst[File] \in Content
        BY <1>0, <1>a, <2>1
      <4>2. QED
        BY <1>0, <1>a, <1>13, <2>1, <3>1, <4>1 DEF CopyWrite, DirInv
    <3>2. CASE UNCHANGED dst
      BY <1>0, <1>13, <3>2 DEF CopyWrite, DirInv
    <3>3. QED
      BY <1>13, <3>1, <3>2 DEF CopyWrite
  <2>4. QED
    BY <1>0, <1>b, <1>13, <2>2, <2>3 DEF CopyWrite
<1>d. CASE CopyStray
  <2>1. File \in Skills /\ File \in Files /\ mig.todo # <<>>
    BY <1>a, <1>d, TaskAtHand DEF CopyStray
  <2>2. mig' \in Migration
    BY <1>d, <2>1, MigFields DEF CopyStray, Dropped, Moved
  <2>3. bak' \in [Files -> Content \cup {Stray}] /\ dirs' \in SUBSET Skills /\ DirInv'
    <3>1. CASE dirs' = dirs \cup {File} /\ bak' = [bak EXCEPT ![File] = Torn]
      BY <1>0, <1>a, <1>d, <2>1, <3>1 DEF CopyStray, DirInv
    <3>2. CASE bak' = [bak EXCEPT ![File] = IF @ = Absent THEN @ ELSE Stray] /\ UNCHANGED dirs
      BY <1>0, <1>a, <1>d, <2>1, <3>2 DEF CopyStray, DirInv
    <3>3. CASE UNCHANGED <<bak, dirs>>
      BY <1>0, <1>d, <3>3 DEF CopyStray, DirInv
    <3>4. QED
      BY <1>d, <3>1, <3>2, <3>3 DEF CopyStray
  <2>4. QED
    BY <1>0, <1>b, <1>d, <2>2, <2>3 DEF CopyStray
<1>14. CASE MigrateEnd
  <2>1. mig' \in Migration
    BY <1>14 DEF MigrateEnd, NoMigration, Migration, AnyConfig
  <2>2. QED
    BY <1>0, <1>14, <2>1 DEF MigrateEnd, files, history, TypeInv, DirInv
<1>15. ASSUME NEW s \in Skills, InstallBegin(s) PROVE TypeInv'
  <2>1. install' \in [at : {"idle", "fetch", "write"}, skill : Skills \cup {"none"}] /\ install'.skill \in Skills
    BY <1>15 DEF InstallBegin
  <2>2. QED
    BY <1>0, <1>15, <2>1 DEF InstallBegin, SkillStep, history, TypeInv, DirInv
<1>c. NoInstall \in [at : {"idle", "fetch", "write"}, skill : Skills \cup {"none"}] /\ NoInstall.at = "idle"
  BY DEF NoInstall
<1>16. CASE InstallDir
  <2>1. install.skill \in Skills
    BY <1>0, <1>16 DEF InstallDir
  <2>2. /\ install' \in [at : {"idle", "fetch", "write"}, skill : Skills \cup {"none"}]
        /\ install'.at # "idle" => install'.skill \in Skills
    BY <1>0, <1>c, <1>16, <2>1 DEF InstallDir
  <2>3. dirs' \in SUBSET Skills /\ dirs \subseteq dirs'
    BY <1>0, <1>16, <2>1 DEF InstallDir
  <2>4. QED
    BY <1>0, <1>16, <2>2, <2>3 DEF InstallDir, SkillStep, history, TypeInv, DirInv
<1>17. CASE InstallWrite
  <2>1. install.skill \in Skills /\ install' = NoInstall
    BY <1>0, <1>17 DEF InstallWrite
  <2>2. dst' \in [Files -> Content] /\ DirInv'
    <3>. DEFINE s == install.skill
    <3>1. CASE s \in dirs /\ dst' = [dst EXCEPT ![s] = Online]
      BY <1>0, <1>a, <1>17, <2>1, <3>1 DEF InstallWrite, DirInv
    <3>2. CASE UNCHANGED dst
      BY <1>0, <1>17, <3>2 DEF InstallWrite, DirInv
    <3>3. CASE s \in dirs /\ dst' = [dst EXCEPT ![s] = Torn]
      BY <1>0, <1>a, <1>17, <2>1, <3>3 DEF InstallWrite, DirInv
    <3>4. QED
      BY <1>17, <3>1, <3>2, <3>3 DEF InstallWrite
  <2>3. touched' \in SUBSET Files /\ UNCHANGED <<src, stray, raw, bak, dirs, config, mig, edits, before>>
    BY <1>0, <1>a, <1>17, <2>1 DEF InstallWrite, SkillStep, Touch
  <2>4. QED
    BY <1>0, <1>c, <2>1, <2>2, <2>3 DEF TypeInv
<1>18. ASSUME NEW s \in Skills, Uninstall(s) PROVE TypeInv'
  <2>1. dst' \in [Files -> Content] /\ bak' \in [Files -> Content \cup {Stray}] /\ DirInv' /\ dirs' \in SUBSET Skills
    BY <1>0, <1>a, <1>18 DEF Uninstall, DirInv
  <2>2. touched' \in SUBSET Files /\ UNCHANGED <<src, stray, raw, config, mig, install, edits, before>>
    BY <1>0, <1>a, <1>18 DEF Uninstall, SkillStep, Touch
  <2>3. QED
    BY <1>0, <2>1, <2>2 DEF TypeInv
<1>19. CASE InstallBuiltin
  <2>1. PICK copied \in SUBSET Skills : /\ dst' = [f \in Files |-> IF f \in copied THEN Bundled ELSE dst[f]]
                                        /\ Touch(copied)
    BY <1>19 DEF InstallBuiltin
  <2>2. dst' \in [Files -> Content] /\ dirs' = Skills /\ touched' \in SUBSET Files /\ UNCHANGED before
    BY <1>0, <1>a, <1>19, <2>1 DEF InstallBuiltin, Touch
  <2>3. QED
    BY <1>0, <1>19, <2>2 DEF InstallBuiltin, SkillStep, TypeInv, DirInv
<1>20. CASE UNCHANGED vars
  BY <1>0, <1>20 DEF vars, files, counters, history, TypeInv, DirInv
<1>21. QED
  BY <1>1, <1>2, <1>3, <1>4, <1>5, <1>6, <1>7, <1>8, <1>9, <1>10, <1>11, <1>12, <1>13, <1>d, <1>14, <1>15,
     <1>16, <1>17, <1>18, <1>19, <1>20 DEF Next

-----------------------------------------------------------------------------
(* Places and files.                                                       *)

PlanInv == PlaceInv /\ OnceInv /\ SurvivesInv /\ RefreshInv /\ ConfigInv

\* The user, the agent, onboard and skills.
LEMMA BesideStep ==
  ASSUME TypeInv, PlanInv,
         \/ \E f \in Files : Edit(f)
         \/ EditConfig \/ Onboard
         \/ \E s \in Skills : InstallBegin(s) \/ Uninstall(s)
         \/ InstallDir \/ InstallWrite \/ InstallBuiltin
         \/ UNCHANGED vars
  PROVE  PlanInv'
<1>0. dst \in [Files -> Content] /\ bak \in [Files -> Content \cup {Stray}] /\ src \in [Files -> {Absent} \cup Texts]
  BY DEF TypeInv
<1>1. ASSUME NEW f \in Files, Edit(f) PROVE Beside
  BY <1>0, <1>1 DEF Edit, Touch, Beside
<1>2. ASSUME EditConfig PROVE Beside
  BY <1>2 DEF EditConfig, history, Beside
<1>3. ASSUME Onboard PROVE Beside
  <2>1. touched' = touched \cup {f \in Files : dst'[f] # dst[f]} /\ UNCHANGED <<src, stray, raw, bak, mig, before>>
    BY <1>3 DEF Onboard, Touch
  <2>2. QED
    BY <2>1 DEF Beside
<1>4. ASSUME NEW s \in Skills, InstallBegin(s) PROVE Beside
  BY <1>4 DEF InstallBegin, SkillStep, history, Beside
<1>5. ASSUME NEW s \in Skills, Uninstall(s) PROVE Beside
  BY <1>0, <1>5 DEF Uninstall, SkillStep, Touch, Beside
<1>6. ASSUME InstallDir PROVE Beside
  BY <1>6 DEF InstallDir, SkillStep, history, Beside
<1>7. ASSUME InstallWrite PROVE Beside
  <2>1. /\ dst' \in {dst, [dst EXCEPT ![install.skill] = Online], [dst EXCEPT ![install.skill] = Torn]}
        /\ touched' = touched \cup {install.skill} /\ UNCHANGED <<src, stray, raw, bak, mig, before>>
    BY <1>7 DEF InstallWrite, SkillStep, Touch
  <2>2. QED
    BY <1>0, <2>1 DEF Beside
<1>8. ASSUME InstallBuiltin PROVE Beside
  <2>1. PICK copied \in SUBSET Skills : /\ dst' = [f \in Files |-> IF f \in copied THEN Bundled ELSE dst[f]]
                                        /\ Touch(copied)
    BY <1>8 DEF InstallBuiltin
  <2>2. QED
    BY <1>0, <1>8, <2>1 DEF InstallBuiltin, SkillStep, Touch, Beside
<1>9. ASSUME UNCHANGED vars PROVE Beside
  BY <1>9 DEF vars, files, history, Beside
<1>10. Beside
  BY <1>1, <1>2, <1>3, <1>4, <1>5, <1>6, <1>7, <1>8, <1>9
<1>11. QED
  BY <1>10, BesideInv DEF PlanInv

\* A migration is planned, confirmed, and ends.
LEMMA MigrateStep ==
  ASSUME TypeInv, NEW force \in BOOLEAN, NEW refresh \in BOOLEAN, NEW flags, Migrate(force, refresh, flags)
  PROVE  PlanInv'
<1>1. /\ mig'.at \in {"run", "confirm"} /\ OnceInv'
      /\ \A i \in DOMAIN mig'.todo : \A f \in Files :
           Copies(mig'.todo[i], f) => mig'.todo[i] = PlanFileCopy(f, force \/ refresh)
      /\ \A i \in DOMAIN mig'.todo : mig'.todo[i].type = "backup" =>
           \E f \in Files : mig'.todo[i] = PlanFileCopy(f, force \/ refresh)
      /\ mig'.refresh => /\ refresh
                         /\ \A f \in Files : src[f] # Absent =>
                              \E i \in DOMAIN mig'.todo : mig'.todo[i] = PlanFileCopy(f, force \/ refresh)
      /\ raw = NoConfig => \A i \in DOMAIN mig'.todo : mig'.todo[i].type # "config"
      /\ \A i \in DOMAIN mig'.todo : mig'.todo[i].type = "stray" => mig'.todo[i].f \in stray
      /\ \A f \in Files : before'[f] # Absent => ~force /\ ~refresh /\ before'[f] = dst[f]
      /\ UNCHANGED <<src, stray, raw, dst, bak>>
  BY MigratePlan DEF files
<1>2. PlaceInv' /\ ConfigInv'
  BY <1>1 DEF PlaceInv, ConfigInv
<1>3. SurvivesInv'
  <2>. SUFFICES ASSUME NEW f \in Files, before'[f] # Absent PROVE SurvivesOf(f)'
    BY DEF SurvivesInv
  <2>1. before'[f] = dst'[f] /\ dst[f] # Absent /\ ~(force \/ refresh)
    BY <1>1
  <2>2. ASSUME NEW i \in DOMAIN mig'.todo, Copies(mig'.todo[i], f)
        PROVE  mig'.todo[i].type = "backup"
    <3>1. mig'.todo[i] = PlanFileCopy(f, force \/ refresh)
      BY <1>1, <2>2
    <3>2. mig'.todo[i].type # "skip"
      BY <2>2 DEF Copies
    <3>3. QED
      BY <2>1, <3>1, <3>2 DEF PlanFileCopy, Action
  <2>3. QED
    BY <1>1, <2>1, <2>2 DEF SurvivesOf
<1>4. RefreshInv'
  <2>. SUFFICES ASSUME mig'.refresh PROVE RefreshInv'
    BY DEF RefreshInv
  <2>1. \A f \in Files : PlanFileCopy(f, force \/ refresh).type # "backup"
    BY <1>1 DEF PlanFileCopy, Action
  <2>2. \A f \in Files : src[f] # Absent => PlanFileCopy(f, force \/ refresh) = Action("copy", f)
    BY <1>1 DEF PlanFileCopy
  <2>3. \A f \in Files : src'[f] # Absent => RefreshOf(f)'
    BY <1>1, <2>2 DEF RefreshOf
  <2>4. QED
    BY <1>1, <2>1, <2>3 DEF RefreshInv
<1>5. QED
  BY <1>1, <1>2, <1>3, <1>4 DEF PlanInv

LEMMA NoMigrationInv ==
  ASSUME PlanInv, mig' = NoMigration, UNCHANGED <<raw, stray, src, dst, bak, history>>
  PROVE  PlanInv'
<1>1. mig'.at = "idle" /\ mig'.todo = <<>> /\ ~mig'.refresh
  BY DEF NoMigration
<1>2. DOMAIN mig'.todo = {}
  BY <1>1
<1>3. SurvivesInv'
  BY <1>2 DEF PlanInv, SurvivesInv, SurvivesOf, history
<1>4. QED
  BY <1>1, <1>2, <1>3 DEF PlanInv, PlaceInv, OnceInv, RefreshInv, ConfigInv

\* The step to another place of a task that concerns no file.
LEMMA ConfirmStep ==
  ASSUME TypeInv, PlanInv, NEW yes \in BOOLEAN, Confirm(yes)
  PROVE  PlanInv'
<1>1. UNCHANGED <<raw, stray, src, dst, bak, history>>
  BY DEF Confirm, files
<1>2. CASE ~yes
  BY <1>1, <1>2, NoMigrationInv DEF Confirm
<1>3. CASE yes
  <2>1. Goto("run") /\ mig.at = "confirm"
    BY <1>3 DEF Confirm, Goto
  <2>2. Moved("run")
    BY <2>1, MigFields
  <2>3. PlaceInv' /\ OnceInv' /\ ConfigInv'
    BY <1>1, <2>1, <2>2 DEF Moved, PlanInv, PlaceInv, OnceInv, ConfigInv
  <2>4. SurvivesInv'
    BY <1>1, <2>1, <2>2 DEF Moved, PlanInv, SurvivesInv, SurvivesOf, history
  <2>5. RefreshInv'
    BY <1>1, <2>1, <2>2 DEF Moved, PlanInv, RefreshInv, RefreshOf, history
  <2>6. QED
    BY <2>3, <2>4, <2>5 DEF PlanInv
<1>4. QED
  BY <1>2, <1>3

LEMMA LoadStep ==
  ASSUME TypeInv, PlanInv, LoadAndMerge, raw # TornConfig, config # TornConfig
  PROVE  PlanInv'
<1>1. /\ mig.at = "run" /\ mig.todo # <<>> /\ mig.todo[1].type = "config" /\ 1 \in DOMAIN mig.todo
  BY TaskAtHand DEF LoadAndMerge
<1>2. /\ mig' = [mig EXCEPT !.at = "save", !.loaded = config,
                            !.config = IF config = NoConfig THEN ConvertConfig(raw)
                                       ELSE MergeConfig(config, ConvertConfig(raw))]
      /\ UNCHANGED <<raw, stray, src, dst, bak, history>>
  BY DEF LoadAndMerge, InMigration
<1>3. /\ mig'.at = "save" /\ mig'.todo = mig.todo /\ mig'.refresh = mig.refresh /\ mig'.errors = mig.errors
      /\ mig'.loaded = config
      /\ mig'.config = IF config = NoConfig THEN ConvertConfig(raw) ELSE MergeConfig(config, ConvertConfig(raw))
  BY <1>2 DEF TypeInv, Migration
<1>4. PlaceInv' /\ OnceInv'
  BY <1>1, <1>2, <1>3 DEF PlanInv, PlaceInv, OnceInv
<1>5. ConfigInv'
  BY <1>2, <1>3 DEF ConfigInv, TypeInv, AnyConfig
<1>6. SurvivesInv'
  BY <1>1, <1>2, <1>3 DEF PlanInv, SurvivesInv, SurvivesOf, history
<1>7. RefreshInv'
  BY <1>1, <1>2, <1>3 DEF PlanInv, RefreshInv, RefreshOf, history
<1>8. QED
  BY <1>4, <1>5, <1>6, <1>7 DEF PlanInv

\* A task ends that is no copy of a file, or ends with an error.
LEMMA DropStep ==
  ASSUME TypeInv, PlanInv, Dropped, UNCHANGED <<src, stray, raw, dst, history>>,
         \A f \in Files \ stray : bak'[f] = bak[f],
         \/ mig'.errors
         \/ mig'.errors = mig.errors /\ mig.todo[1].type \notin {"copy", "backup"}
  PROVE  PlanInv'
<1>1. PlaceInv' /\ OnceInv'
  BY DropInv DEF PlanInv
<1>2. SurvivesInv'
  BY SurvivesDrop DEF PlanInv
<1>3. RefreshInv'
  <2>1. UNCHANGED touched
    BY DEF history
  <2>2. CASE mig'.errors
    BY <2>1, <2>2, RefreshDrop DEF PlanInv
  <2>3. CASE ~mig'.errors
    BY <2>1, <2>3, RefreshDrop DEF PlanInv, Copies
  <2>4. QED
    BY <2>2, <2>3
<1>4. ConfigInv'
  BY DEF ConfigInv, Dropped
<1>5. QED
  BY <1>1, <1>2, <1>3, <1>4 DEF PlanInv

\* A backup is opened when the file still holds what it held, and written before
\* the file is opened.
LEMMA BackupOpenStep ==
  ASSUME TypeInv, PlanInv, At("run", {"backup"}), dst[File] # Absent,
         bak' = [bak EXCEPT ![File] = Torn], Goto("backup"), UNCHANGED <<src, stray, raw, dst, history>>
  PROVE  PlanInv'
<1>1. /\ mig.at = "run" /\ mig.todo # <<>> /\ mig.todo[1].type = "backup" /\ 1 \in DOMAIN mig.todo
      /\ File \in Files /\ mig.todo[1].f = File
  BY TaskAtHand
<1>2. Moved("backup") /\ bak \in [Files -> Content \cup {Stray}]
  BY MigFields DEF TypeInv
<1>3. PlaceInv' /\ OnceInv' /\ ConfigInv'
  BY <1>1, <1>2 DEF Moved, PlanInv, PlaceInv, OnceInv, ConfigInv
<1>4. SurvivesInv'
  <2>. SUFFICES ASSUME NEW f \in Files \ (touched \cup stray), before[f] # Absent PROVE SurvivesOf(f)'
    BY DEF SurvivesInv, history
  <2>1. SurvivesOf(f) /\ before'[f] = before[f]
    BY DEF PlanInv, SurvivesInv, history
  <2>2. CASE f = File
    <3>1. Copies(mig.todo[1], f)
      BY <1>1, <2>2 DEF Copies
    <3>2. dst[f] = before[f] /\ bak'[f] = Torn /\ Torn # Absent
      BY <1>1, <1>2, <2>1, <2>2, <3>1 DEF SurvivesOf, Torn, Absent
    <3>3. QED
      BY <1>1, <1>2, <2>1, <3>2 DEF Moved, SurvivesOf
  <2>3. CASE f # File
    <3>1. bak'[f] = bak[f] /\ ~Copies(mig.todo[1], f)
      BY <1>1, <1>2, <2>3 DEF Copies
    <3>2. QED
      BY <1>1, <1>2, <2>1, <3>1 DEF Moved, SurvivesOf
  <2>4. QED
    BY <2>2, <2>3
<1>5. RefreshInv'
  BY <1>1, <1>2 DEF Moved, PlanInv, RefreshInv, RefreshOf, history
<1>6. QED
  BY <1>3, <1>4, <1>5 DEF PlanInv

LEMMA BackupWriteStep ==
  ASSUME TypeInv, PlanInv, At("backup", {"backup"}),
         bak' = [bak EXCEPT ![File] = IF @ = Absent THEN @ ELSE dst[File]], Goto("copy"),
         UNCHANGED <<src, stray, raw, dst, history>>
  PROVE  PlanInv'
<1>1. /\ mig.at = "backup" /\ mig.todo # <<>> /\ mig.todo[1].type = "backup" /\ 1 \in DOMAIN mig.todo
      /\ File \in Files /\ mig.todo[1].f = File
  BY TaskAtHand
<1>2. Moved("copy") /\ bak \in [Files -> Content \cup {Stray}]
  BY MigFields DEF TypeInv
<1>3. PlaceInv' /\ OnceInv' /\ ConfigInv'
  BY <1>1, <1>2 DEF Moved, PlanInv, PlaceInv, OnceInv, ConfigInv
<1>4. SurvivesInv'
  <2>. SUFFICES ASSUME NEW f \in Files \ (touched \cup stray), before[f] # Absent PROVE SurvivesOf(f)'
    BY DEF SurvivesInv, history
  <2>1. SurvivesOf(f) /\ before'[f] = before[f]
    BY DEF PlanInv, SurvivesInv, history
  <2>2. CASE f = File
    <3>1. Copies(mig.todo[1], f)
      BY <1>1, <2>2 DEF Copies
    <3>2. dst[f] = before[f] /\ bak[f] # Absent
      BY <1>1, <2>1, <3>1 DEF SurvivesOf
    <3>3. bak'[f] = before[f]
      BY <1>1, <1>2, <2>2, <3>2
    <3>4. QED
      BY <1>1, <1>2, <2>1, <3>2, <3>3 DEF Moved, SurvivesOf
  <2>3. CASE f # File
    <3>1. bak'[f] = bak[f] /\ ~Copies(mig.todo[1], f)
      BY <1>1, <1>2, <2>3 DEF Copies
    <3>2. QED
      BY <1>1, <1>2, <2>1, <3>1 DEF Moved, SurvivesOf
  <2>4. QED
    BY <2>2, <2>3
<1>5. RefreshInv'
  BY <1>1, <1>2 DEF Moved, PlanInv, RefreshInv, RefreshOf, history
<1>6. QED
  BY <1>3, <1>4, <1>5 DEF PlanInv

LEMMA CopyOpenStep ==
  ASSUME TypeInv, PlanInv, At("run", {"copy"}) \/ At("copy", {"backup"}), src[File] # Absent,
         dst' = [dst EXCEPT ![File] = Torn], Goto("write"), UNCHANGED <<src, stray, raw, bak, history>>
  PROVE  PlanInv'
<1>1. /\ mig.todo # <<>> /\ 1 \in DOMAIN mig.todo /\ mig.todo[1] \in Tasks
      /\ File \in Files /\ mig.todo[1].f = File
      /\ \/ mig.at = "run" /\ mig.todo[1].type = "copy"
         \/ mig.at = "copy" /\ mig.todo[1].type = "backup"
  BY TaskAtHand
<1>2. Moved("write") /\ dst \in [Files -> Content]
  BY MigFields DEF TypeInv
<1>3. PlaceInv' /\ OnceInv' /\ ConfigInv'
  BY <1>1, <1>2 DEF Moved, PlanInv, PlaceInv, OnceInv, ConfigInv
<1>4. SurvivesInv'
  <2>. SUFFICES ASSUME NEW f \in Files \ (touched \cup stray), before[f] # Absent PROVE SurvivesOf(f)'
    BY DEF SurvivesInv, history
  <2>1. SurvivesOf(f) /\ before'[f] = before[f]
    BY DEF PlanInv, SurvivesInv, history
  <2>2. CASE f = File
    <3>1. Copies(mig.todo[1], f)
      BY <1>1, <2>2 DEF Copies
    <3>2. bak[f] = before[f]
      BY <1>1, <2>1, <3>1 DEF SurvivesOf
    <3>3. \A i \in DOMAIN mig.todo : Copies(mig.todo[i], f) => i = 1 /\ mig.todo[i].type = "backup"
      BY <1>1, <2>1, <3>1 DEF PlanInv, OnceInv, SurvivesOf
    <3>4. QED
      BY <1>2, <2>1, <3>2, <3>3 DEF Moved, SurvivesOf
  <2>3. CASE f # File
    <3>1. dst'[f] = dst[f] /\ ~Copies(mig.todo[1], f)
      BY <1>1, <1>2, <2>3 DEF Copies
    <3>2. QED
      BY <1>1, <1>2, <2>1, <3>1 DEF Moved, SurvivesOf
  <2>4. QED
    BY <2>2, <2>3
<1>5. RefreshInv'
  <2>. SUFFICES ASSUME mig.refresh, ~mig.errors, NEW f \in Files \ touched, src[f] # Absent
                PROVE  RefreshOf(f)'
    BY <1>2 DEF Moved, PlanInv, RefreshInv, history
  <2>1. mig.todo[1].type = "copy" /\ RefreshOf(f)
    BY <1>1 DEF PlanInv, RefreshInv
  <2>2. CASE f = File
    <3>1. mig.todo[1] = Action("copy", f)
      BY <1>1, <2>1, <2>2 DEF Tasks, Action
    <3>2. dst'[f] # Absent
      BY <1>1, <1>2, <2>2 DEF Torn, Absent
    <3>3. QED
      BY <1>1, <1>2, <3>1, <3>2 DEF Moved, RefreshOf
  <2>3. CASE f # File
    <3>1. dst'[f] = dst[f]
      BY <1>1, <1>2, <2>3
    <3>2. mig.todo[1] # Action("copy", f)
      BY <1>1, <2>3 DEF Action
    <3>3. QED
      BY <1>2, <2>1, <3>1, <3>2 DEF Moved, RefreshOf
  <2>4. QED
    BY <2>2, <2>3
<1>6. QED
  BY <1>3, <1>4, <1>5 DEF PlanInv

LEMMA CopyWriteStep ==
  ASSUME TypeInv, PlanInv, At("write", {"copy", "backup"}),
         dst' = [dst EXCEPT ![File] = IF @ = Absent THEN @ ELSE src[File]], Done,
         UNCHANGED <<src, stray, raw, bak, history>>
  PROVE  PlanInv'
<1>1. /\ mig.at = "write" /\ mig.todo # <<>> /\ File \in Files /\ mig.todo[1].f = File
      /\ mig.todo[1].type \in {"copy", "backup"}
  BY TaskAtHand
<1>2. Dropped /\ mig'.errors = mig.errors /\ dst \in [Files -> Content]
  BY <1>1, MigFields DEF TypeInv
<1>3. \A f \in Files : Copies(mig.todo[1], f) <=> f = File
  BY <1>1 DEF Copies
<1>4. PlaceInv' /\ OnceInv'
  BY <1>2, DropInv DEF PlanInv
<1>5. SurvivesInv'
  <2>1. \A f \in Files : dst'[f] = dst[f] \/ (Copies(mig.todo[1], f) /\ mig.at \in {"copy", "write"})
    BY <1>1, <1>2, <1>3
  <2>2. QED
    BY <1>2, <2>1, SurvivesDrop DEF PlanInv
<1>6. RefreshInv'
  <2>1. \A f \in Files : IF Copies(mig.todo[1], f)
                         THEN mig.at = "write" /\ (dst[f] # Absent => dst'[f] = src[f])
                         ELSE dst'[f] = dst[f]
    BY <1>1, <1>2, <1>3
  <2>2. UNCHANGED <<src, touched>>
    BY DEF history
  <2>3. mig'.errors \/ ~mig.errors
    BY <1>2 DEF TypeInv, Migration
  <2>4. QED
    BY <1>2, <2>1, <2>2, <2>3, RefreshDrop DEF PlanInv
<1>7. ConfigInv'
  BY <1>2 DEF ConfigInv, Dropped
<1>8. QED
  BY <1>4, <1>5, <1>6, <1>7 DEF PlanInv

LEMMA PlanStep == TypeInv /\ PlanInv /\ [Next]_vars => PlanInv'
<1>. SUFFICES ASSUME TypeInv, PlanInv, [Next]_vars PROVE PlanInv'
  OBVIOUS
<1>1. ASSUME NEW force \in BOOLEAN, NEW refresh \in BOOLEAN, NEW flags, Migrate(force, refresh, flags) PROVE PlanInv'
  BY <1>1, MigrateStep
<1>2. ASSUME NEW yes \in BOOLEAN, Confirm(yes) PROVE PlanInv'
  BY <1>2, ConfirmStep
<1>3. CASE MigrateSkip
  <2>1. mig.todo # <<>> /\ mig.todo[1].type = "skip" /\ Done
    BY <1>3, TaskAtHand DEF MigrateSkip
  <2>2. UNCHANGED <<src, stray, raw, dst, bak, history>>
    BY <1>3 DEF MigrateSkip, InMigration
  <2>3. QED
    BY <2>1, <2>2, MigFields, DropStep
<1>4. CASE MigrateDir
  <2>1. mig.todo # <<>> /\ mig.todo[1].type = "mkdir" /\ (Done \/ Failed)
    BY <1>4, TaskAtHand DEF MigrateDir
  <2>2. UNCHANGED <<src, stray, raw, dst, bak, history>>
    BY <1>4 DEF MigrateDir, InMigration
  <2>3. QED
    BY <2>1, <2>2, MigFields, DropStep
<1>5. CASE LoadAndMerge
  <2>1. CASE raw = TornConfig \/ config = TornConfig
    <3>1. mig.todo # <<>> /\ Failed /\ UNCHANGED <<src, stray, raw, dst, bak, history>>
      BY <1>5, <2>1, TaskAtHand DEF LoadAndMerge, InMigration
    <3>2. QED
      BY <3>1, MigFields, DropStep
  <2>2. CASE ~(raw = TornConfig \/ config = TornConfig)
    BY <1>5, <2>2, LoadStep
  <2>3. QED
    BY <2>1, <2>2
<1>6. CASE SaveConfig
  <2>1. mig.todo # <<>> /\ mig.todo[1].type = "config" /\ (Done \/ Failed)
    BY <1>6, TaskAtHand DEF SaveConfig
  <2>2. UNCHANGED <<src, stray, raw, dst, bak, history>>
    BY <1>6 DEF SaveConfig, InMigration
  <2>3. QED
    BY <2>1, <2>2, MigFields, DropStep
<1>7. CASE BackupOpen
  <2>1. UNCHANGED <<src, stray, raw, dst, history>> /\ At("run", {"backup"}) /\ mig.todo # <<>>
    BY <1>7, TaskAtHand DEF BackupOpen, InMigration
  <2>2. CASE dst[File] # Absent /\ bak' = [bak EXCEPT ![File] = Torn] /\ Goto("backup")
    BY <2>1, <2>2, BackupOpenStep
  <2>3. CASE Failed /\ UNCHANGED bak
    BY <2>1, <2>3, MigFields, DropStep
  <2>4. QED
    BY <1>7, <2>2, <2>3 DEF BackupOpen
<1>8. CASE BackupWrite
  <2>1. UNCHANGED <<src, stray, raw, dst, history>> /\ At("backup", {"backup"}) /\ mig.todo # <<>>
    BY <1>8, TaskAtHand DEF BackupWrite, InMigration
  <2>2. CASE bak' = [bak EXCEPT ![File] = IF @ = Absent THEN @ ELSE dst[File]] /\ Goto("copy")
    BY <2>1, <2>2, BackupWriteStep
  <2>3. CASE Failed /\ UNCHANGED bak
    BY <2>1, <2>3, MigFields, DropStep
  <2>4. QED
    BY <1>8, <2>2, <2>3 DEF BackupWrite
<1>9. CASE CopyOpen
  <2>1. /\ UNCHANGED <<src, stray, raw, bak, history>> /\ (At("run", {"copy"}) \/ At("copy", {"backup"}))
        /\ mig.todo # <<>>
    BY <1>9, TaskAtHand DEF CopyOpen, InMigration
  <2>2. CASE src[File] # Absent /\ dst' = [dst EXCEPT ![File] = Torn] /\ Goto("write")
    BY <2>1, <2>2, CopyOpenStep
  <2>3. CASE Failed /\ UNCHANGED dst
    BY <2>1, <2>3, MigFields, DropStep
  <2>4. QED
    BY <1>9, <2>2, <2>3 DEF CopyOpen
<1>10. CASE CopyWrite
  <2>1. UNCHANGED <<src, stray, raw, bak, history>> /\ At("write", {"copy", "backup"}) /\ mig.todo # <<>>
    BY <1>10, TaskAtHand DEF CopyWrite, InMigration
  <2>2. CASE dst' = [dst EXCEPT ![File] = IF @ = Absent THEN @ ELSE src[File]] /\ Done
    BY <2>1, <2>2, CopyWriteStep
  <2>3. CASE Failed /\ UNCHANGED dst
    BY <2>1, <2>3, MigFields, DropStep
  <2>4. QED
    BY <1>10, <2>2, <2>3 DEF CopyWrite
<1>a. CASE CopyStray
  <2>1. /\ UNCHANGED <<src, stray, raw, dst, history>> /\ mig.todo # <<>> /\ mig.todo[1].type = "stray"
        /\ File = mig.todo[1].f /\ 1 \in DOMAIN mig.todo
    BY <1>a, TaskAtHand DEF CopyStray, InMigration
  <2>2. File \in stray
    BY <2>1 DEF PlanInv, PlaceInv
  <2>3. \A f \in Files \ stray : bak'[f] = bak[f]
    BY <1>a, <2>2 DEF CopyStray, TypeInv
  <2>4. CASE Goto("write") /\ mig.at = "run"
    <3>1. Moved("write")
      BY <2>4, MigFields
    <3>2. PlaceInv' /\ OnceInv' /\ ConfigInv'
      BY <2>1, <3>1 DEF Moved, PlanInv, PlaceInv, OnceInv, ConfigInv
    <3>3. \A f : ~Copies(mig.todo[1], f) /\ mig.todo[1] # Action("copy", f)
      BY <2>1 DEF Copies, Action
    <3>4. SurvivesInv'
      BY <2>1, <2>3, <2>4, <3>1, <3>3 DEF Moved, PlanInv, SurvivesInv, SurvivesOf, history
    <3>5. RefreshInv'
      BY <2>1, <3>1, <3>3 DEF Moved, PlanInv, RefreshInv, RefreshOf, history
    <3>6. QED
      BY <3>2, <3>4, <3>5 DEF PlanInv
  <2>5. CASE Done \/ Failed
    BY <2>1, <2>3, <2>5, MigFields, DropStep
  <2>6. QED
    BY <1>a, <2>4, <2>5 DEF CopyStray, At
<1>11. CASE MigrateEnd
  BY <1>11, NoMigrationInv DEF MigrateEnd, files
<1>12. QED
  BY <1>1, <1>2, <1>3, <1>4, <1>5, <1>6, <1>7, <1>8, <1>9, <1>10, <1>a, <1>11, BesideStep DEF Next

-----------------------------------------------------------------------------
(* The theorems.                                                           *)

LEMMA InitInv == Init => IInv
<1>. SUFFICES ASSUME Init PROVE IInv
  OBVIOUS
<1>1. mig.at = "idle" /\ mig.todo = <<>> /\ ~mig.refresh /\ DOMAIN mig.todo = {}
  BY DEF Init, NoMigration
<1>2. SurvivesInv
  BY DEF Init, SurvivesInv
<1>3. QED
  BY <1>1, <1>2, TypeInit DEF IInv, PlaceInv, OnceInv, RefreshInv, ConfigInv

LEMMA InvHolds == Spec => []IInv
<1>1. IInv /\ [Next]_vars => IInv'
  BY TypeStep, PlanStep DEF IInv, PlanInv
<1>2. QED
  BY <1>1, InitInv, PTL DEF Spec

LEMMA InvTyped == IInv => TypeOK
<1>. SUFFICES ASSUME TypeInv PROVE TypeOK
  BY DEF IInv
<1>1. /\ mig.at \in {"idle", "confirm", "run", "save", "backup", "copy", "write"}
      /\ mig.todo \in Seq(Tasks) /\ mig.config \in AnyConfig /\ mig.loaded \in AnyConfig
  BY DEF TypeInv, Migration
<1>2. \A i \in DOMAIN mig.todo : mig.todo[i].type \in {"skip", "backup", "copy", "stray", "mkdir", "config"}
  BY <1>1, ElementOfSeq, LenProperties, TaskFields
<1>3. \A c \in {config, mig.config, mig.loaded} : c \in Config \/ c \in {NoConfig, TornConfig}
  BY <1>1 DEF TypeInv, AnyConfig
<1>4. install.at \in {"idle", "fetch", "write"} /\ install.skill \in Skills \cup {"none"}
  BY DEF TypeInv
<1>5. dst \in [Files -> Texts \cup {Absent, Torn, Template, Online, Bundled}]
      /\ bak \in [Files -> Texts \cup {Absent, Torn, Template, Online, Bundled, Stray}]
  <2>1. Content \cup {Stray} = Texts \cup {Absent, Torn, Template, Online, Bundled, Stray}
    BY DEF Content
  <2>2. QED
    BY <2>1 DEF TypeInv, Content
<1>6. QED
  BY <1>1, <1>2, <1>3, <1>4, <1>5 DEF TypeOK, TypeInv, DirInv

\* Every variable keeps to its values, and a skill has a file or a backup only in its
\* directory, though migrate, skills and onboard run beside each other.
THEOREM TypeCorrect == Spec => []TypeOK
BY InvHolds, InvTyped, PTL

\* executeAction (migrate.go) copies a file to its .bak before it opens it for
\* writing, and stops at the first error: whatever a file held when a migration was
\* planned is in the file or in the copy, wherever the migration is or was broken off,
\* unless somebody else writes the file, or OpenClaw has a .bak file of that name.
THEOREM NothingOverwritten == Spec => []OriginalSurvives
<1>1. IInv => OriginalSurvives
  BY DEF IInv, SurvivesInv, SurvivesOf, OriginalSurvives
<1>2. QED
  BY <1>1, InvHolds, PTL

\* executeConfigMigration (migrate.go) saves the configuration that it has loaded,
\* merged with OpenClaw's: whatever runs beside it, no step of a migration changes
\* what is in use in config.json, except by a failed write or over the change that
\* somebody made after it was loaded.  What is not in use, such as the auth_method
\* of a login to a provider without an API key, is not kept.
THEOREM ConfigIsKept == Spec => ConfigKept
<1>. DEFINE Kept == config' # config /\ ~EditConfig /\ ~Onboard =>
                      \/ config' = TornConfig
                      \/ config = NoConfig
                      \/ config # mig.loaded
                      \/ Keeps(config', config)
<1>1. IInv /\ [Next]_vars => Kept
  <2>. SUFFICES ASSUME IInv, [Next]_vars, config' # config, ~EditConfig, ~Onboard,
                       config' # TornConfig, config # NoConfig, config = mig.loaded
                PROVE  Keeps(config', config)
    OBVIOUS
  <2>1. SaveConfig
    BY DEF Next, vars, files, Edit, Migrate, Confirm, MigrateSkip, MigrateDir, LoadAndMerge, BackupOpen,
           BackupWrite, CopyOpen, CopyWrite, CopyStray, MigrateEnd, InstallBegin, InstallDir,
           InstallWrite, Uninstall, InstallBuiltin, SkillStep
  <2>2. mig.at = "save" /\ config' = mig.config
    BY <2>1 DEF SaveConfig, At
  <2>3. config \in Config /\ mig.config = MergeConfig(config, ConvertConfig(raw))
    BY <2>2 DEF IInv, ConfigInv
  <2>4. QED
    BY <2>2, <2>3, MergeKeeps
<1>2. QED
  BY <1>1, InvHolds, PTL DEF Spec, ConfigKept

\* A --refresh that reports no error has copied every file of OpenClaw that nobody
\* else touched meanwhile: no file of the plan is passed over.
THEOREM RefreshIsComplete == Spec => []RefreshSyncs
<1>1. IInv => RefreshSyncs
  <2>. SUFFICES ASSUME RefreshInv, mig.todo = <<>>, mig.refresh, ~mig.errors,
                       NEW f \in Files \ touched, src[f] # Absent
                PROVE  dst[f] = src[f]
    BY DEF IInv, RefreshSyncs
  <2>1. DOMAIN mig.todo = {}
    OBVIOUS
  <2>2. QED
    BY <2>1 DEF RefreshInv, RefreshOf
<1>2. QED
  BY <1>1, InvHolds, PTL
=============================================================================
