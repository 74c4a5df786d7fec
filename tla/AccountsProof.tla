----------------------------- MODULE AccountsProof -----------------------------
(***************************************************************************)
(* The properties of module Accounts for any number of processes, any tree *)
(* of directories and any calls.                                           *)
(*                                                                         *)
(* There is no lock, so the proof rests on what a step of one process can  *)
(* never take from another: Progress.  A keystore that was there is there  *)
(* or was deleted, a seed that was published is kept or was overwritten on *)
(* purpose, a .gitignore that was made stays, a project stays a project,   *)
(* and what a call has met of the preferences only grows.  Every part of   *)
(* the invariant about a process is made of such facts.                    *)
(***************************************************************************)
EXTENDS Accounts, WellFoundedInduction, TLAPS

Fields == {"op", "cwd", "overwrite"} \cup DOMAIN Locals
\* What use_account never wrote in a config.toml.
Foreign == {None} \cup DOMAIN HandEdits
Prefs == [Dirs -> Names \cup Foreign]

\* What was true of the disk at some time, and leaves a trace for ever.
Existed(f) == keystores[f] # None \/ f \in deleted
Kept(f, seed) == keystores[f] = seed \/ seed \in lost \/ f \in deleted
Covered(f) == f \in Given \/ f.dir = Home \/ ignore[f.dir] # "absent"
Around(name, d) == \E i \in DOMAIN Walk[d] : Existed(File(Walk[d][i], name))

DiskOK ==
    /\ quip \subseteq Dirs
    /\ keystores \in [Files -> Nat \cup {None}]
    /\ preference \in Prefs
    /\ ignore \in [Dirs -> {"absent", "empty", "all", "team"}]
    /\ seeds \in Nat
    /\ DOMAIN call = Procs /\ DOMAIN pc = Procs /\ DOMAIN result = Procs
    /\ since \in [Procs -> SUBSET Prefs]

\* Seeds are where a .gitignore was made first, and one that is still empty is in
\* the hands of its writer, or was left so.
SeedsCovered ==
    /\ \A f \in Files : keystores[f] # None => Covered(f)
    /\ \A t \in temps : t.file \in Files /\ Covered(t.file)
    /\ \A d \in Dirs : ignore[d] = "empty"
         => d \in torn \/ \E p \in Procs : At(p, "fill") /\ call[p].base = d

PreferencesNameAccounts ==
    \A d \in Dirs : preference[d] \notin Foreign => Around(preference[d], d)

\* What the steps of the precedence have met so far: r is a call or its result.
Met(met, dir) == {NameGiven(f[dir]) : f \in met}
Unset(met, dir) == None \in Met(met, dir)
Justified(r, met) ==
    /\ r.step = "project"
        => r.project \in Dirs /\ r.name \in Met(met, r.project) /\ r.file.dir \in {r.project, Home}
    /\ r.step \in {"user", "default"} /\ r.project # None => Unset(met, r.project)
    /\ r.step = "user" => r.name \in Met(met, Home) /\ r.file.dir = Home
    /\ r.step = "default" => Unset(met, Home) /\ r.file = DefaultFile

ResultOK(p) ==
    result[p] # None =>
        /\ result[p].file \in Files /\ result[p].seed \in Nat
        /\ Kept(result[p].file, result[p].seed)
        /\ Justified(result[p], result[p].met)

\* A call: its arguments, and what its place allows.
Writing == {"ignore", "fill", "temp", "publish", "clean"}
Places(op) ==
    CASE op = "create" -> {"create"} \cup Writing
      [] op = "use" -> {"use", "use_base"} \cup Writing
      [] op = "clear" -> {"clear", "unlink"}
      [] op = "sign" -> {"sign", "list_user", "read_project", "read_user", "first_use", "load",
                         "temp", "publish", "clean"}

ArgumentsOK(p) ==
    LET c == call[p]
    IN /\ Fields \subseteq DOMAIN c
       /\ c.op \in {"create", "use", "clear", "sign"} /\ pc[p] \in Places(c.op)
       /\ c.cwd \in Dirs
       /\ c.op # "sign" => "level" \in DOMAIN c /\ c.level \in Levels /\ c.name \in Names /\ c.step = None
       /\ c.op = "sign" => "keystore" \in DOMAIN c /\ c.keystore \in Files \cup {None}
                           /\ (c.keystore # None => c.keystore \in Given)

\* A call that writes, and what it writes.
WriteOK(p) ==
    LET c == call[p]
    IN /\ pc[p] \in Writing \cup {"unlink"} => c.base \in Dirs
       /\ c.op = "use" => c.seed = None
       /\ pc[p] \in Writing /\ c.op # "use"
            => c.file \in Files /\ c.seed \in Nat /\ c.base = c.file.dir
       /\ pc[p] \in {"temp", "publish", "clean"} /\ c.op # "use" => Covered(c.file)
       /\ pc[p] \in {"ignore", "fill"} => c.op \in {"use", "create"}
       /\ pc[p] = "fill" => ignore[c.base] # "absent"
       /\ pc[p] = "clean" /\ c.op # "use" /\ ~c.taken => Kept(c.file, c.seed)

\* use_account: the account that the preference will name.
UseOK(p) ==
    LET c == call[p]
    IN /\ pc[p] = "use_base"
            => \/ Existed(File(Home, c.name))
               \/ /\ c.level = "project"
                  /\ \E i \in DOMAIN Walk[c.cwd] :
                       /\ Walk[c.cwd][i] \in (quip \ Untrusted) \ {Home}
                       /\ Existed(File(Walk[c.cwd][i], c.name))
       /\ pc[p] \in Writing /\ c.op = "use" => Around(c.name, c.base)

\* A signer in the making.
SignOK(p) ==
    LET c == call[p]
    IN /\ c.project \in Dirs \cup {None}
       /\ pc[p] \in {"sign", "list_user", "read_project", "read_user"} => c.step = None
       /\ pc[p] = "read_user" /\ c.project # None => Unset(since[p], c.project)
       /\ pc[p] \in {"first_use", "load"} => c.file \in Files
       /\ pc[p] = "first_use" => c.file \in Given \/ c.file.dir = Home
       /\ Justified(c, since[p])

ProcOK(p) ==
    pc[p] # "idle" => /\ preference \in since[p]
                      /\ ArgumentsOK(p) /\ WriteOK(p) /\ UseOK(p) /\ SignOK(p)

Inv ==
    /\ DiskOK /\ SeedsCovered /\ PreferencesNameAccounts
    /\ \A p \in Procs : ResultOK(p) /\ ProcOK(p)

-----------------------------------------------------------------------------
(* Directories and files. *)

\* What the assumptions on the constants come to.
LEMMA Assumed ==
    /\ Home \in Dirs /\ "default" \in Names /\ None \notin Names
    /\ "unreadable" \notin Names /\ None # "unreadable"
    /\ \A name \in Names \cup {None} : name \notin DOMAIN HandEdits
    /\ \A content \in DOMAIN HandEdits : HandEdits[content] \in Names \cup {None, "unreadable"}
    /\ None \notin Dirs /\ None \notin Files /\ None \notin Nat /\ Home \notin Untrusted
    /\ Home # None /\ None \notin {"project", "user", "default"}
BY AccountsAssumption DEF Levels

\* A directory and a name make a keystore file,
LEMMA FileIs ==
    ASSUME NEW d \in Dirs, NEW n \in Names
    PROVE  File(d, n) \in Files /\ File(d, n).dir = d
BY DEF File, Files

\* and every keystore file has both.
LEMMA FilesAre ==
    ASSUME NEW f \in Files
    PROVE  f.dir \in Dirs /\ f.name \in Names /\ f = File(f.dir, f.name)
BY DEF File, Files

\* A walk starts in its directory and ends in the home directory.
LEMMA WalkIs ==
    ASSUME NEW d \in Dirs
    PROVE  /\ Len(Walk[d]) \in Nat /\ DOMAIN Walk[d] = 1 .. Len(Walk[d])
           /\ 1 \in DOMAIN Walk[d] /\ Walk[d][1] = d
           /\ Len(Walk[d]) \in DOMAIN Walk[d] /\ Walk[d][Len(Walk[d])] = Home
           /\ \A i \in DOMAIN Walk[d] : Walk[d][i] \in Dirs
<1>1. Walk[d] \in Seq(Dirs) /\ Walk[d] # <<>> /\ Walk[d][1] = d /\ Walk[d][Len(Walk[d])] = Home
    BY AccountsAssumption
<1>2. Len(Walk[d]) \in Nat /\ DOMAIN Walk[d] = 1 .. Len(Walk[d]) /\ Len(Walk[d]) # 0
    BY <1>1
<1>3. QED BY <1>1, <1>2

\* What a walk passes later, the walk from what it passed earlier passes too.
LEMMA WalkOn ==
    ASSUME NEW d \in Dirs, NEW i \in DOMAIN Walk[d], NEW j \in DOMAIN Walk[d], i <= j
    PROVE  \E k \in DOMAIN Walk[Walk[d][i]] : Walk[Walk[d][i]][k] = Walk[d][j]
<1>1. Len(Walk[d]) \in Nat /\ i \in 1 .. Len(Walk[d]) /\ j \in 1 .. Len(Walk[d])
    BY WalkIs
<1>2. Walk[Walk[d][i]] = [k \in 1 .. Len(Walk[d]) - i + 1 |-> Walk[d][i + k - 1]]
    BY AccountsAssumption
<1>3. j - i + 1 \in 1 .. Len(Walk[d]) - i + 1 /\ i + (j - i + 1) - 1 = j
    BY SMTT(60), <1>1
<1>4. QED BY <1>2, <1>3

\* First gives the first directory of the set, and None when there is none.
LEMMA FirstIs ==
    ASSUME NEW dirs, NEW set, DOMAIN dirs \subseteq Nat
    PROVE  \/ First(dirs, set) = None /\ \A i \in DOMAIN dirs : dirs[i] \notin set
           \/ \E i \in DOMAIN dirs : /\ First(dirs, set) = dirs[i] /\ dirs[i] \in set
                                     /\ \A j \in DOMAIN dirs : dirs[j] \in set => i <= j
<1> DEFINE found == {i \in DOMAIN dirs : dirs[i] \in set}
           least == CHOOSE i \in found : \A j \in found : i <= j
<1>1. CASE found = {}
    BY <1>1 DEF First
<1>2. CASE found # {}
    <2>1. PICK i \in found : \A j \in found : ~(<<j, i>> \in OpToRel(<, Nat))
        <3>1. IsWellFoundedOn(OpToRel(<, Nat), Nat)
            BY NatLessThanWellFounded
        <3>2. found \subseteq Nat
            OBVIOUS
        <3> HIDE DEF found
        <3>3. \E i \in found : \A j \in found : ~(<<j, i>> \in OpToRel(<, Nat))
            BY <1>2, <3>1, <3>2, WFMin, Zenon
        <3>4. QED BY <3>3
    <2>2. \A j \in found : i <= j
        <3> SUFFICES ASSUME NEW j \in found PROVE i <= j
            OBVIOUS
        <3>1. i \in Nat /\ j \in Nat
            OBVIOUS
        <3>2. ~(j < i)
            BY <2>1, <3>1 DEF OpToRel
        <3>3. QED BY <3>1, <3>2
    <2>3. least \in found /\ \A j \in found : least <= j
        <3> HIDE DEF found
        <3>1. QED BY <2>2, Zenon
    <2>4. First(dirs, set) = dirs[least]
        BY <1>2 DEF First
    <2> HIDE DEF least
    <2>5. QED BY <2>3, <2>4
<1>3. QED BY <1>1, <1>2

\* A project is a directory of the walk, below the home directory, that has a .quip
\* no one else planted; the nearest one.
LEMMA ProjectIs ==
    ASSUME NEW cwd \in Dirs
    PROVE  \/ /\ FindProject(cwd) = None
              /\ \A i \in DOMAIN Walk[cwd] : Walk[cwd][i] \notin (quip \ Untrusted) \ {Home}
           \/ \E i \in DOMAIN Walk[cwd] :
                /\ FindProject(cwd) = Walk[cwd][i] /\ Walk[cwd][i] \in Dirs
                /\ Walk[cwd][i] \in (quip \ Untrusted) \ {Home}
                /\ \A j \in DOMAIN Walk[cwd] : Walk[cwd][j] \in (quip \ Untrusted) \ {Home} => i <= j
<1> DEFINE set == (quip \ Untrusted) \ {Home}
<1>1. DOMAIN Walk[cwd] \subseteq Nat /\ \A i \in DOMAIN Walk[cwd] : Walk[cwd][i] \in Dirs
    BY WalkIs
<1>2. FindProject(cwd) = First(Walk[cwd], set)
    BY DEF FindProject
<1> HIDE DEF set
<1>3. \/ First(Walk[cwd], set) = None /\ \A i \in DOMAIN Walk[cwd] : Walk[cwd][i] \notin set
      \/ \E i \in DOMAIN Walk[cwd] : /\ First(Walk[cwd], set) = Walk[cwd][i] /\ Walk[cwd][i] \in set
                                     /\ \A j \in DOMAIN Walk[cwd] : Walk[cwd][j] \in set => i <= j
    BY <1>1, FirstIs
<1>4. QED BY <1>1, <1>2, <1>3 DEF set

\* Both places a write goes to are directories.
LEMMA BaseIs ==
    ASSUME NEW cwd \in Dirs, NEW level
    PROVE  /\ LevelDirForWrite(level, cwd) \in Dirs \cup {None}
           /\ FindProject(cwd) \in Dirs \cup {None}
BY ProjectIs, Assumed DEF LevelDirForWrite

-----------------------------------------------------------------------------
(* What a call remembers. *)

\* A call that learns something changes those fields, and no other call.
LEMMA KnowsIs ==
    ASSUME DOMAIN call = Procs, NEW p \in Procs, NEW fields, Knows(p, fields)
    PROVE  /\ DOMAIN call' = Procs
           /\ DOMAIN call'[p] = DOMAIN call[p]
           /\ \A f \in DOMAIN call[p] :
                call'[p][f] = IF f \in DOMAIN fields THEN fields[f] ELSE call[p][f]
           /\ \A q \in Procs : q # p => call'[q] = call[q]
BY DEF Knows

\* So does one that makes a seed.
LEMMA FreshIs ==
    ASSUME DOMAIN call = Procs, seeds \in Nat, NEW p \in Procs, NEW fields, Fresh(p, fields)
    PROVE  /\ DOMAIN call' = Procs
           /\ DOMAIN call'[p] = DOMAIN call[p]
           /\ seeds' \in Nat
           /\ \A f \in DOMAIN call[p] :
                call'[p][f] = IF f = "seed" THEN seeds' ELSE IF f \in DOMAIN fields THEN fields[f] ELSE call[p][f]
           /\ \A q \in Procs : q # p => call'[q] = call[q]
<1> DEFINE all == [f \in DOMAIN fields \cup {"seed"} |-> IF f = "seed" THEN seeds' ELSE fields[f]]
<1>1. seeds' = seeds + 1 /\ Knows(p, all)
    BY DEF Fresh
<1>2. /\ DOMAIN all = DOMAIN fields \cup {"seed"}
      /\ \A f \in DOMAIN all : all[f] = IF f = "seed" THEN seeds' ELSE fields[f]
    OBVIOUS
<1> HIDE DEF all
<1>3. /\ DOMAIN call' = Procs
      /\ DOMAIN call'[p] = DOMAIN call[p]
      /\ \A f \in DOMAIN call[p] : call'[p][f] = IF f \in DOMAIN all THEN all[f] ELSE call[p][f]
      /\ \A q \in Procs : q # p => call'[q] = call[q]
    BY <1>1, KnowsIs
<1>4. seeds' \in Nat
    BY <1>1
<1>5. QED BY <1>2, <1>3, <1>4

\* The places of the others stay.
LEMMA GoIs ==
    ASSUME DOMAIN pc = Procs, NEW p \in Procs, NEW step, Go(p, step)
    PROVE  DOMAIN pc' = Procs /\ pc'[p] = step /\ \A q \in Procs : q # p => pc'[q] = pc[q]
BY DEF Go

\* A call that returns is over, and the others stay.
LEMMA ReturnsIs ==
    ASSUME DOMAIN pc = Procs, DOMAIN call = Procs, NEW p \in Procs, Returns(p) \/ Raises(p)
    PROVE  /\ DOMAIN pc' = Procs /\ DOMAIN call' = Procs /\ pc'[p] = "idle"
           /\ \A q \in Procs : q # p => pc'[q] = pc[q] /\ call'[q] = call[q]
BY DEF Raises, Returns, Go

-----------------------------------------------------------------------------
(* What no step takes away. *)

Progress ==
    /\ \A f \in Files : /\ Existed(f) => Existed(f)'
                        /\ Covered(f) => Covered(f)'
                        /\ \A s \in Nat : Kept(f, s) => Kept(f, s)'
    /\ \A d \in Dirs : ignore[d] # "absent" => ignore'[d] # "absent"
    /\ quip \subseteq quip'

\* A process that takes no step keeps its part of the invariant.
Rests(q) ==
    /\ call'[q] = call[q] /\ pc'[q] = pc[q] /\ result'[q] = result[q]
    /\ pc[q] # "idle" => since[q] \subseteq since'[q] /\ preference' \in since'[q]

\* A choice stays justified while more is met.
LEMMA JustifiedStays ==
    ASSUME NEW r, NEW met, NEW more, met \subseteq more, Justified(r, met)
    PROVE  Justified(r, more)
<1>1. \A dir : Met(met, dir) \subseteq Met(more, dir) /\ (Unset(met, dir) => Unset(more, dir))
    BY DEF Met, Unset
<1>2. QED BY <1>1 DEF Justified

\* An account that was around a directory stays around it.
LEMMA AroundStays ==
    ASSUME Progress, NEW name \in Names, NEW d \in Dirs, Around(name, d)
    PROVE  Around(name, d)'
<1>1. PICK i \in DOMAIN Walk[d] : Existed(File(Walk[d][i], name))
    BY DEF Around
<1>2. Existed(File(Walk[d][i], name))'
    BY <1>1, WalkIs, FileIs DEF Progress
<1>3. QED BY <1>2 DEF Around

\* Progress keeps the results,
LEMMA ResultRests ==
    ASSUME NEW q \in Procs, ResultOK(q), Progress, result'[q] = result[q]
    PROVE  ResultOK(q)'
BY DEF ResultOK, Progress

\* and of a call that rests its arguments,
LEMMA ArgumentsRest ==
    ASSUME NEW q \in Procs, ArgumentsOK(q), Rests(q)
    PROVE  ArgumentsOK(q)'
BY DEF ArgumentsOK, Rests

\* what it writes,
LEMMA WriteRests ==
    ASSUME NEW q \in Procs, ArgumentsOK(q), WriteOK(q), Progress, Rests(q)
    PROVE  WriteOK(q)'
<1>1. call'[q] = call[q] /\ pc'[q] = pc[q]
    BY DEF Rests
<1>2. ASSUME pc[q] \in {"temp", "publish", "clean"}, call[q].op # "use"
      PROVE  /\ call[q].file \in Files /\ call[q].seed \in Nat
             /\ Covered(call[q].file)'
             /\ Kept(call[q].file, call[q].seed) => Kept(call[q].file, call[q].seed)'
    <2>1. call[q].file \in Files /\ call[q].seed \in Nat /\ Covered(call[q].file)
        BY <1>2 DEF WriteOK, Writing
    <2>2. QED BY <1>1, <2>1 DEF Progress, Covered, Kept
<1>3. pc[q] = "fill" => call[q].base \in Dirs /\ ignore'[call[q].base] # "absent"
    BY DEF WriteOK, Writing, Progress
<1>4. QED BY <1>1, <1>2, <1>3 DEF WriteOK

\* the account it will prefer,
LEMMA UseRests ==
    ASSUME NEW q \in Procs, ArgumentsOK(q), WriteOK(q), UseOK(q), Progress, Rests(q)
    PROVE  UseOK(q)'
<1>1. call'[q] = call[q] /\ pc'[q] = pc[q] /\ quip \subseteq quip'
    BY DEF Rests, Progress
<1>2. pc[q] = "use_base" => call[q].op = "use"
    BY DEF ArgumentsOK, Places, Writing
<1>3. call[q].op = "use" => call[q].name \in Names /\ call[q].cwd \in Dirs
    BY DEF ArgumentsOK
<1>4. pc[q] = "use_base"
        => \A d \in Dirs : Existed(File(d, call[q].name)) => Existed(File(d, call[q].name))'
    BY <1>1, <1>2, <1>3, FileIs DEF Progress
<1>5. (pc[q] = "use_base"
        => \/ Existed(File(Home, call[q].name))
           \/ /\ call[q].level = "project"
              /\ \E i \in DOMAIN Walk[call[q].cwd] :
                   /\ Walk[call[q].cwd][i] \in (quip \ Untrusted) \ {Home}
                   /\ Existed(File(Walk[call[q].cwd][i], call[q].name)))'
    <2> SUFFICES ASSUME pc[q] = "use_base"
                 PROVE  (\/ Existed(File(Home, call[q].name))
                         \/ /\ call[q].level = "project"
                            /\ \E i \in DOMAIN Walk[call[q].cwd] :
                                 /\ Walk[call[q].cwd][i] \in (quip \ Untrusted) \ {Home}
                                 /\ Existed(File(Walk[call[q].cwd][i], call[q].name)))'
        BY <1>1
    <2>1. CASE Existed(File(Home, call[q].name))
        BY <1>1, <1>4, <2>1, Assumed
    <2>2. CASE /\ call[q].level = "project"
               /\ \E i \in DOMAIN Walk[call[q].cwd] :
                    /\ Walk[call[q].cwd][i] \in (quip \ Untrusted) \ {Home}
                    /\ Existed(File(Walk[call[q].cwd][i], call[q].name))
        <3>1. PICK i \in DOMAIN Walk[call[q].cwd] :
                    /\ Walk[call[q].cwd][i] \in (quip \ Untrusted) \ {Home}
                    /\ Existed(File(Walk[call[q].cwd][i], call[q].name))
            BY <2>2
        <3>2. Walk[call[q].cwd][i] \in Dirs
            BY <1>2, <1>3, WalkIs
        <3>3. Existed(File(Walk[call[q].cwd][i], call[q].name))'
            BY <1>1, <1>4, <3>1, <3>2 DEF Existed
        <3>4. QED BY <1>1, <2>2, <3>1, <3>3
    <2>3. QED BY <2>1, <2>2 DEF UseOK
<1>6. (pc[q] \in Writing /\ call[q].op = "use" => Around(call[q].name, call[q].base))'
    <2> SUFFICES ASSUME pc[q] \in Writing, call[q].op = "use"
                 PROVE  Around(call[q].name, call[q].base)'
        BY <1>1
    <2>1. call[q].base \in Dirs /\ Around(call[q].name, call[q].base)
        BY DEF WriteOK, UseOK
    <2>2. QED BY <1>1, <1>3, <2>1, AroundStays
<1>7. QED BY <1>5, <1>6 DEF UseOK

\* and the signer it is making.
LEMMA SignRests ==
    ASSUME NEW q \in Procs, ArgumentsOK(q), SignOK(q), Rests(q), pc[q] # "idle"
    PROVE  SignOK(q)'
<1>1. call'[q] = call[q] /\ pc'[q] = pc[q] /\ since[q] \subseteq since'[q]
    BY DEF Rests
<1>2. Justified(call[q], since'[q])
    BY <1>1, JustifiedStays DEF SignOK
<1>3. \A dir : Unset(since[q], dir) => Unset(since'[q], dir)
    BY <1>1 DEF Unset, Met
<1>4. QED BY <1>1, <1>2, <1>3 DEF SignOK

\* All of a call that rests is kept.
LEMMA ProcRests ==
    ASSUME NEW q \in Procs, ProcOK(q), Progress, Rests(q)
    PROVE  ProcOK(q)'
<1>1. CASE pc[q] = "idle"
    BY <1>1 DEF ProcOK, Rests
<1>2. CASE pc[q] # "idle"
    <2>1. ArgumentsOK(q) /\ WriteOK(q) /\ UseOK(q) /\ SignOK(q)
        BY <1>2 DEF ProcOK
    <2>2. ArgumentsOK(q)' /\ WriteOK(q)' /\ UseOK(q)' /\ SignOK(q)'
        BY <1>2, <2>1, ArgumentsRest, WriteRests, UseRests, SignRests
    <2>3. QED BY <1>2, <2>2 DEF ProcOK, Rests
<1>3. QED BY <1>1, <1>2

-----------------------------------------------------------------------------
(* The steps. *)

\* What a step of p must show, besides its own part.
LEMMA StepInv ==
    ASSUME Inv, NEW p \in Procs, DiskOK', Progress,
           \A q \in Procs : q # p =>
             /\ call'[q] = call[q] /\ pc'[q] = pc[q] /\ result'[q] = result[q]
             /\ pc[q] # "idle" => since[q] \subseteq since'[q] /\ preference' \in since'[q],
           \A f \in Files : keystores'[f] # None => keystores[f] # None \/ Covered(f)',
           \A t \in temps' : t \in temps \/ (t.file \in Files /\ Covered(t.file)'),
           \A d \in Dirs : ignore'[d] = "empty"
             => ignore[d] = "empty" \/ (pc'[p] = "fill" /\ call'[p].base = d),
           torn \subseteq torn',
           pc[p] = "fill" => call[p].base \in torn' \/ ignore'[call[p].base] # "empty",
           \A d \in Dirs : \/ preference'[d] \in {preference[d], None}
                           \/ /\ preference'[d] = call[p].name /\ call[p].name \in Names
                              /\ Around(call[p].name, d),
           ResultOK(p)', ProcOK(p)'
    PROVE  Inv'
<1>1. \A q \in Procs : ResultOK(q)' /\ ProcOK(q)'
    <2> SUFFICES ASSUME NEW q \in Procs, q # p PROVE ResultOK(q)' /\ ProcOK(q)'
        OBVIOUS
    <2>1. Rests(q) /\ ResultOK(q) /\ ProcOK(q)
        BY DEF Rests, Inv
    <2>2. QED BY <2>1, ResultRests, ProcRests DEF Rests
<1>2. PreferencesNameAccounts'
    <2>1. ASSUME NEW d \in Dirs, NEW name, name = preference'[d], name \notin Foreign
          PROVE  Around(name, d)'
        <3>1. CASE name = preference[d]
            <4>1. name \in Names /\ Around(name, d)
                BY <2>1, <3>1 DEF Inv, DiskOK, Prefs, PreferencesNameAccounts
            <4>2. QED BY <4>1, AroundStays
        <3>2. CASE name = call[p].name /\ name \in Names /\ Around(call[p].name, d)
            <4>1. Around(name, d)
                BY <3>2
            <4>2. QED BY <3>2, <4>1, AroundStays
        <3>3. QED BY <2>1, <3>1, <3>2 DEF Foreign
    <2>2. ASSUME NEW d \in Dirs
          PROVE  (preference[d] \notin Foreign => Around(preference[d], d))'
        <3>1. \A name : name = preference'[d] /\ name \notin Foreign
                => \E i \in DOMAIN Walk[d] : Existed(File(Walk[d][i], name))'
            BY <2>1 DEF Around
        <3>2. QED BY <3>1 DEF Around, Existed
    <2>3. QED BY <2>2 DEF PreferencesNameAccounts
<1>3. SeedsCovered'
    <2>1. ASSUME NEW f \in Files, keystores'[f] # None PROVE Covered(f)'
        BY <2>1 DEF Inv, SeedsCovered, Progress
    <2>2. ASSUME NEW t \in temps' PROVE t.file \in Files /\ Covered(t.file)'
        BY <2>2 DEF Inv, SeedsCovered, Progress, Covered
    <2>3. ASSUME NEW d \in Dirs, ignore'[d] = "empty"
          PROVE  d \in torn' \/ \E q \in Procs : pc'[q] = "fill" /\ call'[q].base = d
        <3>1. CASE pc'[p] = "fill" /\ call'[p].base = d
            BY <3>1
        <3>2. CASE ignore[d] = "empty"
            <4>1. CASE d \in torn
                BY <4>1
            <4>2. CASE \E q \in Procs : At(q, "fill") /\ call[q].base = d
                <5>1. PICK q \in Procs : pc[q] = "fill" /\ call[q].base = d
                    BY <4>2 DEF At
                <5>2. CASE q = p
                    BY <5>1, <5>2, <2>3
                <5>3. CASE q # p
                    BY <5>1, <5>3
                <5>4. QED BY <5>2, <5>3
            <4>3. QED BY <3>2, <4>1, <4>2 DEF Inv, SeedsCovered
        <3>3. QED BY <2>3, <3>1, <3>2
    <2>4. QED BY <2>1, <2>2, <2>3 DEF SeedsCovered, At, Covered
<1>4. QED BY <1>1, <1>2, <1>3 DEF Inv

\* A step that changes neither the disk nor what is past.
Looks(p) ==
    /\ UNCHANGED <<disk, lost, deleted, torn>>
    /\ \A q \in Procs : q # p => call'[q] = call[q] /\ pc'[q] = pc[q] /\ result'[q] = result[q] /\ since'[q] = since[q]
    /\ DOMAIN call' = Procs /\ DOMAIN pc' = Procs /\ DOMAIN result' = Procs
    /\ seeds' \in Nat /\ since' \in [Procs -> SUBSET Prefs]

\* A look at the disk takes nothing away.
LEMMA LookProgress ==
    ASSUME Inv, NEW p \in Procs, Looks(p)
    PROVE  Progress /\ DiskOK'
<1>1. DiskOK'
    BY DEF Looks, disk, Inv, DiskOK
<1>2. Progress
    BY DEF Looks, disk, Progress, Existed, Covered, Kept
<1>3. QED BY <1>1, <1>2

\* A look keeps the invariant if it keeps its own part of it.
LEMMA LookStep ==
    ASSUME Inv, NEW p \in Procs, Looks(p), pc[p] # "fill", ResultOK(p)', ProcOK(p)'
    PROVE  Inv'
<1>1. Progress /\ DiskOK'
    BY LookProgress
<1>2. UNCHANGED <<quip, keystores, preference, ignore, temps, lost, deleted, torn>>
    BY DEF Looks, disk
<1>3. \A q \in Procs : q # p =>
             /\ call'[q] = call[q] /\ pc'[q] = pc[q] /\ result'[q] = result[q]
             /\ pc[q] # "idle" => since[q] \subseteq since'[q] /\ preference' \in since'[q]
    BY <1>2 DEF Looks, Inv, ProcOK
<1>4. QED BY <1>1, <1>2, <1>3, StepInv

\* A call that returns or raises leaves nothing behind.
LEMMA IdleIs ==
    ASSUME NEW p \in Procs, pc'[p] = "idle"
    PROVE  ProcOK(p)'
BY DEF ProcOK

\* The arguments of a call are not forgotten.
LEMMA ArgumentsStay ==
    ASSUME NEW p \in Procs, ArgumentsOK(p), DOMAIN call'[p] = DOMAIN call[p],
           \A f \in DOMAIN call[p] :
             f \in {"op", "cwd", "level", "keystore"} \/ (f \in {"name", "step"} /\ call[p].op # "sign")
               => call'[p][f] = call[p][f],
           pc'[p] \in Places(call[p].op)
    PROVE  ArgumentsOK(p)' /\ call'[p].op = call[p].op
<1>1. /\ {"op", "cwd", "name", "step"} \subseteq DOMAIN call[p]
      /\ call[p].op # "sign" => "level" \in DOMAIN call[p]
      /\ call[p].op = "sign" => "keystore" \in DOMAIN call[p]
    BY DEF ArgumentsOK, Fields, Locals
<1>2. /\ call'[p].op = call[p].op /\ call'[p].cwd = call[p].cwd
      /\ call[p].op # "sign" => /\ call'[p].level = call[p].level /\ call'[p].name = call[p].name
                                /\ call'[p].step = call[p].step
      /\ call[p].op = "sign" => call'[p].keystore = call[p].keystore
    BY <1>1
<1>3. QED BY <1>1, <1>2 DEF ArgumentsOK

\* A call starts, with nothing known.
LEMMA StartStep ==
    ASSUME Inv, NEW p \in Procs, Start(p)
    PROVE  Inv'
<1>1. PICK r \in Requests :
        /\ call' = [call EXCEPT ![p] = [f \in DOMAIN Locals \cup DOMAIN r |->
                                          IF f \in DOMAIN r THEN r[f] ELSE Locals[f]]]
        /\ Go(p, r.op)
    BY DEF Start
<1>2. IsRequest(r)
    BY AccountsAssumption
<1>3. DOMAIN call = Procs /\ DOMAIN pc = Procs /\ DOMAIN result = Procs /\ seeds \in Nat
      /\ preference \in Prefs /\ since \in [Procs -> SUBSET Prefs]
    BY DEF Inv, DiskOK
<1>4. /\ DOMAIN call' = Procs /\ DOMAIN pc' = Procs
      /\ DOMAIN call'[p] = DOMAIN Locals \cup DOMAIN r
      /\ \A f \in DOMAIN call'[p] : call'[p][f] = IF f \in DOMAIN r THEN r[f] ELSE Locals[f]
      /\ pc'[p] = r.op
      /\ \A q \in Procs : q # p => call'[q] = call[q] /\ pc'[q] = pc[q]
    BY <1>1, <1>3, GoIs
<1>5. /\ since' = [since EXCEPT ![p] = {preference}]
      /\ UNCHANGED <<disk, seeds, result, lost, deleted, torn>> /\ pc[p] = "idle"
    BY DEF Start, At
<1>6. since'[p] = {preference} /\ since' \in [Procs -> SUBSET Prefs]
    BY <1>3, <1>5
<1>7. Looks(p)
    BY <1>3, <1>4, <1>5, <1>6 DEF Looks
<1>8. Progress /\ preference' = preference
    BY <1>7, LookProgress DEF Looks, disk
<1>9. ResultOK(p)'
    BY <1>5, <1>8, ResultRests DEF Inv
<1>10. /\ {"op", "cwd", "overwrite"} \subseteq DOMAIN r
       /\ r.op \in {"create", "use", "clear", "sign"} /\ r.cwd \in Dirs
       /\ r.op # "sign" => "level" \in DOMAIN r /\ "name" \in DOMAIN r /\ r.level \in Levels /\ r.name \in Names
                           /\ DOMAIN r \cap DOMAIN Locals = {"name"}
       /\ r.op = "sign" => "keystore" \in DOMAIN r /\ r.keystore \in Files \cup {None} /\ r.keystore \in Given
                           /\ DOMAIN r \cap DOMAIN Locals = {}
    BY <1>2 DEF IsRequest, Given, Locals
<1>11. /\ Fields \subseteq DOMAIN call'[p] /\ DOMAIN r \subseteq DOMAIN call'[p]
       /\ call'[p].op = r.op /\ call'[p].cwd = r.cwd
       /\ r.op # "sign" => call'[p].level = r.level /\ call'[p].name = r.name
       /\ r.op = "sign" => call'[p].keystore = r.keystore
       /\ call'[p].step = None /\ call'[p].seed = None /\ call'[p].project = None
    BY <1>4, <1>10 DEF Fields, Locals
<1>12. ArgumentsOK(p)'
    BY <1>4, <1>10, <1>11 DEF ArgumentsOK, Places
<1>13. WriteOK(p)' /\ UseOK(p)'
    BY <1>4, <1>10, <1>11 DEF WriteOK, UseOK, Writing
<1>14. Justified(call'[p], since'[p])
    BY <1>11, Assumed DEF Justified
<1>15. SignOK(p)'
    BY <1>4, <1>10, <1>11, <1>14 DEF SignOK
<1>16. ProcOK(p)'
    BY <1>6, <1>8, <1>12, <1>13, <1>15 DEF ProcOK
<1>17. QED BY <1>5, <1>7, <1>9, <1>16, LookStep

\* A call that is not to sign has chosen nothing, and one that is writes no preference.
LEMMA UnsignedIs ==
    ASSUME NEW p \in Procs, ArgumentsOK(p)', call'[p].op # "sign", call'[p].project \in Dirs \cup {None}
    PROVE  SignOK(p)'
<1>1. call'[p].step = None /\ pc'[p] \in Places(call'[p].op) /\ call'[p].op \in {"create", "use", "clear"}
    BY DEF ArgumentsOK
<1>2. pc'[p] \notin {"sign", "list_user", "read_project", "read_user", "first_use", "load"}
    BY <1>1 DEF Places, Writing
<1>3. Justified(call'[p], since'[p])
    BY <1>1, Assumed DEF Justified
<1>4. QED BY <1>2, <1>3 DEF SignOK

\* A call that does not use an account has none to prefer.
LEMMA UnusedIs ==
    ASSUME NEW p \in Procs, ArgumentsOK(p)', call'[p].op # "use"
    PROVE  UseOK(p)'
<1>1. pc'[p] \in Places(call'[p].op) /\ call'[p].op \in {"create", "clear", "sign"}
    BY DEF ArgumentsOK
<1>2. pc'[p] # "use_base"
    BY <1>1 DEF Places, Writing
<1>3. QED BY <1>2 DEF UseOK

\* The parts of a call in progress.
LEMMA ProcIs ==
    ASSUME Inv, NEW p \in Procs, pc[p] # "idle"
    PROVE  /\ preference \in since[p]
           /\ ArgumentsOK(p) /\ WriteOK(p) /\ UseOK(p) /\ SignOK(p)
           /\ DOMAIN call = Procs /\ DOMAIN pc = Procs /\ seeds \in Nat
           /\ Fields \subseteq DOMAIN call[p]
BY DEF Inv, ProcOK, DiskOK, ArgumentsOK

\* A look at the disk, after which the call goes on or is over.
LEMMA LookOn ==
    ASSUME Inv, NEW p \in Procs, pc[p] \notin {"idle", "fill"}, UNCHANGED <<disk, result, past>>, seeds' \in Nat,
           DOMAIN call' = Procs, DOMAIN pc' = Procs,
           \A q \in Procs : q # p => call'[q] = call[q] /\ pc'[q] = pc[q],
           ArgumentsOK(p)' /\ WriteOK(p)' /\ UseOK(p)' /\ SignOK(p)'
    PROVE  Inv'
<1>1. DOMAIN result' = Procs /\ since' \in [Procs -> SUBSET Prefs]
    BY DEF past, Inv, DiskOK
<1>2. Looks(p)
    BY <1>1 DEF Looks, past
<1>3. preference' \in since'[p]
    BY ProcIs DEF past, disk
<1>4. ResultOK(p)'
    BY <1>2, LookProgress, ResultRests DEF Inv
<1>5. ProcOK(p)'
    BY <1>3 DEF ProcOK
<1>6. QED BY <1>2, <1>4, <1>5, LookStep

\* A look after which the call is over.
LEMMA LookOver ==
    ASSUME Inv, NEW p \in Procs, pc[p] \notin {"idle", "fill"}, UNCHANGED <<disk, result, past>>, seeds' \in Nat,
           Returns(p) \/ Raises(p)
    PROVE  Inv'
<1>1. DOMAIN result' = Procs /\ since' \in [Procs -> SUBSET Prefs] /\ DOMAIN pc = Procs /\ DOMAIN call = Procs
    BY DEF past, Inv, DiskOK
<1>2. Looks(p) /\ pc'[p] = "idle"
    BY <1>1, ReturnsIs DEF Looks, past
<1>3. ResultOK(p)'
    BY <1>2, LookProgress, ResultRests DEF Inv
<1>4. QED BY <1>2, <1>3, IdleIs, LookStep

\* The keystore is made where the level says, and in a project after its .gitignore.
LEMMA CreateStep ==
    ASSUME Inv, NEW p \in Procs, Create(p)
    PROVE  Inv'
<1> DEFINE c == call[p]
           base == LevelDirForWrite(c.level, c.cwd)
<1>1. pc[p] = "create" /\ UNCHANGED <<disk, result, past>>
    BY DEF Create, At
<1>2. ArgumentsOK(p) /\ SignOK(p) /\ DOMAIN call = Procs /\ DOMAIN pc = Procs /\ seeds \in Nat
      /\ Fields \subseteq DOMAIN call[p]
    BY <1>1, ProcIs
<1>3. c.op = "create" /\ c.cwd \in Dirs /\ c.level \in Levels /\ c.name \in Names /\ c.step = None
    BY <1>1, <1>2 DEF ArgumentsOK, Places, Writing
<1>4. CASE Raises(p) /\ UNCHANGED seeds
    BY <1>1, <1>2, <1>4, LookOver
<1>5. CASE /\ base # None
           /\ Fresh(p, [base |-> base, file |-> File(base, c.name)])
           /\ Go(p, AfterBase(c.level))
    <2>1. base \in Dirs
        BY <1>3, <1>5, BaseIs
    <2>2. /\ DOMAIN call' = Procs /\ DOMAIN call'[p] = DOMAIN call[p] /\ seeds' \in Nat
          /\ \A f \in DOMAIN call[p] :
               call'[p][f] = IF f = "seed" THEN seeds'
                             ELSE IF f \in DOMAIN [base |-> base, file |-> File(base, c.name)]
                                  THEN [base |-> base, file |-> File(base, c.name)][f] ELSE call[p][f]
          /\ \A q \in Procs : q # p => call'[q] = call[q]
        <3> DEFINE fields == [base |-> base, file |-> File(base, c.name)]
        <3>1. Fresh(p, fields)
            BY <1>5
        <3> HIDE DEF fields
        <3>2. /\ DOMAIN call' = Procs /\ DOMAIN call'[p] = DOMAIN call[p] /\ seeds' \in Nat
              /\ \A f \in DOMAIN call[p] :
                   call'[p][f] = IF f = "seed" THEN seeds' ELSE IF f \in DOMAIN fields THEN fields[f] ELSE call[p][f]
              /\ \A q \in Procs : q # p => call'[q] = call[q]
            BY <1>2, <3>1, FreshIs
        <3>3. QED BY <3>2 DEF fields
    <2>3. /\ call'[p].base = base /\ call'[p].file = File(base, c.name) /\ call'[p].seed = seeds'
          /\ call'[p].project = c.project
          /\ \A f \in DOMAIN call[p] : f \notin {"base", "file", "seed"} => call'[p][f] = call[p][f]
        <3> HIDE DEF base
        <3>1. QED BY <1>2, <2>2 DEF Fields, Locals
    <2>4. /\ DOMAIN pc' = Procs /\ pc'[p] = AfterBase(c.level)
          /\ \A q \in Procs : q # p => pc'[q] = pc[q]
        BY <1>2, <1>5, GoIs
    <2>5. pc'[p] \in {"ignore", "temp"} /\ (pc'[p] = "temp" => base = Home)
        BY <1>3, <2>4 DEF AfterBase, Levels, LevelDirForWrite
    <2>6. ArgumentsOK(p)' /\ call'[p].op = "create"
        BY <1>2, <1>3, <2>2, <2>3, <2>5, ArgumentsStay DEF Places, Writing
    <2>7. call'[p].file \in Files /\ call'[p].file.dir = base
        BY <1>3, <2>1, <2>3, FileIs
    <2>8. WriteOK(p)'
        BY <2>1, <2>2, <2>3, <2>5, <2>6, <2>7 DEF WriteOK, Covered
    <2>9. UseOK(p)' /\ SignOK(p)'
        BY <1>2, <2>3, <2>6, UnusedIs, UnsignedIs DEF SignOK
    <2>10. QED BY <1>1, <2>2, <2>4, <2>6, <2>8, <2>9, LookOn
<1>6. QED BY <1>4, <1>5 DEF Create

\* An account that is used is in the project or of the user.
LEMMA UseStep ==
    ASSUME Inv, NEW p \in Procs, Use(p)
    PROVE  Inv'
<1> DEFINE c == call[p]
           project == FindProject(c.cwd)
<1>1. pc[p] = "use" /\ UNCHANGED <<disk, seeds, result, past>>
    BY DEF Use, At
<1>2. ArgumentsOK(p) /\ WriteOK(p) /\ SignOK(p) /\ DOMAIN call = Procs /\ DOMAIN pc = Procs /\ seeds \in Nat
      /\ Fields \subseteq DOMAIN call[p]
    BY <1>1, ProcIs
<1>3. c.op = "use" /\ c.cwd \in Dirs /\ c.level \in Levels /\ c.name \in Names /\ c.step = None
    BY <1>1, <1>2 DEF ArgumentsOK, Places, Writing
<1>4. CASE Raises(p)
    BY <1>1, <1>2, <1>4, LookOver
<1>5. CASE Resolves(c.name, c.level, project) /\ Go(p, "use_base") /\ UNCHANGED call
    <2>1. /\ DOMAIN pc' = Procs /\ pc'[p] = "use_base"
          /\ \A q \in Procs : q # p => pc'[q] = pc[q]
        BY <1>2, <1>5, GoIs
    <2>2. ArgumentsOK(p)' /\ call' = call
        BY <1>2, <1>3, <1>5, <2>1, ArgumentsStay DEF Places
    <2>3. WriteOK(p)' /\ SignOK(p)'
        BY <1>2, <1>3, <2>1, <2>2, UnsignedIs DEF WriteOK, Writing, SignOK
    <2>4. UNCHANGED <<quip, keystores, deleted>>
        BY <1>1 DEF disk, past
    <2>5. \/ Existed(File(Home, c.name))
          \/ /\ c.level = "project"
             /\ \E i \in DOMAIN Walk[c.cwd] :
                  /\ Walk[c.cwd][i] \in (quip \ Untrusted) \ {Home}
                  /\ Existed(File(Walk[c.cwd][i], c.name))
        <3>1. CASE c.name \in NamesIn(Home)
            BY <3>1, Assumed DEF NamesIn, Existed
        <3>2. CASE c.level = "project" /\ c.name \in NamesIn(project)
            <4>1. project # None /\ Existed(File(project, c.name))
                BY <3>2 DEF NamesIn, Existed
            <4>2. PICK i \in DOMAIN Walk[c.cwd] :
                    project = Walk[c.cwd][i] /\ Walk[c.cwd][i] \in (quip \ Untrusted) \ {Home}
                BY <1>3, <4>1, ProjectIs
            <4> HIDE DEF project
            <4>3. Existed(File(Walk[c.cwd][i], c.name))
                BY <4>1, <4>2
            <4>4. QED BY <3>2, <4>2, <4>3
        <3>3. QED BY <1>5, <3>1, <3>2 DEF Resolves
    <2>6. UseOK(p)'
        BY <2>1, <2>2, <2>4, <2>5 DEF UseOK, Existed, Writing
    <2>7. QED BY <1>1, <1>2, <2>1, <2>2, <2>3, <2>6, LookOn
<1>6. QED BY <1>4, <1>5 DEF Use

\* clear_account.
LEMMA ClearStep ==
    ASSUME Inv, NEW p \in Procs, Clear(p)
    PROVE  Inv'
<1> DEFINE c == call[p]
           base == IF c.level = "user" THEN Home ELSE FindProject(c.cwd)
<1>1. pc[p] = "clear" /\ UNCHANGED <<disk, seeds, result, past>>
    BY DEF Clear, At
<1>2. ArgumentsOK(p) /\ WriteOK(p) /\ SignOK(p) /\ DOMAIN call = Procs /\ DOMAIN pc = Procs /\ seeds \in Nat
      /\ Fields \subseteq DOMAIN call[p]
    BY <1>1, ProcIs
<1>3. c.op = "clear" /\ c.cwd \in Dirs /\ c.step = None
    BY <1>1, <1>2 DEF ArgumentsOK, Places, Writing
<1>4. CASE Returns(p)
    BY <1>1, <1>2, <1>4, LookOver
<1>5. CASE base # None /\ Knows(p, [base |-> base]) /\ Go(p, "unlink")
    <2>1. base \in Dirs
        BY <1>3, <1>5, BaseIs, Assumed
    <2>2. /\ DOMAIN call' = Procs /\ DOMAIN call'[p] = DOMAIN call[p] /\ call'[p].base = base
          /\ \A f \in DOMAIN call[p] : f # "base" => call'[p][f] = call[p][f]
          /\ \A q \in Procs : q # p => call'[q] = call[q]
        <3> HIDE DEF base
        <3>1. QED BY <1>2, <1>5 DEF Knows, Fields, Locals
    <2>3. /\ DOMAIN pc' = Procs /\ pc'[p] = "unlink"
          /\ \A q \in Procs : q # p => pc'[q] = pc[q]
        BY <1>2, <1>5, GoIs
    <2>4. ArgumentsOK(p)' /\ call'[p].op = "clear"
        BY <1>2, <1>3, <2>2, <2>3, ArgumentsStay DEF Places
    <2>5. WriteOK(p)'
        BY <2>1, <2>2, <2>3, <2>4 DEF WriteOK, Writing
    <2>6. call'[p].project = c.project
        BY <1>2, <2>2 DEF Fields, Locals
    <2>7. UseOK(p)' /\ SignOK(p)'
        BY <1>2, <2>4, <2>6, UnusedIs, UnsignedIs DEF SignOK
    <2>8. QED BY <1>1, <1>2, <2>2, <2>3, <2>4, <2>5, <2>7, LookOn
<1>6. QED BY <1>4, <1>5 DEF Clear

\* A step of the precedence: nothing is written yet.
LEMMA SignOn ==
    ASSUME Inv, NEW p \in Procs, pc[p] \in {"sign", "list_user", "read_project", "read_user"},
           UNCHANGED <<disk, seeds, result, past>>,
           NEW step \in {"list_user", "read_project", "read_user", "first_use", "load"}, Go(p, step),
           DOMAIN call' = Procs, DOMAIN call'[p] = DOMAIN call[p],
           \A q \in Procs : q # p => call'[q] = call[q],
           \A f \in DOMAIN call[p] :
             f \notin {"file", "step", "name", "project", "inProject", "inUser"} => call'[p][f] = call[p][f],
           SignOK(p)'
    PROVE  Inv'
<1>1. ArgumentsOK(p) /\ DOMAIN call = Procs /\ DOMAIN pc = Procs /\ seeds \in Nat
    BY ProcIs
<1>2. call[p].op = "sign"
    BY <1>1 DEF ArgumentsOK, Places, Writing
<1>3. /\ DOMAIN pc' = Procs /\ pc'[p] = step
      /\ \A q \in Procs : q # p => pc'[q] = pc[q]
    BY <1>1, GoIs
<1>4. ArgumentsOK(p)' /\ call'[p].op = "sign"
    BY <1>1, <1>2, <1>3, ArgumentsStay DEF Places
<1>5. WriteOK(p)' /\ UseOK(p)'
    BY <1>3, <1>4, UnusedIs DEF WriteOK, Writing
<1>6. QED BY <1>1, <1>3, <1>4, <1>5, LookOn

\* A given keystore is signed with; else the project is looked up.
LEMMA SignStep ==
    ASSUME Inv, NEW p \in Procs, Sign(p)
    PROVE  Inv'
<1> DEFINE c == call[p]
           project == FindProject(c.cwd)
<1>1. pc[p] = "sign" /\ UNCHANGED <<disk, seeds, result, past>>
    BY DEF Sign, At
<1>2. ArgumentsOK(p) /\ SignOK(p) /\ DOMAIN call = Procs /\ DOMAIN pc = Procs /\ Fields \subseteq DOMAIN call[p]
    BY <1>1, ProcIs
<1>3. /\ c.op = "sign" /\ c.cwd \in Dirs /\ c.step = None
      /\ c.keystore \in Files \cup {None} /\ (c.keystore # None => c.keystore \in Given)
    BY <1>1, <1>2 DEF ArgumentsOK, Places, Writing, SignOK
<1>4. CASE c.keystore # None /\ Knows(p, [file |-> c.keystore, step |-> "keystore="]) /\ Go(p, "first_use")
    <2>1. /\ DOMAIN call' = Procs /\ DOMAIN call'[p] = DOMAIN call[p]
          /\ call'[p].file = c.keystore /\ call'[p].step = "keystore="
          /\ \A f \in DOMAIN call[p] : f \notin {"file", "step"} => call'[p][f] = call[p][f]
          /\ \A q \in Procs : q # p => call'[q] = call[q]
        BY <1>2, <1>4 DEF Knows, Fields, Locals
    <2>2. pc'[p] = "first_use" /\ call'[p].project = c.project
        BY <1>2, <1>4, <2>1, GoIs DEF Fields, Locals
    <2>3. Justified(call'[p], since'[p])
        BY <2>1 DEF Justified
    <2>4. SignOK(p)'
        BY <1>2, <1>3, <1>4, <2>1, <2>2, <2>3 DEF SignOK
    <2>5. QED BY <1>1, <1>4, <2>1, <2>4, SignOn
<1>5. CASE Knows(p, [project |-> project, inProject |-> NamesIn(project)]) /\ Go(p, "list_user")
    <2>1. project \in Dirs \cup {None}
        BY <1>3, BaseIs
    <2> HIDE DEF project
    <2>2. /\ DOMAIN call' = Procs /\ DOMAIN call'[p] = DOMAIN call[p] /\ call'[p].project = project
          /\ \A f \in DOMAIN call[p] : f \notin {"project", "inProject"} => call'[p][f] = call[p][f]
          /\ \A q \in Procs : q # p => call'[q] = call[q]
        BY <1>2, <1>5 DEF Knows, Fields, Locals
    <2>3. pc'[p] = "list_user" /\ call'[p].step = None
        BY <1>2, <1>3, <1>5, <2>2, GoIs DEF Fields, Locals
    <2>4. Justified(call'[p], since'[p])
        BY <2>3, Assumed DEF Justified
    <2>5. SignOK(p)'
        BY <2>1, <2>2, <2>3, <2>4 DEF SignOK
    <2>6. QED BY <1>1, <1>5, <2>2, <2>5, SignOn
<1>6. QED BY <1>4, <1>5 DEF Sign

\* The user's keystores are listed.
LEMMA ListUserStep ==
    ASSUME Inv, NEW p \in Procs, ListUser(p)
    PROVE  Inv'
<1>1. pc[p] = "list_user" /\ UNCHANGED <<disk, seeds, result, past>>
      /\ Knows(p, [inUser |-> NamesIn(Home)]) /\ Go(p, "read_project")
    BY DEF ListUser, At
<1>2. SignOK(p) /\ DOMAIN call = Procs /\ DOMAIN pc = Procs /\ Fields \subseteq DOMAIN call[p]
    BY <1>1, ProcIs
<1>3. /\ DOMAIN call' = Procs /\ DOMAIN call'[p] = DOMAIN call[p]
      /\ \A f \in DOMAIN call[p] : f # "inUser" => call'[p][f] = call[p][f]
      /\ \A q \in Procs : q # p => call'[q] = call[q]
    BY <1>1, <1>2 DEF Knows
<1>4. pc'[p] = "read_project" /\ call'[p].step = call[p].step /\ call'[p].project = call[p].project
    BY <1>1, <1>2, <1>3, GoIs DEF Fields, Locals
<1>5. call'[p].step = None
    BY <1>1, <1>2, <1>4 DEF SignOK
<1>6. Justified(call'[p], since'[p])
    BY <1>5, Assumed DEF Justified
<1>7. SignOK(p)'
    BY <1>2, <1>4, <1>5, <1>6 DEF SignOK
<1>8. QED BY <1>1, <1>3, <1>7, SignOn

\* What a preference that is unset now has been unset in the course of the call.
LEMMA MetNow ==
    ASSUME Inv, NEW p \in Procs, pc[p] # "idle", NEW dir \in Dirs
    PROVE  /\ Preferred(dir) \in Met(since[p], dir)
           /\ Preferred(dir) = None => Unset(since[p], dir)
           /\ Preferred(dir) \in Names \cup {None, "unreadable"}
<1>1. preference \in since[p] /\ preference \in Prefs
    BY ProcIs DEF Inv, DiskOK
<1>2. dir # None /\ preference[dir] \in Names \cup Foreign
    BY <1>1, Assumed DEF Prefs
<1>3. Preferred(dir) = NameGiven(preference[dir])
    BY <1>2 DEF Preferred
<1>4. Preferred(dir) \in Met(since[p], dir)
    BY <1>1, <1>3 DEF Met
<1>5. Preferred(dir) \in Names \cup {None, "unreadable"}
    BY <1>2, <1>3, Assumed DEF NameGiven, Foreign
<1>6. QED BY <1>4, <1>5 DEF Unset

\* The keystore that a preference names is in one of the directories looked into.
LEMMA ChooseStep ==
    ASSUME Inv, NEW p \in Procs, pc[p] \in {"read_project", "read_user"},
           UNCHANGED <<disk, seeds, result, past>>,
           NEW step \in {"project", "user"}, NEW name, NEW dirs \in Seq(Dirs \cup {None}),
           Choose(p, step, name, dirs), name \in Names \cup {"unreadable"},
           step = "project" => /\ call[p].project \in Dirs /\ name \in Met(since[p], call[p].project)
                               /\ \A i \in DOMAIN dirs : dirs[i] \in {call[p].project, Home},
           step = "user" => /\ call[p].project # None => Unset(since[p], call[p].project)
                            /\ name \in Met(since[p], Home) /\ \A i \in DOMAIN dirs : dirs[i] = Home
    PROVE  Inv'
<1> DEFINE dir == Found(p, name, dirs)
<1>1. SignOK(p) /\ DOMAIN call = Procs /\ DOMAIN pc = Procs /\ Fields \subseteq DOMAIN call[p] /\ seeds \in Nat
    BY ProcIs
<1>2. CASE Raises(p)
    BY <1>1, <1>2, LookOver
<1>3. CASE name \in Names /\ dir # None /\ Takes(p, step, name, dir)
    <2>1. dir \in Dirs /\ \E i \in DOMAIN dirs : dir = dirs[i]
        <3> DEFINE set == {d \in Dirs : name \in IF d = Home THEN call[p].inUser ELSE call[p].inProject}
        <3>1. dir = First(dirs, set) /\ set \subseteq Dirs
            BY DEF Found
        <3> HIDE DEF set, dir
        <3>2. DOMAIN dirs \subseteq Nat
            OBVIOUS
        <3>3. \E i \in DOMAIN dirs : First(dirs, set) = dirs[i] /\ dirs[i] \in set
            BY <1>3, <3>1, <3>2, FirstIs
        <3>4. QED BY <3>1, <3>3
    <2> HIDE DEF dir
    <2>2. Knows(p, [file |-> File(dir, name), step |-> step, name |-> name]) /\ Go(p, "load")
        BY <1>3 DEF Takes
    <2>3. /\ DOMAIN call' = Procs /\ DOMAIN call'[p] = DOMAIN call[p]
          /\ call'[p].file = File(dir, name) /\ call'[p].step = step /\ call'[p].name = name
          /\ \A f \in DOMAIN call[p] : f \notin {"file", "step", "name"} => call'[p][f] = call[p][f]
          /\ \A q \in Procs : q # p => call'[q] = call[q]
        BY <1>1, <2>2 DEF Knows, Fields, Locals
    <2>4. pc'[p] = "load" /\ call'[p].project = call[p].project /\ since' = since
        BY <1>1, <2>2, <2>3, GoIs DEF Fields, Locals, past
    <2>5. call'[p].file \in Files /\ call'[p].file.dir = dir
        BY <1>3, <2>1, <2>3, FileIs
    <2>6. Justified(call'[p], since'[p])
        BY <2>1, <2>3, <2>4, <2>5 DEF Justified
    <2>7. SignOK(p)'
        BY <1>1, <2>4, <2>5, <2>6 DEF SignOK
    <2>8. QED BY <2>2, <2>3, <2>7, SignOn
<1>4. QED BY <1>2, <1>3 DEF Choose

\* The project's preference decides, or is unset at this moment.
LEMMA ReadProjectStep ==
    ASSUME Inv, NEW p \in Procs, ReadProject(p)
    PROVE  Inv'
<1> DEFINE c == call[p]
           name == Preferred(c.project)
<1>1. pc[p] = "read_project" /\ UNCHANGED <<disk, seeds, result, past>>
    BY DEF ReadProject, At
<1>2. SignOK(p) /\ DOMAIN call = Procs /\ DOMAIN pc = Procs /\ Fields \subseteq DOMAIN call[p]
    BY <1>1, ProcIs
<1>3. c.step = None /\ c.project \in Dirs \cup {None}
    BY <1>1, <1>2 DEF SignOK
<1>4. CASE name = None /\ Go(p, "read_user") /\ UNCHANGED call
    <2>1. pc'[p] = "read_user" /\ call' = call /\ since' = since
        BY <1>1, <1>2, <1>4, GoIs DEF past
    <2>2. c.project # None => Unset(since[p], c.project)
        BY <1>1, <1>3, <1>4, MetNow
    <2>3. SignOK(p)'
        BY <1>2, <1>3, <2>1, <2>2 DEF SignOK
    <2>4. QED BY <1>1, <1>2, <1>4, <2>3, SignOn
<1>5. CASE name # None /\ Choose(p, "project", name, <<c.project, Home>>)
    <2>1. c.project \in Dirs
        BY <1>3, <1>5 DEF Preferred
    <2>2. name \in Names \cup {"unreadable"} /\ name \in Met(since[p], c.project)
        BY <1>1, <1>5, <2>1, MetNow
    <2>3. <<c.project, Home>> \in Seq(Dirs \cup {None})
          /\ \A i \in DOMAIN <<c.project, Home>> : <<c.project, Home>>[i] \in {c.project, Home}
        BY <1>3, Assumed
    <2>4. QED BY <1>1, <1>5, <2>1, <2>2, <2>3, ChooseStep
<1>6. QED BY <1>4, <1>5 DEF ReadProject

\* So does the user's, and without it the default is signed with.
LEMMA ReadUserStep ==
    ASSUME Inv, NEW p \in Procs, ReadUser(p)
    PROVE  Inv'
<1> DEFINE c == call[p]
           name == Preferred(Home)
<1>1. pc[p] = "read_user" /\ UNCHANGED <<disk, seeds, result, past>>
    BY DEF ReadUser, At
<1>2. SignOK(p) /\ DOMAIN call = Procs /\ DOMAIN pc = Procs /\ Fields \subseteq DOMAIN call[p]
    BY <1>1, ProcIs
<1>3. c.project \in Dirs \cup {None} /\ (c.project # None => Unset(since[p], c.project))
    BY <1>1, <1>2 DEF SignOK
<1>4. CASE name = None /\ Knows(p, [file |-> DefaultFile, step |-> "default"]) /\ Go(p, "first_use")
    <2>1. /\ DOMAIN call' = Procs /\ DOMAIN call'[p] = DOMAIN call[p]
          /\ call'[p].file = DefaultFile /\ call'[p].step = "default"
          /\ \A f \in DOMAIN call[p] : f \notin {"file", "step"} => call'[p][f] = call[p][f]
          /\ \A q \in Procs : q # p => call'[q] = call[q]
        BY <1>2, <1>4 DEF Knows, Fields, Locals
    <2>2. pc'[p] = "first_use" /\ call'[p].project = c.project /\ since' = since
        BY <1>1, <1>2, <1>4, <2>1, GoIs DEF Fields, Locals, past
    <2>3. DefaultFile \in Files /\ DefaultFile.dir = Home
        BY FileIs, Assumed DEF DefaultFile
    <2>4. Unset(since[p], Home)
        BY <1>1, <1>4, MetNow, Assumed
    <2>5. Justified(call'[p], since'[p])
        BY <1>3, <2>1, <2>2, <2>4 DEF Justified
    <2>6. SignOK(p)'
        BY <1>3, <2>1, <2>2, <2>3, <2>5 DEF SignOK
    <2>7. QED BY <1>1, <1>4, <2>1, <2>6, SignOn
<1>5. CASE name # None /\ Choose(p, "user", name, <<Home>>)
    <2>1. name \in Names \cup {"unreadable"} /\ name \in Met(since[p], Home)
        BY <1>1, <1>5, MetNow, Assumed
    <2>2. <<Home>> \in Seq(Dirs \cup {None}) /\ \A i \in DOMAIN <<Home>> : <<Home>>[i] = Home
        BY Assumed
    <2>3. QED BY <1>1, <1>3, <1>5, <2>1, <2>2, ChooseStep
<1>6. QED BY <1>4, <1>5 DEF ReadUser

\* A keystore that is missing is made.
LEMMA FirstUseStep ==
    ASSUME Inv, NEW p \in Procs, FirstUse(p)
    PROVE  Inv'
<1> DEFINE c == call[p]
<1>1. pc[p] = "first_use" /\ UNCHANGED <<disk, result, past>>
    BY DEF FirstUse, At
<1>2. ArgumentsOK(p) /\ SignOK(p) /\ DOMAIN call = Procs /\ DOMAIN pc = Procs /\ seeds \in Nat
      /\ Fields \subseteq DOMAIN call[p]
    BY <1>1, ProcIs
<1>3. c.op = "sign" /\ c.file \in Files /\ c.file.dir \in Dirs /\ (c.file \in Given \/ c.file.dir = Home)
    BY <1>1, <1>2, FilesAre DEF ArgumentsOK, Places, Writing, SignOK
<1>4. since' = since
    BY <1>1 DEF past
<1>5. CASE Go(p, "load") /\ UNCHANGED <<call, seeds>>
    <2>1. /\ DOMAIN pc' = Procs /\ pc'[p] = "load"
          /\ \A q \in Procs : q # p => pc'[q] = pc[q]
        BY <1>2, <1>5, GoIs
    <2>2. ArgumentsOK(p)' /\ call' = call
        BY <1>2, <1>3, <1>5, <2>1, ArgumentsStay DEF Places
    <2>3. WriteOK(p)' /\ UseOK(p)'
        BY <1>3, <2>1, <2>2, UnusedIs DEF WriteOK, Writing
    <2>4. SignOK(p)'
        BY <1>2, <1>3, <1>4, <2>1, <2>2 DEF SignOK
    <2>5. QED BY <1>1, <1>2, <1>5, <2>1, <2>2, <2>3, <2>4, LookOn
<1>6. CASE Fresh(p, [base |-> c.file.dir]) /\ Go(p, "temp")
    <2>1. /\ DOMAIN pc' = Procs /\ pc'[p] = "temp"
          /\ \A q \in Procs : q # p => pc'[q] = pc[q]
        BY <1>2, <1>6, GoIs
    <2>2. /\ DOMAIN call' = Procs /\ DOMAIN call'[p] = DOMAIN call[p] /\ seeds' \in Nat
          /\ call'[p].base = c.file.dir /\ call'[p].seed = seeds'
          /\ \A f \in DOMAIN call[p] : f \notin {"base", "seed"} => call'[p][f] = call[p][f]
          /\ \A q \in Procs : q # p => call'[q] = call[q]
        BY <1>2, <1>6 DEF Fresh, Knows, Fields, Locals
    <2>3. call'[p].file = c.file /\ call'[p].step = c.step /\ call'[p].name = c.name /\ call'[p].project = c.project
        BY <1>2, <2>2 DEF Fields, Locals
    <2>4. ArgumentsOK(p)' /\ call'[p].op = "sign"
        BY <1>2, <1>3, <2>1, <2>2, ArgumentsStay DEF Places
    <2>5. WriteOK(p)' /\ UseOK(p)'
        BY <1>3, <2>1, <2>2, <2>3, <2>4, UnusedIs DEF WriteOK, Covered
    <2>6. Justified(call'[p], since'[p])
        BY <1>2, <1>4, <2>3 DEF SignOK, Justified
    <2>7. SignOK(p)'
        BY <1>2, <2>1, <2>3, <2>6 DEF SignOK
    <2>8. QED BY <1>1, <2>1, <2>2, <2>4, <2>5, <2>7, LookOn
<1>7. QED BY <1>5, <1>6 DEF FirstUse

\* An account that a call answers with: what is true of the call is true of the result.
LEMMA SignsIs ==
    ASSUME DiskOK, NEW p \in Procs, NEW seed \in Nat, Signs(p, seed), NEW file \in Files,
           call[p].file = file, Kept(file, seed)', Justified(call[p], since[p])
    PROVE  ResultOK(p)' /\ DOMAIN result' = Procs /\ \A q \in Procs : q # p => result'[q] = result[q]
<1>1. /\ DOMAIN result' = Procs /\ \A q \in Procs : q # p => result'[q] = result[q]
      /\ result'[p] = [file |-> call[p].file, seed |-> seed, step |-> call[p].step,
                       name |-> call[p].name, project |-> call[p].project, met |-> since[p]]
    BY DEF DiskOK, Signs
<1>2. Justified(result'[p], result'[p].met)
    BY <1>1 DEF Justified
<1>3. QED BY <1>1, <1>2 DEF ResultOK, Kept

\* The keystore that is there is answered with.
LEMMA LoadStep ==
    ASSUME Inv, NEW p \in Procs, Load(p)
    PROVE  Inv'
<1> DEFINE c == call[p]
<1>1. pc[p] = "load" /\ UNCHANGED <<disk, seeds, past>> /\ Returns(p)
    BY DEF Load, At
<1>2. SignOK(p) /\ DOMAIN call = Procs /\ DOMAIN pc = Procs /\ seeds \in Nat /\ DiskOK
    BY <1>1, ProcIs DEF Inv
<1>3. c.file \in Files /\ Justified(c, since[p])
    BY <1>1, <1>2 DEF SignOK
<1>4. CASE UNCHANGED result
    BY <1>1, <1>2, <1>4, LookOver
<1>5. CASE keystores[c.file] # None /\ Signs(p, keystores[c.file])
    <2>1. keystores[c.file] \in Nat
        BY <1>2, <1>3, <1>5 DEF DiskOK
    <2>2. ASSUME NEW file \in Files, file = c.file, NEW seed \in Nat, seed = keystores[c.file]
          PROVE  ResultOK(p)' /\ DOMAIN result' = Procs /\ \A q \in Procs : q # p => result'[q] = result[q]
        <3>1. keystores'[file] = seed /\ Signs(p, seed)
            BY <1>1, <1>5, <2>2 DEF disk
        <3>2. Kept(file, seed)'
            BY <3>1 DEF Kept
        <3>3. QED BY <1>2, <1>3, <2>2, <3>1, <3>2, SignsIs
    <2>3. ResultOK(p)' /\ DOMAIN result' = Procs /\ \A q \in Procs : q # p => result'[q] = result[q]
        BY <1>3, <2>1, <2>2
    <2>4. /\ DOMAIN call' = Procs /\ DOMAIN pc' = Procs /\ pc'[p] = "idle"
          /\ \A q \in Procs : q # p => call'[q] = call[q] /\ pc'[q] = pc[q]
        BY <1>1, <1>2, ReturnsIs
    <2>5. Looks(p)
        BY <1>1, <1>2, <2>3, <2>4 DEF Looks, DiskOK, past
    <2>6. QED BY <1>1, <2>3, <2>4, <2>5, IdleIs, LookStep
<1>6. QED BY <1>4, <1>5 DEF Load

\* A step that leaves the preferences and the accounts that were answered.
LEMMA QuietStep ==
    ASSUME Inv, NEW p \in Procs, UNCHANGED <<preference, since, result>>, DiskOK', Progress,
           \A q \in Procs : q # p => call'[q] = call[q] /\ pc'[q] = pc[q],
           \A f \in Files : keystores'[f] # None => keystores[f] # None \/ Covered(f)',
           \A t \in temps' : t \in temps \/ (t.file \in Files /\ Covered(t.file)'),
           \A d \in Dirs : ignore'[d] = "empty"
             => ignore[d] = "empty" \/ (pc'[p] = "fill" /\ call'[p].base = d),
           torn \subseteq torn',
           pc[p] = "fill" => call[p].base \in torn' \/ ignore'[call[p].base] # "empty",
           ProcOK(p)'
    PROVE  Inv'
<1>1. ResultOK(p)'
    BY ResultRests DEF Inv
<1>2. \A q \in Procs : q # p =>
             /\ call'[q] = call[q] /\ pc'[q] = pc[q] /\ result'[q] = result[q]
             /\ pc[q] # "idle" => since[q] \subseteq since'[q] /\ preference' \in since'[q]
    BY DEF Inv, ProcOK
<1>3. QED BY <1>1, <1>2, StepInv

\* The call goes on, and its parts hold after the step.
LEMMA ProcOn ==
    ASSUME Inv, NEW p \in Procs, pc[p] # "idle", UNCHANGED <<preference, since>>,
           ArgumentsOK(p)' /\ WriteOK(p)' /\ UseOK(p)' /\ SignOK(p)'
    PROVE  ProcOK(p)'
BY DEF Inv, ProcOK

\* The preference is written where an account of that name is around.
LEMMA UseBaseStep ==
    ASSUME Inv, NEW p \in Procs, UseBase(p)
    PROVE  Inv'
<1> DEFINE c == call[p]
           base == LevelDirForWrite(c.level, c.cwd)
<1>1. pc[p] = "use_base" /\ UNCHANGED <<keystores, preference, ignore, temps, seeds, result, past>>
    BY DEF UseBase, At
<1>2. ArgumentsOK(p) /\ WriteOK(p) /\ UseOK(p) /\ SignOK(p) /\ DOMAIN call = Procs /\ DOMAIN pc = Procs
      /\ seeds \in Nat /\ Fields \subseteq DOMAIN call[p]
    BY <1>1, ProcIs
<1>3. c.op = "use" /\ c.cwd \in Dirs /\ c.level \in Levels /\ c.name \in Names /\ c.seed = None
    BY <1>1, <1>2 DEF ArgumentsOK, Places, Writing, WriteOK
<1>4. CASE Raises(p) /\ UNCHANGED quip
    BY <1>1, <1>2, <1>4, LookOver DEF disk
<1>5. CASE /\ base # None /\ Knows(p, [base |-> base]) /\ Go(p, AfterBase(c.level))
           /\ quip' = quip \cup {base}
    <2>1. base \in Dirs
        BY <1>3, <1>5, BaseIs
    <2>2. Around(c.name, base)
        <3>1. CASE Existed(File(Home, c.name))
            <4>1. Walk[base][Len(Walk[base])] = Home /\ Len(Walk[base]) \in DOMAIN Walk[base]
                BY <2>1, WalkIs
            <4> HIDE DEF base
            <4>2. QED BY <3>1, <4>1 DEF Around
        <3>2. CASE c.level = "project" /\ \E i \in DOMAIN Walk[c.cwd] :
                     /\ Walk[c.cwd][i] \in (quip \ Untrusted) \ {Home}
                     /\ Existed(File(Walk[c.cwd][i], c.name))
            <4>1. PICK i \in DOMAIN Walk[c.cwd] :
                     Walk[c.cwd][i] \in (quip \ Untrusted) \ {Home} /\ Existed(File(Walk[c.cwd][i], c.name))
                BY <3>2
            <4>2. FindProject(c.cwd) # None /\ base = FindProject(c.cwd)
                <5>1. FindProject(c.cwd) # None
                    BY <1>3, <4>1, ProjectIs, Assumed
                <5>2. QED BY <3>2, <5>1 DEF LevelDirForWrite
            <4> HIDE DEF base
            <4>3. PICK k \in DOMAIN Walk[c.cwd] : base = Walk[c.cwd][k] /\ k <= i
                BY <1>3, <4>1, <4>2, ProjectIs
            <4>4. PICK j \in DOMAIN Walk[base] : Walk[base][j] = Walk[c.cwd][i]
                BY <1>3, <4>3, WalkOn
            <4>5. Existed(File(Walk[base][j], c.name))
                BY <4>1, <4>4
            <4>6. QED BY <4>5 DEF Around
        <3>3. QED BY <1>1, <1>2, <3>1, <3>2 DEF UseOK
    <2> HIDE DEF base
    <2>3. /\ DOMAIN call' = Procs /\ DOMAIN call'[p] = DOMAIN call[p] /\ call'[p].base = base
          /\ \A f \in DOMAIN call[p] : f # "base" => call'[p][f] = call[p][f]
          /\ \A q \in Procs : q # p => call'[q] = call[q]
        BY <1>2, <1>5 DEF Knows, Fields, Locals
    <2>4. call'[p].seed = None /\ call'[p].project = c.project /\ call'[p].name = c.name
        BY <1>2, <1>3, <2>3 DEF Fields, Locals, ArgumentsOK
    <2>5. /\ DOMAIN pc' = Procs /\ pc'[p] \in {"ignore", "temp"}
          /\ \A q \in Procs : q # p => pc'[q] = pc[q]
        BY <1>2, <1>5, GoIs DEF AfterBase
    <2>6. Progress /\ DiskOK' /\ UNCHANGED <<preference, since, torn>>
        BY <1>1, <1>5, <2>1, <2>3, <2>5 DEF Progress, DiskOK, Inv, Existed, Kept, Covered, past
    <2>7. ArgumentsOK(p)' /\ call'[p].op = "use"
        BY <1>2, <1>3, <2>3, <2>5, ArgumentsStay DEF Places, Writing
    <2>8. WriteOK(p)' /\ SignOK(p)'
        BY <1>2, <2>1, <2>3, <2>4, <2>5, <2>7, UnsignedIs DEF WriteOK, SignOK
    <2>9. Around(call[p].name, call[p].base)'
        <3>1. PICK i \in DOMAIN Walk[base] : Existed(File(Walk[base][i], c.name))
            BY <2>2 DEF Around
        <3>2. QED BY <1>1, <3>1, <2>3, <2>4 DEF Around, Existed, past
    <2>10. UseOK(p)'
        BY <2>5, <2>9 DEF UseOK
    <2>11. QED BY <1>1, <2>3, <2>5, <2>6, <2>7, <2>8, <2>10, QuietStep, ProcOn
<1>6. QED BY <1>4, <1>5 DEF UseBase

\* A call that writes goes on writing: it forgets nothing, and what it has met stays.
LEMMA WritesOn ==
    ASSUME NEW p \in Procs, ArgumentsOK(p), WriteOK(p), UseOK(p), SignOK(p), Progress,
           since[p] \subseteq since'[p], pc[p] \in Writing, pc'[p] \in Writing, pc'[p] \in Places(call[p].op),
           DOMAIN call'[p] = DOMAIN call[p], \A f \in DOMAIN call[p] : f # "taken" => call'[p][f] = call[p][f]
    PROVE  ArgumentsOK(p)' /\ UseOK(p)' /\ SignOK(p)'
<1>1. ArgumentsOK(p)' /\ Fields \subseteq DOMAIN call[p]
    BY ArgumentsStay DEF ArgumentsOK
<1>2. /\ call'[p].op = call[p].op /\ call'[p].base = call[p].base /\ call'[p].file = call[p].file
      /\ call'[p].name = call[p].name /\ call'[p].step = call[p].step /\ call'[p].project = call[p].project
    BY <1>1 DEF Fields, Locals
<1>3. call[p].op = "use" => Around(call[p].name, call[p].base)'
    <2>1. ASSUME NEW name \in Names, NEW base \in Dirs, name = call[p].name, base = call[p].base,
                 call[p].op = "use"
          PROVE  Around(name, base)'
        BY <2>1, AroundStays DEF UseOK
    <2>2. call[p].op = "use" => call[p].name \in Names /\ call[p].base \in Dirs
        BY DEF ArgumentsOK, WriteOK
    <2>3. QED BY <1>2, <2>1, <2>2 DEF Around
<1>4. UseOK(p)'
    BY <1>2, <1>3 DEF UseOK, Writing
<1>5. Justified(call[p], since'[p])
    BY JustifiedStays DEF SignOK
<1>6. Justified(call'[p], since'[p])
    BY <1>2, <1>5 DEF Justified
<1>7. SignOK(p)'
    BY <1>2, <1>6 DEF SignOK, Writing
<1>8. QED BY <1>1, <1>4, <1>7

\* The .gitignore is made, or was there.
LEMMA IgnoreStep ==
    ASSUME Inv, NEW p \in Procs, Ignore(p)
    PROVE  Inv'
<1> DEFINE c == call[p]
<1>1. pc[p] = "ignore" /\ UNCHANGED <<keystores, preference, temps, seeds, call, result, past>>
      /\ quip' = quip \cup {c.base}
    BY DEF Ignore, At
<1>2. ArgumentsOK(p) /\ WriteOK(p) /\ UseOK(p) /\ SignOK(p) /\ DOMAIN call = Procs /\ DOMAIN pc = Procs
      /\ DiskOK
    BY <1>1, ProcIs DEF Inv
<1>3. /\ c.op \in {"use", "create"} /\ c.base \in Dirs
      /\ c.op # "use" => c.file \in Files /\ c.seed \in Nat /\ c.base = c.file.dir
      /\ c.op = "use" => c.seed = None
    BY <1>1, <1>2 DEF WriteOK, Writing
<1>4. /\ DOMAIN pc' = Procs /\ pc'[p] \in {"fill", "temp"}
      /\ \A q \in Procs : q # p => pc'[q] = pc[q]
      /\ ignore' \in [Dirs -> {"absent", "empty", "all", "team"}]
      /\ \A d \in Dirs : d # c.base => ignore'[d] = ignore[d]
      /\ \/ pc'[p] = "fill" /\ ignore'[c.base] = "empty"
         \/ pc'[p] = "temp" /\ ignore' = ignore /\ ignore[c.base] # "absent"
    <2>1. CASE ignore' = [ignore EXCEPT ![c.base] = "empty"] /\ Go(p, "fill")
        BY <1>2, <1>3, <2>1, GoIs DEF DiskOK
    <2>2. CASE ignore[c.base] # "absent" /\ Go(p, "temp") /\ UNCHANGED ignore
        BY <1>2, <1>3, <2>2, GoIs DEF DiskOK
    <2>3. QED BY <2>1, <2>2 DEF Ignore
<1>5. Progress /\ DiskOK' /\ UNCHANGED <<since, torn>>
    <2>1. \A d \in Dirs : ignore[d] # "absent" => ignore'[d] # "absent"
        BY <1>4
    <2>2. UNCHANGED <<lost, deleted, since, torn>>
        BY <1>1 DEF past
    <2>3. Progress
        BY <1>1, <2>1, <2>2, FilesAre DEF Progress, Existed, Kept, Covered
    <2>4. DiskOK'
        BY <1>1, <1>2, <1>3, <1>4, <2>2 DEF DiskOK
    <2>5. QED BY <2>2, <2>3, <2>4
<1>6. ArgumentsOK(p)' /\ UseOK(p)' /\ SignOK(p)'
    BY <1>1, <1>2, <1>3, <1>4, <1>5, WritesOn DEF Writing, Places
<1>7. WriteOK(p)'
    BY <1>1, <1>3, <1>4 DEF WriteOK, Covered
<1>8. ProcOK(p)'
    BY <1>1, <1>5, <1>6, <1>7, ProcOn
<1>9. QED BY <1>1, <1>4, <1>5, <1>8, QuietStep

\* The .gitignore gets its line.
LEMMA FillStep ==
    ASSUME Inv, NEW p \in Procs, Fill(p)
    PROVE  Inv'
<1> DEFINE c == call[p]
<1>1. pc[p] = "fill" /\ UNCHANGED <<quip, keystores, preference, temps, seeds, call, result, past>>
      /\ ignore' = [ignore EXCEPT ![c.base] = "all"] /\ Go(p, "temp")
    BY DEF Fill, At
<1>2. ArgumentsOK(p) /\ WriteOK(p) /\ UseOK(p) /\ SignOK(p) /\ DOMAIN call = Procs /\ DOMAIN pc = Procs
      /\ DiskOK
    BY <1>1, ProcIs DEF Inv
<1>3. /\ c.op \in {"use", "create"} /\ c.base \in Dirs
      /\ c.op # "use" => c.file \in Files /\ c.seed \in Nat /\ c.base = c.file.dir
      /\ c.op = "use" => c.seed = None
    BY <1>1, <1>2 DEF WriteOK, Writing
<1>4. /\ DOMAIN pc' = Procs /\ pc'[p] = "temp"
      /\ \A q \in Procs : q # p => pc'[q] = pc[q]
    BY <1>1, <1>2, GoIs
<1>5. Progress /\ DiskOK' /\ UNCHANGED <<since, torn>>
    BY <1>1, <1>2, <1>3, <1>4 DEF Progress, DiskOK, Existed, Kept, Covered, past
<1>6. ArgumentsOK(p)' /\ UseOK(p)' /\ SignOK(p)'
    BY <1>1, <1>2, <1>3, <1>4, <1>5, WritesOn DEF Writing, Places
<1>7. WriteOK(p)'
    BY <1>1, <1>2, <1>3, <1>4 DEF WriteOK, Covered, DiskOK
<1>8. ProcOK(p)'
    BY <1>1, <1>5, <1>6, <1>7, ProcOn
<1>9. ignore'[c.base] = "all" /\ \A d \in Dirs : ignore'[d] = "empty" => ignore[d] = "empty"
    BY <1>1, <1>2, <1>3 DEF DiskOK
<1>10. QED BY <1>1, <1>4, <1>5, <1>8, <1>9, QuietStep

\* The temporary file of a seed is where its keystore will be.
LEMMA TempIs ==
    ASSUME NEW p \in Procs, WriteOK(p), pc[p] \in {"temp", "publish", "clean"}, NEW t \in TempOf(p)
    PROVE  t.file \in Files /\ Covered(t.file) /\ t.file = call[p].file
BY DEF TempOf, WriteOK, Writing

\* The temporary file is written where a .gitignore is.
LEMMA TempStep ==
    ASSUME Inv, NEW p \in Procs, Temp(p)
    PROVE  Inv'
<1> DEFINE c == call[p]
<1>1. pc[p] = "temp" /\ UNCHANGED <<keystores, preference, ignore, seeds, call, result, past>>
      /\ quip' = quip \cup {c.base} /\ temps' = temps \cup TempOf(p) /\ Go(p, "publish")
    BY DEF Temp, At
<1>2. ArgumentsOK(p) /\ WriteOK(p) /\ UseOK(p) /\ SignOK(p) /\ DOMAIN call = Procs /\ DOMAIN pc = Procs
      /\ DiskOK
    BY <1>1, ProcIs DEF Inv
<1>3. c.op \in {"use", "create", "sign"} /\ c.base \in Dirs
    BY <1>1, <1>2 DEF WriteOK, ArgumentsOK, Places, Writing
<1>4. /\ DOMAIN pc' = Procs /\ pc'[p] = "publish"
      /\ \A q \in Procs : q # p => pc'[q] = pc[q]
    BY <1>1, <1>2, GoIs
<1>5. Progress /\ DiskOK' /\ UNCHANGED <<since, torn>>
    BY <1>1, <1>2, <1>3, <1>4 DEF Progress, DiskOK, Existed, Kept, Covered, past
<1>6. ArgumentsOK(p)' /\ UseOK(p)' /\ SignOK(p)'
    BY <1>1, <1>2, <1>3, <1>4, <1>5, WritesOn DEF Writing, Places
<1>7. WriteOK(p)'
    BY <1>1, <1>2, <1>3, <1>4 DEF WriteOK, Covered, Writing
<1>8. ProcOK(p)'
    BY <1>1, <1>5, <1>6, <1>7, ProcOn
<1>9. \A t \in temps' : t \in temps \/ (t.file \in Files /\ Covered(t.file)')
    BY <1>1, <1>2, TempIs DEF Covered
<1>10. QED BY <1>1, <1>4, <1>5, <1>8, <1>9, QuietStep

\* Every call in progress meets a preference that is written.
LEMMA SinceIs ==
    ASSUME DiskOK, preference' \in Prefs,
           since' = [q \in Procs |-> IF At(q, "idle") THEN since[q] ELSE since[q] \cup {preference'}]
    PROVE  /\ since' \in [Procs -> SUBSET Prefs]
           /\ \A q \in Procs : pc[q] # "idle" => since[q] \subseteq since'[q] /\ preference' \in since'[q]
BY DEF DiskOK, At

\* The temporary file becomes the preference.
LEMMA PreferStep ==
    ASSUME Inv, NEW p \in Procs, Rename(p), call[p].op = "use"
    PROVE  Inv'
<1> DEFINE c == call[p]
<1>1. /\ pc[p] = "publish" /\ UNCHANGED <<quip, ignore, temps, seeds, result, deleted, torn, keystores, call, lost>>
      /\ preference' = [preference EXCEPT ![c.base] = c.name]
      /\ since' = [q \in Procs |-> IF At(q, "idle") THEN since[q] ELSE since[q] \cup {preference'}]
      /\ Go(p, "clean")
    BY DEF Rename, Prefer, At
<1>2. ArgumentsOK(p) /\ WriteOK(p) /\ UseOK(p) /\ SignOK(p) /\ DOMAIN call = Procs /\ DOMAIN pc = Procs
      /\ DiskOK
    BY <1>1, ProcIs DEF Inv
<1>3. c.base \in Dirs /\ c.seed = None /\ c.name \in Names /\ Around(c.name, c.base)
    BY <1>1, <1>2 DEF WriteOK, ArgumentsOK, UseOK, Writing
<1>4. /\ DOMAIN pc' = Procs /\ pc'[p] = "clean"
      /\ \A q \in Procs : q # p => pc'[q] = pc[q]
    BY <1>1, <1>2, GoIs
<1>5. /\ preference' \in Prefs
      /\ \A d \in Dirs : preference'[d] = preference[d] \/ (d = c.base /\ preference'[d] = c.name)
    BY <1>1, <1>2, <1>3 DEF DiskOK, Prefs
<1>6. /\ since' \in [Procs -> SUBSET Prefs]
      /\ \A q \in Procs : pc[q] # "idle" => since[q] \subseteq since'[q] /\ preference' \in since'[q]
    BY <1>1, <1>2, <1>5, SinceIs
<1>7. Progress /\ DiskOK'
    BY <1>1, <1>2, <1>4, <1>5, <1>6 DEF Progress, DiskOK, Existed, Kept, Covered
<1>8. ResultOK(p)'
    BY <1>1, <1>7, ResultRests DEF Inv
<1>9. ArgumentsOK(p)' /\ UseOK(p)' /\ SignOK(p)'
    BY <1>1, <1>2, <1>4, <1>6, <1>7, WritesOn DEF Writing, Places
<1>10. WriteOK(p)'
    BY <1>1, <1>3, <1>4 DEF WriteOK
<1>11. ProcOK(p)'
    BY <1>1, <1>6, <1>9, <1>10 DEF ProcOK
<1>12. QED BY <1>1, <1>3, <1>4, <1>5, <1>6, <1>7, <1>8, <1>11, StepInv

\* The temporary file becomes the keystore, and replaces one only on purpose.
LEMMA PublishStep ==
    ASSUME Inv, NEW p \in Procs, Rename(p), call[p].op # "use"
    PROVE  Inv'
<1> DEFINE c == call[p]
<1>1. /\ pc[p] = "publish" /\ UNCHANGED <<quip, ignore, temps, seeds, result, deleted, torn, preference, since>>
      /\ Publish(p) /\ Go(p, "clean")
    BY DEF Rename, Publish, At
<1>2. ArgumentsOK(p) /\ WriteOK(p) /\ UseOK(p) /\ SignOK(p) /\ DOMAIN call = Procs /\ DOMAIN pc = Procs
      /\ DiskOK /\ Fields \subseteq DOMAIN call[p]
    BY <1>1, ProcIs DEF Inv
<1>3. /\ c.op \in {"create", "sign"} /\ c.base \in Dirs /\ c.file \in Files /\ c.seed \in Nat
      /\ c.base = c.file.dir /\ Covered(c.file)
    BY <1>1, <1>2 DEF WriteOK, ArgumentsOK, Places, Writing
<1>4. /\ DOMAIN pc' = Procs /\ pc'[p] = "clean"
      /\ \A q \in Procs : q # p => pc'[q] = pc[q]
    BY <1>1, <1>2, GoIs
<1>5. /\ DOMAIN call' = Procs /\ DOMAIN call'[p] = DOMAIN call[p]
      /\ \A f \in DOMAIN call[p] : f # "taken" => call'[p][f] = call[p][f]
      /\ \A q \in Procs : q # p => call'[q] = call[q]
      /\ keystores' \in [Files -> Nat \cup {None}] /\ lost \subseteq lost'
      /\ \A f \in Files : keystores'[f] = keystores[f]
           \/ (f = c.file /\ keystores'[f] = c.seed /\ (keystores[f] = None \/ keystores[f] \in lost'))
      /\ call'[p].taken \/ keystores'[c.file] = c.seed
    <2>1. CASE /\ keystores' = [keystores EXCEPT ![call[p].file] = call[p].seed]
               /\ lost' = lost \cup ({keystores[call[p].file]} \ {None})
               /\ UNCHANGED call
        BY <1>2, <1>3, <2>1 DEF DiskOK
    <2>2. CASE Knows(p, [taken |-> TRUE]) /\ UNCHANGED <<keystores, lost>>
        <3>1. call'[p].taken
            BY <1>2, <2>2 DEF Knows, Fields, Locals
        <3>2. QED BY <1>2, <2>2, <3>1 DEF DiskOK, Knows
    <2>3. QED BY <1>1, <2>1, <2>2 DEF Publish
<1>6. DiskOK'
    BY <1>1, <1>2, <1>4, <1>5 DEF DiskOK
<1>7. Progress
    <2>1. ASSUME NEW f \in Files
          PROVE  /\ Existed(f) => Existed(f)'
                 /\ Covered(f) => Covered(f)'
                 /\ \A s \in Nat : Kept(f, s) => Kept(f, s)'
        BY <1>1, <1>3, <1>5, Assumed DEF Existed, Covered, Kept
    <2>2. QED BY <1>1, <2>1 DEF Progress
<1>8. ArgumentsOK(p)' /\ UseOK(p)' /\ SignOK(p)'
    BY <1>1, <1>2, <1>3, <1>4, <1>5, <1>7, WritesOn DEF Writing, Places
<1>9. /\ call'[p].op = c.op /\ call'[p].base = c.base /\ call'[p].file = c.file /\ call'[p].seed = c.seed
    BY <1>2, <1>5 DEF Fields, Locals, ArgumentsOK
<1>10. WriteOK(p)'
    BY <1>1, <1>3, <1>4, <1>5, <1>9 DEF WriteOK, Covered, Kept
<1>11. ProcOK(p)'
    BY <1>1, <1>8, <1>10, ProcOn
<1>12. \A f \in Files : keystores'[f] # None => keystores[f] # None \/ Covered(f)'
    BY <1>1, <1>3, <1>5 DEF Covered
<1>13. QED BY <1>1, <1>4, <1>5, <1>6, <1>7, <1>11, <1>12, QuietStep

\* The write is over: the account is answered with, or the file of another is opened.
LEMMA CleanStep ==
    ASSUME Inv, NEW p \in Procs, Clean(p)
    PROVE  Inv'
<1> DEFINE c == call[p]
<1>1. /\ pc[p] = "clean" /\ UNCHANGED <<quip, keystores, preference, ignore, seeds, past>>
      /\ temps' = temps \ TempOf(p)
    BY DEF Clean, At
<1>2. ArgumentsOK(p) /\ WriteOK(p) /\ UseOK(p) /\ SignOK(p) /\ DOMAIN call = Procs /\ DOMAIN pc = Procs
      /\ DiskOK
    BY <1>1, ProcIs DEF Inv
<1>3. /\ c.op \in {"use", "create", "sign"}
      /\ c.op # "use" => /\ c.file \in Files /\ c.seed \in Nat
                         /\ ~c.taken => Kept(c.file, c.seed)
    BY <1>1, <1>2 DEF WriteOK, ArgumentsOK, Places, Writing
<1>4. UNCHANGED <<lost, deleted, torn, since>> /\ \A t \in temps' : t \in temps
    BY <1>1 DEF past
<1>5. Progress
    BY <1>1, <1>4 DEF Progress, Existed, Covered, Kept
<1>6. ASSUME Returns(p) \/ Raises(p), UNCHANGED result
      PROVE  Inv'
    <2>1. /\ DOMAIN call' = Procs /\ DOMAIN pc' = Procs /\ pc'[p] = "idle"
          /\ \A q \in Procs : q # p => call'[q] = call[q] /\ pc'[q] = pc[q]
        BY <1>2, <1>6, ReturnsIs
    <2>2. DiskOK' /\ ProcOK(p)'
        BY <1>1, <1>2, <1>4, <1>6, <2>1, IdleIs DEF DiskOK
    <2>3. QED BY <1>1, <1>4, <1>5, <1>6, <2>1, <2>2, QuietStep
<1>7. ASSUME c.op # "use", ~c.taken, Signs(p, c.seed), Returns(p)
      PROVE  Inv'
    <2>1. /\ DOMAIN call' = Procs /\ DOMAIN pc' = Procs /\ pc'[p] = "idle"
          /\ \A q \in Procs : q # p => call'[q] = call[q] /\ pc'[q] = pc[q]
        BY <1>2, <1>7, ReturnsIs
    <2>2. ASSUME NEW file \in Files, file = c.file, NEW seed \in Nat, seed = c.seed
          PROVE  ResultOK(p)' /\ DOMAIN result' = Procs /\ \A q \in Procs : q # p => result'[q] = result[q]
        <3>1. Kept(file, seed)'
            BY <1>1, <1>3, <1>4, <1>7, <2>2 DEF Kept
        <3>2. QED BY <1>2, <1>7, <2>2, <3>1, SignsIs DEF SignOK
    <2>3. ResultOK(p)' /\ DOMAIN result' = Procs /\ \A q \in Procs : q # p => result'[q] = result[q]
        BY <1>3, <1>7, <2>2
    <2>4. DiskOK' /\ ProcOK(p)'
        BY <1>1, <1>2, <1>4, <2>1, <2>3, IdleIs DEF DiskOK
    <2>5. \A q \in Procs : pc[q] # "idle" => since[q] \subseteq since'[q] /\ preference' \in since'[q]
        BY <1>1, <1>4 DEF Inv, ProcOK
    <2>6. QED BY <1>1, <1>4, <1>5, <2>1, <2>3, <2>4, <2>5, StepInv
<1>8. ASSUME c.op = "sign", Go(p, "load"), UNCHANGED <<call, result>>
      PROVE  Inv'
    <2>1. /\ DOMAIN pc' = Procs /\ pc'[p] = "load"
          /\ \A q \in Procs : q # p => pc'[q] = pc[q]
        BY <1>2, <1>8, GoIs
    <2>2. ArgumentsOK(p)' /\ call' = call
        BY <1>2, <1>8, <2>1, ArgumentsStay DEF Places
    <2>3. WriteOK(p)' /\ UseOK(p)'
        BY <1>8, <2>1, <2>2, UnusedIs DEF WriteOK, Writing
    <2>4. SignOK(p)'
        BY <1>2, <1>3, <1>4, <1>8, <2>1 DEF SignOK
    <2>5. DiskOK' /\ ProcOK(p)'
        BY <1>1, <1>2, <1>4, <1>8, <2>1, <2>2, <2>3, <2>4, ProcOn DEF DiskOK
    <2>6. QED BY <1>1, <1>4, <1>5, <1>8, <2>1, <2>5, QuietStep
<1>9. QED BY <1>3, <1>6, <1>7, <1>8 DEF Clean

\* The preference is unset, for every call in progress.
LEMMA UnlinkStep ==
    ASSUME Inv, NEW p \in Procs, Unlink(p)
    PROVE  Inv'
<1> DEFINE c == call[p]
<1>1. /\ pc[p] = "unlink" /\ UNCHANGED <<quip, keystores, ignore, temps, seeds, result, lost, deleted, torn>>
      /\ preference' = [preference EXCEPT ![c.base] = None]
      /\ since' = [q \in Procs |-> IF At(q, "idle") THEN since[q] ELSE since[q] \cup {preference'}]
      /\ Returns(p)
    BY DEF Unlink, At
<1>2. WriteOK(p) /\ DOMAIN call = Procs /\ DOMAIN pc = Procs /\ DiskOK
    BY <1>1, ProcIs DEF Inv
<1>3. c.base \in Dirs
    BY <1>1, <1>2 DEF WriteOK
<1>4. /\ DOMAIN call' = Procs /\ DOMAIN pc' = Procs /\ pc'[p] = "idle"
      /\ \A q \in Procs : q # p => call'[q] = call[q] /\ pc'[q] = pc[q]
    BY <1>1, <1>2, ReturnsIs
<1>5. preference' \in Prefs /\ \A d \in Dirs : preference'[d] \in {preference[d], None}
    BY <1>1, <1>2, <1>3 DEF DiskOK, Prefs, Foreign
<1>6. /\ since' \in [Procs -> SUBSET Prefs]
      /\ \A q \in Procs : pc[q] # "idle" => since[q] \subseteq since'[q] /\ preference' \in since'[q]
    BY <1>1, <1>2, <1>5, SinceIs
<1>7. Progress /\ DiskOK'
    BY <1>1, <1>2, <1>4, <1>5, <1>6 DEF Progress, DiskOK, Existed, Kept, Covered
<1>8. ResultOK(p)' /\ ProcOK(p)'
    BY <1>1, <1>4, <1>7, ResultRests, IdleIs DEF Inv
<1>9. QED BY <1>1, <1>4, <1>5, <1>6, <1>7, <1>8, StepInv

\* A call that an error or a kill ends: a .gitignore that it was to fill stays empty.
LEMMA MishapStep ==
    ASSUME Inv, NEW p \in Procs, pc[p] # "idle", Torn(p), Returns(p), temps' \subseteq temps,
           UNCHANGED <<quip, keystores, preference, ignore, seeds, result, lost, deleted, since>>
    PROVE  Inv'
<1>1. DOMAIN call = Procs /\ DOMAIN pc = Procs /\ DiskOK
    BY DEF Inv, DiskOK
<1>2. /\ DOMAIN call' = Procs /\ DOMAIN pc' = Procs /\ pc'[p] = "idle"
      /\ \A q \in Procs : q # p => call'[q] = call[q] /\ pc'[q] = pc[q]
    BY <1>1, ReturnsIs
<1>3. Progress
    BY DEF Progress, Existed, Covered, Kept
<1>4. DiskOK' /\ ProcOK(p)'
    BY <1>1, <1>2, IdleIs DEF DiskOK
<1>5. torn \subseteq torn' /\ (pc[p] = "fill" => call[p].base \in torn')
    BY DEF Torn, At
<1>6. QED BY <1>2, <1>3, <1>4, <1>5, QuietStep

\* A call that fails.
LEMMA FailStep ==
    ASSUME Inv, NEW p \in Procs, Fail(p)
    PROVE  Inv'
<1>1. pc[p] # "idle" /\ Torn(p) /\ Returns(p) /\ temps' \subseteq temps
      /\ UNCHANGED <<quip, keystores, preference, ignore, seeds, result, lost, deleted, since>>
    BY DEF Fail, Raises
<1>2. QED BY <1>1, MishapStep

\* A process that is killed.
LEMMA CrashStep ==
    ASSUME Inv, NEW p \in Procs, Crash(p)
    PROVE  Inv'
<1>1. pc[p] # "idle" /\ Torn(p) /\ Returns(p) /\ temps' \subseteq temps
      /\ UNCHANGED <<quip, keystores, preference, ignore, seeds, result, lost, deleted, since>>
    BY DEF Crash, At, disk
<1>2. QED BY <1>1, MishapStep

\* A keystore that the user deletes was there, and is marked.
LEMMA DeleteStep ==
    ASSUME Inv, Delete
    PROVE  Inv'
<1>1. PICK f \in Files : keystores' = [keystores EXCEPT ![f] = None] /\ deleted' = deleted \cup {f}
    BY DEF Delete
<1>2. UNCHANGED <<quip, preference, ignore, temps, seeds, call, pc, result, lost, torn, since>>
    BY DEF Delete
<1>3. DiskOK'
    BY <1>1, <1>2 DEF Inv, DiskOK
<1>4. Progress
    <2>1. ASSUME NEW g \in Files
          PROVE  /\ Existed(g) => Existed(g)'
                 /\ Covered(g) => Covered(g)'
                 /\ \A s \in Nat : Kept(g, s) => Kept(g, s)'
        BY <1>1, <1>2 DEF Existed, Covered, Kept, Inv, DiskOK
    <2>2. QED BY <1>2, <2>1 DEF Progress
<1>5. ASSUME NEW q \in Procs PROVE ResultOK(q)' /\ ProcOK(q)'
    <2>1. Rests(q) /\ ResultOK(q) /\ ProcOK(q)
        BY <1>2 DEF Inv, Rests, ProcOK
    <2>2. QED BY <1>2, <1>4, <2>1, ResultRests, ProcRests
<1>6. PreferencesNameAccounts'
    <2>1. ASSUME NEW d \in Dirs, NEW name \in Names, Around(name, d) PROVE Around(name, d)'
        BY <1>4, <2>1, AroundStays
    <2>2. ASSUME NEW d \in Dirs, NEW name, name = preference[d], name \notin Foreign
          PROVE  \E i \in DOMAIN Walk[d] : Existed(File(Walk[d][i], name))'
        <3>1. name \in Names /\ Around(name, d)
            BY <2>2 DEF Inv, DiskOK, Prefs, PreferencesNameAccounts
        <3>2. Around(name, d)'
            BY <2>1, <3>1
        <3>3. QED BY <3>2 DEF Around
    <2>3. ASSUME NEW d \in Dirs
          PROVE  (preference[d] \notin Foreign => Around(preference[d], d))'
        BY <1>2, <2>2 DEF Around, Existed
    <2>4. QED BY <2>3 DEF PreferencesNameAccounts
<1>7. SeedsCovered'
    <2>1. \A g \in Files : keystores'[g] # None => keystores[g] # None
        BY <1>1 DEF Inv, DiskOK
    <2>2. QED BY <1>2, <2>1 DEF Inv, SeedsCovered, Covered, At
<1>8. QED BY <1>3, <1>5, <1>6, <1>7 DEF Inv

-----------------------------------------------------------------------------
(* The invariant, and the properties that follow. *)

\* Directories without accounts are well-formed.
LEMMA InitInv == Init => Inv
<1> SUFFICES ASSUME Init PROVE Inv
    OBVIOUS
<1>1. PICK left \in Leftovers :
        /\ quip = Untrusted \cup left.quip
        /\ preference = left.configs
        /\ ignore = [d \in Dirs |-> IF d \in left.teams THEN "team" ELSE "absent"]
    BY DEF Init
<1>2. preference \in Prefs /\ (\A d \in Dirs : preference[d] \in Foreign) /\ quip \subseteq Dirs
    BY <1>1, AccountsAssumption DEF Prefs, Foreign
<1>3. ignore \in [Dirs -> {"absent", "empty", "all", "team"}] /\ \A d \in Dirs : ignore[d] # "empty"
    BY <1>1
<1>4. DiskOK /\ SeedsCovered /\ PreferencesNameAccounts
    BY <1>2, <1>3 DEF Init, DiskOK, SeedsCovered, PreferencesNameAccounts
<1>5. \A p \in Procs : ResultOK(p) /\ ProcOK(p)
    BY DEF Init, ResultOK, ProcOK
<1>6. QED BY <1>4, <1>5 DEF Inv

\* A step of nobody keeps the invariant.
LEMMA StutterInv == ASSUME Inv, UNCHANGED vars PROVE Inv'
<1>1. UNCHANGED <<quip, keystores, preference, ignore, temps, seeds, call, pc, result, lost, deleted, torn, since>>
    BY DEF vars, disk, past
<1>2. DiskOK' /\ SeedsCovered' /\ PreferencesNameAccounts'
    BY <1>1 DEF Inv, DiskOK, SeedsCovered, PreferencesNameAccounts, Covered, Around, Existed, At
<1>3. Progress
    BY <1>1 DEF Progress, Existed, Covered, Kept
<1>4. ASSUME NEW q \in Procs PROVE ResultOK(q)' /\ ProcOK(q)'
    <2>1. Rests(q) /\ ResultOK(q) /\ ProcOK(q)
        BY <1>1 DEF Inv, Rests, ProcOK
    <2>2. QED BY <1>1, <1>3, <2>1, ResultRests, ProcRests
<1>5. QED BY <1>2, <1>4 DEF Inv

\* So does every step.
LEMMA NextInv == ASSUME Inv, [Next]_vars PROVE Inv'
<1>1. CASE UNCHANGED vars
    BY <1>1, StutterInv
<1>2. CASE Delete
    BY <1>2, DeleteStep
<1>3. ASSUME NEW p \in Procs,
             \/ Start(p) \/ Create(p) \/ Use(p) \/ UseBase(p) \/ Ignore(p) \/ Fill(p) \/ Temp(p) \/ Rename(p)
             \/ Clean(p) \/ Clear(p) \/ Unlink(p)
             \/ Sign(p) \/ ListUser(p) \/ ReadProject(p) \/ ReadUser(p) \/ FirstUse(p) \/ Load(p)
             \/ Fail(p) \/ Crash(p)
      PROVE  Inv'
    <2>1. CASE Start(p) BY <2>1, StartStep
    <2>2. CASE Create(p) BY <2>2, CreateStep
    <2>3. CASE Use(p) BY <2>3, UseStep
    <2>4. CASE UseBase(p) BY <2>4, UseBaseStep
    <2>5. CASE Ignore(p) BY <2>5, IgnoreStep
    <2>6. CASE Fill(p) BY <2>6, FillStep
    <2>7. CASE Temp(p) BY <2>7, TempStep
    <2>8. CASE Rename(p) BY <2>8, PreferStep, PublishStep
    <2>9. CASE Clean(p) BY <2>9, CleanStep
    <2>10. CASE Clear(p) BY <2>10, ClearStep
    <2>11. CASE Unlink(p) BY <2>11, UnlinkStep
    <2>12. CASE Sign(p) BY <2>12, SignStep
    <2>13. CASE ListUser(p) BY <2>13, ListUserStep
    <2>14. CASE ReadProject(p) BY <2>14, ReadProjectStep
    <2>15. CASE ReadUser(p) BY <2>15, ReadUserStep
    <2>16. CASE FirstUse(p) BY <2>16, FirstUseStep
    <2>17. CASE Load(p) BY <2>17, LoadStep
    <2>18. CASE Fail(p) BY <2>18, FailStep
    <2>19. CASE Crash(p) BY <2>19, CrashStep
    <2>20. QED BY <1>3, <2>1, <2>2, <2>3, <2>4, <2>5, <2>6, <2>7, <2>8, <2>9, <2>10, <2>11, <2>12,
                  <2>13, <2>14, <2>15, <2>16, <2>17, <2>18, <2>19
<1>4. QED BY <1>1, <1>2, <1>3 DEF Next

\* However many processes work on the directories, and wherever they are killed or
\* fail, the disk and every call on it stay well-formed (accounts.py, signing.py).
THEOREM AccountsInvariant == Spec => []Inv
<1>1. Inv /\ [Next]_vars => Inv'
    BY NextInv
<1>2. QED BY InitInv, <1>1, PTL DEF Spec

\* The seed of an account that was answered with is in its keystore, unless someone
\* had it overwritten or deleted (_write_keystore, load_or_generate_keystore).
THEOREM AccountsAreKept == Spec => []NoAccountIsLost
<1>1. Inv => NoAccountIsLost
    BY DEF Inv, ResultOK, Kept, NoAccountIsLost
<1>2. QED BY AccountsInvariant, <1>1, PTL

\* A seed is in a project only after its .gitignore (_write_gitignore).
THEOREM SeedsAreIgnored == Spec => []SeedsStayOutOfCommits
<1>1. Inv => SeedsStayOutOfCommits
    <2> SUFFICES ASSUME Inv, NEW f \in Files \ Given, f.dir # Home,
                        keystores[f] # None \/ \E t \in temps : t.file = f
                 PROVE  Ignored(f.dir)
        BY DEF SeedsStayOutOfCommits
    <2>1. Covered(f) /\ f.dir \in Dirs
        BY FilesAre DEF Inv, SeedsCovered
    <2>2. ignore[f.dir] \in {"empty", "all", "team"}
        BY <2>1 DEF Covered, Inv, DiskOK
    <2>3. QED BY <2>1, <2>2 DEF Inv, SeedsCovered, Ignored
<1>2. QED BY AccountsInvariant, <1>1, PTL

\* No preference that is set is passed over, and each names an account that was
\* there (_build_signer, use_account).
THEOREM PreferencesAreFollowed == Spec => []SignsAsPreferred
<1>1. Inv => SignsAsPreferred
    <2> SUFFICES ASSUME Inv PROVE SignsAsPreferred
        OBVIOUS
    <2>1. ASSUME NEW p \in Procs, result[p] # None, result[p].step \in {"project", "user", "default"}
          PROVE  LET r == result[p]
                     met(dir) == {NameGiven(f[dir]) : f \in r.met}
                     unset(dir) == None \in met(dir)
                 IN /\ r.step = "project" => r.name \in met(r.project) /\ r.file.dir \in {r.project, Home}
                    /\ r.step # "project" /\ r.project # None => unset(r.project)
                    /\ r.step = "user" => r.name \in met(Home) /\ r.file.dir = Home
                    /\ r.step = "default" => unset(Home) /\ r.file = DefaultFile
        <3>1. Justified(result[p], result[p].met)
            BY <2>1 DEF Inv, ResultOK
        <3>2. QED BY <2>1, <3>1 DEF Justified, Met, Unset
    <2>2. ASSUME NEW d \in Dirs, preference[d] \notin Foreign
          PROVE  \E i \in DOMAIN Walk[d] :
                    preference[d] \in NamesIn(Walk[d][i]) \/ File(Walk[d][i], preference[d]) \in deleted
        <3>1. preference[d] \in Names /\ Around(preference[d], d)
            BY <2>2 DEF Inv, DiskOK, Prefs, PreferencesNameAccounts
        <3>2. PICK i \in DOMAIN Walk[d] : Existed(File(Walk[d][i], preference[d]))
            BY <3>1 DEF Around
        <3>3. Walk[d][i] # None
            BY WalkIs, Assumed
        <3>4. QED BY <3>1, <3>2, <3>3 DEF Existed, NamesIn
    <2>3. QED BY <2>1, <2>2 DEF SignsAsPreferred, Foreign
<1>2. QED BY AccountsInvariant, <1>1, PTL
=============================================================================
