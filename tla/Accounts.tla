------------------------------ MODULE Accounts ------------------------------
(***************************************************************************)
(* Named accounts on disk (accounts.py), the keystore files they live in   *)
(* (signing.py) and the signer a client builds from them (client.py        *)
(* _build_signer).  Several processes work on the same directories, with   *)
(* no lock: each step below is one look at the disk or one change of it,   *)
(* and a process may be killed, or meet an error, between any two.         *)
(*                                                                         *)
(* A keystore is named by its directory and its name; the user's `default` *)
(* is the one that a client makes on its own.  A seed is a number, and the *)
(* next one is fresh.  Which account a seed yields is the signer's affair. *)
(***************************************************************************)
EXTENDS Integers, Sequences

CONSTANTS None,
          Procs,      \* the processes
          Walk,       \* for a working directory, itself and its parents up to Home
          Home,       \* the home directory: its .quip is the user level
          Untrusted,  \* directories whose .quip another user planted
          Names,      \* account names, "default" among them
          Requests,   \* the calls that processes make
          HandEdits,  \* contents of a config.toml edited by hand: the account it gives
          Leftovers,  \* what people may have left on the disk before the first call
          MaxCalls, MaxMishaps

VARIABLES quip,        \* the directories that have a .quip
          keystores,   \* the seed of each keystore file, or None
          preference,  \* the account each config.toml names, None, or one of HandEdits
          ignore,      \* each .gitignore: "absent", "empty", "all" or the "team"'s own
          temps,       \* temporary files that hold a seed
          seeds,       \* the seeds made so far
          call, pc,    \* the call of each process and its place in it
          result,      \* the latest account that a call of each process answered with
          calls, mishaps,
          lost, deleted, torn, since  \* of the past: seeds overwritten, files deleted,
                              \* .gitignores left empty, preferences a call may have met

disk == <<quip, keystores, preference, ignore, temps>>
past == <<calls, mishaps, lost, deleted, torn, since>>
vars == <<disk, seeds, call, pc, result, past>>

Dirs == DOMAIN Walk
File(dir, name) == [dir |-> dir, name |-> name]
Files == [dir : Dirs, name : Names]
DefaultFile == File(Home, "default")
NoCall == [op |-> None]

\* What processes ask for.  A keystore= may name any path, one in a project too.
Levels == {"user", "project"}
IsRequest(r) ==
    \/ r \in [op : {"create"}, name : Names, level : Levels, cwd : Dirs, overwrite : BOOLEAN]
    \/ r \in [op : {"use", "clear"}, name : Names, level : Levels, cwd : Dirs, overwrite : {FALSE}]
    \/ r \in [op : {"sign"}, cwd : Dirs, keystore : Files \cup {None}, overwrite : {FALSE}]

\* The keystores that a client makes because keystore= or QUIP_KEYSTORE names them.
Given == {r.keystore : r \in {q \in Requests : q.op = "sign"}}

\* A walk starts where it starts, passes the parents of what it passes, and ends at Home.
ASSUME AccountsAssumption ==
    /\ Home \in Dirs /\ "default" \in Names
    /\ {None, "unreadable"} \cap Names = {} /\ None \notin Levels /\ None # "unreadable"
    /\ DOMAIN HandEdits \cap (Names \cup {None}) = {}
    /\ \A content \in DOMAIN HandEdits : HandEdits[content] \in Names \cup {None, "unreadable"}
    /\ \A left \in Leftovers :
        /\ left.quip \subseteq Dirs /\ left.teams \subseteq left.quip \ {Home}
        /\ left.configs \in [Dirs -> {None} \cup DOMAIN HandEdits]
    /\ None \notin Dirs /\ None \notin Files /\ None \notin Nat
    /\ Home \notin Untrusted /\ Untrusted \subseteq Dirs
    /\ \A d \in Dirs :
        /\ Walk[d] \in Seq(Dirs) /\ Walk[d] # <<>>
        /\ Walk[d][1] = d /\ Walk[d][Len(Walk[d])] = Home
        /\ \A i \in DOMAIN Walk[d] :
             Walk[Walk[d][i]] = [j \in 1 .. Len(Walk[d]) - i + 1 |-> Walk[d][i + j - 1]]
    /\ \A r \in Requests : IsRequest(r)

\* No account yet.  A team may have committed a .quip with a .gitignore and a
\* config.toml of its own.
Init ==
    /\ keystores = [f \in Files |-> None]
    /\ \E left \in Leftovers :
        /\ quip = Untrusted \cup left.quip
        /\ preference = left.configs
        /\ ignore = [d \in Dirs |-> IF d \in left.teams THEN "team" ELSE "absent"]
    /\ temps = {} /\ seeds = 0
    /\ call = [p \in Procs |-> NoCall] /\ pc = [p \in Procs |-> "idle"]
    /\ result = [p \in Procs |-> None]
    /\ calls = 0 /\ mishaps = 0 /\ lost = {} /\ deleted = {} /\ torn = {}
    /\ since = [p \in Procs |-> {}]

-----------------------------------------------------------------------------
(* Which directory is meant.                                               *)

\* The first directory of dirs that is in the set.
First(dirs, set) ==
    LET found == {i \in DOMAIN dirs : dirs[i] \in set}
    IN IF found = {} THEN None ELSE dirs[CHOOSE i \in found : \A j \in found : i <= j]

\* The nearest .quip below the home directory that no one else planted.
FindProject(cwd) == First(Walk[cwd], (quip \ Untrusted) \ {Home})

\* A write at project level makes a project of the working directory, if it may.
LevelDirForWrite(level, cwd) ==
    IF level = "user" THEN Home
    ELSE IF FindProject(cwd) # None THEN FindProject(cwd)
    ELSE IF cwd = Home \/ cwd \in quip THEN None ELSE cwd

NamesIn(dir) == IF dir = None THEN {} ELSE {n \in Names : keystores[File(dir, n)] # None}

\* What use_account accepts.
Resolves(name, level, project) ==
    \/ level = "project" /\ name \in NamesIn(project)
    \/ name \in NamesIn(Home)

-----------------------------------------------------------------------------
(* Steps.                                                                  *)

At(p, step) == pc[p] = step
Go(p, step) == pc' = [pc EXCEPT ![p] = step]
Knows(p, fields) == call' = [call EXCEPT ![p] = [f \in DOMAIN @ |-> IF f \in DOMAIN fields THEN fields[f] ELSE @[f]]]
Returns(p) == Go(p, "idle") /\ call' = [call EXCEPT ![p] = NoCall]
Raises(p) == Returns(p)

Locals == [base |-> None, file |-> None, seed |-> None, project |-> None,
           inProject |-> {}, inUser |-> {}, step |-> None, name |-> None, taken |-> FALSE]

\* A call starts.  The preferences of this moment are the first it may meet.
Start(p) ==
    /\ At(p, "idle") /\ calls < MaxCalls
    /\ \E request \in Requests :
         LET own == [f \in DOMAIN Locals \cup DOMAIN request |->
                       IF f \in DOMAIN request THEN request[f] ELSE Locals[f]]
         IN call' = [call EXCEPT ![p] = own] /\ Go(p, request.op)
    /\ calls' = calls + 1
    /\ since' = [since EXCEPT ![p] = {preference}]
    /\ UNCHANGED <<disk, seeds, result, mishaps, lost, deleted, torn>>

Fresh(p, fields) == seeds' = seeds + 1 /\ Knows(p, [f \in DOMAIN fields \cup {"seed"} |->
                                                       IF f = "seed" THEN seeds' ELSE fields[f]])

\* Mutant: the .gitignore of a new project is written last of all, if at all.
AfterBaseUnignored(level) == "temp"
\* What follows once the directory is known: a project gets its .gitignore first.
AfterBase(level) == IF level = "project" THEN "ignore" ELSE "temp"

\* create_account and generate_keystore, up to the first write.
Create(p) ==
    /\ At(p, "create")
    /\ LET base == LevelDirForWrite(call[p].level, call[p].cwd)
           file == File(base, call[p].name)
       IN IF base = None \/ (keystores[file] # None /\ ~call[p].overwrite)
          THEN Raises(p) /\ UNCHANGED seeds
          ELSE /\ Fresh(p, [base |-> base, file |-> file])
               /\ Go(p, AfterBase(call[p].level))
    /\ UNCHANGED <<disk, result, past>>

\* use_account looks for the keystore, and then for the directory to write in.
Use(p) ==
    /\ At(p, "use")
    /\ IF Resolves(call[p].name, call[p].level, FindProject(call[p].cwd))
       THEN Go(p, "use_base") /\ UNCHANGED call ELSE Raises(p)
    /\ UNCHANGED <<disk, seeds, result, past>>

\* _check_rewritable: only a file of the writer's own kind is replaced or removed.
Rewritable(base) == preference[base] \notin DOMAIN HandEdits

UseBase(p) ==
    /\ At(p, "use_base")
    /\ LET base == LevelDirForWrite(call[p].level, call[p].cwd)
       IN IF base = None \/ ~Rewritable(base) THEN Raises(p) /\ UNCHANGED quip
          ELSE /\ Knows(p, [base |-> base]) /\ Go(p, AfterBase(call[p].level))
               /\ quip' = quip \cup {base}
    /\ UNCHANGED <<keystores, preference, ignore, temps, seeds, result, past>>

\* open("x") makes the file, and its line is in it when it is closed.
Ignore(p) ==
    /\ At(p, "ignore")
    /\ LET base == call[p].base
       IN /\ quip' = quip \cup {base}
          /\ IF ignore[base] = "absent"
             THEN ignore' = [ignore EXCEPT ![base] = "empty"] /\ Go(p, "fill")
             ELSE Go(p, "temp") /\ UNCHANGED ignore
    /\ UNCHANGED <<keystores, preference, temps, seeds, call, result, past>>

Fill(p) ==
    /\ At(p, "fill")
    /\ ignore' = [ignore EXCEPT ![call[p].base] = "all"] /\ Go(p, "temp")
    /\ UNCHANGED <<quip, keystores, preference, temps, seeds, call, result, past>>

\* mkstemp and the write: a file of its own for each writer.
TempOf(p) == IF call[p].seed = None THEN {} ELSE {[file |-> call[p].file, seed |-> call[p].seed]}

Temp(p) ==
    /\ At(p, "temp")
    /\ quip' = quip \cup {call[p].base}
    /\ temps' = temps \cup TempOf(p) /\ Go(p, "publish")
    /\ UNCHANGED <<keystores, preference, ignore, seeds, call, result, past>>

\* The temporary file becomes the preference.
Prefer(p) ==
    /\ preference' = [preference EXCEPT ![call[p].base] = call[p].name]
    /\ since' = [q \in Procs |-> IF At(q, "idle") THEN since[q] ELSE since[q] \cup {preference'}]
    /\ UNCHANGED <<keystores, call, lost>>

\* Mutant: a keystore that another process made since the check is replaced.
PublishReplacing(p) ==
    /\ keystores' = [keystores EXCEPT ![call[p].file] = call[p].seed]
    /\ lost' = IF call[p].overwrite THEN lost \cup {keystores[call[p].file]} ELSE lost
    /\ UNCHANGED <<preference, call, since>>

\* The temporary file becomes the keystore: replace() when the caller wants an
\* old one overwritten, else link(), which fails if there is one.
Publish(p) ==
    /\ IF call[p].overwrite \/ keystores[call[p].file] = None
       THEN /\ keystores' = [keystores EXCEPT ![call[p].file] = call[p].seed]
            /\ lost' = lost \cup ({keystores[call[p].file]} \ {None})
            /\ UNCHANGED call
       ELSE Knows(p, [taken |-> TRUE]) /\ UNCHANGED <<keystores, lost>>
    /\ UNCHANGED <<preference, since>>

Rename(p) ==
    /\ At(p, "publish")
    /\ IF call[p].op = "use" THEN Prefer(p) ELSE Publish(p)
    /\ Go(p, "clean")
    /\ UNCHANGED <<quip, ignore, temps, seeds, result, calls, mishaps, deleted, torn>>

\* The account a call answers with, and what it met on the way.
Signs(p, seed) ==
    result' = [result EXCEPT ![p] = [file |-> call[p].file, seed |-> seed, step |-> call[p].step,
                                     name |-> call[p].name, project |-> call[p].project, met |-> since[p]]]

\* The end of a write: the temporary file is unlinked.  load_or_generate_keystore
\* opens the file that another process made before it.
Clean(p) ==
    /\ At(p, "clean")
    /\ temps' = temps \ TempOf(p)
    /\ IF call[p].op = "use" THEN Returns(p) /\ UNCHANGED result
       ELSE IF ~call[p].taken THEN Signs(p, call[p].seed) /\ Returns(p)
       ELSE /\ IF call[p].op = "create" THEN Raises(p) ELSE Go(p, "load") /\ UNCHANGED call
            /\ UNCHANGED result
    /\ UNCHANGED <<quip, keystores, preference, ignore, seeds, past>>

\* clear_account.
Clear(p) ==
    /\ At(p, "clear")
    /\ LET base == IF call[p].level = "user" THEN Home ELSE FindProject(call[p].cwd)
       IN IF base = None \/ ~Rewritable(base) THEN Returns(p)
          ELSE Knows(p, [base |-> base]) /\ Go(p, "unlink")
    /\ UNCHANGED <<disk, seeds, result, past>>

Unlink(p) ==
    /\ At(p, "unlink")
    /\ preference' = [preference EXCEPT ![call[p].base] = None]
    /\ since' = [q \in Procs |-> IF At(q, "idle") THEN since[q] ELSE since[q] \cup {preference'}]
    /\ Returns(p)
    /\ UNCHANGED <<quip, keystores, ignore, temps, seeds, result, calls, mishaps, lost, deleted, torn>>

-----------------------------------------------------------------------------
(* Building a signer: resolve_accounts lists the keystores and then reads  *)
(* the preferences, a look at the disk each, and the first step of the     *)
(* precedence that is set decides.                                         *)

\* A seed that is given, as an argument or in the environment, needs no file and
\* is left out; a keystore that is given is made when it is missing.
Sign(p) ==
    /\ At(p, "sign")
    /\ IF call[p].keystore # None
       THEN Knows(p, [file |-> call[p].keystore, step |-> "keystore="]) /\ Go(p, "first_use")
       ELSE LET project == FindProject(call[p].cwd)
            IN Knows(p, [project |-> project, inProject |-> NamesIn(project)]) /\ Go(p, "list_user")
    /\ UNCHANGED <<disk, seeds, result, past>>

ListUser(p) ==
    /\ At(p, "list_user")
    /\ Knows(p, [inUser |-> NamesIn(Home)]) /\ Go(p, "read_project")
    /\ UNCHANGED <<disk, seeds, result, past>>

\* The name that the contents of a config.toml give, and that a directory's does,
\* None for a directory of None.
NameGiven(content) == IF content \in DOMAIN HandEdits THEN HandEdits[content] ELSE content
Preferred(dir) == IF dir = None THEN None ELSE NameGiven(preference[dir])

\* Where the account lists of this call have the name, in the order of dirs.
Found(p, name, dirs) ==
    First(dirs, {d \in Dirs : name \in IF d = Home THEN call[p].inUser ELSE call[p].inProject})

Takes(p, step, name, dir) ==
    Knows(p, [file |-> File(dir, name), step |-> step, name |-> name]) /\ Go(p, "load")

\* Mutant: a preference whose keystore is not found is passed over.
ChooseFound(p, step, name, dirs) ==
    IF Found(p, name, dirs) = None THEN Go(p, "read_user") /\ UNCHANGED call
    ELSE Takes(p, step, name, Found(p, name, dirs))

\* The keystore a preference names, in the first of dirs that has it; none is an
\* error, and so is a file that cannot be read, never the next step.
Choose(p, step, name, dirs) ==
    IF name = "unreadable" \/ Found(p, name, dirs) = None THEN Raises(p)
    ELSE Takes(p, step, name, Found(p, name, dirs))

ReadProject(p) ==
    /\ At(p, "read_project")
    /\ LET name == Preferred(call[p].project)
       IN IF name = None THEN Go(p, "read_user") /\ UNCHANGED call
          ELSE Choose(p, "project", name, <<call[p].project, Home>>)
    /\ UNCHANGED <<disk, seeds, result, past>>

ReadUser(p) ==
    /\ At(p, "read_user")
    /\ LET name == Preferred(Home)
       IN IF name = None THEN Knows(p, [file |-> DefaultFile, step |-> "default"]) /\ Go(p, "first_use")
          ELSE Choose(p, "user", name, <<Home>>)
    /\ UNCHANGED <<disk, seeds, result, past>>

\* load_or_generate_keystore.
FirstUse(p) ==
    /\ At(p, "first_use")
    /\ IF keystores[call[p].file] # None THEN Go(p, "load") /\ UNCHANGED <<call, seeds>>
       ELSE Fresh(p, [base |-> call[p].file.dir]) /\ Go(p, "temp")
    /\ UNCHANGED <<disk, result, past>>

\* A keystore is linked or renamed into place, so one that is there is complete.
Load(p) ==
    /\ At(p, "load")
    /\ IF keystores[call[p].file] = None THEN UNCHANGED result ELSE Signs(p, keystores[call[p].file])
    /\ Returns(p)
    /\ UNCHANGED <<disk, seeds, past>>

-----------------------------------------------------------------------------

Torn(p) == torn' = IF At(p, "fill") THEN torn \cup {call[p].base} ELSE torn

\* An error of the file system ends a call: its temporary file is unlinked.
Fail(p) ==
    /\ pc[p] \in {"ignore", "fill", "temp", "publish"} /\ mishaps < MaxMishaps
    /\ mishaps' = mishaps + 1
    /\ temps' = temps \ TempOf(p)
    /\ Torn(p) /\ Raises(p)
    /\ UNCHANGED <<quip, keystores, preference, ignore, seeds, result, calls, lost, deleted, since>>

\* A process is killed, and another takes its place: what it wrote stays.
Crash(p) ==
    /\ ~At(p, "idle") /\ mishaps < MaxMishaps
    /\ mishaps' = mishaps + 1
    /\ Torn(p) /\ Returns(p)
    /\ UNCHANGED <<disk, seeds, result, calls, lost, deleted, since>>

\* A user deletes a keystore.
Delete ==
    /\ mishaps < MaxMishaps /\ mishaps' = mishaps + 1
    /\ \E f \in {g \in Files : keystores[g] # None} :
         keystores' = [keystores EXCEPT ![f] = None] /\ deleted' = deleted \cup {f}
    /\ UNCHANGED <<quip, preference, ignore, temps, seeds, call, pc, result, calls, lost, torn, since>>

Next == Delete \/ \E p \in Procs :
    \/ Start(p) \/ Create(p) \/ Use(p) \/ UseBase(p) \/ Ignore(p) \/ Fill(p) \/ Temp(p) \/ Rename(p)
    \/ Clean(p) \/ Clear(p) \/ Unlink(p)
    \/ Sign(p) \/ ListUser(p) \/ ReadProject(p) \/ ReadUser(p) \/ FirstUse(p) \/ Load(p)
    \/ Fail(p) \/ Crash(p)

Spec == Init /\ [][Next]_vars

-----------------------------------------------------------------------------
(* Properties.                                                             *)

\* The account that a call answers with, and that its user will fund, has its
\* seed in the keystore, however many processes raced to make it, unless a
\* caller had the keystore overwritten or the user deleted it
\* (load_or_generate_keystore: "exactly one seed is written and both return
\* it"; _write_keystore: "never clobbered").
NoAccountIsLost ==
    \A p \in Procs : result[p] # None =>
        \/ keystores[result[p].file] = result[p].seed
        \/ result[p].seed \in lost \/ result[p].file \in deleted

\* The project's .gitignore keeps its files out of a commit, or is the team's own,
\* which is left as it is; the exception is one whose writer has yet to close it,
\* or never did (_write_gitignore).
Ignored(d) ==
    \/ ignore[d] \in {"all", "team"}
    \/ ignore[d] = "empty" /\ (d \in torn \/ \E p \in Procs : At(p, "fill") /\ call[p].base = d)

\* No seed is in a project, in a keystore or in a temporary file, before the
\* project's .gitignore is, unless a caller named the file itself, by keystore=
\* or QUIP_KEYSTORE (accounts.py: "so a seed never reaches a commit").
SeedsStayOutOfCommits ==
    \A f \in Files \ Given :
        f.dir # Home /\ (keystores[f] # None \/ \E t \in temps : t.file = f) => Ignored(f.dir)

\* A call signs as a preference only if it was set during the call, and as a
\* later step only if every earlier one was unset at some time during it: an
\* account that is set, or a config.toml that cannot be read, is never silently
\* passed over.  And what a preference that use_account wrote names was a keystore
\* of its directory, of the user, or of a project around it (_build_signer).
SignsAsPreferred ==
    /\ \A p \in Procs : result[p] # None /\ result[p].step \in {"project", "user", "default"} =>
         LET r == result[p]
             met(dir) == {NameGiven(f[dir]) : f \in r.met}
             unset(dir) == None \in met(dir)
         IN /\ r.step = "project" => r.name \in met(r.project) /\ r.file.dir \in {r.project, Home}
            /\ r.step # "project" /\ r.project # None => unset(r.project)
            /\ r.step = "user" => r.name \in met(Home) /\ r.file.dir = Home
            /\ r.step = "default" => unset(Home) /\ r.file = DefaultFile
    /\ \A d \in Dirs : preference[d] \notin {None} \cup DOMAIN HandEdits =>
         \E i \in DOMAIN Walk[d] :
            preference[d] \in NamesIn(Walk[d][i]) \/ File(Walk[d][i], preference[d]) \in deleted
=============================================================================
