----------------------------- MODULE MCAccounts -----------------------------
(***************************************************************************)
(* A project within a project, below the home directory, and next to it a  *)
(* directory whose .quip someone else planted.  What people left: nothing; *)
(* a project a team committed, with other keys besides its account, and a  *)
(* user's config.toml of other keys only; or a bare .quip and a config.toml *)
(* that is not TOML.                                                       *)
(***************************************************************************)
EXTENDS Accounts
LOCAL INSTANCE TLC

MCWalk == [home |-> <<"home">>, work |-> <<"work", "home">>, sub |-> <<"sub", "work", "home">>,
           planted |-> <<"planted", "home">>]

Making(name, level, cwd, overwrite) ==
    [op |-> "create", name |-> name, level |-> level, cwd |-> cwd, overwrite |-> overwrite]
Setting(op, name, level, cwd) ==
    [op |-> op, name |-> name, level |-> level, cwd |-> cwd, overwrite |-> FALSE]
Signing(cwd, keystore) == [op |-> "sign", cwd |-> cwd, keystore |-> keystore, overwrite |-> FALSE]

MCRequests ==
    {Making("ann", "project", "work", FALSE), Making("ann", "project", "sub", FALSE),
     Making("ann", "user", "work", TRUE), Making("default", "user", "home", FALSE),
     Making("ann", "project", "planted", FALSE), Making("ann", "project", "home", FALSE),
     Setting("use", "ann", "project", "sub"), Setting("use", "ann", "user", "work"),
     Setting("use", "default", "user", "home"), Setting("clear", "ann", "project", "work"),
     Setting("clear", "ann", "user", "home"),
     Signing("sub", None), Signing("home", None), Signing("work", [dir |-> "home", name |-> "ann"]),
     Signing("work", [dir |-> "work", name |-> "default"])}

MCHandEdits == [other |-> None, named |-> "ann", broken |-> "unreadable"]

Left(dirs, teams, home, work) ==
    [quip |-> dirs, teams |-> teams,
     configs |-> [d \in DOMAIN MCWalk |-> CASE d = "home" -> home [] d = "work" -> work [] OTHER -> None]]

MCLeftovers ==
    {Left({}, {}, None, None), Left({"work"}, {"work"}, "other", "named"),
     Left({"work"}, {}, "broken", None)}

Symmetry == Permutations(Procs)
=============================================================================
