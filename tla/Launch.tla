------------------------------- MODULE Launch -------------------------------
(***************************************************************************)
(* What is settled before a child exists: the calls of the Command builder *)
(* on a CommandConfig, and the way of run(), spawn() and spawn_detached()  *)
(* from there to the program that runs - dotenv, the search for the        *)
(* executable, the check of the working directory, the environment, and    *)
(* the child's own last steps - while other programs change the files that *)
(* were looked at.                                                         *)
(*                                                                         *)
(* A text is a value, of which only whether it is ASCII is seen; a         *)
(* directory has at most one program of interest in each spelling the      *)
(* search tries.                                                           *)
(***************************************************************************)
EXTENDS Integers, Sequences, SequencesExt, FiniteSets, CommandLine

CONSTANTS
    Keys, Values,   \* names and values of environment variables
    NotAscii,       \* those of them that are not ASCII
    Parent,         \* the caller's environment, a sequence of entries
    Dotenv,         \* what the dotenv library finds from each directory
    Path,           \* the directories in PATH, in order
    Home, Dirs,     \* the caller's directory, and those one may ask for
    ArgLists,       \* bound: the arguments a child may be given
    Extensions,     \* what find_executable() appends to a name, for each platform
    MaxFiles,       \* bound: files that the search can come across
    MaxCalls,       \* bound: builder calls, of which args() counts for all
    MaxChanges      \* bound: changes of the file system by others

Platforms == {"unix", "windows"}
Entry    == [key : Keys, value : Values]
Place    == {Path[i] : i \in DOMAIN Path} \cup {Home} \cup Dirs
Kind     == {"none",
             "plain",     \* a file that may not be executed; for Windows one that is no PE
             "script",    \* a script whose interpreter does not exist; no PE either
             "broken",    \* a program, by its right or its magic, that the system cannot run
             "exec",      \* a program
             "unknown"}   \* the system does not tell: status() fails

(* What is read in the ANSI code page, or widened byte by byte, is another *)
(* text afterwards, unless it was ASCII.                                   *)
Garble(text)   == IF text \in NotAscii THEN Garbled ELSE text
GarbleEntry(e) == [key |-> Garble(e.key), value |-> Garble(e.value)]
GarbleAll(entries) == [i \in DOMAIN entries |-> GarbleEntry(entries[i])]

ASSUME TextAssumption == Garbled \notin Keys \cup Values /\ NotAscii \subseteq Keys \cup Values
ASSUME EnvAssumption  == Parent \in Seq(Entry) /\ Dotenv \in [Place -> Seq(Entry)]
ASSUME PathAssumption == Path \in Seq(Place \ {Home}) /\ Extensions \in [Platforms -> Seq(STRING)]
ASSUME ArgAssumption  == ArgLists \subseteq Seq(Seq(Char))

VARIABLES
    platform,
    config,     \* the CommandConfig
    args,       \* its args
    program,    \* "bare": a name to be searched for; "relative": one with a separator
    step,       \* how far the launch is
    call,       \* "spawn", as in run() too, or "spawn_detached"
    adds,       \* env_add once dotenv has been applied
    resolved,   \* the file that was found, as <<place, extension>>
    wrapper,    \* it is to be run by cmd
    env,        \* the entries for the child
    outcome,    \* "none", "child", the kind of the SpawnError, or of the exception
    child,      \* what the child got: program, directory, environment, group, argv
    files,      \* what is at each place under each extension
    dirs,       \* the directories that exist
    hidden,     \* those of them of which the system does not tell
    changed,    \* what others have changed meanwhile
    short       \* the system had no room for the program: memory, or for what it is given

configVars == <<config, args, program>>
fileVars   == <<files, dirs, hidden, changed>>
worldVars  == <<fileVars, short>>
vars == <<platform, configVars, step, call, adds, resolved, wrapper, env, outcome, child,
          worldVars>>

NoConfig == [env |-> <<>>, remove |-> {}, clear |-> FALSE, dotenv |-> FALSE,
             dir |-> Home, headless |-> FALSE]
NoChild  == [program |-> <<>>, dir |-> Home, env |-> <<>>, headless |-> FALSE, argv |-> <<>>]

(* What find_executable() looks at, in order: a name with a separator as   *)
(* it is, another one in each directory of PATH with each extension.       *)
Candidates ==
    IF program = "relative" THEN << <<Home, "">> >>
    ELSE LET exts == Extensions[platform]
             n    == Len(exts)
         IN [i \in 1..(Len(Path) * n) |-> <<Path[((i - 1) \div n) + 1], exts[((i - 1) % n) + 1]>>]

Searched == {Candidates[i] : i \in DOMAIN Candidates}

-----------------------------------------------------------------------------
(* In the directories a child may be given there is a program with the     *)
(* name of the one asked for.                                              *)
Init ==
    /\ platform \in Platforms
    /\ config = NoConfig /\ args = <<>>
    /\ program \in {"bare", "relative"}
    /\ step = "build" /\ call = "none"
    /\ adds = <<>> /\ resolved = <<>> /\ wrapper = FALSE /\ env = <<>>
    /\ outcome = "none" /\ child = NoChild
    /\ \E kind \in [Searched -> Kind] :
         /\ Cardinality({f \in Searched : kind[f] # "none"}) <= MaxFiles
         /\ files = [f \in Searched \cup (Dirs \X {""}) |-> IF f \in Searched THEN kind[f] ELSE "exec"]
    /\ \E some \in SUBSET Dirs : dirs = some \cup {Home} /\ hidden \in SUBSET some
    /\ changed = {} /\ short = FALSE

(* Builder calls so far: what each has added is still there to be counted. *)
Calls == IF args # <<>> THEN MaxCalls
         ELSE Len(config.env) + Cardinality(config.remove)
              + Cardinality({f \in {"clear", "dotenv", "headless", "dir"} :
                               config[f] # NoConfig[f]})

(* env(), env_remove(), env_clear(), dotenv(), working_directory(),        *)
(* headless(), interactive(), and arg() or args().                         *)
Build ==
    /\ step = "build" /\ Calls < MaxCalls
    /\ \/ /\ \/ \E e \in Entry : config' = [config EXCEPT !.env = Append(@, e)]
             \/ \E k \in Keys : config' = [config EXCEPT !.remove = @ \cup {k}]
             \/ config' = [config EXCEPT !.clear = TRUE]
             \/ config' = [config EXCEPT !.dotenv = TRUE]
             \/ \E d \in Dirs : config' = [config EXCEPT !.dir = d]
             \/ \E h \in BOOLEAN : config' = [config EXCEPT !.headless = h]
          /\ UNCHANGED args
       \/ /\ Calls = 0 /\ args' \in ArgLists
          /\ UNCHANGED config
    /\ UNCHANGED <<platform, program, step, call, adds, resolved, wrapper, env,
                   outcome, child, worldVars>>

(* spawn(), which run() takes the same way as, or spawn_detached(), which  *)
(* forces headless.                                                        *)
Start ==
    /\ step = "build"
    /\ step' = "dotenv"
    /\ call' \in {"spawn", "spawn_detached"}
    /\ config' = IF call' = "spawn_detached" THEN [config EXCEPT !.headless = TRUE] ELSE config
    /\ UNCHANGED <<platform, args, program, adds, resolved, wrapper, env, outcome, child, worldVars>>

(* apply_dotenv(): from the working directory, in front of env_add. *)
ApplyDotenv ==
    /\ step = "dotenv"
    /\ step' = "find"
    /\ adds' = (IF config.dotenv THEN Dotenv[config.dir] ELSE <<>>) \o config.env
    /\ UNCHANGED <<platform, configVars, call, resolved, wrapper, env, outcome, child, worldVars>>

(* Any regular file will do, whether it can be executed or not; if the     *)
(* system does not tell, is_regular_file() throws.                         *)
EndsSearch(f) == files[f] # "none"

Fails(kind) == outcome' = kind /\ step' = "done"

FindExecutable ==
    /\ step = "find"
    /\ LET i == SelectInSeq(Candidates, EndsSearch)
       IN \/ i = 0 /\ Fails("command_not_found") /\ UNCHANGED resolved
          \/ /\ i # 0 /\ files[Candidates[i]] = "unknown"
             /\ Fails("filesystem_error") /\ UNCHANGED resolved
          \/ /\ i # 0 /\ files[Candidates[i]] # "unknown"
             /\ resolved' = Candidates[i] /\ step' = "directory" /\ UNCHANGED outcome
    /\ UNCHANGED <<platform, configVars, call, adds, wrapper, env, child, worldVars>>

(* Definitions whose name has a Bug suffix are faulty variants of the one  *)
(* that follows them; the properties are expected to reject them.          *)

(* The directory is left for the child to find. *)
CheckDirectoryBugNone ==
    /\ step = "directory"
    /\ step' = "env"
    /\ UNCHANGED <<platform, configVars, call, adds, resolved, wrapper, env, outcome, child,
                   worldVars>>

(* is_directory() throws where the system does not tell. *)
CheckDirectory ==
    /\ step = "directory"
    /\ \/ config.dir \in hidden /\ Fails("filesystem_error")
       \/ config.dir \notin hidden \cup dirs /\ Fails("invalid_working_directory")
       \/ config.dir \in dirs \ hidden /\ step' = "env" /\ UNCHANGED outcome
    /\ UNCHANGED <<platform, configVars, call, adds, resolved, wrapper, env, child, worldVars>>

(* The entries of none of these variables, in their order; and with one    *)
(* added, which takes the place of earlier ones of the same variable.      *)
Keep(keys, entries, e) == IF e.key \in keys THEN entries ELSE Append(entries, e)
Without(entries, keys) == FoldLeft(LAMBDA kept, e : Keep(keys, kept, e), <<>>, entries)
AddEntry(entries, e)   == Append(Without(entries, {e.key}), e)

(* is_pe_executable() on Windows, and build_env_block(): the caller's      *)
(* environment, in the ANSI code page on Windows, without what was         *)
(* removed, and with what was added.                                       *)
BuildEnvBlock ==
    LET all == IF platform = "windows" THEN GarbleAll(Parent) ELSE Parent IN
    /\ step = "env"
    /\ step' = "exec"
    /\ wrapper' = (platform = "windows" /\ files[resolved] \notin {"exec", "broken"})
    /\ env' = FoldLeft(AddEntry,
                       Without(IF config.clear THEN <<>> ELSE all, config.remove),
                       adds)
    /\ UNCHANGED <<platform, configVars, call, adds, resolved, outcome, child, worldVars>>

Runs(file, dir, entries, argv) ==
    /\ child' = [program |-> file, dir |-> dir, env |-> entries, headless |-> config.headless,
                 argv |-> argv]
    /\ outcome' = "child" /\ step' = "done"

ExecFrame == UNCHANGED <<platform, configVars, call, adds, resolved, wrapper, env, fileVars>>

(* What errno says of an execve() that fails. *)
Refused(file) ==
    /\ \/ files[file] \in {"none", "script"} /\ Fails("command_not_found")
       \/ files[file] = "plain" /\ Fails("permission_denied")
       \/ (files[file] = "broken" \/ short') /\ Fails("platform_error")
    /\ UNCHANGED child

(* The program is looked up after the chdir(). *)
ExecUnixBugChdirFirst ==
    LET dir  == IF config.dir \in dirs THEN config.dir ELSE Home
        file == IF program = "relative" THEN <<dir, "">> ELSE resolved
    IN
    /\ step = "exec" /\ platform = "unix"
    /\ short' \in BOOLEAN
    /\ Refused(file) \/ (files[file] = "exec" /\ ~short' /\ Runs(file, dir, env, args))
    /\ ExecFrame

(* A failed execve() goes unreported: it looks like a child. *)
ExecUnixBugNoProbe ==
    LET dir == IF config.dir \in dirs THEN config.dir ELSE Home IN
    /\ step = "exec" /\ platform = "unix"
    /\ short' \in BOOLEAN
    /\ \/ files[resolved] # "exec" /\ Fails("child") /\ UNCHANGED child
       \/ files[resolved] = "exec" /\ ~short' /\ Runs(resolved, dir, env, args)
    /\ ExecFrame

(* The grandchild on Unix: the program's path is made absolute, chdir() -  *)
(* whose failure is passed over -, and execve(), whose errno decides.      *)
ExecUnix ==
    LET dir == IF config.dir \in dirs THEN config.dir ELSE Home IN
    /\ step = "exec" /\ platform = "unix"
    /\ short' \in BOOLEAN
    /\ Refused(resolved) \/ (files[resolved] = "exec" /\ ~short' /\ Runs(resolved, dir, env, args))
    /\ ExecFrame

(* CreateProcess() on Windows, any failure of which is a platform error.   *)
(* The environment is widened byte by byte, as the arguments are.  What is *)
(* no PE is left to cmd, which starts in the child's directory and looks   *)
(* there for a name that is not absolute; whether it finds and can run it, *)
(* and how it passes the arguments on, is left open.                       *)
ExecWindows ==
    LET byCmd   == IF program = "relative" THEN <<config.dir, "">> ELSE resolved
        argv    == Tail(ParseCommandLine(BuildCommandLine(<<"x">>, args)))
        entries == GarbleAll(env)
        fails   == short' \/ config.dir \notin dirs \/ (~wrapper /\ files[resolved] # "exec")
    IN
    /\ step = "exec" /\ platform = "windows"
    /\ short' \in BOOLEAN
    /\ \/ fails /\ Fails("platform_error") /\ UNCHANGED child
       \/ ~fails /\ wrapper  /\ \E some \in {<<>>, args} : Runs(byCmd, config.dir, entries, some)
       \/ ~fails /\ ~wrapper /\ Runs(resolved, config.dir, entries, argv)
    /\ ExecFrame

(* Meanwhile somebody removes a file or a directory, or takes away the     *)
(* right to execute a file.                                                *)
Others ==
    /\ step \in {"find", "directory", "env", "exec"}
    /\ Cardinality(changed) < MaxChanges
    /\ \/ \E f \in DOMAIN files :
            /\ files[f] # "none"
            /\ files' = [files EXCEPT ![f] = IF files[f] = "exec" THEN "plain" ELSE "none"]
            /\ changed' = changed \cup {f[1]}
            /\ UNCHANGED dirs
       \/ \E d \in dirs \ {Home} :
            /\ dirs' = dirs \ {d}
            /\ changed' = changed \cup {d}
            /\ UNCHANGED files
    /\ UNCHANGED <<platform, configVars, step, call, adds, resolved, wrapper, env, outcome, child,
                   hidden, short>>

Next == Build \/ Start \/ ApplyDotenv \/ FindExecutable \/ CheckDirectory \/ BuildEnvBlock
        \/ ExecUnix \/ ExecWindows \/ Others

Spec == Init /\ [][Next]_vars

-----------------------------------------------------------------------------
TypeOK ==
    /\ platform \in Platforms /\ program \in {"bare", "relative"}
    /\ config \in [env : Seq(Entry), remove : SUBSET Keys, clear : BOOLEAN, dotenv : BOOLEAN,
                   dir : Dirs \cup {Home}, headless : BOOLEAN]
    /\ args \in ArgLists \cup {<<>>}
    /\ wrapper \in BOOLEAN
    /\ step \in {"build", "dotenv", "find", "directory", "env", "exec", "done"}
    /\ call \in {"none", "spawn", "spawn_detached"}
    /\ adds \in Seq(Entry)
    /\ env \in Seq([key : Keys \cup {Garbled}, value : Values \cup {Garbled}])
    /\ resolved \in (DOMAIN files) \cup {<<>>}
    /\ outcome \in {"none", "child", "command_not_found", "permission_denied",
                    "invalid_working_directory", "platform_error", "filesystem_error"}
    /\ (outcome = "child") = (child.program # <<>>)
    /\ dirs \subseteq Dirs \cup {Home} /\ hidden \subseteq Dirs /\ short \in BOOLEAN

(* The last entry of a sequence for a key, and the values it has for it. *)
LastOf(entries, key) == entries[SelectLastInSeq(entries, LAMBDA e : e.key = key)].value
Has(entries, key)    == \E i \in DOMAIN entries : entries[i].key = key
Given(entries, key)  == {entries[i].value : i \in {j \in DOMAIN entries : entries[j].key = key}}

(* The value that a variable should have: an explicit env() wins over the  *)
(* dotenv file, this over the caller's environment, of which env_remove()  *)
(* takes away a variable and env_clear() everything.                       *)
Wanted(key) ==
    IF Has(config.env, key) THEN {LastOf(config.env, key)}
    ELSE IF config.dotenv /\ Has(Dotenv[config.dir], key) THEN {LastOf(Dotenv[config.dir], key)}
    ELSE IF config.clear \/ key \in config.remove THEN {}
    ELSE Given(Parent, key)

(* In whatever order the builder was called, the child has each variable   *)
(* once at most beyond what the caller has twice, with the value wanted -  *)
(* but on Windows no name and no value that is not ASCII arrives as it is. *)
Arrives(text) == platform = "unix" \/ text \notin NotAscii

EnvAsAsked ==
    \A k \in Keys : Arrives(k) =>
        /\ Given(child.env, k) = {IF Arrives(v) THEN v ELSE Garbled : v \in Wanted(k)}
        /\ Has(adds, k) => Cardinality({i \in DOMAIN child.env : child.env[i].key = k}) = 1

(* The program is the first that the search can have found - and not one   *)
(* of the same name in the directory the child starts in, but for what cmd *)
(* is to run under a relative name.                                        *)
ProgramAsAsked ==
    IF program = "relative" THEN child.program = <<IF wrapper THEN config.dir ELSE Home, "">>
    ELSE \A i \in DOMAIN Candidates :
           (\A j \in 1..i : Candidates[j] # child.program) =>
               ~EndsSearch(Candidates[i]) \/ Candidates[i][1] \in changed

(* A child runs where it was asked to, unless the directory went away      *)
(* after it was checked: then, on Unix, it runs where the caller is.       *)
DirectoryAsAsked ==
    child.dir = config.dir \/ (platform = "unix" /\ config.dir \in changed)

(* spawn_detached() never leaves the child in the caller's process group,  *)
(* and the arguments arrive as they were given - but on Windows those that *)
(* are not ASCII, or in which the missing escape of a backslash before a   *)
(* quote shows, may not, nor what is left to cmd.                          *)
RestAsAsked ==
    /\ call = "spawn_detached" => child.headless
    /\ \/ child.argv = args
       \/ platform = "windows" /\ (wrapper \/ \E i \in DOMAIN args : AtRisk(args[i]))

(* The child that runs is the one that the configuration describes. *)
ChildAsAsked ==
    outcome = "child" => EnvAsAsked /\ ProgramAsAsked /\ DirectoryAsAsked /\ RestAsAsked

(* An error is reported for its cause, and in the order in which the code  *)
(* looks: no program, then no directory, then no right to execute.  But    *)
(* command_not_found may also mean that an interpreter is missing, on Unix *)
(* what cannot be run is a platform error, on Windows so is whatever has   *)
(* changed since it was looked at, and where the system does not tell what *)
(* a place holds, run() and spawn() throw instead - unless the search has  *)
(* come to an end before.                                                  *)
ErrorsHaveCauses ==
    /\ outcome = "command_not_found" =>
         IF resolved = <<>> THEN \A i \in DOMAIN Candidates : files[Candidates[i]] = "none"
         ELSE /\ platform = "unix"
              /\ files[resolved] = "script" \/ resolved[1] \in changed
    /\ outcome = "filesystem_error" =>
         IF resolved = <<>>
         THEN \E i \in DOMAIN Candidates :
                /\ files[Candidates[i]] = "unknown"
                /\ \A j \in 1..(i - 1) : files[Candidates[j]] = "none"
         ELSE config.dir \in hidden
    /\ outcome = "invalid_working_directory" =>
         config.dir \notin dirs /\ (EndsSearch(resolved) \/ resolved[1] \in changed)
    /\ outcome = "permission_denied" => platform = "unix" /\ files[resolved] = "plain"
    /\ outcome = "platform_error" =>
         \/ short \/ files[resolved] = "broken"
         \/ platform = "windows" /\ {config.dir, resolved[1]} \cap changed # {}
=============================================================================
