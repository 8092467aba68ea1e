----------------------------- MODULE PluginStore -----------------------------
(***************************************************************************)
(* The plugins of a project: the cache of artifacts under                  *)
(* .ocomment/plugins, the lockfile that names them, and the commands that  *)
(* write both (plugin add, update and remove) or read both (a run that     *)
(* loads its plugins).  The lockfile is replaced in one rename; nothing    *)
(* keeps two commands apart, any call of theirs may fail, and a command    *)
(* may be killed at any point.                                             *)
(***************************************************************************)
EXTENDS FiniteSets, Naturals

CONSTANTS
  Commands, \* processes that run one plugin command after another
  Names,    \* plugin names
  Builds    \* the builds a source may hold: pairs of a name and a digest

Digests == {b[2] : b \in Builds}

VARIABLES
  cache,    \* the artifact file of a name and a digest: absent, torn or whole
  lock,     \* the lockfile: the digest locked for a name
  command,  \* what each process is doing
  overlapped, \* history: two commands that write have run at once
  interrupted \* history: the artifacts that a command which failed or was killed left
              \* torn, or took away and left in the lockfile

vars == <<cache, lock, command, overlapped, interrupted>>

none == "none"
\* A digest is sixty-four hexadecimal digits.
ASSUME BuildsAssumption == Builds \subseteq Names \X Digests /\ none \notin Digests

Idle == [op |-> "none", pc |-> "idle", name |-> none, queue |-> {}, copy |-> [n \in Names |-> none],
         digest |-> none, open |-> FALSE, raced |-> FALSE]
Writes == {"add", "update", "remove"}

\* An artifact's file name is made of the plugin's name and its digest.
Artifact(c) == <<command[c].name, command[c].digest>>

Init ==
  /\ cache = [a \in Builds |-> "absent"]
  /\ lock = [n \in Names |-> none]
  /\ command = [c \in Commands |-> Idle]
  /\ overlapped = FALSE
  /\ interrupted = {}

At(c, pc) == command[c].pc = pc
Goto(c, pc) == command' = [command EXCEPT ![c].pc = pc]
Finish(c) == command' = [command EXCEPT ![c] = Idle]
Quiet == UNCHANGED <<overlapped, interrupted>>

\* A command stops short, with an error or killed: what it wrote stays as it is.
Stop(c) ==
  /\ Finish(c)
  /\ interrupted' = interrupted \cup
       (IF At(c, "fill") \/ (At(c, "save") /\ command[c].op = "remove") THEN {Artifact(c)} ELSE {})
  /\ UNCHANGED <<cache, lock, overlapped>>

----------------------------------------------------------------------------
\* A command is started.  add reads its source first; the others the lockfile.
Start(c, op, names) ==
  /\ At(c, "idle")
  /\ op # "update" => Cardinality(names) = 1
  /\ command' = [command EXCEPT ![c] = [Idle EXCEPT
                   !.op = op, !.pc = IF op = "add" THEN "read" ELSE "open",
                   !.name = CHOOSE n \in names : TRUE, !.queue = IF op = "add" THEN {} ELSE names]]
  /\ overlapped' = (overlapped \/ (op \in Writes /\ \E d \in Commands \ {c} : command[d].op \in Writes))
  /\ UNCHANGED <<cache, lock, interrupted>>

\* remove, update and load read the lockfile, and stop when it does not name
\* what they were asked for.
OpenLock(c) ==
  LET run == command[c]
      locked == {n \in run.queue : lock[n] # none}
      first == IF locked = {} THEN none ELSE CHOOSE n \in locked : TRUE
      next == CASE run.op = "remove" -> "unlink" [] run.op = "load" -> "fetch" [] OTHER -> "read"
  IN  /\ At(c, "open")
      /\ IF locked = {} THEN Finish(c)
         ELSE command' = [command EXCEPT ![c] = [run EXCEPT
                !.pc = next, !.name = first, !.queue = IF run.op = "update" THEN locked ELSE {},
                !.copy = IF run.op = "remove" THEN lock ELSE @,
                !.digest = IF run.op = "update" THEN none ELSE lock[first],
                !.raced = run.op = "load" /\ \E d \in Commands :
                            At(d, "save") /\ command[d].op = "remove" /\ command[d].name = first]]
      /\ UNCHANGED <<cache, lock>> /\ Quiet

\* install: the source, which may hold another build by now, is read, validated
\* and hashed, or the command gives up (no such source, no valid component, a
\* wrong digest or signature).
Refuse(c) == At(c, "read") /\ Stop(c)
ReadSource(c) ==
  /\ At(c, "read")
  /\ \E d \in Digests :
       /\ <<command[c].name, d>> \in Builds
       /\ command' = [command EXCEPT ![c].pc = "exists", ![c].digest = d]
  /\ UNCHANGED <<cache, lock>> /\ Quiet

CheckArtifactTrusted(c) ==
  At(c, "exists") /\ Goto(c, "lock") /\ UNCHANGED <<cache, lock>> /\ Quiet
\* install: an artifact that exists is taken as it is.
CheckArtifact(c) ==
  /\ At(c, "exists")
  /\ Goto(c, IF cache[Artifact(c)] = "absent" THEN "create" ELSE "lock")
  /\ UNCHANGED <<cache, lock>> /\ Quiet

\* install: fs::write creates or truncates the file, then fills it; either may fail, and
\* nobody clears away a file that was not filled.
CreateArtifact(c) ==
  /\ At(c, "create")
  /\ \/ Stop(c)
     \/ /\ cache' = [cache EXCEPT ![Artifact(c)] = "torn"]
        /\ command' = [command EXCEPT ![c].pc = "fill", ![c].open = TRUE]
        /\ UNCHANGED lock /\ Quiet
FillArtifact(c) ==
  /\ At(c, "fill")
  /\ \/ Stop(c)
     \/ /\ IF command[c].open
           THEN cache' = [cache EXCEPT ![Artifact(c)] = "whole"] /\ interrupted' = interrupted \ {Artifact(c)}
           ELSE UNCHANGED <<cache, interrupted>>
        /\ command' = [command EXCEPT ![c].pc = "lock", ![c].open = FALSE]
        /\ UNCHANGED <<lock, overlapped>>

LoadLockAnew(c) ==
  /\ At(c, "lock")
  /\ command' = [command EXCEPT ![c].pc = "save"]
  /\ UNCHANGED <<cache, lock>> /\ Quiet
\* install: the lockfile is read only now.
LoadLock(c) ==
  /\ At(c, "lock")
  /\ command' = [command EXCEPT ![c].pc = "save", ![c].copy = lock]
  /\ UNCHANGED <<cache, lock>> /\ Quiet

SaveLockReclaims(c) ==
  /\ At(c, "save")
  /\ lock' = [command[c].copy EXCEPT ![command[c].name] =
                IF command[c].op = "remove" THEN none ELSE command[c].digest]
  /\ cache' = [a \in DOMAIN cache |->
                 IF a[1] = command[c].name /\ a # Artifact(c) THEN "absent" ELSE cache[a]]
  /\ Finish(c) /\ Quiet
\* The command's own copy of the lockfile, with its one entry changed, replaces
\* the lockfile, or cannot be written; update goes on to the next name of the list it
\* began with, unless one failed.
SaveLock(c) ==
  LET run  == command[c]
      left == run.queue \ {run.name}
  IN  /\ At(c, "save")
      /\ \/ Stop(c)
         \/ /\ lock' = [run.copy EXCEPT ![run.name] = IF run.op = "remove" THEN none ELSE run.digest]
            /\ IF left = {} \/ run.op # "update" THEN Finish(c)
               ELSE command' = [command EXCEPT ![c] = [Idle EXCEPT
                      !.op = run.op, !.pc = "read", !.name = CHOOSE n \in left : TRUE, !.queue = left]]
            /\ UNCHANGED cache /\ Quiet

\* remove: the artifact goes before the lockfile forgets it, or cannot be removed.  A
\* process that still writes to the file writes to a file without a name.
Unlink(c) ==
  /\ At(c, "unlink")
  /\ \/ Stop(c)
     \/ /\ cache' = [cache EXCEPT ![Artifact(c)] = "absent"]
        /\ interrupted' = interrupted \ {Artifact(c)}
        /\ command' = [d \in Commands |->
             IF d = c THEN [command[c] EXCEPT !.pc = "save"]
             ELSE [command[d] EXCEPT !.open = @ /\ Artifact(d) # Artifact(c),
                                     !.raced = @ \/ (At(d, "fetch") /\ Artifact(d) = Artifact(c))]]
        /\ UNCHANGED <<lock, overlapped>>

\* load: the artifact is read and must have the digest the lockfile gave; nothing is
\* written, whichever way it ends.
Fetch(c) == At(c, "fetch") /\ Stop(c)

----------------------------------------------------------------------------
\* A process is killed.
Kill(c) == ~At(c, "idle") /\ Stop(c)

Step(c) ==
  \/ \E op \in {"add", "update", "remove", "load"} : \E names \in (SUBSET Names) \ {{}} : Start(c, op, names)
  \/ OpenLock(c) \/ Refuse(c) \/ ReadSource(c) \/ CheckArtifact(c) \/ CreateArtifact(c) \/ FillArtifact(c)
  \/ LoadLock(c) \/ SaveLock(c) \/ Unlink(c) \/ Fetch(c)
Next == \E c \in Commands : Step(c) \/ Kill(c)
Spec == Init /\ [][Next]_vars

----------------------------------------------------------------------------
\* While commands that write take turns, whatever call of theirs fails and wherever one
\* is killed, every plugin the lockfile names has its whole artifact, but for the one
\* being removed and those a command was interrupted at (install, remove): no failure
\* spreads to another plugin, and a command that ends well mends what it names.
LockedIsWhole ==
  ~overlapped =>
    \A n \in Names :
      \/ lock[n] = none
      \/ cache[<<n, lock[n]>>] = "whole"
      \/ \E c \in Commands : At(c, "save") /\ command[c].op = "remove" /\ command[c].name = n
      \/ <<n, lock[n]>> \in interrupted

\* While commands that write take turns, failed or not, the entry of one plugin
\* never changes in the course of a command for another.
OthersKept ==
  [][~overlapped => \A n \in Names :
       lock'[n] # lock[n] => \E c \in Commands : At(c, "save") /\ command[c].name = n]_vars

\* An update leaves the build it replaces in the cache, so a run that has read
\* the lockfile before it still finds what it names, unless a remove came in between or a
\* command was interrupted at that very artifact.
UpdateKeepsReaders ==
  \A c \in Commands :
    At(c, "fetch") /\ cache[Artifact(c)] # "whole" =>
      overlapped \/ command[c].raced \/ Artifact(c) \in interrupted
=============================================================================
