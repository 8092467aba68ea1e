--------------------------- MODULE PluginStoreProofs ---------------------------
(***************************************************************************)
(* Proofs about PluginStore, for any processes, names and builds: what the *)
(* lockfile names is whole while commands take turns, but for what a       *)
(* failure or a kill interrupted; an update leaves readers what they read, *)
(* and a command touches its own plugin's entry alone.                     *)
(***************************************************************************)
EXTENDS PluginStore, TLAPS

File == {"absent", "torn", "whole"}
\* A lockfile names builds that were installed.
LockFile == {f \in [Names -> Digests \cup {none}] :
               \A n \in Names : f[n] # none => <<n, f[n]>> \in Builds}
Op == {"add", "update", "remove", "load"}
Installs == {"exists", "create", "fill", "lock"}
PC == {"idle", "open", "read", "unlink", "save", "fetch"} \cup Installs
Run == [op : Op \cup {none}, pc : PC, name : Names \cup {none}, queue : SUBSET Names, copy : LockFile,
        digest : Digests \cup {none}, open : BOOLEAN, raced : BOOLEAN]

TypeOK ==
  /\ cache \in [Builds -> File] /\ lock \in LockFile
  /\ command \in [Commands -> Run] /\ overlapped \in BOOLEAN /\ interrupted \subseteq Builds

\* What a process does is part of the command it runs; once it has a digest it works on a
\* build there is, and a remove on the one its copy of the lockfile names.
Phase(run) ==
  /\ run.op = none <=> run.pc = "idle"
  /\ run.pc = "fetch" => run.op = "load"
  /\ run.pc \in {"unlink", "save"} \cup Installs \cup {"read"} => run.op \in Writes
  /\ run.pc \in Installs \cup {"read"} => run.op # "remove"
  /\ run.pc = "unlink" => run.op = "remove"
  /\ run.pc \in Installs \cup {"unlink", "save", "fetch"} => <<run.name, run.digest>> \in Builds
  /\ run.pc = "read" => run.name \in Names
  /\ run.pc \in {"unlink", "save"} /\ run.op = "remove" => run.digest = run.copy[run.name]
Phases == \A c \in Commands : Phase(command[c])

\* Without an overlap there is one writer, and its copy of the lockfile is the lockfile.
OneWriter ==
  ~overlapped =>
    \A c, d \in Commands : command[c].op \in Writes /\ command[d].op \in Writes => c = d
CopyIsLock ==
  ~overlapped =>
    \A c \in Commands : command[c].pc \in {"unlink", "save"} => command[c].copy = lock

\* Without an overlap a file is torn only while it is written, or where a writer was
\* interrupted, and the writer knows its own.
TornIsWritten ==
  ~overlapped =>
    \A a \in Builds : cache[a] = "torn" =>
      a \in interrupted \/ \E c \in Commands : At(c, "fill") /\ Artifact(c) = a
WriterKnows ==
  ~overlapped =>
    \A c \in Commands :
      /\ At(c, "create") => cache[Artifact(c)] = "absent"
      /\ At(c, "fill") => command[c].open
      /\ At(c, "lock") \/ (At(c, "save") /\ command[c].op # "remove") =>
           cache[Artifact(c)] = "whole" \/ Artifact(c) \in interrupted

IInv ==
  /\ TypeOK /\ Phases /\ OneWriter /\ CopyIsLock /\ TornIsWritten /\ WriterKnows
  /\ LockedIsWhole /\ UpdateKeepsReaders

-----------------------------------------------------------------------------
\* An idle process has the shape of any other.
LEMMA IdleRun == Idle \in Run /\ Phase(Idle)
<1>1. [n \in Names |-> none] \in LockFile BY DEF LockFile
<1>2. Idle \in Run BY <1>1 DEF Idle, Run, none, PC
<1> QED BY <1>2 DEF Idle, Phase, Installs, none

\* Init establishes every part.
LEMMA InitIInv == Init => IInv
<1> SUFFICES ASSUME Init PROVE IInv OBVIOUS
<1>1. TypeOK
  <2>1. lock \in LockFile BY DEF Init, LockFile
  <2> QED BY <2>1, IdleRun DEF Init, TypeOK, File
<1>2. \A c \in Commands : command[c] = Idle BY DEF Init
<1>3. Phases BY <1>2, IdleRun DEF Phases
<1>4. \A c \in Commands : command[c].pc = "idle" /\ command[c].op = "none" BY <1>2 DEF Idle
<1>5. OneWriter /\ CopyIsLock BY <1>4 DEF OneWriter, CopyIsLock, Writes
<1>6. TornIsWritten BY DEF TornIsWritten, Init
<1>7. WriterKnows BY <1>4 DEF WriterKnows, At
<1>8. LockedIsWhole BY DEF LockedIsWhole, Init
<1>9. UpdateKeepsReaders BY <1>4 DEF UpdateKeepsReaders, At
<1> QED BY <1>1, <1>3, <1>5, <1>6, <1>7, <1>8, <1>9 DEF IInv

\* What a step that writes no file has to leave as it was: one process goes on to run.
LEMMA QuietStep ==
  ASSUME IInv, NEW c \in Commands, NEW run \in Run, Phase(run),
         command' = [command EXCEPT ![c] = run], UNCHANGED <<cache, lock, interrupted>>,
         overlapped' \in BOOLEAN, overlapped => overlapped',
         run.op \in Writes /\ command[c].op \notin Writes /\ ~overlapped' =>
           \A d \in Commands \ {c} : command[d].op \notin Writes,
         run.pc \in {"unlink", "save"} => run.copy = lock,
         ~overlapped' =>
           /\ ~At(c, "fill") /\ ~(At(c, "save") /\ command[c].op = "remove") /\ run.pc # "fill"
           /\ run.pc = "create" => cache[<<run.name, run.digest>>] = "absent"
           /\ run.pc = "lock" \/ (run.pc = "save" /\ run.op # "remove") =>
                cache[<<run.name, run.digest>>] = "whole" \/ <<run.name, run.digest>> \in interrupted
           /\ run.pc = "fetch" /\ cache[<<run.name, run.digest>>] # "whole" =>
                run.raced \/ <<run.name, run.digest>> \in interrupted
  PROVE  IInv'
<1>0. TypeOK /\ Phases /\ OneWriter /\ CopyIsLock /\ TornIsWritten /\ WriterKnows
        /\ LockedIsWhole /\ UpdateKeepsReaders BY DEF IInv
<1>1. command'[c] = run /\ \A d \in Commands \ {c} : command'[d] = command[d] BY <1>0 DEF TypeOK
<1>2. TypeOK' BY <1>0 DEF TypeOK
<1>3. Phases' BY <1>0, <1>1 DEF Phases
<1>4. OneWriter'
  BY <1>0, <1>1 DEF OneWriter
<1>5. CopyIsLock' BY <1>0, <1>1 DEF CopyIsLock
<1>6. TornIsWritten' BY <1>0, <1>1 DEF TornIsWritten, At, Artifact
<1>7. WriterKnows' BY <1>0, <1>1 DEF WriterKnows, At, Artifact
<1>8. LockedIsWhole' BY <1>0, <1>1 DEF LockedIsWhole, At
<1>9. UpdateKeepsReaders' BY <1>0, <1>1 DEF UpdateKeepsReaders, At, Artifact
<1> QED BY <1>2, <1>3, <1>4, <1>5, <1>6, <1>7, <1>8, <1>9 DEF IInv

\* A command that stops short leaves what it was at among what was interrupted.
LEMMA StopStep == ASSUME IInv, NEW c \in Commands, Stop(c) PROVE IInv'
<1>0. TypeOK /\ Phases /\ OneWriter /\ CopyIsLock /\ TornIsWritten /\ WriterKnows
        /\ LockedIsWhole /\ UpdateKeepsReaders BY DEF IInv
<1>1. command' = [command EXCEPT ![c] = Idle] /\ UNCHANGED <<cache, lock, overlapped>>
  BY DEF Stop, Finish
<1>2. Idle.op = "none" /\ Idle.pc = "idle" BY DEF Idle
<1>3. command'[c] = Idle /\ \A d \in Commands \ {c} : command'[d] = command[d]
  BY <1>0, <1>1 DEF TypeOK
<1>4. command[c] \in Run /\ Phase(command[c]) BY <1>0 DEF TypeOK, Phases
<1>5. At(c, "fill") \/ (At(c, "save") /\ command[c].op = "remove") => Artifact(c) \in interrupted'
  BY DEF Stop
<1>6. interrupted \subseteq interrupted' BY DEF Stop
<1>7. TypeOK'
  <2>1. At(c, "fill") \/ At(c, "save") => Artifact(c) \in Builds
    BY <1>4 DEF Phase, At, Artifact, Installs
  <2>2. interrupted' \subseteq Builds BY <1>0, <2>1 DEF Stop, TypeOK
  <2> QED BY <1>0, <1>1, <2>2, IdleRun DEF TypeOK
<1>8. Phases' BY <1>0, <1>3, IdleRun DEF Phases
<1>9. OneWriter' /\ CopyIsLock' BY <1>0, <1>1, <1>2, <1>3 DEF OneWriter, CopyIsLock, Writes
<1>10. TornIsWritten'
  BY <1>0, <1>1, <1>3, <1>5, <1>6 DEF TornIsWritten, At, Artifact
<1>11. WriterKnows' BY <1>0, <1>1, <1>2, <1>3, <1>6 DEF WriterKnows, At, Artifact
<1>12. LockedIsWhole'
  <2>1. ASSUME ~overlapped, At(c, "save"), command[c].op = "remove"
        PROVE  <<command[c].name, lock[command[c].name]>> \in interrupted'
    BY <1>0, <1>4, <1>5, <2>1 DEF CopyIsLock, Phase, At, Artifact
  <2> QED BY <1>0, <1>1, <1>3, <1>6, <2>1 DEF LockedIsWhole, At
<1>13. UpdateKeepsReaders'
  BY <1>0, <1>1, <1>2, <1>3, <1>6 DEF UpdateKeepsReaders, At, Artifact
<1> QED BY <1>7, <1>8, <1>9, <1>10, <1>11, <1>12, <1>13 DEF IInv

\* A command whose names the lockfile does not have ends before it has done anything.
LEMMA FinishStep ==
  ASSUME IInv, NEW c \in Commands, Finish(c), command[c].pc = "open",
         UNCHANGED <<cache, lock, overlapped, interrupted>>
  PROVE  IInv'
<1>1. Stop(c) BY DEF Stop, At
<1> QED BY <1>1, StopStep

\* A command starts, reads or checks: no file is written.
LEMMA QuietSteps ==
  ASSUME IInv, NEW c \in Commands,
         \/ \E op \in Op : \E names \in (SUBSET Names) \ {{}} : Start(c, op, names)
         \/ OpenLock(c) \/ ReadSource(c) \/ CheckArtifact(c) \/ LoadLock(c)
  PROVE  IInv'
<1>0. TypeOK /\ Phases /\ OneWriter /\ CopyIsLock /\ TornIsWritten /\ WriterKnows
        /\ LockedIsWhole /\ UpdateKeepsReaders BY DEF IInv
<1>1. command[c] \in Run /\ Phase(command[c]) BY <1>0 DEF TypeOK, Phases
<1>2. ASSUME NEW op \in Op, NEW names \in (SUBSET Names) \ {{}}, Start(c, op, names) PROVE IInv'
  <2> DEFINE run == [Idle EXCEPT !.op = op, !.pc = IF op = "add" THEN "read" ELSE "open",
                       !.name = CHOOSE n \in names : TRUE, !.queue = IF op = "add" THEN {} ELSE names]
  <2>1. (CHOOSE n \in names : TRUE) \in Names BY <1>2
  <2>2. run \in Run BY <2>1, IdleRun DEF Run, Op, PC, Idle
  <2>3. Phase(run) BY <2>1, <2>2 DEF Phase, Idle, Op, Installs, none, Writes
  <2>4. /\ command' = [command EXCEPT ![c] = run] /\ UNCHANGED <<cache, lock, interrupted>>
        /\ overlapped' = (overlapped \/ (op \in Writes /\ \E d \in Commands \ {c} : command[d].op \in Writes))
        /\ At(c, "idle")
    BY <1>2 DEF Start
  <2>5. run.op = op /\ run.pc \in {"read", "open"} BY DEF Idle
  <2> HIDE DEF run
  <2> QED BY <1>0, <2>2, <2>3, <2>4, <2>5, QuietStep DEF At, TypeOK
<1>3. CASE OpenLock(c)
  <2> DEFINE names == {n \in command[c].queue : lock[n] # none}
             first == IF names = {} THEN none ELSE CHOOSE n \in names : TRUE
             next  == CASE command[c].op = "remove" -> "unlink" [] command[c].op = "load" -> "fetch"
                        [] OTHER -> "read"
             run   == [command[c] EXCEPT
                         !.pc = next, !.name = first, !.queue = IF command[c].op = "update" THEN names ELSE {},
                         !.copy = IF command[c].op = "remove" THEN lock ELSE @,
                         !.digest = IF command[c].op = "update" THEN none ELSE lock[first],
                         !.raced = command[c].op = "load" /\ \E d \in Commands :
                                     At(d, "save") /\ command[d].op = "remove" /\ command[d].name = first]
  <2>0. /\ command[c].pc = "open" /\ UNCHANGED <<cache, lock, overlapped, interrupted>>
        /\ IF names = {} THEN Finish(c) ELSE command' = [command EXCEPT ![c] = run]
    BY <1>3 DEF OpenLock, At, Quiet
  <2>1. CASE names = {}
    BY <2>0, <2>1, FinishStep
  <2>2. CASE names # {}
    <3>1. first \in names /\ first \in Names /\ lock[first] # none /\ names \in SUBSET Names
      BY <1>1, <2>2 DEF Run
    <3>2. lock[first] \in Digests /\ <<first, lock[first]>> \in Builds
      BY <1>0, <3>1 DEF TypeOK, LockFile
    <3> HIDE DEF first, names
    <3>3. next \in {"unlink", "fetch", "read"} OBVIOUS
    <3>4. run \in Run
      BY <1>0, <1>1, <3>1, <3>2, <3>3 DEF Run, TypeOK, PC
    <3>5. /\ run.pc = next /\ run.op = command[c].op /\ run.name = first
          /\ run.copy = IF command[c].op = "remove" THEN lock ELSE command[c].copy
          /\ run.digest = IF command[c].op = "update" THEN none ELSE lock[first]
          /\ run.raced = (command[c].op = "load" /\ \E d \in Commands :
                            At(d, "save") /\ command[d].op = "remove" /\ command[d].name = first)
      BY <1>1 DEF Run
    <3>6. command' = [command EXCEPT ![c] = run] BY <2>0, <2>2
    <3> HIDE DEF run
    <3>7. command[c].op \in Op BY <1>1, <2>0 DEF Phase, Run
    <3>8. Phase(run)
      BY <2>0, <3>1, <3>2, <3>5, <3>7 DEF Phase, Op, Installs, none, Writes
    <3>9. ~overlapped /\ next = "fetch" /\ cache[<<first, lock[first]>>] # "whole" =>
            run.raced \/ <<first, lock[first]>> \in interrupted
      BY <1>0, <3>1, <3>5, <3>7 DEF LockedIsWhole, Op
    <3>10. next = "unlink" => run.copy = lock BY <3>5, <3>7 DEF Op
    <3>11. next = "fetch" => run.digest = lock[first] BY <3>5, <3>7 DEF Op
    <3> HIDE DEF next
    <3> QED BY <1>0, <2>0, <3>3, <3>4, <3>5, <3>6, <3>8, <3>9, <3>10, <3>11, QuietStep DEF At, TypeOK
  <2> QED BY <2>1, <2>2
<1>5. CASE ReadSource(c)
  <2>1. PICK d \in Digests : /\ <<command[c].name, d>> \in Builds
                             /\ command' = [command EXCEPT ![c].pc = "exists", ![c].digest = d]
    BY <1>5 DEF ReadSource
  <2> DEFINE run == [command[c] EXCEPT !.pc = "exists", !.digest = d]
  <2>2. run \in Run /\ run.op = command[c].op /\ run.pc = "exists" BY <1>1 DEF Run, PC, Installs
  <2>3. Phase(run) BY <1>1, <1>5, <2>1, <2>2 DEF Phase, ReadSource, At, Installs, Run, Writes, none
  <2>4. command' = [command EXCEPT ![c] = run] BY <1>0, <2>1 DEF TypeOK
  <2> HIDE DEF run
  <2> QED BY <1>0, <1>5, <2>2, <2>3, <2>4, QuietStep DEF ReadSource, Quiet, At, TypeOK
<1>6. CASE CheckArtifact(c)
  <2> DEFINE next == IF cache[Artifact(c)] = "absent" THEN "create" ELSE "lock"
             run  == [command[c] EXCEPT !.pc = next]
  <2>1. /\ run \in Run /\ run.op = command[c].op /\ run.pc = next
        /\ run.name = command[c].name /\ run.digest = command[c].digest
    BY <1>1 DEF Run, PC, Installs
  <2>2. Phase(run) BY <1>1, <1>6, <2>1 DEF Phase, CheckArtifact, At, Installs, Run, Writes, none
  <2>3. command' = [command EXCEPT ![c] = run] BY <1>0, <1>6 DEF TypeOK, CheckArtifact, Goto
  <2>4. command[c].pc = "exists" /\ UNCHANGED <<cache, lock, overlapped, interrupted>>
    BY <1>6 DEF CheckArtifact, At, Quiet
  <2>5. ~overlapped /\ next = "lock" => cache[Artifact(c)] = "whole" \/ Artifact(c) \in interrupted
    <3>1. Artifact(c) \in Builds BY <1>1, <2>4 DEF Artifact, Phase, Installs
    <3>2. cache[Artifact(c)] \in File BY <1>0, <3>1 DEF TypeOK
    <3>3. ASSUME ~overlapped, Artifact(c) \notin interrupted PROVE cache[Artifact(c)] # "torn"
      <4>1. \A d \in Commands : At(d, "fill") => d = c
        BY <1>0, <1>1, <2>4, <3>3 DEF OneWriter, Phases, Phase, At, Installs
      <4> QED BY <1>0, <2>4, <3>1, <3>3, <4>1 DEF TornIsWritten, At
    <3> QED BY <3>2, <3>3 DEF File
  <2>6. next = "create" => cache[Artifact(c)] = "absent" OBVIOUS
  <2>7. next \in {"create", "lock"} OBVIOUS
  <2> HIDE DEF run, next
  <2> QED BY <1>0, <2>1, <2>2, <2>3, <2>4, <2>5, <2>6, <2>7, QuietStep DEF At, TypeOK, Artifact
<1>7. CASE LoadLock(c)
  <2> DEFINE run == [command[c] EXCEPT !.pc = "save", !.copy = lock]
  <2>1. /\ run \in Run /\ run.op = command[c].op /\ run.pc = "save" /\ run.copy = lock
        /\ run.name = command[c].name /\ run.digest = command[c].digest
    BY <1>0, <1>1 DEF Run, PC, TypeOK
  <2>2. command[c].pc = "lock" /\ UNCHANGED <<cache, lock, overlapped, interrupted>>
    BY <1>7 DEF LoadLock, At, Quiet
  <2>3. Phase(run) BY <1>1, <2>1, <2>2 DEF Phase, Installs, Writes, none
  <2>4. command' = [command EXCEPT ![c] = run] BY <1>0, <1>7 DEF TypeOK, LoadLock
  <2> HIDE DEF run
  <2> QED BY <1>0, <2>1, <2>2, <2>3, <2>4, QuietStep DEF At, TypeOK, WriterKnows, Artifact
<1> QED BY <1>2, <1>3, <1>5, <1>6, <1>7

\* The artifact is created: nothing locked names it, and no reader found it whole.
LEMMA CreateStep == ASSUME IInv, NEW c \in Commands, CreateArtifact(c), ~Stop(c) PROVE IInv'
<1>0. TypeOK /\ Phases /\ OneWriter /\ CopyIsLock /\ TornIsWritten /\ WriterKnows
        /\ LockedIsWhole /\ UpdateKeepsReaders BY DEF IInv
<1> DEFINE run == [command[c] EXCEPT !.pc = "fill", !.open = TRUE]
<1>1. command[c] \in Run /\ Phase(command[c]) BY <1>0 DEF TypeOK, Phases
<1>2. /\ command[c].pc = "create" /\ UNCHANGED <<lock, overlapped, interrupted>>
      /\ cache' = [cache EXCEPT ![Artifact(c)] = "torn"]
  BY DEF CreateArtifact, At, Quiet
<1>3. command' = [command EXCEPT ![c] = run] BY <1>0 DEF CreateArtifact, TypeOK
<1>4. /\ run \in Run /\ run.op = command[c].op /\ run.pc = "fill" /\ run.open
      /\ run.name = command[c].name /\ run.digest = command[c].digest
  BY <1>1 DEF Run, PC, Installs
<1>5. Phase(run) BY <1>1, <1>2, <1>4 DEF Phase, Installs, Writes, none
<1> HIDE DEF run
<1>6. command'[c] = run /\ \A d \in Commands \ {c} : command'[d] = command[d] BY <1>0, <1>3 DEF TypeOK
<1>7. Artifact(c) \in Builds /\ Artifact(c)' = Artifact(c)
  BY <1>1, <1>2, <1>4, <1>6 DEF Artifact, Phase, Installs
<1>8. /\ cache' \in [Builds -> File] /\ cache'[Artifact(c)] = "torn"
      /\ \A a \in Builds \ {Artifact(c)} : cache'[a] = cache[a]
  BY <1>0, <1>2, <1>7 DEF TypeOK, File
<1>9. ASSUME ~overlapped PROVE cache[Artifact(c)] = "absent"
  BY <1>0, <1>2, <1>9 DEF WriterKnows, At
<1>10. ASSUME ~overlapped, NEW d \in Commands \ {c} PROVE command[d].op \notin Writes
  BY <1>0, <1>1, <1>2, <1>10 DEF OneWriter, Phase, Installs
<1>11. TypeOK' BY <1>0, <1>2, <1>3, <1>4, <1>8 DEF TypeOK
<1>12. Phases' BY <1>0, <1>5, <1>6 DEF Phases
<1>13. OneWriter' BY <1>0, <1>2, <1>4, <1>6 DEF OneWriter
<1>14. CopyIsLock' BY <1>0, <1>2, <1>4, <1>6 DEF CopyIsLock
<1>15. TornIsWritten'
  BY <1>0, <1>2, <1>4, <1>6, <1>7, <1>8 DEF TornIsWritten, At, Artifact
<1>16. WriterKnows'
  <2>1. SUFFICES ASSUME ~overlapped, NEW d \in Commands \ {c}
                 PROVE  command[d].pc \notin {"create", "fill", "lock", "save"}
    BY <1>2, <1>4, <1>6 DEF WriterKnows, At
  <2> QED BY <1>0, <1>10, <2>1 DEF Phases, Phase, Installs
<1>17. LockedIsWhole'
  <2>1. SUFFICES ASSUME ~overlapped, NEW n \in Names, lock[n] # none
                 PROVE  cache'[<<n, lock[n]>>] = "whole" \/ <<n, lock[n]>> \in interrupted'
    BY <1>2 DEF LockedIsWhole
  <2>2. \A d \in Commands : ~(At(d, "save") /\ command[d].op = "remove")
    BY <1>2, <1>10, <2>1 DEF At, Writes
  <2>3. cache[<<n, lock[n]>>] = "whole" \/ <<n, lock[n]>> \in interrupted
    BY <1>0, <2>1, <2>2 DEF LockedIsWhole
  <2>4. <<n, lock[n]>> \in Builds BY <1>0, <2>1 DEF TypeOK, LockFile
  <2> QED BY <1>2, <1>8, <1>9, <2>1, <2>3, <2>4
<1>18. UpdateKeepsReaders'
  <2>1. SUFFICES ASSUME NEW d \in Commands \ {c}, ~overlapped, At(d, "fetch"),
                        cache'[Artifact(d)] # "whole"
                 PROVE  command[d].raced \/ Artifact(d) \in interrupted'
    BY <1>2, <1>4, <1>6 DEF UpdateKeepsReaders, At, Artifact
  <2>2. Artifact(d) \in Builds BY <1>0, <2>1 DEF Phases, Phase, At, Artifact
  <2>3. cache[Artifact(d)] # "whole" BY <1>8, <1>9, <2>1, <2>2
  <2> QED BY <1>0, <1>2, <2>1, <2>3 DEF UpdateKeepsReaders
<1> QED BY <1>11, <1>12, <1>13, <1>14, <1>15, <1>16, <1>17, <1>18 DEF IInv

\* The artifact is filled: it is whole from now on, unless its name is gone.
LEMMA FillStep == ASSUME IInv, NEW c \in Commands, FillArtifact(c), ~Stop(c) PROVE IInv'
<1>0. TypeOK /\ Phases /\ OneWriter /\ CopyIsLock /\ TornIsWritten /\ WriterKnows
        /\ LockedIsWhole /\ UpdateKeepsReaders BY DEF IInv
<1> DEFINE run == [command[c] EXCEPT !.pc = "lock", !.open = FALSE]
<1>1. command[c] \in Run /\ Phase(command[c]) BY <1>0 DEF TypeOK, Phases
<1>2. /\ command[c].pc = "fill" /\ UNCHANGED <<lock, overlapped>>
      /\ cache' = IF command[c].open THEN [cache EXCEPT ![Artifact(c)] = "whole"] ELSE cache
      /\ interrupted' = IF command[c].open THEN interrupted \ {Artifact(c)} ELSE interrupted
  BY DEF FillArtifact, At
<1>3. command' = [command EXCEPT ![c] = run] BY <1>0 DEF FillArtifact, TypeOK
<1>4. /\ run \in Run /\ run.op = command[c].op /\ run.pc = "lock"
      /\ run.name = command[c].name /\ run.digest = command[c].digest
  BY <1>1 DEF Run, PC, Installs
<1>5. Phase(run) BY <1>1, <1>2, <1>4 DEF Phase, Installs, Writes, none
<1> HIDE DEF run
<1>6. command'[c] = run /\ \A d \in Commands \ {c} : command'[d] = command[d] BY <1>0, <1>3 DEF TypeOK
<1>7. Artifact(c) \in Builds /\ Artifact(c)' = Artifact(c)
  BY <1>1, <1>2, <1>4, <1>6 DEF Artifact, Phase, Installs
<1>8. cache' \in [Builds -> File] /\ \A a \in Builds : cache'[a] = cache[a] \/ cache'[a] = "whole"
  BY <1>0, <1>2, <1>7 DEF TypeOK, File
<1>9. ASSUME ~overlapped PROVE cache'[Artifact(c)] = "whole"
  BY <1>0, <1>2, <1>7, <1>9 DEF WriterKnows, At, TypeOK
<1>10. ASSUME ~overlapped, NEW d \in Commands \ {c} PROVE command[d].op \notin Writes
  BY <1>0, <1>1, <1>2, <1>10 DEF OneWriter, Phase, Installs
<1>11. TypeOK' BY <1>0, <1>2, <1>3, <1>4, <1>8 DEF TypeOK
<1>12. Phases' BY <1>0, <1>5, <1>6 DEF Phases
<1>13. OneWriter' BY <1>0, <1>2, <1>4, <1>6 DEF OneWriter
<1>14. CopyIsLock' BY <1>0, <1>2, <1>4, <1>6 DEF CopyIsLock
<1>15. TornIsWritten'
  <2>1. ASSUME ~overlapped, NEW a \in Builds, cache'[a] = "torn" PROVE a \in interrupted'
    <3>1. CASE a = Artifact(c) BY <1>9, <2>1, <3>1
    <3>2. CASE a # Artifact(c)
      <4>1. \A d \in Commands \ {c} : ~At(d, "fill")
        BY <1>0, <1>10, <2>1 DEF Phases, Phase, Installs, At
      <4>2. cache[a] = "torn" BY <1>8, <2>1
      <4>3. a \in interrupted BY <1>0, <1>2, <2>1, <3>2, <4>1, <4>2 DEF TornIsWritten, At
      <4> QED BY <1>2, <3>2, <4>3
    <3> QED BY <3>1, <3>2
  <2> QED BY <1>2, <2>1 DEF TornIsWritten
<1>16. WriterKnows'
  <2>1. ASSUME ~overlapped, NEW d \in Commands \ {c}
        PROVE  command[d].pc \notin {"create", "fill", "lock", "save"}
    BY <1>0, <1>10, <2>1 DEF Phases, Phase, Installs
  <2> QED BY <1>2, <1>4, <1>6, <1>7, <1>9, <2>1 DEF WriterKnows, At
<1>17. LockedIsWhole'
  <2>1. SUFFICES ASSUME ~overlapped, NEW n \in Names, lock[n] # none
                 PROVE  cache'[<<n, lock[n]>>] = "whole" \/ <<n, lock[n]>> \in interrupted'
    BY <1>2 DEF LockedIsWhole
  <2>2. \A d \in Commands : ~(At(d, "save") /\ command[d].op = "remove")
    BY <1>2, <1>10, <2>1 DEF At, Writes
  <2>3. cache[<<n, lock[n]>>] = "whole" \/ <<n, lock[n]>> \in interrupted
    BY <1>0, <2>1, <2>2 DEF LockedIsWhole
  <2>4. <<n, lock[n]>> \in Builds BY <1>0, <2>1 DEF TypeOK, LockFile
  <2> QED BY <1>2, <1>8, <1>9, <2>1, <2>3, <2>4
<1>18. UpdateKeepsReaders'
  <2>1. SUFFICES ASSUME NEW d \in Commands \ {c}, ~overlapped, At(d, "fetch"),
                        cache'[Artifact(d)] # "whole"
                 PROVE  command[d].raced \/ Artifact(d) \in interrupted'
    BY <1>2, <1>4, <1>6 DEF UpdateKeepsReaders, At, Artifact
  <2>2. Artifact(d) \in Builds BY <1>0, <2>1 DEF Phases, Phase, At, Artifact
  <2>3. cache[Artifact(d)] # "whole" /\ Artifact(d) # Artifact(c) BY <1>8, <1>9, <2>1, <2>2
  <2> QED BY <1>0, <1>2, <2>1, <2>3 DEF UpdateKeepsReaders
<1> QED BY <1>11, <1>12, <1>13, <1>14, <1>15, <1>16, <1>17, <1>18 DEF IInv

\* The lockfile is replaced: its entries are those it had, but for the command's own.
LEMMA SaveKeepsOthers ==
  ASSUME IInv, NEW c \in Commands, SaveLock(c), ~Stop(c), ~overlapped
  PROVE  lock' = [lock EXCEPT ![command[c].name] =
                    IF command[c].op = "remove" THEN none ELSE command[c].digest]
BY DEF SaveLock, IInv, CopyIsLock, At

\* The lockfile that is written names builds that were installed.
LEMMA SaveLockFile == ASSUME IInv, NEW c \in Commands, SaveLock(c), ~Stop(c) PROVE lock' \in LockFile
<1>1. command[c] \in Run /\ Phase(command[c]) /\ command[c].pc = "save"
  BY DEF IInv, TypeOK, Phases, SaveLock, At
<1>2. <<command[c].name, command[c].digest>> \in Builds BY <1>1 DEF Phase
<1>3. command[c].name \in Names /\ command[c].digest \in Digests BY <1>2, BuildsAssumption
<1>4. command[c].copy \in LockFile BY <1>1 DEF Run
<1> QED BY <1>2, <1>3, <1>4 DEF SaveLock, LockFile

\* Saving the lockfile keeps the invariant: what is named now was installed by its writer.
LEMMA SaveStep == ASSUME IInv, NEW c \in Commands, SaveLock(c), ~Stop(c) PROVE IInv'
<1>0. TypeOK /\ Phases /\ OneWriter /\ CopyIsLock /\ TornIsWritten /\ WriterKnows
        /\ LockedIsWhole /\ UpdateKeepsReaders BY DEF IInv
<1> DEFINE left == command[c].queue \ {command[c].name}
           ends == left = {} \/ command[c].op # "update"
           run  == IF ends THEN Idle
                   ELSE [Idle EXCEPT !.op = command[c].op, !.pc = "read", !.name = CHOOSE n \in left : TRUE,
                               !.queue = left]
<1>1. command[c] \in Run /\ Phase(command[c]) BY <1>0 DEF TypeOK, Phases
<1>2. /\ command[c].pc = "save" /\ UNCHANGED <<cache, overlapped, interrupted>>
      /\ IF ends THEN Finish(c)
         ELSE command' = [command EXCEPT ![c] =
                [Idle EXCEPT !.op = command[c].op, !.pc = "read", !.name = CHOOSE n \in left : TRUE,
                             !.queue = left]]
  BY DEF SaveLock, At, Quiet
<1>3. command' = [command EXCEPT ![c] = run]
  <2>1. CASE ends BY <1>2, <2>1 DEF Finish
  <2>2. CASE ~ends BY <1>0, <1>2, <2>2 DEF TypeOK
  <2> QED BY <2>1, <2>2
<1>4. run \in Run /\ Phase(run) /\ run.pc \in {"idle", "read"}
        /\ (run.op \in Writes => command[c].op \in Writes)
  <2>1. CASE ends BY <2>1, IdleRun DEF Idle, Writes
  <2>2. CASE ~ends
    <3>1. (CHOOSE n \in left : TRUE) \in Names /\ left \in SUBSET Names BY <1>1, <2>2 DEF Run
    <3>2. /\ run \in Run /\ run.pc = "read" /\ run.op = "update"
          /\ run.name = CHOOSE n \in left : TRUE
      <4> HIDE DEF left
      <4>1. Idle \in Run /\ command[c].op = "update" BY <2>2, IdleRun
      <4> QED BY <2>2, <3>1, <4>1 DEF Run, PC, Op
    <3> QED BY <2>2, <3>1, <3>2 DEF Phase, Installs, Writes, none
  <2> QED BY <2>1, <2>2
<1> HIDE DEF run, ends, left
<1>6. command'[c] = run /\ \A d \in Commands \ {c} : command'[d] = command[d] BY <1>0, <1>3 DEF TypeOK
<1>7. command[c].op \in Writes BY <1>1, <1>2 DEF Phase
<1>8. ASSUME ~overlapped, NEW d \in Commands \ {c} PROVE command[d].op \notin Writes
  BY <1>0, <1>7, <1>8 DEF OneWriter
<1>11. TypeOK' BY <1>0, <1>2, <1>3, <1>4, SaveLockFile DEF TypeOK
<1>12. Phases' BY <1>0, <1>4, <1>6 DEF Phases
<1>13. OneWriter' BY <1>0, <1>2, <1>4, <1>6 DEF OneWriter
<1>14. CopyIsLock'
  <2>1. ASSUME ~overlapped, NEW d \in Commands \ {c}
        PROVE  command[d].pc \notin {"unlink", "save"}
    BY <1>0, <1>8, <2>1 DEF Phases, Phase
  <2> QED BY <1>2, <1>4, <1>6, <2>1 DEF CopyIsLock
<1>15. TornIsWritten' BY <1>0, <1>2, <1>6 DEF TornIsWritten, At, Artifact
<1>16. WriterKnows' BY <1>0, <1>2, <1>4, <1>6 DEF WriterKnows, At, Artifact
<1>17. LockedIsWhole'
  <2>1. SUFFICES ASSUME ~overlapped, NEW n \in Names, lock'[n] # none
                 PROVE  cache[<<n, lock'[n]>>] = "whole" \/ <<n, lock'[n]>> \in interrupted
    BY <1>2 DEF LockedIsWhole
  <2>2. lock \in [Names -> Digests \cup {none}] BY <1>0 DEF TypeOK, LockFile
  <2>3. lock' = [lock EXCEPT ![command[c].name] =
                  IF command[c].op = "remove" THEN none ELSE command[c].digest]
    BY <2>1, SaveKeepsOthers
  <2>4. CASE n = command[c].name
    BY <1>0, <1>2, <2>1, <2>2, <2>3, <2>4 DEF WriterKnows, At, Artifact
  <2>5. CASE n # command[c].name
    <3>1. lock'[n] = lock[n] BY <2>2, <2>3, <2>5
    <3>2. \A d \in Commands : ~(At(d, "save") /\ command[d].op = "remove" /\ command[d].name = n)
      BY <1>8, <2>1, <2>5 DEF Writes
    <3> QED BY <1>0, <2>1, <3>1, <3>2 DEF LockedIsWhole
  <2> QED BY <2>4, <2>5
<1>18. UpdateKeepsReaders' BY <1>0, <1>2, <1>4, <1>6 DEF UpdateKeepsReaders, At, Artifact
<1> QED BY <1>11, <1>12, <1>13, <1>14, <1>15, <1>16, <1>17, <1>18 DEF IInv

\* The artifact's name goes: whoever has read that it is locked is raced.
LEMMA UnlinkStep == ASSUME IInv, NEW c \in Commands, Unlink(c), ~Stop(c) PROVE IInv'
<1>0. TypeOK /\ Phases /\ OneWriter /\ CopyIsLock /\ TornIsWritten /\ WriterKnows
        /\ LockedIsWhole /\ UpdateKeepsReaders BY DEF IInv
<1>1. \A d \in Commands : command[d] \in Run /\ Phase(command[d]) BY <1>0 DEF TypeOK, Phases
<1>2. /\ command[c].pc = "unlink" /\ UNCHANGED <<lock, overlapped>>
      /\ interrupted' = interrupted \ {Artifact(c)}
      /\ cache' = [cache EXCEPT ![Artifact(c)] = "absent"]
  BY DEF Unlink, At
<1>3. command[c].op = "remove" /\ command[c].op \in Writes
  BY <1>1, <1>2 DEF Phase, Writes
<1>4. command'[c] = [command[c] EXCEPT !.pc = "save"] BY DEF Unlink
<1>5. ASSUME NEW d \in Commands \ {c}
      PROVE  /\ command'[d] \in Run
             /\ command[d].raced \/ (At(d, "fetch") /\ Artifact(d) = Artifact(c)) => command'[d].raced
             /\ command'[d].op = command[d].op /\ command'[d].pc = command[d].pc
             /\ command'[d].name = command[d].name /\ command'[d].digest = command[d].digest
             /\ command'[d].copy = command[d].copy
  <2> DEFINE open  == command[d].open /\ Artifact(d) # Artifact(c)
             raced == command[d].raced \/ (At(d, "fetch") /\ Artifact(d) = Artifact(c))
  <2>1. command'[d] = [command[d] EXCEPT !.open = open, !.raced = raced] BY DEF Unlink
  <2>2. open \in BOOLEAN /\ raced \in BOOLEAN OBVIOUS
  <2>4. command[d].raced \/ (At(d, "fetch") /\ Artifact(d) = Artifact(c)) => raced OBVIOUS
  <2> HIDE DEF open, raced
  <2>5. command[d] \in Run BY <1>1
  <2>6. /\ command'[d] \in Run /\ command'[d].raced = raced
        /\ command'[d].op = command[d].op /\ command'[d].pc = command[d].pc
        /\ command'[d].name = command[d].name /\ command'[d].digest = command[d].digest
        /\ command'[d].copy = command[d].copy
    BY <2>1, <2>2, <2>5 DEF Run
  <2> QED BY <2>4, <2>6
<1>6. /\ command' \in [Commands -> Run] /\ command'[c].pc = "save"
      /\ command'[c].op = command[c].op /\ command'[c].name = command[c].name
      /\ command'[c].digest = command[c].digest /\ command'[c].copy = command[c].copy
  <2>1. command'[c] \in Run BY <1>1, <1>4 DEF Run, PC
  <2>2. command' = [d \in Commands |-> command'[d]] BY DEF Unlink
  <2> QED BY <1>1, <1>4, <1>5, <2>1, <2>2 DEF Run
<1>7. \A d \in Commands : Artifact(d)' = Artifact(d) BY <1>5, <1>6 DEF Artifact
<1>8. Artifact(c) \in Builds BY <1>1, <1>2 DEF Phase, Artifact
<1>9. /\ cache' \in [Builds -> File] /\ cache'[Artifact(c)] = "absent"
      /\ \A a \in Builds \ {Artifact(c)} : cache'[a] = cache[a]
  BY <1>0, <1>2, <1>8 DEF TypeOK, File
<1>10. ASSUME ~overlapped, NEW d \in Commands \ {c} PROVE command[d].op \notin Writes
  BY <1>0, <1>3, <1>10 DEF OneWriter
<1>11. TypeOK' BY <1>0, <1>2, <1>6, <1>9 DEF TypeOK
<1>12. Phases'
  <2>1. ASSUME NEW d \in Commands PROVE Phase(command'[d])
    <3>1. CASE d = c BY <1>1, <1>2, <1>3, <1>6, <3>1 DEF Phase, Installs, none
    <3>2. CASE d # c BY <1>1, <1>5, <3>2 DEF Phase
    <3> QED BY <3>1, <3>2
  <2> QED BY <2>1 DEF Phases
<1>13. OneWriter' BY <1>0, <1>2, <1>5, <1>6 DEF OneWriter
<1>14. CopyIsLock' BY <1>0, <1>2, <1>5, <1>6 DEF CopyIsLock
<1>15. TornIsWritten'
  <2>1. SUFFICES ASSUME ~overlapped, NEW a \in Builds, cache'[a] = "torn", a \notin interrupted'
                 PROVE  \E d \in Commands : At(d, "fill")' /\ Artifact(d)' = a
    BY <1>2 DEF TornIsWritten
  <2>2. cache[a] = "torn" /\ a \notin interrupted BY <1>2, <1>9, <2>1
  <2>3. PICK d \in Commands : At(d, "fill") /\ Artifact(d) = a BY <1>0, <2>1, <2>2 DEF TornIsWritten
  <2>4. d # c BY <1>2, <2>3 DEF At
  <2> QED BY <1>5, <1>7, <2>3, <2>4 DEF At
<1>16. WriterKnows'
  <2>1. ASSUME ~overlapped, NEW d \in Commands \ {c}
        PROVE  command[d].pc \notin {"create", "fill", "lock", "save"}
    BY <1>1, <1>10, <2>1 DEF Phase, Installs
  <2> QED BY <1>2, <1>3, <1>5, <1>6, <2>1 DEF WriterKnows, At
<1>17. LockedIsWhole'
  <2>1. SUFFICES ASSUME ~overlapped, NEW n \in Names, lock[n] # none, n # command[c].name
                 PROVE  cache'[<<n, lock[n]>>] = "whole" \/ <<n, lock[n]>> \in interrupted'
    BY <1>2, <1>3, <1>5, <1>6 DEF LockedIsWhole, At
  <2>2. \A d \in Commands : ~(At(d, "save") /\ command[d].op = "remove")
    BY <1>2, <1>10, <2>1 DEF At, Writes
  <2>3. cache[<<n, lock[n]>>] = "whole" \/ <<n, lock[n]>> \in interrupted
    BY <1>0, <2>1, <2>2 DEF LockedIsWhole
  <2>4. <<n, lock[n]>> \in Builds /\ <<n, lock[n]>> # Artifact(c)
    BY <1>0, <2>1 DEF TypeOK, LockFile, Artifact
  <2> QED BY <1>2, <1>9, <2>3, <2>4
<1>18. UpdateKeepsReaders'
  <2>1. SUFFICES ASSUME NEW d \in Commands \ {c}, ~overlapped, At(d, "fetch"),
                        cache'[Artifact(d)] # "whole"
                 PROVE  command'[d].raced \/ Artifact(d) \in interrupted'
    BY <1>2, <1>5, <1>6, <1>7 DEF UpdateKeepsReaders, At
  <2>2. Artifact(d) \in Builds BY <1>1, <2>1 DEF Phase, At, Artifact
  <2>3. CASE Artifact(d) = Artifact(c) BY <1>5, <2>1, <2>3
  <2>4. CASE Artifact(d) # Artifact(c)
    <3>1. cache[Artifact(d)] # "whole" BY <1>9, <2>1, <2>2, <2>4
    <3> QED BY <1>0, <1>2, <1>5, <2>1, <2>4, <3>1 DEF UpdateKeepsReaders
  <2> QED BY <2>3, <2>4
<1> QED BY <1>11, <1>12, <1>13, <1>14, <1>15, <1>16, <1>17, <1>18 DEF IInv

\* Every step keeps the invariant.
LEMMA NextIInv == IInv /\ [Next]_vars => IInv'
<1> SUFFICES ASSUME IInv, [Next]_vars PROVE IInv' OBVIOUS
<1>1. ASSUME NEW c \in Commands, Step(c) \/ Kill(c) PROVE IInv'
  <2>1. CASE Stop(c) BY <2>1, StopStep
  <2>2. CASE ~Stop(c)
    <3>1. ~Refuse(c) /\ ~Fetch(c) /\ ~Kill(c) BY <2>2 DEF Refuse, Fetch, Kill
    <3> QED BY <1>1, <2>2, <3>1, QuietSteps, CreateStep, FillStep, SaveStep, UnlinkStep DEF Step, Op
  <2> QED BY <2>1, <2>2
<1>2. CASE UNCHANGED vars
  BY <1>2 DEF vars, IInv, TypeOK, Phases, OneWriter, CopyIsLock, TornIsWritten, WriterKnows,
              LockedIsWhole, UpdateKeepsReaders, At, Artifact
<1> QED BY <1>1, <1>2 DEF Next

\* The inductive invariant holds throughout.
LEMMA Invariance == Spec => []IInv
BY InitIInv, NextIInv, PTL DEF Spec

-----------------------------------------------------------------------------
\* However add, update and remove follow one another, fail and are killed, what the
\* lockfile names is whole, as long as none overlaps another, unless a command was
\* interrupted at that very artifact since it was last written or removed.
THEOREM LockfileHolds == Spec => []LockedIsWhole
<1>1. IInv => LockedIsWhole BY DEF IInv
<1> QED BY Invariance, <1>1, PTL

\* A run that has read the lockfile finds what it names, unless a remove came in between
\* or a command that failed or was killed had left it torn or gone.
THEOREM ReadersKeepTheirBuild == Spec => []UpdateKeepsReaders
<1>1. IInv => UpdateKeepsReaders BY DEF IInv
<1> QED BY Invariance, <1>1, PTL

\* No command changes the entry of another's plugin, killed or not, unless two overlap.
THEOREM EntriesAreTheirOwn == Spec => OthersKept
<1> DEFINE Own == ~overlapped => \A n \in Names :
                    lock'[n] # lock[n] => \E c \in Commands : At(c, "save") /\ command[c].name = n
<1>1. ASSUME IInv, [Next]_vars PROVE Own \/ UNCHANGED vars
  <2>1. ASSUME NEW c \in Commands, SaveLock(c), ~Stop(c) PROVE Own
    <3>1. ASSUME ~overlapped, NEW n \in Names, n # command[c].name PROVE lock'[n] = lock[n]
      BY <1>1, <2>1, <3>1, SaveKeepsOthers DEF IInv, TypeOK, LockFile
    <3> QED BY <2>1, <3>1 DEF SaveLock
  <2>2. ASSUME NEW c \in Commands, Step(c) \/ Kill(c), ~SaveLock(c) \/ Stop(c) PROVE UNCHANGED lock
    BY <2>2 DEF Step, Kill, Start, OpenLock, Refuse, ReadSource, CheckArtifact, CreateArtifact,
                FillArtifact, LoadLock, Unlink, Fetch, Stop
  <2> QED BY <1>1, <2>1, <2>2 DEF Next
<1>2. IInv /\ [Next]_vars => [Own]_vars BY <1>1
<1> QED BY Invariance, <1>2, PTL DEF Spec, OthersKept
=============================================================================
