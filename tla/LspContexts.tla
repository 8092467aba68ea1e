------------------------------- MODULE LspContexts -------------------------------
(***************************************************************************)
(* The configuration contexts of the language server,                      *)
(* rust/ocomment/src/lsp.rs, in a session whose client pulls diagnostics.  *)
(*                                                                         *)
(* The server keeps a context (a loaded configuration) for every workspace *)
(* folder and caches one for every other directory a document lives in.    *)
(* Two handlers replace contexts: a reload, after a configuration file     *)
(* changed, and a change of the workspace folders.  The others look a      *)
(* context up.  Handlers run concurrently and interleave at their awaits,  *)
(* so a step is the code between two awaits: every lock is taken for one   *)
(* step only, and loading a configuration from disk has no await in it.    *)
(***************************************************************************)
EXTENDS SequencesExt, Integers

CONSTANTS
  Task,         \* the handlers that may be in progress (4 in tower-lsp)
  Doc,          \* open documents, each in a directory of its own
  Folder,       \* workspace folders the client may have open
  Opened,       \* the folders of the initialize request
  Home,         \* Home[d] is the set of folders whose root contains d
  Depth,        \* the path components of a folder's root
  MaxConfig,    \* bound: configurations 1..MaxConfig are on disk in turn
  OnSave,       \* those of them with lsp.on_save = true
  MaxVersion,   \* bound: the version of a document
  MaxReloads,   \* bound: reloads no configuration file asked for
  MaxMoves,     \* bound: changes of the workspace folders
  Sessions      \* the sessions: which configurations cannot be loaded, bounds
                \* of its own below these, how many handlers at a time, and
                \* whether it is spaced: the client's configuration events come
                \* so far apart that one is handled before the next is sent

Config == 1..MaxConfig
None   == 0                           \* no context, or one that did not load

ASSUME FolderAssumption ==
  /\ IsFiniteSet(Folder) /\ Opened \subseteq Folder
  /\ Home \in [Doc -> SUBSET Folder]
  /\ Depth \in [Folder -> Nat]
  /\ \A d \in Doc : \A f, g \in Home[d] : f # g => Depth[f] # Depth[g]

ASSUME ConfigAssumption ==
  /\ MaxConfig \in Nat \ {0} /\ OnSave \subseteq Config
  /\ MaxVersion \in Nat \ {0} /\ MaxReloads \in Nat /\ MaxMoves \in Nat
  /\ Sessions \subseteq [spaced : BOOLEAN, configs : Config, broken : SUBSET (Config \ {1}),
                         handlers : Nat, versions : 1..MaxVersion, moves : 0..MaxMoves]

VARIABLES
  session,      \* which session it is
  disk,         \* the configuration on disk
  pending,      \* the client has yet to tell of the last change of disk
  wanted,       \* the folders the client has open
  folders,      \* workspace_folders
  contexts,     \* workspace_contexts, in order
  standalone,   \* standalone_contexts: what each document's directory maps to
  generation,   \* configuration_generation
  version,      \* the version of each document
  held,         \* the last diagnostics the client got for each document
  task,         \* the handlers in progress
  reloads, moves

server == <<folders, contexts, standalone, generation>>
client == <<session, disk, pending, wanted, version, reloads, moves>>
vars   == <<server, client, held, task>>

Id      == (1..MaxVersion) \X Nat
NoId    == <<0, 0>>

Idle == [pc |-> "idle"]

-----------------------------------------------------------------------------
\* load_context for each root: reads what is on disk, from start to end in one step.
Load(roots) ==
  LET order == SetToSeq(roots)
  IN  [i \in DOMAIN order |-> [root |-> order[i], config |-> disk]]

Loadable == disk \notin session.broken

\* max_by_key takes the deepest root, and the last of equal ones.
Routes(d) == {i \in DOMAIN contexts : contexts[i].root \in Home[d]}

Route(d) == CHOOSE i \in Routes(d) : \A j \in Routes(d) :
  \/ Depth[contexts[j].root] < Depth[contexts[i].root]
  \/ Depth[contexts[j].root] = Depth[contexts[i].root] /\ j <= i

At(t, label) == task[t].pc = label
Step(t, next) == task' = [task EXCEPT ![t] = next]
Goto(t, label) == task' = [task EXCEPT ![t].pc = label]

\* A handler that replaces contexts is in progress.
Configuring == \E t \in Task : task[t].pc \in {"adopt", "folders", "extend", "clear", "bump"}

\* The server takes up another message.
Takes(t) ==
  At(t, "idle") /\ Cardinality({u \in Task : ~At(u, "idle")}) < session.handlers

MaySend == session.spaced => ~Configuring

\* initialize, with a configuration that loads.
Init ==
  /\ session \in Sessions /\ disk = 1 /\ pending = FALSE
  /\ wanted = Opened /\ folders = Opened /\ contexts = Load(Opened)
  /\ standalone = [d \in Doc |-> None]
  /\ generation = 0
  /\ version = [d \in Doc |-> 1]
  /\ held = [d \in Doc |-> [id |-> NoId, config |-> None]]
  /\ task = [t \in Task |-> Idle]
  /\ reloads = MaxReloads /\ moves = session.moves

-----------------------------------------------------------------------------
(* The client, and the user behind it. *)

\* Someone saves another .ocomment.toml; the client's watcher will see it.
EditConfig ==
  /\ disk < session.configs
  /\ disk' = disk + 1 /\ pending' = TRUE
  /\ UNCHANGED <<server, session, wanted, version, reloads, moves, held, task>>

\* did_change under the documents lock, for a version above the current one; a
\* stale version or an invalid batch changes nothing.
Change(d) ==
  /\ version[d] < session.versions
  /\ version' = [version EXCEPT ![d] = @ + 1]
  /\ UNCHANGED <<server, session, disk, pending, wanted, reloads, moves, held, task>>

-----------------------------------------------------------------------------
(* reload_configuration, lines 314 to 358. *)

\* did_change_watched_files after an edit, or did_change_configuration.  The folders
\* are read, and every context is loaded or none is.
StartReload(t) ==
  /\ Takes(t) /\ MaySend
  /\ \/ pending /\ pending' = FALSE /\ UNCHANGED reloads
     \/ reloads > 0 /\ reloads' = reloads - 1 /\ UNCHANGED pending
  /\ IF Loadable THEN Step(t, [pc |-> "adopt", loaded |-> Load(folders)])
                 ELSE UNCHANGED task
  /\ UNCHANGED <<server, session, disk, wanted, version, moves, held>>

\* Mutant of Adopt: contexts that exist already are kept.
AdoptKeeps(t) ==
  /\ At(t, "adopt")
  /\ contexts' = task[t].loaded \o contexts
  /\ Goto(t, "clear")
  /\ UNCHANGED <<client, folders, standalone, generation, held>>

\* The default context only lends its scope and is not modelled.
Adopt(t) ==
  /\ At(t, "adopt")
  /\ contexts' = task[t].loaded
  /\ Goto(t, "clear")
  /\ UNCHANGED <<client, folders, standalone, generation, held>>

\* Both handlers: the cache of the other directories is emptied.
Clear(t) ==
  /\ At(t, "clear")
  /\ standalone' = [d \in Doc |-> None]
  /\ Goto(t, "bump")
  /\ UNCHANGED <<client, folders, contexts, generation, held>>

\* Both handlers: the incremental scanners are dropped and the generation goes up.
\* With a client that pulls, the publications that follow a reload return at once.
Bump(t) ==
  /\ At(t, "bump")
  /\ generation' = generation + 1
  /\ Step(t, Idle)
  /\ UNCHANGED <<client, folders, contexts, standalone, held>>

-----------------------------------------------------------------------------
(* did_change_workspace_folders, lines 1210 to 1256. *)

\* The client opens and closes folders; what it opens is loaded at once, and a
\* folder that does not load is reported and gets no context.
StartMove(t, added, removed) ==
  /\ Takes(t) /\ MaySend
  /\ moves > 0 /\ moves' = moves - 1
  /\ added \cup removed # {}
  /\ wanted' = (wanted \ removed) \cup added
  /\ Step(t, [pc |-> "folders", added |-> added, removed |-> removed,
              loaded |-> IF Loadable THEN Load(added) ELSE <<>>])
  /\ UNCHANGED <<server, session, disk, pending, version, reloads, held>>

\* retain: the contexts whose folder was not removed, in order.
Kept(list, removed) ==
  LET kept[i \in 0..Len(list)] ==
        IF i = 0 THEN <<>>
        ELSE IF list[i].root \in removed THEN kept[i - 1] ELSE Append(kept[i - 1], list[i])
  IN  kept[Len(list)]

SetFolders(t) ==
  /\ At(t, "folders")
  /\ folders' = (folders \ task[t].removed) \cup task[t].added
  /\ Goto(t, "extend")
  /\ UNCHANGED <<client, contexts, standalone, generation, held>>

Extend(t) ==
  /\ At(t, "extend")
  /\ contexts' = Kept(contexts, task[t].removed) \o task[t].loaded
  /\ Goto(t, "clear")
  /\ UNCHANGED <<client, folders, standalone, generation, held>>

-----------------------------------------------------------------------------
(* diagnostic, lines 885 to 930, and will_save_wait_until, lines 849 to 882. *)

Ask(t, query) ==
  /\ Takes(t)
  /\ Step(t, query)
  /\ UNCHANGED <<server, client, held>>

\* A pull whose previous result id is still the current one gets "unchanged", and
\* the client keeps what it holds; every other pull is answered in full.
Diagnose(t, d) ==
  LET id == <<version[d], generation>> IN
  /\ held[d].id # id
  /\ Ask(t, [pc |-> "route", doc |-> d, kind |-> "items", id |-> id,
             config |-> None])

\* A will-save request first asks whether lsp.on_save is set.
WillSave(t, d) ==
  Ask(t, [pc |-> "route", doc |-> d, kind |-> "gate", id |-> NoId,
          config |-> None])

\* context_for_uri, lines 120 to 130: the contexts of the folders.
LookUp(t) ==
  LET d == task[t].doc IN
  /\ At(t, "route")
  /\ IF Routes(d) # {}
     THEN Step(t, [task[t] EXCEPT !.pc = "answer", !.config = contexts[Route(d)].config])
     ELSE Goto(t, "cache")
  /\ UNCHANGED <<server, client, held>>

\* Lines 136 to 145: the cached context, or one loaded from disk.
LookUpCache(t) ==
  LET d == task[t].doc IN
  /\ At(t, "cache")
  /\ \/ standalone[d] # None
        /\ Step(t, [task[t] EXCEPT !.pc = "answer", !.config = standalone[d]])
     \/ standalone[d] = None /\ Loadable
        /\ Step(t, [task[t] EXCEPT !.pc = "insert", !.config = disk])
     \/ standalone[d] = None /\ ~Loadable
        /\ Step(t, [task[t] EXCEPT !.pc = "answer", !.config = None])
  /\ UNCHANGED <<server, client, held>>

\* Lines 145 to 149: what was loaded is cached, after another await.
Insert(t) ==
  /\ At(t, "insert")
  /\ standalone' = [standalone EXCEPT ![task[t].doc] = task[t].config]
  /\ Goto(t, "answer")
  /\ UNCHANGED <<client, folders, contexts, generation, held>>

\* Mutant of Report: the result id is made when the items are there.
ReportLate(t) ==
  /\ At(t, "answer") /\ task[t].kind = "items"
  /\ held' = [held EXCEPT ![task[t].doc] =
       [id |-> <<task[t].id[1], generation>>, config |-> task[t].config]]
  /\ Step(t, Idle)
  /\ UNCHANGED <<server, client>>

\* The items go out under the result id made before they were computed.
Report(t) ==
  /\ At(t, "answer") /\ task[t].kind = "items"
  /\ held' = [held EXCEPT ![task[t].doc] = [id |-> task[t].id, config |-> task[t].config]]
  /\ Step(t, Idle)
  /\ UNCHANGED <<server, client>>

\* Without on_save the reply is empty; with it the context is looked up again for
\* the edits.
Gate(t) ==
  /\ At(t, "answer") /\ task[t].kind = "gate"
  /\ Step(t, IF task[t].config \in OnSave
               THEN [task[t] EXCEPT !.pc = "route", !.kind = "edits", !.config = None]
               ELSE Idle)
  /\ UNCHANGED <<server, client, held>>

\* The edits go out; a configuration that did not load makes the report invalid,
\* and the reply is empty.
ReplyEdits(t) ==
  /\ At(t, "answer") /\ task[t].kind = "edits"
  /\ Step(t, Idle)
  /\ UNCHANGED <<server, client, held>>

-----------------------------------------------------------------------------
Progress(t) ==
  \/ Adopt(t) \/ Clear(t) \/ Bump(t) \/ SetFolders(t) \/ Extend(t)
  \/ LookUp(t) \/ LookUpCache(t) \/ Insert(t) \/ Report(t) \/ Gate(t) \/ ReplyEdits(t)

Next ==
  \/ EditConfig
  \/ \E d \in Doc : Change(d)
  \/ \E t \in Task :
       \/ StartReload(t)
       \/ \E added \in SUBSET (Folder \ wanted), removed \in SUBSET wanted :
            StartMove(t, added, removed)
       \/ \E d \in Doc : Diagnose(t, d) \/ WillSave(t, d)
       \/ Progress(t)

Spec == Init /\ [][Next]_vars

-----------------------------------------------------------------------------
(* Properties. *)

\* No handler is between its replacement of contexts and its bump of the generation.
Bumped == \A t \in Task : task[t].pc \notin {"clear", "bump"}

\* The client shows what it holds as long as the server answers "unchanged".  So
\* whenever no handler has replaced contexts without raising the generation yet,
\* the diagnostics a document in a folder is held to under the current result id
\* were computed with the context the document has now, in whatever order the
\* handlers ran (the id of line 907 is made before the items of line 918, and the
\* generation goes up at lines 351 and 1255, after the contexts are replaced).
CurrentIdIsCurrent ==
  Bumped => \A d \in Doc :
    held[d].id = <<version[d], generation>> /\ Routes(d) # {} =>
      held[d].config = contexts[Route(d)].config

Roots == {contexts[i].root : i \in DOMAIN contexts}

\* docs/editors.md:11 says that in a multi-root session every workspace folder has
\* its own configuration.  Once the client has told of the last edit, it loads, and
\* the configuration handlers are done, every folder the client has open has one
\* context, and it is the configuration on disk.
FoldersCurrent ==
  session.spaced /\ ~Configuring /\ ~pending /\ Loadable =>
    /\ Roots = wanted /\ Len(contexts) = Cardinality(Roots)
    /\ \A i \in DOMAIN contexts : contexts[i].config = disk
=============================================================================
