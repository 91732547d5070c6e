----------------------------- MODULE HotReload -----------------------------
(***************************************************************************)
(* Hot reload of skills and of commands (ashpy/skills, ashpy/commands,      *)
(* which mirror each other): files on disk, the file watcher with its       *)
(* debounced reload, the registry, and the Watch streams of the skills.     *)
(* `registry`, `watcher` and `loader` are the files in ashpy/skills.        *)
(*                                                                         *)
(* The watcher's handlers run on a thread of watchdog's and only hand       *)
(* _trigger to the event loop.  Everything else (the debounce, every        *)
(* reload, every RPC) runs on the loop and reload awaits nothing, so while  *)
(* it scans only the disk changes.  Files are numbered in the order the     *)
(* loader sorts them.                                                       *)
(***************************************************************************)
EXTENDS Naturals, Sequences, FiniteSets

CONSTANTS Files,       \* paths, by number
          Skills,      \* what a file that parses may say
          Names,
          NameOf,      \* the name a skill has in a file: in the front matter
                       \* or, failing that, of the file's directory
          Absent,      \* no such file
          Malformed,   \* a file that does not parse or validate
          Streams,     \* Watch calls
          MaxChanges,  \* bound: changes of the disk
          MaxReloads   \* bound: Reload calls

Contents == Skills \union {Absent, Malformed}
Nothing  == 0

ASSUME ReloadAssumption ==
    /\ Files \subseteq Nat \ {Nothing}
    /\ NameOf \in [[file : Files, skill : Skills] -> Names]
    /\ Absent # Malformed
    /\ {Absent, Malformed} \cap Skills = {}
    /\ MaxChanges \in Nat
    /\ MaxReloads \in Nat

VARIABLES disk,      \* what each file holds
          watching,  \* observer.start() was called
          notices,   \* _trigger coroutines on their way to the loop
          pending,   \* _pending
          task,      \* _debounce_task
          phase,     \* where reload() is
          unread,    \* files the scan has yet to come to
          opened,    \* the file is_file was true of, to be read
          found,     \* entries read, duplicates included
          failed,    \* files that did not parse
          registry,  \* _skills
          errors,    \* _errors: the files
          todo,      \* events reload has yet to emit
          open,      \* Watch calls that are subscribed
          queue,     \* their queues
          view,      \* history: the names their clients know of
          unheard,   \* history: the last change gave no notice
          changes, reloads

scan    == <<unread, opened, found, failed>>
loaded  == <<registry, errors>>
watch   == <<open, queue, view>>
outside == <<disk, watching, unheard, changes>>
vars    == <<outside, notices, pending, task, phase, scan, loaded, todo, watch,
             reloads>>

-----------------------------------------------------------------------------
Entry(f, skill) == [file |-> f, skill |-> skill]

Name(entry) == NameOf[entry]

NamesOf(entries) == {Name(e) : e \in entries}

\* Mutant: duplicates are not looked for.
AllFound(entries) == entries

\* Of two files with one name the later one wins.
Winners(entries) ==
    {e \in entries : \A d \in entries : Name(d) = Name(e) => d.file <= e.file}

\* Mutant: the old names are taken after the new skills are in place.
DiffTooLate(old, new) == [kind: {"modified"}, name: NamesOf(new)]

\* Whatever survives a reload counts as modified.
Diff(old, new) ==
    [kind: {"added"}, name: NamesOf(new) \ NamesOf(old)]
    \union [kind: {"removed"}, name: NamesOf(old) \ NamesOf(new)]
    \union [kind: {"modified"}, name: NamesOf(old) \cap NamesOf(new)]

Rank(kind) == CASE kind = "added" -> 1 [] kind = "removed" -> 2 [] OTHER -> 3

EntriesOnDisk == {Entry(f, disk[f]) : f \in {g \in Files : disk[g] \in Skills}}

BadFiles == {f \in Files : disk[f] = Malformed}

Present == {f \in Files : disk[f] # Absent}

\* The registry is loaded once before anything else goes on.
Init == /\ disk \in [Files -> Contents]
        /\ watching = FALSE
        /\ notices = 0
        /\ pending = FALSE
        /\ task = "none"
        /\ phase = "idle"
        /\ unread = {} /\ opened = Nothing /\ found = {} /\ failed = {}
        /\ registry = Winners(EntriesOnDisk)
        /\ errors = BadFiles
        /\ todo = {}
        /\ open = {}
        /\ queue = [w \in Streams |-> <<>>]
        /\ view = [w \in Streams |-> {}]
        /\ unheard = FALSE
        /\ changes = 0
        /\ reloads = 0

-----------------------------------------------------------------------------
(* The disk and the file watcher.                                           *)

Idle == phase = "idle"

\* The sidecar starts the watcher after the registry's first load.
StartWatching ==
    /\ Idle
    /\ ~watching
    /\ watching' = TRUE
    /\ UNCHANGED <<disk, unheard, changes, notices, pending, task, phase, scan,
                   loaded, todo, watch, reloads>>

\* One change may be reported once or twice (created and modified).
Noticed == /\ notices' \in IF watching THEN {notices + 1, notices + 2} ELSE {notices}
           /\ unheard' = ~watching

Becomes(newDisk) ==
    /\ changes < MaxChanges
    /\ newDisk # disk
    /\ disk' = newDisk
    /\ changes' = changes + 1
    /\ UNCHANGED <<watching, pending, task, phase, scan, loaded, todo, watch,
                   reloads>>

Write(f, content) == Becomes([disk EXCEPT ![f] = content]) /\ Noticed

Move(f, g) ==
    /\ f \in Present
    /\ f # g
    /\ Becomes([disk EXCEPT ![f] = Absent, ![g] = disk[f]])
    /\ Noticed

\* A directory is moved out of the tree: the file in it goes, and the event
\* is about the directory, which _maybe does not pass on.
DirectoryGoes(f) ==
    /\ Becomes([disk EXCEPT ![f] = Absent])
    /\ unheard' = TRUE
    /\ UNCHANGED notices

-----------------------------------------------------------------------------
(* The debounce, on the event loop.                                         *)

\* Mutant: a task that is done counts as one that will reload.
TriggerOnce ==
    /\ Idle
    /\ notices > 0
    /\ notices' = notices - 1
    /\ pending' = TRUE
    /\ task' = IF task = "none" THEN "asleep" ELSE task
    /\ UNCHANGED <<outside, phase, scan, loaded, todo, watch, reloads>>

Trigger ==
    /\ Idle
    /\ notices > 0
    /\ notices' = notices - 1
    /\ pending' = TRUE
    /\ task' = IF task \in {"none", "done"} THEN "asleep" ELSE task
    /\ UNCHANGED <<outside, phase, scan, loaded, todo, watch, reloads>>

\* The sleep is over.  _pending is set as long as the task sleeps.
Wake ==
    /\ Idle
    /\ task = "asleep"
    /\ pending
    /\ pending' = FALSE
    /\ task' = "reloading"
    /\ phase' = "list"
    /\ UNCHANGED <<outside, notices, scan, loaded, todo, watch, reloads>>

\* The Reload RPC, and the HTTP route to it.
Reload ==
    /\ Idle
    /\ reloads < MaxReloads
    /\ reloads' = reloads + 1
    /\ phase' = "list"
    /\ UNCHANGED <<outside, notices, pending, task, scan, loaded, todo, watch>>

-----------------------------------------------------------------------------
(* reload(): scan the directory, replace the registry, emit the difference. *)

\* iterdir.  For skills it lists directories: a file made in one of them
\* before the scan comes to it is found too.
List ==
    /\ phase = "list"
    /\ phase' = "read"
    /\ \E more \in SUBSET Files : unread' = Present \union more
    /\ opened' = Nothing /\ found' = {} /\ failed' = {}
    /\ UNCHANGED <<outside, notices, pending, task, loaded, todo, watch, reloads>>

\* The scan comes to the next file in order.
Reach(f) ==
    /\ phase = "read"
    /\ opened = Nothing
    /\ f \in unread
    /\ \A g \in unread : f <= g
    /\ unread' = unread \ {f}

Skip(f) ==
    /\ Reach(f)
    /\ disk[f] = Absent
    /\ UNCHANGED <<outside, notices, pending, task, phase, opened, found, failed,
                   loaded, todo, watch, reloads>>

Open(f) ==
    /\ Reach(f)
    /\ disk[f] # Absent
    /\ opened' = f
    /\ UNCHANGED <<outside, notices, pending, task, phase, found, failed,
                   loaded, todo, watch, reloads>>

\* A file that has gone since fails like a malformed one.
Load ==
    /\ phase = "read"
    /\ opened # Nothing
    /\ opened' = Nothing
    /\ IF disk[opened] \in Skills
       THEN found' = found \union {Entry(opened, disk[opened])} /\ UNCHANGED failed
       ELSE failed' = failed \union {opened} /\ UNCHANGED found
    /\ UNCHANGED <<outside, notices, pending, task, phase, unread,
                   loaded, todo, watch, reloads>>

Scanned == phase = "read" /\ unread = {} /\ opened = Nothing

\* Mutant: the skills found are added to those there were.
ReplaceMerges ==
    /\ Scanned
    /\ phase' = "emit"
    /\ registry' = Winners(found) \union {e \in registry : Name(e) \notin NamesOf(found)}
    /\ errors' = failed
    /\ todo' = Diff(registry, registry')
    /\ UNCHANGED <<outside, notices, pending, task, scan, watch, reloads>>

Replace ==
    /\ Scanned
    /\ phase' = "emit"
    /\ registry' = Winners(found)
    /\ errors' = failed
    /\ todo' = Diff(registry, registry')
    /\ UNCHANGED <<outside, notices, pending, task, scan, watch, reloads>>

\* _emit_event: into the queue of every subscriber.
Emit(e) ==
    /\ phase = "emit"
    /\ e \in todo
    /\ \A d \in todo : Rank(e.kind) <= Rank(d.kind)
    /\ todo' = todo \ {e}
    /\ queue' = [w \in Streams |-> IF w \in open THEN Append(queue[w], e) ELSE queue[w]]
    /\ UNCHANGED <<outside, notices, pending, task, phase, scan, loaded, open,
                   view, reloads>>

\* The end of the debounced reload, or of the RPC.
Finish ==
    /\ phase = "emit"
    /\ todo = {}
    /\ phase' = "idle"
    /\ task' = IF task = "reloading" THEN "done" ELSE task
    /\ UNCHANGED <<outside, notices, pending, scan, loaded, todo, watch, reloads>>

-----------------------------------------------------------------------------
(* Watch.                                                                   *)

Subscribe(w) ==
    /\ Idle
    /\ w \notin open
    /\ open' = open \union {w}
    /\ queue' = [queue EXCEPT ![w] = <<>>]
    /\ view' = [view EXCEPT ![w] = NamesOf(registry)]
    /\ UNCHANGED <<outside, notices, pending, task, phase, scan, loaded, todo,
                   reloads>>

Heard(names, e) ==
    IF e.kind = "removed" THEN names \ {e.name} ELSE names \union {e.name}

Deliver(w) ==
    /\ Idle
    /\ w \in open
    /\ queue[w] # <<>>
    /\ queue' = [queue EXCEPT ![w] = Tail(@)]
    /\ view' = [view EXCEPT ![w] = Heard(@, Head(queue[w]))]
    /\ UNCHANGED <<outside, notices, pending, task, phase, scan, loaded, todo,
                   open, reloads>>

\* The client goes away; `finally` unsubscribes.
Unsubscribe(w) ==
    /\ Idle
    /\ w \in open
    /\ open' = open \ {w}
    /\ queue' = [queue EXCEPT ![w] = <<>>]
    /\ UNCHANGED <<outside, notices, pending, task, phase, scan, loaded, todo,
                   view, reloads>>

-----------------------------------------------------------------------------
World == \/ StartWatching
         \/ \E f \in Files : \/ \E content \in Contents : Write(f, content)
                             \/ \E g \in Files : Move(f, g)
                             \/ DirectoryGoes(f)

Reloading == \/ List \/ Load \/ Replace \/ Finish
             \/ \E f \in Files : Skip(f) \/ Open(f)
             \/ \E e \in todo : Emit(e)

Clients == \/ Reload
           \/ \E w \in Streams : Subscribe(w) \/ Deliver(w) \/ Unsubscribe(w)

Next == World \/ Trigger \/ Wake \/ Reloading \/ Clients

Spec == Init /\ [][Next]_vars

\* The loop runs what is scheduled on it; timers fire; reload goes on.
FairSpec == Spec /\ WF_vars(Trigger) /\ WF_vars(Wake) /\ WF_vars(Reloading)

-----------------------------------------------------------------------------
(* Properties.                                                              *)

Entries == [file: Files, skill: Skills]
Events  == [kind: {"added", "removed", "modified"}, name: Names]

\* The values each piece of the state may take; the registry has one skill
\* for a name.
TypeOK ==
    /\ disk \in [Files -> Contents]
    /\ watching \in BOOLEAN /\ unheard \in BOOLEAN /\ pending \in BOOLEAN
    /\ notices \in Nat
    /\ task \in {"none", "asleep", "reloading", "done"}
    /\ phase \in {"idle", "list", "read", "emit"}
    /\ unread \subseteq Files /\ opened \in Files \union {Nothing}
    /\ found \subseteq Entries /\ failed \subseteq Files
    /\ registry \subseteq Entries /\ errors \subseteq Files
    /\ \A d, e \in registry : Name(d) = Name(e) => d = e
    /\ todo \subseteq Events
    /\ open \subseteq Streams
    /\ queue \in [Streams -> Seq(Events)]
    /\ view \in [Streams -> SUBSET Names]
    /\ changes \in 0 .. MaxChanges /\ reloads \in 0 .. MaxReloads

\* The registry and its errors are what a scan of the disk would give now.
Current == registry = Winners(EntriesOnDisk) /\ errors = BadFiles

\* No reload is under way, scheduled or about to be, and the last change gave
\* a notice.
Quiet == Idle /\ notices = 0 /\ ~pending /\ ~unheard

\* No change is forgotten: when nothing is under way the registry is what the
\* disk holds (watcher:79-91).  A change that comes while a scan has already
\* passed its file, or while the task sleeps, is not lost with the pending flag,
\* and a file that does not parse keeps no other from its skill (loader:62-63).
QuietIsCurrent == Quiet => Current

\* The registry ends up current and stays so, however changes, their notices,
\* debounce and manual reloads fall (skills.md, "Hot-reload").
Converges == <>[](Current \/ unheard)

About(w, n) == {i \in DOMAIN queue[w] : queue[w][i].name = n}

\* What a client will know of a name when its queue is empty is whether the
\* registry has it: the last event about the name says so, or what the client
\* knew before.
Follows(w, n) ==
    /\ About(w, n) = {} => (n \in view[w] <=> n \in NamesOf(registry))
    /\ \A i \in About(w, n) : (\A j \in About(w, n) : j <= i) =>
          (queue[w][i].kind = "removed" <=> n \notin NamesOf(registry))

\* Every subscriber can tell the registry's names from the events it is sent
\* (registry:68-79, 130-139): none is missed or out of order, except those
\* reload has yet to emit.
ViewFollows ==
    \A w \in open : \A n \in Names :
        (\A e \in todo : e.name # n) => Follows(w, n)

=============================================================================
