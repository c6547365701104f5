----------------------------- MODULE FileCache -----------------------------
(***************************************************************************)
(* What zsv remembers of a data file lives in a cache directory named      *)
(* after it.  The commands that change it: prop (app/prop.c: set, remove,  *)
(* guess, clear, clean, copy, import), mv and rm (app/mv.c, app/rm.c); the *)
(* one that reads it: any parser made with zsv_new_with_properties()       *)
(* (app/utils/prop.c).  Commands follow one another and die at any step.   *)
(***************************************************************************)
EXTENDS Process, Functions

CONSTANTS
    CacheFiles,      \* data file names
    CacheRows,       \* sequences of [used, null, like]: what prop can see of a file
    CacheValues,     \* property values, positive
    CacheRoots,      \* sets of files whose directory has a cache root at first
    CacheCommands    \* how many commands are run

ASSUME CacheAssumption ==
    /\ CacheRows \subseteq Seq([used : Nat, null : Nat, like : Nat])
    /\ CacheValues \subseteq Nat
    /\ CacheRoots \subseteq SUBSET CacheFiles
    /\ CacheCommands \in Nat

PropIds == {"span", "skip"}
PropAbsent == [kind |-> "none", vals |-> <<>>]
PropTorn == [kind |-> "torn", vals |-> <<>>]
PropFile(vals) == [kind |-> "whole", vals |-> vals]
DirAbsent == [there |-> FALSE, props |-> PropAbsent, temp |-> PropAbsent]
DirEmpty == [DirAbsent EXCEPT !.there = TRUE]

CacheIdle(left) ==
    [pc |-> "idle", op |-> "none", f |-> "", g |-> "", arg |-> <<>>, flag |-> FALSE,
     err |-> FALSE, crashed |-> FALSE, left |-> left, before |-> <<>>]

CacheInit ==
    /\ cmd = "cache" /\ out = <<>>
    /\ st = CacheIdle(CacheCommands)
    /\ \E data \in [CacheFiles -> CacheRows \cup {<<>>}], roots \in CacheRoots :
         disk = [data |-> data, root |-> roots, torn |-> {},
                 cache |-> [f \in CacheFiles |-> DirAbsent]]

Exists(f) == disk.data[f] # <<>>

\* guess_properties over the first rows: rows without values, and rows that
\* such a row follows, are skipped; the header goes on until a row looks like
\* data, and is one row when nothing does.
Guess(rows) ==
    LET n == Len(rows)
        void(i) == rows[i].used <= rows[i].null
        first == Min({i \in 1..n : ~void(i) /\ (i = n \/ ~void(i + 1))} \cup {n + 1})
        like(i) == rows[i].like
        ends(i) == /\ rows[i].used # rows[i].null
                   /\ rows[i].used <= rows[i - 1].used
                   /\ \/ like(i) > 5 \/ (like(i) > 0 /\ like(i) >= rows[i].used \div 2)
                      \/ like(i) + rows[i].null = rows[i].used
                      \/ like(i) <= 5 /\ like(i) > 0 /\ rows[i].used <= 5
        span == IF first > n THEN 1
                ELSE Min({i \in (first + 1)..n : ends(i)} \cup {n + 1}) - first
    IN  [span |-> IF span = n THEN 1 ELSE span, skip |-> first - 1]

\* The arguments of prop: for each property nothing, a value or removal.
PropRemove == -3
PropArgs == UNION {[ids -> CacheValues \cup {PropRemove}] : ids \in SUBSET PropIds}

\* A command is started; what it finds is remembered for the properties below.
Start(op, f, g, arg, flag) ==
    /\ st.pc = "idle" /\ st.left > 0
    /\ st' = [CacheIdle(st.left - 1) EXCEPT !.pc = op, !.op = op, !.f = f, !.g = g,
                 !.arg = arg, !.flag = flag, !.before = disk]
    /\ out' = <<>>
    /\ UNCHANGED <<cmd, disk>>

CacheStart ==
    \E f, g \in CacheFiles, flag \in BOOLEAN :
        \/ \E arg \in PropArgs : arg # <<>> /\ g = f /\ Start("set", f, f, arg, flag)
        \/ \E ids \in SUBSET PropIds \ {{}} :
             Exists(f) /\ g = f /\ Start("auto", f, f, Restrict(Guess(disk.data[f]), ids), flag)
        \/ \E op \in {"clear", "clean", "import", "rm", "use"} : g = f /\ Start(op, f, f, <<>>, flag)
        \/ \E op \in {"copy", "mv", "mvcache"} : g # f /\ Start(op, f, g, <<>>, flag)

CacheEnd(err) == st' = [st EXCEPT !.pc = "idle", !.err = err]

\* zsv_cache_load_props: no properties file is no property; one that cannot be
\* parsed is an error.
LoadFails(f) == disk.cache[f].props.kind = "torn"
SavedProps(f) == disk.cache[f].props.vals

\* Mutant: the properties that no argument names are lost.
MergeArgumentsOnly(arg, vals) ==
    [p \in {q \in DOMAIN arg : arg[q] # PropRemove} |-> arg[p]]

\* merge_properties: an argument replaces or removes a property, and the others
\* stay what they are.
MergeProperties(arg, vals) ==
    LET ids == (DOMAIN vals \ DOMAIN arg) \cup {p \in DOMAIN arg : arg[p] # PropRemove}
    IN  [p \in ids |-> IF p \in DOMAIN arg THEN arg[p] ELSE vals[p]]

\* merge_and_save_properties: where a property is saved, guesses are refused
\* unless told to overwrite (an argument not given counts as one, a guess of
\* zero does not); the directory is made and the temporary file opened,
GuessRefused(arg, vals) == \E p \in DOMAIN vals : p \in DOMAIN arg => arg[p] # 0

\* Mutant: the properties file is opened in place.
OpenInPlace(d, f) ==
    [d EXCEPT !.root = @ \cup {f}, !.cache[f].there = TRUE, !.cache[f].props = PropTorn]

OpenTemp(d, f) ==
    [d EXCEPT !.root = @ \cup {f}, !.cache[f].there = TRUE, !.cache[f].temp = PropTorn]

PropSetOpen ==
    /\ st.pc \in {"set", "auto"}
    /\ IF LoadFails(st.f) \/ (st.op = "auto" /\ ~st.flag /\ GuessRefused(st.arg, SavedProps(st.f)))
       THEN CacheEnd(TRUE) /\ UNCHANGED disk
       ELSE /\ st' = [st EXCEPT !.pc = "write"]
            /\ disk' = OpenTemp(disk, st.f)
    /\ UNCHANGED <<cmd, out>>

\* written (nothing is written when no property is left),
PropSetWrite ==
    /\ st.pc = "write"
    /\ LET vals == MergeProperties(st.arg, SavedProps(st.f))
       IN  IF vals = <<>>
           THEN /\ st' = [st EXCEPT !.pc = IF \E p \in DOMAIN st.arg : st.arg[p] = PropRemove
                                           THEN "unset" ELSE "idle"]
                /\ UNCHANGED disk
           ELSE /\ st' = [st EXCEPT !.pc = "replace"]
                /\ disk' = [disk EXCEPT !.cache[st.f].temp = PropFile(vals)]
    /\ UNCHANGED <<cmd, out>>

\* and put in the place of the properties file, which can fail.
PropSetReplace ==
    /\ st.pc = "replace"
    /\ \/ /\ disk' = [disk EXCEPT !.cache[st.f].props = disk.cache[st.f].temp,
                                  !.cache[st.f].temp = PropAbsent]
          /\ CacheEnd(FALSE)
       \/ CacheEnd(TRUE) /\ UNCHANGED disk
    /\ UNCHANGED <<cmd, out>>

\* zsv_cache_remove when the last property goes.
PropSetRemove ==
    /\ st.pc = "unset"
    /\ disk' = [disk EXCEPT !.cache[st.f].props = PropAbsent]
    /\ CacheEnd(FALSE)
    /\ UNCHANGED <<cmd, out>>

\* zsv_remove_dir_recursive: the files of a cache, then the directory.
RemoveDirs(fs) ==
    \/ \E f \in fs :
         /\ disk.cache[f].props # PropAbsent \/ disk.cache[f].temp # PropAbsent
         /\ disk' = [disk EXCEPT !.cache[f] = DirEmpty, !.torn = @ \ {f}]
         /\ UNCHANGED st
    \/ \E f \in fs :
         /\ disk.cache[f] = DirEmpty
         /\ disk' = [disk EXCEPT !.cache[f] = DirAbsent]
         /\ UNCHANGED st
    \/ /\ \A f \in fs : ~disk.cache[f].there
       /\ CacheEnd(FALSE) /\ UNCHANGED disk

PropClear ==
    /\ st.pc = "clear" /\ RemoveDirs({st.f})
    /\ UNCHANGED <<cmd, out>>

\* zsv_prop_foreach_clean: the caches whose data file is gone; --dry tells only.
PropClean ==
    /\ st.pc = "clean"
    /\ IF st.flag THEN CacheEnd(FALSE) /\ UNCHANGED disk
       ELSE RemoveDirs({f \in CacheFiles : ~Exists(f)})
    /\ UNCHANGED <<cmd, out>>

\* zsv_prop_execute_copy: without --overwrite both files must be there and the
\* destination must have no properties (of which the exit code says nothing);
\* then the properties file goes to a temporary file next to the destination
PropCopy ==
    /\ st.pc = "copy"
    /\ LET src == disk.cache[st.f].props
       IN  IF \/ ~st.flag /\ ~(Exists(st.f) /\ Exists(st.g))
              \/ src.kind = "none"
              \/ ~st.flag /\ disk.cache[st.g].props.kind # "none"
           THEN CacheEnd(~st.flag /\ ~(Exists(st.f) /\ Exists(st.g))) /\ UNCHANGED disk
           ELSE /\ disk' = [disk EXCEPT !.root = @ \cup {st.g},
                                        !.cache[st.g].there = TRUE, !.cache[st.g].temp = src]
                /\ st' = [st EXCEPT !.pc = "rename"]
    /\ UNCHANGED <<cmd, out>>

\* and is renamed.
PropCopyRename ==
    /\ st.pc = "rename"
    /\ disk' = [disk EXCEPT !.cache[st.g].props = disk.cache[st.g].temp,
                            !.cache[st.g].temp = PropAbsent,
                            !.torn = IF disk.cache[st.g].temp.kind = "torn" THEN @ \cup {st.g} ELSE @]
    /\ CacheEnd(FALSE)
    /\ UNCHANGED <<cmd, out>>

\* zsv_dir_from_json: unless forced, nothing that is there is replaced; the
\* properties file itself is opened
PropImport ==
    /\ st.pc = "import"
    /\ IF ~st.flag /\ (~Exists(st.f) \/ disk.cache[st.f].props.kind # "none")
       THEN CacheEnd(TRUE) /\ UNCHANGED disk
       ELSE /\ disk' = [disk EXCEPT !.root = @ \cup {st.f}, !.torn = @ \cup {st.f},
                                    !.cache[st.f].there = TRUE, !.cache[st.f].props = PropTorn]
            /\ st' = [st EXCEPT !.pc = "imported"]
    /\ UNCHANGED <<cmd, out>>

\* and filled.
PropImportWrite ==
    /\ st.pc = "imported"
    /\ \E vals \in PropArgs :
         /\ \A p \in DOMAIN vals : vals[p] # PropRemove
         /\ disk' = [disk EXCEPT !.cache[st.f].props = PropFile(vals), !.torn = @ \ {st.f}]
    /\ CacheEnd(FALSE)
    /\ UNCHANGED <<cmd, out>>

\* mv: nothing is overwritten; the file is renamed,
MvRefused ==
    \/ st.op = "mv" /\ (~Exists(st.f) \/ Exists(st.g))
    \/ disk.cache[st.f].there /\ disk.cache[st.g].there

MvFile ==
    /\ st.pc \in {"mv", "mvcache"}
    /\ IF MvRefused THEN CacheEnd(TRUE) /\ UNCHANGED disk
       ELSE /\ disk' = IF st.op = "mvcache" THEN disk
                       ELSE [disk EXCEPT !.data[st.g] = disk.data[st.f], !.data[st.f] = <<>>]
            /\ st' = [st EXCEPT !.pc = "mvdir"]
    /\ UNCHANGED <<cmd, out>>

\* Mutant: the file is not moved back.
MvRevertNothing(d) == d

\* then its cache directory; where the destination has no cache root that
\* fails, and the destination is renamed back to the source.
MvRevert(d) ==
    IF d.data[st.g] = <<>> THEN d
    ELSE [d EXCEPT !.data[st.f] = d.data[st.g], !.data[st.g] = <<>>]

MvCache ==
    /\ st.pc = "mvdir"
    /\ IF ~disk.cache[st.f].there THEN CacheEnd(FALSE) /\ UNCHANGED disk
       ELSE IF st.g \notin disk.root THEN CacheEnd(TRUE) /\ disk' = MvRevert(disk)
       ELSE /\ disk' = [disk EXCEPT !.cache[st.g] = disk.cache[st.f], !.cache[st.f] = DirAbsent,
                           !.torn = IF st.f \in @ THEN (@ \ {st.f}) \cup {st.g} ELSE @]
            /\ CacheEnd(FALSE)
    /\ UNCHANGED <<cmd, out>>

\* rm: the file (unless only the cache is to go), then the cache, with or
\* without -k.
RmFile ==
    /\ st.pc = "rm"
    /\ IF st.flag /\ ~Exists(st.f) THEN CacheEnd(TRUE) /\ UNCHANGED disk
       ELSE /\ disk' = IF st.flag THEN [disk EXCEPT !.data[st.f] = <<>>] ELSE disk
            /\ st' = [st EXCEPT !.pc = "rmdir"]
    /\ UNCHANGED <<cmd, out>>

RmCache ==
    /\ st.pc = "rmdir" /\ RemoveDirs({st.f})
    /\ UNCHANGED <<cmd, out>>

\* zsv_new_with_properties: a command parses the file under its saved
\* properties; an option of the command line wins.
UseProperties ==
    /\ st.pc = "use"
    /\ \E override \in UNION {[ids -> {1}] : ids \in SUBSET PropIds} :
         LET saved == SavedProps(st.f)
         IN  out' = IF LoadFails(st.f) THEN out
                    ELSE <<[p \in PropIds |-> IF p \in DOMAIN override THEN override[p]
                                              ELSE IF p \in DOMAIN saved THEN saved[p] ELSE 0]>>
    /\ CacheEnd(LoadFails(st.f))
    /\ UNCHANGED <<cmd, disk>>

\* The process is killed: what it has written so far stays.
CacheCrash ==
    /\ st.pc \notin {"idle", "done"}
    /\ st' = [st EXCEPT !.pc = "idle", !.err = TRUE, !.crashed = TRUE]
    /\ UNCHANGED <<cmd, out, disk>>

CacheDone ==
    /\ st.pc = "idle" /\ st.left = 0
    /\ st' = [st EXCEPT !.pc = "done"]
    /\ UNCHANGED <<cmd, out, disk>>

CacheNext ==
    /\ cmd = "cache"
    /\ \/ CacheStart \/ PropSetOpen \/ PropSetWrite \/ PropSetReplace \/ PropSetRemove
       \/ PropClear \/ PropClean \/ PropCopy \/ PropCopyRename \/ PropImport \/ PropImportWrite
       \/ MvFile \/ MvCache \/ RmFile \/ RmCache \/ UseProperties \/ CacheCrash \/ CacheDone

\* The commands on the cache, one process after the other.
CacheSpec == CacheInit /\ [][CacheNext \/ Finished]_procVars

-----------------------------------------------------------------------------

\* A properties file can be parsed whenever it is there, whatever command was
\* killed at whatever step: it is never written in place (prop.c:455-484,
\* cache.c:187).  The one exception is import, which does write in place.
PropertiesAreNeverTorn ==
    cmd = "cache" =>
        \A f \in CacheFiles : disk.cache[f].props.kind = "torn" => f \in disk.torn

\* What a command that ended well or badly, or was killed, may have changed:
\* the caches of the files it names, and with --clean the orphans.  No command
\* loses a data file but rm: mv moves it, or leaves it where its cache cannot
\* follow.  (mv --cache is left out: where the cache cannot follow, its revert
\* moves the destination over the source, mv.c:90-99.)
OnlyWhatIsNamedChanges ==
    cmd = "cache" /\ st.op # "none" =>
        /\ \A f \in CacheFiles :
             disk.cache[f] # st.before.cache[f] =>
                 IF st.op = "clean" THEN st.before.data[f] = <<>> ELSE f \in {st.f, st.g}
        /\ st.op \notin {"rm", "mv", "mvcache"} => disk.data = st.before.data
        /\ st.op = "mv" =>
             \/ disk.data = st.before.data
             \/ /\ disk.data = [st.before.data EXCEPT ![st.g] = st.before.data[st.f],
                                                      ![st.f] = <<>>]
                /\ st.err => st.crashed

\* A successful change of the properties leaves exactly the merge of the old
\* ones and the arguments; a failed or killed one leaves the old ones, or has
\* already put the new ones in place (merge_and_save_properties).
SetIsAllOrNothing ==
    cmd = "cache" /\ st.op \in {"set", "auto"} =>
        LET old == st.before.cache[st.f].props
            new == disk.cache[st.f].props
            merged == \A p \in PropIds :
                IF p \in DOMAIN st.arg
                THEN IF st.arg[p] = PropRemove THEN p \notin DOMAIN new.vals
                     ELSE p \in DOMAIN new.vals /\ new.vals[p] = st.arg[p]
                ELSE IF p \in DOMAIN old.vals
                     THEN p \in DOMAIN new.vals /\ new.vals[p] = old.vals[p]
                     ELSE p \notin DOMAIN new.vals
        IN  /\ new = old \/ merged
            /\ st.pc = "idle" /\ ~st.err => merged
=============================================================================
