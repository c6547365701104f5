-------------------------- MODULE FileCacheProofs --------------------------
(***************************************************************************)
(* For any data files, any rows in them, any property values and any       *)
(* number of commands, killed at any step: what the commands on the        *)
(* properties of a file keep of it.                                        *)
(***************************************************************************)
EXTENDS FileCache, CommonLemmas

\* The steps of each command.
CacheSteps ==
    [none    |-> {},
     set     |-> {"set", "write", "replace", "unset"},
     auto    |-> {"auto", "write", "replace", "unset"},
     clear   |-> {"clear"},
     clean   |-> {"clean"},
     import  |-> {"import", "imported"},
     rm      |-> {"rm", "rmdir"},
     use     |-> {"use"},
     copy    |-> {"copy", "rename"},
     mv      |-> {"mv", "mvdir"},
     mvcache |-> {"mvcache", "mvdir"}]
CacheOps == {"none", "set", "auto", "clear", "clean", "import", "rm", "use", "copy", "mv", "mvcache"}
CachePcs == CacheOps \cup {"write", "replace", "unset", "imported", "rmdir", "rename", "mvdir", "idle", "done"}
Running == st.pc \notin {"idle", "done"}

PropVals == UNION {[ids -> Int] : ids \in SUBSET PropIds}
PropFiles == [kind : {"none", "torn", "whole"}, vals : PropVals]
Dirs == [there : BOOLEAN, props : PropFiles, temp : PropFiles]
Disks == [data : [CacheFiles -> CacheRows \cup {<<>>}], root : SUBSET CacheFiles,
          torn : SUBSET CacheFiles, cache : [CacheFiles -> Dirs]]

CacheStates ==
    [pc : CachePcs, op : CacheOps, f : CacheFiles \cup {""}, g : CacheFiles \cup {""},
     arg : PropVals, flag : BOOLEAN, err : BOOLEAN, crashed : BOOLEAN,
     left : Nat, before : Disks \cup {<<>>}]

CacheTypeOK ==
    /\ cmd = "cache"
    /\ disk \in Disks
    /\ st \in CacheStates

\* A command is at one of its own steps, and remembers what it found.
StepInv ==
    /\ Running => st.pc \in CacheSteps[st.op] /\ ~st.err /\ ~st.crashed
    /\ st.op # "none" => st.before \in Disks /\ st.f \in CacheFiles /\ st.g \in CacheFiles
    /\ st.op \in {"mv", "mvcache", "copy"} => st.f # st.g

CacheInv == CacheTypeOK /\ StepInv

\* What the code writes as properties and directories has their type.
LEMMA PropValues ==
    /\ <<>> \in PropVals
    /\ PropAbsent \in PropFiles /\ PropTorn \in PropFiles
    /\ \A v \in PropVals : PropFile(v) \in PropFiles
    /\ DirAbsent \in Dirs /\ DirEmpty \in Dirs
<1>1. <<>> \in [{} -> Int] /\ {} \in SUBSET PropIds
  OBVIOUS
<1>2. <<>> \in PropVals
  BY <1>1 DEF PropVals
<1>3. PropAbsent \in PropFiles /\ PropTorn \in PropFiles
  BY <1>2 DEF PropFiles, PropAbsent, PropTorn
<1>4. \A v \in PropVals : PropFile(v) \in PropFiles
  BY DEF PropFiles, PropFile
<1> QED
  BY <1>2, <1>3, <1>4 DEF Dirs, DirAbsent, DirEmpty

\* merge_properties makes properties of properties.
LEMMA MergeType == \A arg, vals \in PropVals : MergeProperties(arg, vals) \in PropVals
<1> TAKE arg, vals \in PropVals
<1>1. PICK a, b \in SUBSET PropIds : arg \in [a -> Int] /\ vals \in [b -> Int]
  BY DEF PropVals
<1> DEFINE ids == (DOMAIN vals \ DOMAIN arg) \cup {p \in DOMAIN arg : arg[p] # PropRemove}
<1>2. ids \in SUBSET PropIds
  BY <1>1
<1>3. MergeProperties(arg, vals) \in [ids -> Int]
  BY <1>1 DEF MergeProperties
<1> QED
  BY <1>2, <1>3 DEF PropVals

\* guess_properties finds numbers, whatever the rows.
LEMMA GuessType ==
    ASSUME NEW rows \in Seq([used : Nat, null : Nat, like : Nat]), NEW ids \in SUBSET PropIds
    PROVE  Restrict(Guess(rows), ids) \in PropVals
<1> DEFINE n == Len(rows)
           void(i) == rows[i].used <= rows[i].null
           firsts == {i \in 1..n : ~void(i) /\ (i = n \/ ~void(i + 1))} \cup {n + 1}
           first == Min(firsts)
           like(i) == rows[i].like
           ends(i) == /\ rows[i].used # rows[i].null
                      /\ rows[i].used <= rows[i - 1].used
                      /\ \/ like(i) > 5 \/ (like(i) > 0 /\ like(i) >= rows[i].used \div 2)
                         \/ like(i) + rows[i].null = rows[i].used
                         \/ like(i) <= 5 /\ like(i) > 0 /\ rows[i].used <= 5
           data == {i \in (first + 1)..n : ends(i)} \cup {n + 1}
           span == IF first > n THEN 1 ELSE Min(data) - first
<1>1. Guess(rows) = [span |-> IF span = n THEN 1 ELSE span, skip |-> first - 1]
  BY DEF Guess
<1>2. n \in Nat
  OBVIOUS
<1>3. first \in Nat
  <2>1. firsts \subseteq Nat /\ firsts # {}
    BY <1>2
  <2> QED
    BY <2>1, MinIsLeast
<1> HIDE DEF first
<1>4. Min(data) \in Nat
  <2>1. data \subseteq Nat /\ data # {}
    BY <1>2, <1>3
  <2> QED
    BY <2>1, MinIsLeast
<1> HIDE DEF data
<1>5. span \in Int
  BY <1>3, <1>4
<1> HIDE DEF span
<1>6. Restrict(Guess(rows), ids) \in [ids -> Int]
  BY <1>1, <1>3, <1>5 DEF Restrict, PropIds
<1> QED
  BY <1>6 DEF PropVals

\* The arguments of prop are properties.
LEMMA ArgsType == PropArgs \subseteq PropVals
<1>1. CacheValues \cup {PropRemove} \subseteq Int
  BY CacheAssumption DEF PropRemove
<1> QED
  BY <1>1 DEF PropArgs, PropVals

\* No command has started.
LEMMA CacheInitInv == CacheInit => CacheInv
<1> SUFFICES ASSUME CacheInit PROVE CacheInv
  OBVIOUS
<1>1. cmd = "cache" /\ st = CacheIdle(CacheCommands)
  BY DEF CacheInit
<1>2. disk \in Disks
  BY PropValues, CacheAssumption DEF CacheInit, Disks
<1>3. CacheIdle(CacheCommands) \in
        CacheStates
  BY PropValues, CacheAssumption DEF CacheIdle, CacheStates, CacheOps, CachePcs
<1>4. CacheTypeOK
  BY <1>1, <1>2, <1>3 DEF CacheTypeOK
<1> QED
  BY <1>1, <1>4 DEF CacheInv, StepInv, Running, CacheIdle

\* A command that runs has its files, and has seen the disk.
LEMMA RunningFiles ==
    CacheInv /\ Running => st.op # "none" /\ st.f \in CacheFiles /\ st.g \in CacheFiles /\ st.before \in Disks
<1> SUFFICES ASSUME CacheInv, Running PROVE st.op # "none"
  BY DEF CacheInv, StepInv
<1> QED
  BY DEF CacheInv, StepInv, CacheSteps

\* What is started, and with what.
LEMMA StartedWith ==
    ASSUME CacheInv, CacheStart
    PROVE  \E op \in CacheOps \ {"none"}, f, g \in CacheFiles, arg \in PropVals, flag \in BOOLEAN :
              /\ op \in {"mv", "mvcache", "copy"} => f # g
              /\ Start(op, f, g, arg, flag)
<1>1. PICK f, g \in CacheFiles, flag \in BOOLEAN :
        \/ \E arg \in PropArgs : arg # <<>> /\ g = f /\ Start("set", f, f, arg, flag)
        \/ \E ids \in SUBSET PropIds \ {{}} :
             Exists(f) /\ g = f /\ Start("auto", f, f, Restrict(Guess(disk.data[f]), ids), flag)
        \/ \E op \in {"clear", "clean", "import", "rm", "use"} : g = f /\ Start(op, f, f, <<>>, flag)
        \/ \E op \in {"copy", "mv", "mvcache"} : g # f /\ Start(op, f, g, <<>>, flag)
  BY DEF CacheStart
<1>2. CASE \E arg \in PropArgs : Start("set", f, f, arg, flag)
  BY <1>2, ArgsType DEF CacheOps
<1>3. CASE \E ids \in SUBSET PropIds : Exists(f) /\ Start("auto", f, f, Restrict(Guess(disk.data[f]), ids), flag)
  <2>1. PICK ids \in SUBSET PropIds : Exists(f) /\ Start("auto", f, f, Restrict(Guess(disk.data[f]), ids), flag)
    BY <1>3
  <2>2. disk.data[f] \in Seq([used : Nat, null : Nat, like : Nat])
    BY <2>1, CacheAssumption DEF Exists, CacheInv, CacheTypeOK, Disks
  <2> QED
    BY <2>1, <2>2, GuessType DEF CacheOps
<1>4. CASE \E op \in {"clear", "clean", "import", "rm", "use"} : Start(op, f, f, <<>>, flag)
  BY <1>4, PropValues DEF CacheOps
<1>5. CASE \E op \in {"copy", "mv", "mvcache"} : g # f /\ Start(op, f, g, <<>>, flag)
  BY <1>5, PropValues DEF CacheOps
<1> QED
  BY <1>1, <1>2, <1>3, <1>4, <1>5

\* A command starts at its first step, with what it finds on the disk.
LEMMA StartKeepsInv == ASSUME CacheInv, CacheStart PROVE CacheInv'
<1>1. PICK op \in CacheOps \ {"none"}, f, g \in CacheFiles, arg \in PropVals, flag \in BOOLEAN :
              /\ op \in {"mv", "mvcache", "copy"} => f # g
              /\ Start(op, f, g, arg, flag)
  BY StartedWith
<1> DEFINE new == [pc |-> op, op |-> op, f |-> f, g |-> g, arg |-> arg, flag |-> flag, err |-> FALSE,
                   crashed |-> FALSE, left |-> st.left - 1, before |-> disk]
<1>2. st.left \in Nat /\ disk \in Disks /\ cmd = "cache"
  BY DEF CacheInv, CacheTypeOK, CacheStates
<1>3. st.left > 0 /\ cmd' = cmd /\ disk' = disk /\ st' = new
  BY <1>1 DEF Start, CacheIdle
<1>4. CacheTypeOK'
  <2>1. st.left - 1 \in Nat
    BY <1>2, <1>3
  <2>2. new \in CacheStates
    BY <1>2, <2>1 DEF CachePcs, CacheStates
  <2> QED
    BY <1>2, <1>3, <2>2 DEF CacheTypeOK
<1>5. op \in CacheSteps[op]
  BY DEF CacheSteps, CacheOps
<1> QED
  BY <1>1, <1>2, <1>3, <1>4, <1>5 DEF CacheInv, StepInv, Running

\* How a command that runs can go on: it ends, takes its next step, or stays.
CommandMoves ==
    /\ cmd' = cmd /\ disk' \in Disks
    /\ \/ \E e \in BOOLEAN : CacheEnd(e)
       \/ Running /\ \E p \in CacheSteps[st.op] \cup {"idle"} : st' = [st EXCEPT !.pc = p]
       \/ UNCHANGED st
       \/ st' = [st EXCEPT !.pc = "idle", !.err = TRUE, !.crashed = TRUE]
       \/ ~Running /\ st' = [st EXCEPT !.pc = "done"]

\* Whatever the step of a command, the state keeps its type.
LEMMA CommandKeepsInv == ASSUME CacheInv, CommandMoves PROVE CacheInv'
<1>1. CASE \E e \in BOOLEAN : CacheEnd(e)
  BY <1>1 DEF CacheEnd, CommandMoves, CacheInv, CacheTypeOK, StepInv, Running, CacheStates, CachePcs
<1>2. CASE Running /\ \E p \in CacheSteps[st.op] \cup {"idle"} : st' = [st EXCEPT !.pc = p]
  <2>1. PICK p \in CacheSteps[st.op] \cup {"idle"} : Running /\ st' = [st EXCEPT !.pc = p]
    BY <1>2
  <2>2. st.op \in CacheOps
    BY DEF CacheInv, CacheTypeOK, CacheStates
  <2>3. p \in CachePcs
    BY <2>1, <2>2 DEF CacheOps, CacheSteps, CachePcs
  <2> QED
    BY <2>1, <2>3 DEF CommandMoves, CacheInv, CacheTypeOK, StepInv, Running, CacheStates
<1>3. CASE UNCHANGED st
  BY <1>3 DEF CommandMoves, CacheInv, CacheTypeOK, StepInv, Running
<1>4. CASE st' = [st EXCEPT !.pc = "idle", !.err = TRUE, !.crashed = TRUE]
  BY <1>4 DEF CommandMoves, CacheInv, CacheTypeOK, StepInv, Running, CacheStates, CachePcs
<1>5. CASE ~Running /\ st' = [st EXCEPT !.pc = "done"]
  BY <1>5 DEF CommandMoves, CacheInv, CacheTypeOK, StepInv, Running, CacheStates, CachePcs
<1> QED
  BY <1>1, <1>2, <1>3, <1>4, <1>5 DEF CommandMoves


\* Each step of a command is such a move.
LEMMA StepsAreMoves ==
    ASSUME CacheInv, CacheNext \/ Finished, ~CacheStart PROVE CommandMoves
<1>1. disk \in Disks /\ st.op \in CacheOps
  BY DEF CacheInv, CacheTypeOK, CacheStates
<1>2. Running => st.f \in CacheFiles /\ st.g \in CacheFiles /\ st.pc \in CacheSteps[st.op]
  BY RunningFiles DEF CacheInv, StepInv
<1> USE <1>1, <1>2, PropValues DEF Disks, Dirs
<1>3. ASSUME NEW fs \in SUBSET CacheFiles, RemoveDirs(fs), cmd' = cmd PROVE CommandMoves
  <2>1. ASSUME NEW f \in fs, disk' = [disk EXCEPT !.cache[f] = DirEmpty, !.torn = @ \ {f}], UNCHANGED st
        PROVE  CommandMoves
    <3>1. disk' \in Disks
      BY <2>1
    <3> QED
      BY <1>3, <2>1, <3>1 DEF CommandMoves
  <2>2. ASSUME NEW f \in fs, disk' = [disk EXCEPT !.cache[f] = DirAbsent], UNCHANGED st
        PROVE  CommandMoves
    <3>1. disk' \in Disks
      BY <2>2
    <3> QED
      BY <1>3, <2>2, <3>1 DEF CommandMoves
  <2>3. CASE CacheEnd(FALSE) /\ UNCHANGED disk
    BY <1>3, <2>3 DEF CommandMoves
  <2> QED
    BY <1>3, <2>1, <2>2, <2>3 DEF RemoveDirs
<1>4. CASE PropSetOpen
  <2>1. Running /\ cmd' = cmd
    BY <1>4 DEF PropSetOpen, Running
  <2>2. CASE CacheEnd(TRUE) /\ UNCHANGED disk
    BY <2>1, <2>2 DEF CommandMoves
  <2>3. CASE st' = [st EXCEPT !.pc = "write"] /\ disk' = OpenTemp(disk, st.f)
    <3>1. "write" \in CacheSteps[st.op]
      BY <1>4, <2>1 DEF PropSetOpen, CacheSteps, CacheOps
    <3>2. OpenTemp(disk, st.f) \in Disks
      BY <2>1 DEF OpenTemp
    <3> QED
      BY <2>1, <2>3, <3>1, <3>2 DEF CommandMoves
  <2> QED
    BY <1>4, <2>2, <2>3 DEF PropSetOpen
<1>5. CASE PropSetWrite
  <2>1. Running /\ cmd' = cmd
    BY <1>5 DEF PropSetWrite, Running
  <2>2. {"unset", "replace"} \subseteq CacheSteps[st.op]
    BY <1>5, <2>1 DEF PropSetWrite, CacheSteps, CacheOps
  <2>3. CASE st' = [st EXCEPT !.pc = "unset"] /\ UNCHANGED disk
    BY <2>1, <2>2, <2>3 DEF CommandMoves
  <2>4. CASE st' = [st EXCEPT !.pc = "idle"] /\ UNCHANGED disk
    BY <2>1, <2>4 DEF CommandMoves
  <2>5. CASE st' = [st EXCEPT !.pc = "replace"] /\ disk' = [disk EXCEPT !.cache[st.f].temp = PropFile(MergeProperties(st.arg, SavedProps(st.f)))]
    <3>1. SavedProps(st.f) \in PropVals /\ st.arg \in PropVals
      BY <2>1 DEF SavedProps, PropFiles, CacheInv, CacheTypeOK, CacheStates
    <3>2. PropFile(MergeProperties(st.arg, SavedProps(st.f))) \in PropFiles
      BY <3>1, MergeType
    <3> QED
      BY <2>1, <2>2, <2>5, <3>2 DEF CommandMoves
  <2> QED
    BY <1>5, <2>3, <2>4, <2>5 DEF PropSetWrite
<1>6. CASE PropSetReplace
  <2>1. Running /\ cmd' = cmd
    BY <1>6 DEF PropSetReplace, Running
  <2>2. [disk EXCEPT !.cache[st.f].props = disk.cache[st.f].temp, !.cache[st.f].temp = PropAbsent] \in Disks
    BY <2>1
  <2> QED
    BY <1>6, <2>1, <2>2 DEF PropSetReplace, CommandMoves
<1>7. CASE PropSetRemove
  <2>1. Running /\ cmd' = cmd
    BY <1>7 DEF PropSetRemove, Running
  <2>2. [disk EXCEPT !.cache[st.f].props = PropAbsent] \in Disks
    BY <2>1
  <2> QED
    BY <1>7, <2>1, <2>2 DEF PropSetRemove, CommandMoves
<1>8. CASE PropClear
  BY <1>8, <1>3 DEF PropClear, Running
<1>9. CASE PropClean
  <2>1. CASE CacheEnd(FALSE) /\ UNCHANGED disk
    BY <1>9, <2>1 DEF PropClean, CommandMoves
  <2> QED
    BY <1>9, <1>3, <2>1 DEF PropClean
<1>10. CASE PropCopy
  <2>1. Running /\ cmd' = cmd /\ (st.pc = "copy")
    BY <1>10 DEF PropCopy, Running
  <2>2. "rename" \in CacheSteps[st.op]
    BY <2>1 DEF CacheSteps, CacheOps
  <2>3. ASSUME NEW e \in BOOLEAN, CacheEnd(e), UNCHANGED disk PROVE CommandMoves
    BY <2>1, <2>3 DEF CommandMoves
  <2>4. [disk EXCEPT !.root = @ \cup {st.g}, !.cache[st.g].there = TRUE,
                     !.cache[st.g].temp = disk.cache[st.f].props] \in Disks
    BY <2>1
  <2> QED
    BY <1>10, <2>1, <2>2, <2>3, <2>4 DEF PropCopy, CommandMoves
<1>11. CASE PropCopyRename
  <2>1. Running /\ cmd' = cmd
    BY <1>11 DEF PropCopyRename, Running
  <2>2. [disk EXCEPT !.cache[st.g].props = disk.cache[st.g].temp, !.cache[st.g].temp = PropAbsent,
                     !.torn = IF disk.cache[st.g].temp.kind = "torn" THEN @ \cup {st.g} ELSE @] \in Disks
    BY <2>1
  <2> QED
    BY <1>11, <2>1, <2>2 DEF PropCopyRename, CommandMoves
<1>12. CASE PropImport
  <2>1. Running /\ cmd' = cmd /\ (st.pc = "import")
    BY <1>12 DEF PropImport, Running
  <2>2. "imported" \in CacheSteps[st.op]
    BY <2>1 DEF CacheSteps, CacheOps
  <2>3. [disk EXCEPT !.root = @ \cup {st.f}, !.torn = @ \cup {st.f},
                     !.cache[st.f].there = TRUE, !.cache[st.f].props = PropTorn] \in Disks
    BY <2>1
  <2> QED
    BY <1>12, <2>1, <2>2, <2>3 DEF PropImport, CommandMoves
<1>13. CASE PropImportWrite
  <2>1. Running /\ cmd' = cmd
    BY <1>13 DEF PropImportWrite, Running
  <2>2. ASSUME NEW vals \in PropArgs
        PROVE  [disk EXCEPT !.cache[st.f].props = PropFile(vals), !.torn = @ \ {st.f}] \in Disks
    BY <2>1, ArgsType
  <2> QED
    BY <1>13, <2>1, <2>2 DEF PropImportWrite, CommandMoves
<1>14. CASE MvFile
  <2>1. Running /\ cmd' = cmd /\ st.pc \in {"mv", "mvcache"}
    BY <1>14 DEF MvFile, Running
  <2>2. "mvdir" \in CacheSteps[st.op]
    BY <2>1 DEF CacheSteps, CacheOps
  <2>3. [disk EXCEPT !.data[st.g] = disk.data[st.f], !.data[st.f] = <<>>] \in Disks
    BY <2>1
  <2> QED
    BY <1>14, <2>1, <2>2, <2>3 DEF MvFile, CommandMoves
<1>15. CASE MvCache
  <2>1. Running /\ cmd' = cmd
    BY <1>15 DEF MvCache, Running
  <2>2. MvRevert(disk) \in Disks
    BY <2>1 DEF MvRevert
  <2>3. [disk EXCEPT !.cache[st.g] = disk.cache[st.f], !.cache[st.f] = DirAbsent,
                     !.torn = IF st.f \in @ THEN (@ \ {st.f}) \cup {st.g} ELSE @] \in Disks
    BY <2>1
  <2> QED
    BY <1>15, <2>1, <2>2, <2>3 DEF MvCache, CommandMoves
<1>16. CASE RmFile
  <2>1. Running /\ cmd' = cmd /\ (st.pc = "rm")
    BY <1>16 DEF RmFile, Running
  <2>2. "rmdir" \in CacheSteps[st.op]
    BY <2>1 DEF CacheSteps, CacheOps
  <2>3. [disk EXCEPT !.data[st.f] = <<>>] \in Disks
    BY <2>1
  <2> QED
    BY <1>16, <2>1, <2>2, <2>3 DEF RmFile, CommandMoves
<1>17. CASE RmCache
  BY <1>17, <1>3 DEF RmCache, Running
<1>18. CASE UseProperties
  <2>1. LoadFails(st.f) \in BOOLEAN
    BY DEF LoadFails
  <2> QED
    BY <1>18, <2>1 DEF UseProperties, CommandMoves
<1>19. CASE CacheCrash \/ CacheDone \/ Finished
  BY <1>19 DEF CacheCrash, CacheDone, Finished, procVars, CommandMoves, Running
<1> QED
  BY <1>4, <1>5, <1>6, <1>7, <1>8, <1>9, <1>10, <1>11, <1>12, <1>13, <1>14, <1>15, <1>16,
     <1>17, <1>18, <1>19 DEF CacheNext

\* A properties file that import has not filled, or a copy of it, is the only
\* one that cannot be parsed; the file that prop is about to put in place can.
TornInv ==
    /\ \A f \in CacheFiles : disk.cache[f].props.kind = "torn" => f \in disk.torn
    /\ st.pc = "replace" => disk.cache[st.f].temp.kind # "torn"

\* No step puts a torn file in place but those that import answers for.
LEMMA TornSteps ==
    ASSUME CacheInv, TornInv, CacheNext \/ Finished PROVE TornInv'
<1>1. disk \in Disks /\ st \in CacheStates
  BY DEF CacheInv, CacheTypeOK
<1>2. Running => st.f \in CacheFiles /\ st.g \in CacheFiles
  BY RunningFiles
<1>2a. ASSUME UNCHANGED disk, st.pc = "replace" \/ st'.pc # "replace", st'.pc = "replace" => st'.f = st.f PROVE TornInv'
  BY <1>2a DEF TornInv
<1>2b. ASSUME NEW e, CacheEnd(e) PROVE st'.pc # "replace"
  BY <1>2b, <1>1 DEF CacheEnd, CacheStates
<1> USE <1>1, <1>2, PropValues DEF Disks, Dirs, TornInv
<1>3. ASSUME NEW fs \in SUBSET CacheFiles, RemoveDirs(fs), st.pc # "replace" PROVE TornInv'
  <2>1. ASSUME NEW f \in fs, disk' = [disk EXCEPT !.cache[f] = DirEmpty, !.torn = @ \ {f}], UNCHANGED st
        PROVE  TornInv'
    BY <1>3, <2>1 DEF DirEmpty, DirAbsent, PropAbsent
  <2>2. ASSUME NEW f \in fs, disk' = [disk EXCEPT !.cache[f] = DirAbsent], UNCHANGED st
        PROVE  TornInv'
    BY <1>3, <2>2 DEF DirAbsent, PropAbsent
  <2> QED
    BY <1>3, <1>2a, <1>2b, <2>1, <2>2 DEF RemoveDirs
<1>4. CASE PropSetOpen
  <2>1. CASE st' = [st EXCEPT !.pc = "write"] /\ disk' = OpenTemp(disk, st.f)
    <3>1. st.f \in CacheFiles /\ st'.pc = "write"
      BY <1>4, <2>1 DEF PropSetOpen, Running, CacheStates
    <3> QED
      BY <2>1, <3>1 DEF OpenTemp
  <2> QED
    BY <1>4, <1>2a, <1>2b, <2>1 DEF PropSetOpen
<1>5. CASE PropSetWrite
  <2>1. ASSUME NEW v, disk' = [disk EXCEPT !.cache[st.f].temp = PropFile(v)], st' = [st EXCEPT !.pc = "replace"]
        PROVE  TornInv'
    <3>1. st.f \in CacheFiles /\ st'.pc = "replace" /\ st'.f = st.f
      BY <1>5, <2>1 DEF PropSetWrite, Running, CacheStates
    <3> QED
      BY <2>1, <3>1 DEF PropFile
  <2>2. ASSUME NEW p \in {"unset", "idle"}, UNCHANGED disk, st' = [st EXCEPT !.pc = p] PROVE TornInv'
    BY <2>2, <1>2a DEF CacheStates
  <2> QED
    BY <1>5, <2>1, <2>2 DEF PropSetWrite
<1>6. CASE PropSetReplace
  <2>1. st.f \in CacheFiles /\ st'.pc # "replace" /\ st.pc = "replace"
    BY <1>6, <1>2b DEF PropSetReplace, Running
  <2>2. CASE disk' = [disk EXCEPT !.cache[st.f].props = disk.cache[st.f].temp, !.cache[st.f].temp = PropAbsent]
    BY <2>1, <2>2
  <2> QED
    BY <1>6, <1>2a, <2>1, <2>2 DEF PropSetReplace
<1>7. CASE PropSetRemove
  BY <1>7, <1>2b DEF PropSetRemove, Running, PropAbsent
<1>8. CASE PropClear
  BY <1>8, <1>3 DEF PropClear, Running
<1>9. CASE PropClean
  BY <1>9, <1>3, <1>2b DEF PropClean
<1>10. CASE PropCopy
  <2>1. CASE /\ disk' = [disk EXCEPT !.root = @ \cup {st.g}, !.cache[st.g].there = TRUE,
                                     !.cache[st.g].temp = disk.cache[st.f].props]
             /\ st' = [st EXCEPT !.pc = "rename"]
    <3>1. st.f \in CacheFiles /\ st.g \in CacheFiles /\ st'.pc = "rename"
      BY <1>10, <2>1 DEF PropCopy, Running, CacheStates
    <3> QED
      BY <2>1, <3>1
  <2> QED
    BY <1>10, <1>2a, <1>2b, <2>1 DEF PropCopy
<1>11. CASE PropCopyRename
  BY <1>11, <1>2b DEF PropCopyRename, Running
<1>12. CASE PropImport
  <2>1. CASE /\ disk' = [disk EXCEPT !.root = @ \cup {st.f}, !.torn = @ \cup {st.f},
                                     !.cache[st.f].there = TRUE, !.cache[st.f].props = PropTorn]
             /\ st' = [st EXCEPT !.pc = "imported"]
    <3>1. st.f \in CacheFiles /\ st'.pc = "imported"
      BY <1>12, <2>1 DEF PropImport, Running, CacheStates
    <3> QED
      BY <2>1, <3>1
  <2> QED
    BY <1>12, <1>2a, <1>2b, <2>1 DEF PropImport
<1>13. CASE PropImportWrite
  <2>1. PICK vals \in PropArgs : disk' = [disk EXCEPT !.cache[st.f].props = PropFile(vals), !.torn = @ \ {st.f}]
    BY <1>13 DEF PropImportWrite
  <2>2. st.f \in CacheFiles /\ st'.pc # "replace"
    BY <1>13, <1>2b DEF PropImportWrite, Running
  <2> QED
    BY <2>1, <2>2 DEF PropFile
<1>14. CASE MvFile
  BY <1>14, <1>2b DEF MvFile, Running, CacheStates
<1>15. CASE MvCache
  <2>1. st.f \in CacheFiles /\ st.g \in CacheFiles /\ st'.pc # "replace"
    BY <1>15, <1>2b DEF MvCache, Running
  <2>2. CASE disk' = MvRevert(disk)
    BY <2>1, <2>2 DEF MvRevert
  <2>3. CASE disk' = [disk EXCEPT !.cache[st.g] = disk.cache[st.f], !.cache[st.f] = DirAbsent,
                           !.torn = IF st.f \in @ THEN (@ \ {st.f}) \cup {st.g} ELSE @]
    BY <2>1, <2>3 DEF DirAbsent, PropAbsent
  <2> QED
    BY <1>15, <1>2a, <2>1, <2>2, <2>3 DEF MvCache
<1>16. CASE RmFile
  BY <1>16, <1>2b DEF RmFile, Running, CacheStates
<1>17. CASE RmCache
  BY <1>17, <1>3 DEF RmCache, Running
<1>18. CASE UseProperties
  BY <1>18, <1>2b DEF UseProperties
<1>19. CASE CacheCrash \/ CacheDone
  BY <1>19 DEF CacheCrash, CacheDone, CacheStates
<1>21. CASE Finished
  BY <1>21 DEF Finished, procVars
<1>20. CASE CacheStart
  <2>1. PICK op \in CacheOps \ {"none"}, f, g \in CacheFiles, arg \in PropVals, flag \in BOOLEAN :
              Start(op, f, g, arg, flag)
    BY <1>20, StartedWith
  <2> QED
   BY <2>1, <1>2a DEF Start, CacheIdle, CacheOps
<1> QED
  BY <1>4, <1>5, <1>6, <1>7, <1>8, <1>9, <1>10, <1>11, <1>12, <1>13, <1>14, <1>15, <1>16,
     <1>17, <1>18, <1>19, <1>20, <1>21 DEF CacheNext


\* clean has one step, and no other command has it.
LEMMA CleanSteps == CacheInv /\ Running => (st.op = "clean" <=> st.pc = "clean")
<1> SUFFICES ASSUME CacheInv, Running PROVE st.op = "clean" <=> st.pc = "clean"
  OBVIOUS
<1>1. st.op \in CacheOps /\ st.pc \in CacheSteps[st.op]
  BY DEF CacheInv, CacheTypeOK, CacheStates, StepInv
<1> QED
  BY <1>1 DEF CacheOps, CacheSteps
\* What a step leaves alone: the command, the caches of the files it does not
\* name (or, for clean, whose data files are there), and the data files unless
\* it is there to change them.
Frame ==
    /\ st' = [pc |-> st'.pc, op |-> st.op, f |-> st.f, g |-> st.g, arg |-> st.arg, flag |-> st.flag,
              err |-> st'.err, crashed |-> st'.crashed, left |-> st.left, before |-> st.before]
    /\ \A f \in CacheFiles :
         disk'.cache[f] # disk.cache[f] =>
             IF st.op = "clean" THEN disk.data[f] = <<>> ELSE f \in {st.f, st.g}
    /\ disk'.data = disk.data \/ st.pc \in {"rm", "mv", "mvcache", "mvdir"}

\* No step of a command does more than that.
LEMMA StepsKeepFrame ==
    ASSUME CacheInv, CacheNext \/ Finished, ~CacheStart PROVE Frame
<1>1. /\ disk \in Disks /\ st \in CacheStates
      /\ Running => st.f \in CacheFiles /\ st.g \in CacheFiles
      /\ Running => (st.op = "clean" <=> st.pc = "clean")
  BY RunningFiles, CleanSteps DEF CacheInv, StepInv, CacheTypeOK
<1> DEFINE Same == st' = [pc |-> st'.pc, op |-> st.op, f |-> st.f, g |-> st.g, arg |-> st.arg, flag |-> st.flag,
              err |-> st'.err, crashed |-> st'.crashed, left |-> st.left, before |-> st.before]
<1>2. /\ \A e : CacheEnd(e) => Same
      /\ \A p : st' = [st EXCEPT !.pc = p] => Same
      /\ CacheCrash => Same
      /\ UNCHANGED st => Same
  BY <1>1 DEF CacheEnd, CacheCrash, CacheStates
<1>3. Same /\ UNCHANGED disk => Frame
  BY DEF Frame
<1> HIDE DEF Same
<1> USE <1>1 DEF Disks, Dirs
<1>4. ASSUME NEW fs \in SUBSET CacheFiles, RemoveDirs(fs),
             \A f \in fs : IF st.op = "clean" THEN disk.data[f] = <<>> ELSE f \in {st.f, st.g}
      PROVE  Frame
  <2>1. ASSUME NEW f \in fs, UNCHANGED st,
               disk' = [disk EXCEPT !.cache[f] = DirEmpty, !.torn = @ \ {f}] \/ disk' = [disk EXCEPT !.cache[f] = DirAbsent]
        PROVE  Frame
    <3>1. disk'.data = disk.data /\ \A h \in CacheFiles \ {f} : disk'.cache[h] = disk.cache[h]
      BY <2>1
    <3> QED
      BY <1>2, <1>4, <2>1, <3>1 DEF Frame, Same
  <2> QED
    BY <1>2, <1>3, <1>4, <2>1 DEF RemoveDirs
<1>5. ASSUME NEW f \in {st.f, st.g}, f \in CacheFiles, st.op # "clean", Same, disk'.data = disk.data,
             \A h \in CacheFiles \ {f} : disk'.cache[h] = disk.cache[h]
      PROVE  Frame
  BY <1>5 DEF Frame, Same
<1>6. CASE PropSetOpen
  <2>1. st.f \in CacheFiles /\ st.op # "clean"
    BY <1>6 DEF PropSetOpen, Running
  <2>2. CASE disk' = OpenTemp(disk, st.f) /\ st' = [st EXCEPT !.pc = "write"]
    <3>1. disk'.data = disk.data /\ \A h \in CacheFiles \ {st.f} : disk'.cache[h] = disk.cache[h]
      BY <2>1, <2>2 DEF OpenTemp
    <3> QED
      BY <1>2, <1>5, <2>1, <2>2, <3>1
  <2> QED
    BY <1>2, <1>3, <1>6, <2>2 DEF PropSetOpen
<1>7. CASE PropSetWrite
  <2>1. st.f \in CacheFiles /\ st.op # "clean"
    BY <1>7 DEF PropSetWrite, Running
  <2>2. ASSUME NEW p, disk' = [disk EXCEPT !.cache[st.f].temp = p], st' = [st EXCEPT !.pc = "replace"] PROVE Frame
    <3>1. disk'.data = disk.data /\ \A h \in CacheFiles \ {st.f} : disk'.cache[h] = disk.cache[h]
      BY <2>1, <2>2
    <3> QED
      BY <1>2, <1>5, <2>1, <2>2, <3>1
  <2> QED
    BY <1>2, <1>3, <1>7, <2>2 DEF PropSetWrite
<1>8. CASE PropSetReplace \/ PropSetRemove
  <2>1. st.f \in CacheFiles /\ st.op # "clean"
    BY <1>8 DEF PropSetReplace, PropSetRemove, Running
  <2>2. CASE \/ disk' = [disk EXCEPT !.cache[st.f].props = disk.cache[st.f].temp, !.cache[st.f].temp = PropAbsent]
             \/ disk' = [disk EXCEPT !.cache[st.f].props = PropAbsent]
    <3>1. disk'.data = disk.data /\ \A h \in CacheFiles \ {st.f} : disk'.cache[h] = disk.cache[h]
      BY <2>1, <2>2
    <3> QED
      BY <1>2, <1>5, <1>8, <2>1, <3>1 DEF PropSetReplace, PropSetRemove
  <2> QED
    BY <1>2, <1>3, <1>8, <2>2 DEF PropSetReplace, PropSetRemove
<1>9. CASE PropClear \/ RmCache
  BY <1>9, <1>4 DEF PropClear, RmCache, Running
<1>10. CASE PropClean
  <2>1. st.op = "clean"
    BY <1>10 DEF PropClean, Running
  <2> QED
    BY <1>2, <1>3, <1>4, <1>10, <2>1 DEF PropClean, Exists
<1>11. CASE PropCopy
  <2>1. st.g \in CacheFiles /\ st.op # "clean"
    BY <1>11 DEF PropCopy, Running
  <2>2. CASE /\ disk' = [disk EXCEPT !.root = @ \cup {st.g}, !.cache[st.g].there = TRUE,
                                     !.cache[st.g].temp = disk.cache[st.f].props]
             /\ st' = [st EXCEPT !.pc = "rename"]
    <3>1. disk'.data = disk.data /\ \A h \in CacheFiles \ {st.g} : disk'.cache[h] = disk.cache[h]
      BY <2>1, <2>2
    <3> QED
      BY <1>2, <1>5, <2>1, <2>2, <3>1
  <2> QED
    BY <1>2, <1>3, <1>11, <2>2 DEF PropCopy
<1>12. CASE PropCopyRename
  <2>1. st.g \in CacheFiles /\ st.op # "clean"
    BY <1>12 DEF PropCopyRename, Running
  <2>2. disk'.data = disk.data /\ \A h \in CacheFiles \ {st.g} : disk'.cache[h] = disk.cache[h]
    BY <1>12, <2>1 DEF PropCopyRename
  <2> QED
    BY <1>2, <1>5, <1>12, <2>1, <2>2 DEF PropCopyRename
<1>13. CASE PropImport
  <2>1. st.f \in CacheFiles /\ st.op # "clean"
    BY <1>13 DEF PropImport, Running
  <2>2. CASE /\ disk' = [disk EXCEPT !.root = @ \cup {st.f}, !.torn = @ \cup {st.f},
                                     !.cache[st.f].there = TRUE, !.cache[st.f].props = PropTorn]
             /\ st' = [st EXCEPT !.pc = "imported"]
    <3>1. disk'.data = disk.data /\ \A h \in CacheFiles \ {st.f} : disk'.cache[h] = disk.cache[h]
      BY <2>1, <2>2
    <3> QED
      BY <1>2, <1>5, <2>1, <2>2, <3>1
  <2> QED
    BY <1>2, <1>3, <1>13, <2>2 DEF PropImport
<1>14. CASE PropImportWrite
  <2>1. st.f \in CacheFiles /\ st.op # "clean"
    BY <1>14 DEF PropImportWrite, Running
  <2>2. PICK v : disk' = [disk EXCEPT !.cache[st.f].props = PropFile(v), !.torn = @ \ {st.f}]
    BY <1>14 DEF PropImportWrite
  <2>3. disk'.data = disk.data /\ \A h \in CacheFiles \ {st.f} : disk'.cache[h] = disk.cache[h]
    BY <2>1, <2>2
  <2> QED
    BY <1>2, <1>5, <1>14, <2>1, <2>3 DEF PropImportWrite
<1>15. CASE MvFile
  <2>1. CASE disk' = [disk EXCEPT !.data[st.g] = disk.data[st.f], !.data[st.f] = <<>>]
    <3>1. disk'.cache = disk.cache
      BY <2>1
    <3>2. Same \/ CacheEnd(TRUE)
      BY <1>2, <1>15 DEF MvFile
    <3> QED
      BY <1>2, <1>15, <3>1, <3>2 DEF MvFile, Frame, Same
  <2> QED
    BY <1>2, <1>3, <1>15, <2>1 DEF MvFile
<1>16. CASE MvCache
  <2>1. st.f \in CacheFiles /\ st.g \in CacheFiles /\ st.op # "clean" /\ Same
    BY <1>2, <1>16 DEF MvCache, Running
  <2>2. CASE disk' = MvRevert(disk)
    <3>1. disk'.cache = disk.cache
      BY <2>2 DEF MvRevert
    <3> QED
      BY <1>16, <2>1, <3>1 DEF MvCache, Frame, Same
  <2>3. CASE disk' = [disk EXCEPT !.cache[st.g] = disk.cache[st.f], !.cache[st.f] = DirAbsent,
                           !.torn = IF st.f \in @ THEN (@ \ {st.f}) \cup {st.g} ELSE @]
    <3>1. disk'.data = disk.data /\ \A h \in CacheFiles \ {st.f, st.g} : disk'.cache[h] = disk.cache[h]
      BY <2>1, <2>3
    <3> QED
      BY <2>1, <3>1 DEF Frame, Same
  <2> QED
    BY <1>3, <1>16, <2>1, <2>2, <2>3 DEF MvCache
<1>17. CASE RmFile
  <2>1. CASE disk' = [disk EXCEPT !.data[st.f] = <<>>]
    <3>1. disk'.cache = disk.cache
      BY <2>1
    <3> QED
      BY <1>2, <1>17, <3>1 DEF RmFile, Frame, Same
  <2> QED
    BY <1>2, <1>3, <1>17, <2>1 DEF RmFile
<1>18. CASE UseProperties \/ CacheCrash \/ CacheDone
  <2>1. UNCHANGED disk
    BY <1>18 DEF UseProperties, CacheCrash, CacheDone
  <2>2. Same
    BY <1>2, <1>18 DEF UseProperties, CacheDone
  <2> QED
    BY <1>3, <2>1, <2>2
<1>19. CASE Finished
  BY <1>2, <1>3, <1>19 DEF Finished, procVars
<1> QED
  BY <1>6, <1>7, <1>8, <1>9, <1>10, <1>11, <1>12, <1>13, <1>14, <1>15, <1>16,
     <1>17, <1>18, <1>19 DEF CacheNext

\* A move that is not over: the file is where it was, or where it goes and not
\* over another one.
Moved(data) == [data EXCEPT ![st.g] = data[st.f], ![st.f] = <<>>]
MoveInv ==
    st.op = "mv" =>
        /\ st.pc = "mv" => disk.data = st.before.data
        /\ st.pc = "mvdir" =>
             /\ disk.data = Moved(st.before.data)
             /\ st.before.data[st.f] # <<>> /\ st.before.data[st.g] = <<>>
        /\ ~Running => \/ disk.data = st.before.data
                       \/ disk.data = Moved(st.before.data) /\ (st.err => st.crashed)

\* What a command does not name it leaves as it found it.
OthersInv ==
    st.op # "none" =>
        /\ \A f \in CacheFiles : disk.cache[f] # st.before.cache[f] =>
              IF st.op = "clean" THEN st.before.data[f] = <<>> ELSE f \in {st.f, st.g}
        /\ st.op \notin {"rm", "mv", "mvcache"} => disk.data = st.before.data

\* Between commands nothing but a new one changes the disk.
LEMMA IdleSteps ==
    ASSUME CacheInv, CacheNext \/ Finished, ~CacheStart, ~Running
    PROVE  UNCHANGED disk /\ ~Running' /\ st'.err = st.err /\ st'.crashed = st.crashed
<1>1. CacheDone \/ Finished
  BY DEF CacheNext, Running, PropSetOpen, PropSetWrite, PropSetReplace, PropSetRemove, PropClear, PropClean,
         PropCopy, PropCopyRename, PropImport, PropImportWrite, MvFile, MvCache, RmFile, RmCache,
         UseProperties, CacheCrash
<1> QED
  BY <1>1 DEF CacheDone, Finished, procVars, Running, CacheInv, CacheTypeOK, CacheStates

\* The steps that change data files are those of rm and mv.
LEMMA DataSteps ==
    CacheInv => /\ st.pc \in {"rm", "mv", "mvcache", "mvdir"} => st.op \in {"rm", "mv", "mvcache"}
                /\ Running /\ st.op = "mv" => st.pc \in {"mv", "mvdir"}
<1> SUFFICES ASSUME CacheInv, Running
             PROVE  /\ st.pc \in {"rm", "mv", "mvcache", "mvdir"} => st.op \in {"rm", "mv", "mvcache"}
                    /\ st.op = "mv" => st.pc \in {"mv", "mvdir"}
  BY DEF Running
<1>1. st.op \in CacheOps /\ st.pc \in CacheSteps[st.op]
  BY DEF CacheInv, CacheTypeOK, CacheStates, StepInv
<1> QED
  BY <1>1 DEF CacheOps, CacheSteps

\* The type of the state, for the steps below.
LEMMA StateShape == CacheInv => st \in CacheStates /\ disk \in Disks
BY DEF CacheInv, CacheTypeOK

\* No step changes what its command does not name.
LEMMA OthersSteps ==
    ASSUME CacheInv, OthersInv, CacheNext \/ Finished PROVE OthersInv'
<1>1. CASE CacheStart
  <2>1. PICK op \in CacheOps \ {"none"}, f, g \in CacheFiles, arg \in PropVals, flag \in BOOLEAN :
            Start(op, f, g, arg, flag)
    BY <1>1, StartedWith
  <2>2. st'.before = disk /\ UNCHANGED disk
    BY <2>1 DEF Start, CacheIdle
  <2> QED
    BY <2>2 DEF OthersInv
<1>2. CASE ~CacheStart
  <2>1. Frame
    BY <1>2, StepsKeepFrame
  <2>2. st'.op = st.op /\ st'.f = st.f /\ st'.g = st.g /\ st'.before = st.before
    BY <2>1 DEF Frame
  <2>3. st.op \notin {"rm", "mv", "mvcache"} => disk'.data = disk.data
    BY <2>1, DataSteps DEF Frame
  <2> QED
    BY <2>1, <2>2, <2>3 DEF Frame, OthersInv
<1> QED
  BY <1>1, <1>2

\* Each step of mv leaves the file at one of the two places.
LEMMA MoveSteps ==
    ASSUME CacheInv, MoveInv, CacheNext \/ Finished PROVE MoveInv'
<1> USE DEF MoveInv
<1>1. CASE CacheStart
  <2>1. PICK op \in CacheOps \ {"none"}, f, g \in CacheFiles, arg \in PropVals, flag \in BOOLEAN :
            Start(op, f, g, arg, flag)
    BY <1>1, StartedWith
  <2>2. st'.before = disk /\ UNCHANGED disk /\ st'.pc = op
    BY <2>1 DEF Start, CacheIdle
  <2> QED
    BY <2>2 DEF CacheOps, Running
<1>2. ASSUME ~CacheStart, st.op = "mv" PROVE MoveInv'
  <2>1. Frame /\ disk \in Disks /\ disk' \in Disks /\ st.before \in Disks
    BY <1>2, StepsKeepFrame, StepsAreMoves DEF CommandMoves, CacheInv, CacheTypeOK, StepInv
  <2>2. /\ st'.op = st.op /\ st'.f = st.f /\ st'.g = st.g /\ st'.before = st.before
        /\ st.f \in CacheFiles /\ st.g \in CacheFiles /\ st.f # st.g
    BY <1>2, <2>1 DEF Frame, CacheInv, StepInv
  <2>3. CASE ~Running
    BY <1>2, <2>2, <2>3, IdleSteps DEF Running, Moved
  <2>4. CASE CacheCrash
    BY <1>2, <2>2, <2>4, DataSteps DEF CacheCrash, Running, Moved, CacheInv, CacheTypeOK, CacheStates
  <2>5. CASE MvFile
    <3>1. st.pc = "mv" /\ disk.data = st.before.data
      BY <1>2, <2>5, DataSteps DEF MvFile, Running
    <3>2. CASE CacheEnd(TRUE) /\ UNCHANGED disk
      BY <2>2, <3>1, <3>2, StateShape DEF CacheEnd, Running, CacheStates
    <3>3. CASE ~MvRefused /\ disk' = [disk EXCEPT !.data[st.g] = disk.data[st.f], !.data[st.f] = <<>>] /\ st' = [st EXCEPT !.pc = "mvdir"]
      <4>1. disk'.data = Moved(disk.data)
        BY <2>1, <3>3 DEF Moved, Disks
      <4>2. disk.data[st.f] # <<>> /\ disk.data[st.g] = <<>>
        BY <1>2, <3>3 DEF MvRefused, Exists
      <4>3. st'.pc = "mvdir"
        BY <3>3, StateShape DEF CacheStates
      <4>4. Moved(st.before.data)' = Moved(st.before.data)
        BY <2>2 DEF Moved
      <4> QED
        BY <2>2, <3>1, <4>1, <4>2, <4>3, <4>4 DEF Running
    <3> QED
      BY <1>2, <2>5, <3>1, <3>2, <3>3 DEF MvFile
  <2>6. CASE MvCache
    <3>1. /\ disk.data = Moved(st.before.data)
          /\ st.before.data[st.f] # <<>> /\ st.before.data[st.g] = <<>>
      BY <1>2, <2>6 DEF MvCache
    <3>2. ~Running' /\ (disk' # MvRevert(disk) => st'.err = FALSE)
      BY <2>6, StateShape DEF MvCache, CacheEnd, Running, CacheStates
    <3>3. CASE disk' = MvRevert(disk)
      <4>1. disk.data[st.g] = st.before.data[st.f]
        BY <2>1, <2>2, <3>1 DEF Moved, Disks
      <4>2. disk'.data = [disk.data EXCEPT ![st.f] = disk.data[st.g], ![st.g] = <<>>]
        BY <2>1, <3>1, <3>3, <4>1 DEF MvRevert, Disks
      <4>3. disk'.data = st.before.data
        BY <2>1, <2>2, <3>1, <4>1, <4>2 DEF Moved, Disks
      <4> QED
        BY <2>2, <3>2, <4>3 DEF Running
    <3>4. CASE disk'.data = disk.data /\ disk' # MvRevert(disk)
      BY <2>2, <3>1, <3>2, <3>4 DEF Running, Moved
    <3>5. disk' # MvRevert(disk) => disk'.data = disk.data
      BY <2>1, <2>6 DEF MvCache, Disks
    <3> QED
      BY <3>3, <3>4, <3>5
  <2> QED
    <3>1. Running => st.pc \in {"mv", "mvdir"}
      BY <1>2, DataSteps
    <3> QED
      BY <1>2, <2>3, <2>4, <2>5, <2>6, <3>1 DEF CacheNext, Running, PropSetOpen, PropSetWrite, PropSetReplace, PropSetRemove, PropClear, PropClean,
         PropCopy, PropCopyRename, PropImport, PropImportWrite, RmFile, RmCache, UseProperties, CacheDone, Finished
<1>3. CASE ~CacheStart /\ st.op # "mv"
  BY <1>3, StepsKeepFrame DEF Frame
<1> QED
  BY <1>1, <1>2, <1>3

\* vals is the merge of old and the arguments of the command.
IsMerged(old, vals) ==
    \A p \in PropIds :
        IF p \in DOMAIN st.arg
        THEN IF st.arg[p] = PropRemove THEN p \notin DOMAIN vals
             ELSE p \in DOMAIN vals /\ vals[p] = st.arg[p]
        ELSE IF p \in DOMAIN old
             THEN p \in DOMAIN vals /\ vals[p] = old[p]
             ELSE p \notin DOMAIN vals

\* While prop is at work the old properties are in place; the file that is to
\* replace them is their merge with the arguments.
SetInv ==
    st.op \in {"set", "auto"} =>
        LET old == st.before.cache[st.f].props
            new == disk.cache[st.f].props
        IN  /\ Running => new = old
            /\ st.pc = "replace" => IsMerged(old.vals, disk.cache[st.f].temp.vals)
            /\ st.pc = "unset" => IsMerged(old.vals, <<>>)
            /\ new = old \/ IsMerged(old.vals, new.vals)
            /\ ~Running /\ ~st.err => IsMerged(old.vals, new.vals)

\* merge_properties is the merge that the property speaks of.
LEMMA MergeIsMerged ==
    ASSUME NEW old \in PropVals, st.arg \in PropVals
    PROVE  /\ IsMerged(old, MergeProperties(st.arg, old))
           /\ MergeProperties(st.arg, old) = <<>> => IsMerged(old, <<>>)
           /\ MergeProperties(st.arg, old) = <<>> /\ (\A p \in DOMAIN st.arg : st.arg[p] # PropRemove)
                => IsMerged(old, old)
<1> DEFINE m == MergeProperties(st.arg, old)
<1>1. PICK a, b \in SUBSET PropIds : st.arg \in [a -> Int] /\ old \in [b -> Int]
  BY DEF PropVals
<1>2. /\ DOMAIN m = (DOMAIN old \ DOMAIN st.arg) \cup {p \in DOMAIN st.arg : st.arg[p] # PropRemove}
      /\ \A p \in DOMAIN m : m[p] = IF p \in DOMAIN st.arg THEN st.arg[p] ELSE old[p]
  BY DEF MergeProperties
<1>3. IsMerged(old, m)
  BY <1>2 DEF IsMerged
<1>4. m = <<>> => DOMAIN m = {}
  OBVIOUS
<1>5. m = <<>> /\ (\A p \in DOMAIN st.arg : st.arg[p] # PropRemove) => DOMAIN st.arg = {} /\ DOMAIN old = {}
  BY <1>2, <1>4
<1> QED
  BY <1>3, <1>5 DEF IsMerged

\* Each step of prop leaves the old properties or their merge.
LEMMA SetSteps ==
    ASSUME CacheInv, SetInv, CacheNext \/ Finished PROVE SetInv'
<1>1. CASE CacheStart
  <2>1. PICK op \in CacheOps \ {"none"}, f, g \in CacheFiles, arg \in PropVals, flag \in BOOLEAN :
            Start(op, f, g, arg, flag)
    BY <1>1, StartedWith
  <2>2. st'.before = disk /\ UNCHANGED disk /\ st'.pc = op
    BY <2>1 DEF Start, CacheIdle
  <2> QED
    BY <2>2 DEF SetInv, CacheOps, Running
<1>2. ASSUME ~CacheStart, st.op \in {"set", "auto"} PROVE SetInv'
  <2> DEFINE old == st.before.cache[st.f].props
             new == disk.cache[st.f].props
  <2>1. Frame /\ disk \in Disks /\ disk' \in Disks /\ st.before \in Disks
    BY <1>2, StepsKeepFrame, StepsAreMoves DEF CommandMoves, CacheInv, CacheTypeOK, StepInv
  <2>2. /\ st'.op = st.op /\ st'.f = st.f /\ st'.before = st.before /\ st'.arg = st.arg
        /\ st.f \in CacheFiles
    BY <1>2, <2>1 DEF Frame, CacheInv, StepInv
  <2>3. st \in CacheStates /\ st.arg \in PropVals /\ old.vals \in PropVals
    BY <2>1, <2>2, StateShape DEF CacheStates, Disks, Dirs, PropFiles
  <2>4. Running => st.pc \in {"set", "auto", "write", "replace", "unset"}
    BY <1>2 DEF CacheInv, StepInv, CacheSteps
  <2>5. CASE ~Running
    BY <1>2, <2>2, <2>5, IdleSteps DEF Running, SetInv, IsMerged
  <2>6. CASE CacheCrash
    BY <1>2, <2>2, <2>6, StateShape DEF CacheCrash, Running, SetInv, CacheStates, IsMerged
  <2> DEFINE merge == MergeProperties(st.arg, old.vals)
  <2>7. CASE PropSetOpen
    <3>1. new = old /\ Running
      BY <1>2, <2>7 DEF PropSetOpen, Running, SetInv
    <3>2. CASE CacheEnd(TRUE) /\ UNCHANGED disk
      BY <2>2, <2>3, <3>1, <3>2 DEF CacheEnd, Running, SetInv, CacheStates
    <3>3. CASE st' = [st EXCEPT !.pc = "write"] /\ disk' = OpenTemp(disk, st.f)
      <4>1. st'.pc = "write" /\ disk'.cache[st.f].props = new
        BY <2>1, <2>2, <2>3, <3>3 DEF OpenTemp, Disks, Dirs, CacheStates
      <4> QED
        BY <2>2, <3>1, <4>1 DEF Running, SetInv
    <3> QED
      BY <2>7, <3>2, <3>3 DEF PropSetOpen
  <2>8. CASE PropSetWrite
    <3>1. new = old /\ Running /\ SavedProps(st.f) = old.vals /\ ~st.err
      BY <1>2, <2>8 DEF PropSetWrite, Running, SetInv, SavedProps, CacheInv, StepInv
    <3>2. CASE merge = <<>> /\ UNCHANGED disk /\ st' = [st EXCEPT !.pc = "unset"]
      BY <2>2, <2>3, <3>1, <3>2, MergeIsMerged DEF SetInv, CacheStates, Running, IsMerged
    <3>3. CASE /\ merge = <<>> /\ UNCHANGED disk /\ st' = [st EXCEPT !.pc = "idle"]
               /\ \A p \in DOMAIN st.arg : st.arg[p] # PropRemove
      <4>1. IsMerged(old.vals, old.vals)
        BY <2>3, <3>3, MergeIsMerged
      <4> QED
        BY <2>2, <2>3, <3>1, <3>3, <4>1 DEF SetInv, CacheStates, Running, IsMerged
    <3>4. CASE st' = [st EXCEPT !.pc = "replace"] /\ disk' = [disk EXCEPT !.cache[st.f].temp = PropFile(merge)]
      <4>1. st'.pc = "replace" /\ st'.err = st.err
        BY <2>3, <3>4 DEF CacheStates
      <4>2. ASSUME NEW p, disk' = [disk EXCEPT !.cache[st.f].temp = p]
            PROVE  disk'.cache[st.f].props = new /\ disk'.cache[st.f].temp = p
        BY <2>1, <2>2, <4>2 DEF Disks, Dirs
      <4>3. disk'.cache[st.f].props = new /\ disk'.cache[st.f].temp.vals = merge
        BY <3>4, <4>2 DEF PropFile
      <4>4. IsMerged(old.vals, merge)
        BY <2>3, MergeIsMerged
      <4> HIDE DEF merge
      <4> QED
        BY <2>2, <3>1, <4>1, <4>3, <4>4 DEF Running, SetInv, IsMerged
    <3> QED
      BY <2>8, <3>1, <3>2, <3>3, <3>4 DEF PropSetWrite
  <2>9. CASE PropSetReplace
    <3>1. /\ new = old /\ Running /\ ~Running' /\ IsMerged(old.vals, disk.cache[st.f].temp.vals)
          /\ st'.err = FALSE \/ (st'.err = TRUE /\ UNCHANGED disk)
      BY <1>2, <2>3, <2>9 DEF PropSetReplace, Running, SetInv, CacheEnd, CacheStates
    <3>2. CASE UNCHANGED disk /\ st'.err = TRUE
      BY <2>2, <3>1, <3>2 DEF Running, SetInv
    <3>3. CASE disk' = [disk EXCEPT !.cache[st.f].props = disk.cache[st.f].temp, !.cache[st.f].temp = PropAbsent]
      <4>1. disk'.cache[st.f].props.vals = disk.cache[st.f].temp.vals
        BY <2>1, <2>2, <3>3 DEF Disks, Dirs
      <4> QED
        BY <2>2, <3>1, <4>1 DEF Running, SetInv, IsMerged
    <3> QED
      BY <2>9, <2>3, <3>2, <3>3 DEF PropSetReplace, CacheEnd, CacheStates
  <2>10. CASE PropSetRemove
    <3>1. new = old /\ Running /\ ~Running' /\ IsMerged(old.vals, <<>>)
      BY <1>2, <2>3, <2>10 DEF PropSetRemove, Running, SetInv, CacheEnd, CacheStates
    <3>2. disk'.cache[st.f].props.vals = <<>>
      BY <2>1, <2>2, <2>10 DEF PropSetRemove, PropAbsent, Disks, Dirs
    <3> QED
      BY <2>2, <3>1, <3>2 DEF Running, SetInv, IsMerged
  <2> QED
    BY <1>2, <2>4, <2>5, <2>6, <2>7, <2>8, <2>9, <2>10 DEF CacheNext, Running, PropClear, PropClean,
       PropCopy, PropCopyRename, PropImport, PropImportWrite, MvFile, MvCache, RmFile, RmCache,
       UseProperties, CacheDone, Finished
<1>3. CASE ~CacheStart /\ st.op \notin {"set", "auto"}
  BY <1>3, StepsKeepFrame DEF Frame, SetInv
<1> QED
  BY <1>1, <1>2, <1>3

\* Before the first command there is nothing to lose.
LEMMA PropertyInvInit == CacheInit => TornInv /\ OthersInv /\ MoveInv /\ SetInv
<1> SUFFICES ASSUME CacheInit PROVE TornInv /\ OthersInv /\ MoveInv /\ SetInv
  OBVIOUS
<1>1. st.op = "none" /\ st.pc = "idle"
  BY DEF CacheInit, CacheIdle
<1>2. \A f \in CacheFiles : disk.cache[f].props.kind = "none"
  BY DEF CacheInit, DirAbsent, PropAbsent
<1> QED
  BY <1>1, <1>2 DEF TornInv, OthersInv, MoveInv, SetInv

\* The inductive invariant holds in every state.
LEMMA Invariants == CacheSpec => [](CacheInv /\ TornInv /\ OthersInv /\ MoveInv /\ SetInv)
<1> DEFINE All == CacheInv /\ TornInv /\ OthersInv /\ MoveInv /\ SetInv
<1>1. CacheInit => All
  BY CacheInitInv, PropertyInvInit
<1>2. All /\ (CacheNext \/ Finished) => All'
  BY StartKeepsInv, StepsAreMoves, CommandKeepsInv, TornSteps, OthersSteps, MoveSteps, SetSteps
<1>3. All /\ UNCHANGED procVars => All'
  <2> SUFFICES ASSUME All, UNCHANGED procVars PROVE All'
    OBVIOUS
  <2> USE DEF procVars
  <2>1. CacheInv' /\ TornInv'
    BY DEF CacheInv, CacheTypeOK, StepInv, Running, TornInv
  <2>2. OthersInv' /\ MoveInv'
    BY DEF OthersInv, MoveInv, Moved, Running
  <2>3. SetInv'
    BY DEF SetInv, IsMerged, Running
  <2> QED
    BY <2>1, <2>2, <2>3
<1> QED
  BY <1>1, <1>2, <1>3, PTL DEF CacheSpec

\* A properties file can be parsed whenever it is there, whatever command was
\* killed at whatever step, but for one that import left open.
THEOREM NeverTorn == CacheSpec => []PropertiesAreNeverTorn
<1>1. TornInv => PropertiesAreNeverTorn
  BY DEF TornInv, PropertiesAreNeverTorn
<1> QED
  BY Invariants, <1>1, PTL

\* A command that ended, failed or was killed has changed only the caches of
\* the files it names, or of orphans, and mv has moved its file or has not.
THEOREM OthersAreLeftAlone == CacheSpec => []OnlyWhatIsNamedChanges
<1>1. CacheInv /\ OthersInv /\ MoveInv => OnlyWhatIsNamedChanges
  <2> SUFFICES ASSUME CacheInv, OthersInv, MoveInv, st.op = "mv"
               PROVE  \/ disk.data = st.before.data
                      \/ disk.data = Moved(st.before.data) /\ (st.err => st.crashed)
    BY DEF OthersInv, OnlyWhatIsNamedChanges, Moved
  <2> QED
    BY DataSteps DEF MoveInv, CacheInv, StepInv
<1> QED
  BY Invariants, <1>1, PTL

\* A change of the properties that was killed or failed has left the old ones
\* or put the new ones in place, and one that ended well the merge of the two.
THEOREM PropertiesAreSetAtOnce == CacheSpec => []SetIsAllOrNothing
<1>1. SetInv => SetIsAllOrNothing
  BY DEF SetInv, SetIsAllOrNothing, IsMerged, Running
<1> QED
  BY Invariants, <1>1, PTL
=============================================================================
